--------------------------------- MODULE Daemon ---------------------------------
(***************************************************************************)
(* The plugins that keep the configuration file of one daemon: syslog      *)
(* (fluent-bit), apt_cacher_ng and smtp (postfix).  They differ in the     *)
(* order in which a change is saved, written and put in effect, in whether *)
(* the daemon is restarted for it, and in what a start of the process does *)
(* (src/plugins/{syslog,apt_cacher_ng,smtp}/plugin.py).  A handler is the  *)
(* list of calls it has left; each may fail, and ends it.                  *)
(***************************************************************************)
EXTENDS Plugin, Naturals, Sequences

CONSTANTS
    Field, SettingValue,     \* settings and their values
    MaxDmnOps           \* bound: requests (starts are not counted)

\* What a plugin has set, and what a handler has left to do.
DmnSettings == Table(Field, SettingValue)
DmnCall == {"render", "put", "restart", "record", "include", "start", "stop"}
DmnWork == [calls : Seq(DmnCall), new : DmnSettings \union {None},
            content : DmnSettings \union {None}, changed : BOOLEAN, alone : BOOLEAN]

ASSUME DaemonAssumption ==
    /\ "boot" \notin Thread
    /\ None \notin DmnSettings /\ None \notin DmnWork
    /\ MaxDmnOps \in Nat

VARIABLES
    plugin,         \* "syslog", "acng" or "smtp"
    osBoot,         \* acng: enable_os_boot
    dmnPhase,       \* "down", "starting" or "up"
    settings,       \* self._state; the attributes of the syslog plugin
    saved,          \* the state file, None if there is none
    work,           \* of each caller, and of setup(): the calls left, None if idle
    daemonConf,     \* the settings in the daemon's file, None if there is no file
    included,       \* syslog: the main file includes that file
    alive, loaded,  \* the daemon, and what it has read
    spoilt, owed,   \* history: the file may lack settings; a restart is missing
    dmnOps

dmnConfig == <<plugin, osBoot>>
dmnMem == <<settings, saved>>
daemon == <<daemonConf, included, alive, loaded>>
dmnHistory == <<spoilt, owed>>
dmnVars == <<dmnConfig, dmnPhase, dmnMem, work, daemon, dmnHistory, dmnOps>>

-----------------------------------------------------------------------------
Patch == {f :> v : f \in Field, v \in SettingValue}

AtWork == {c \in DOMAIN work : work[c] # None}

\* What the daemon reads when it starts.
ReadConf == IF plugin = "syslog" /\ ~ included THEN None ELSE daemonConf

\* syslog writes all its settings, the others change those in the file.  smtp's
\* values are taken to be literal, without the macros of inet_interfaces.
RenderFluentBit(new) == new
RenderAcng(new) == IF daemonConf = None THEN new ELSE new @@ daemonConf
Postconf(new) == IF daemonConf = None THEN new ELSE new @@ daemonConf

Render(new) ==
    CASE plugin = "syslog" -> RenderFluentBit(new)
      [] plugin = "acng" -> RenderAcng(new)
      [] plugin = "smtp" -> Postconf(new)

Calls(calls, new) ==
    [calls |-> calls, new |-> new, content |-> None, changed |-> TRUE, alone |-> AtWork = {}]

Enter(c, calls, new) ==
    work' = [b \in DOMAIN work |->
                IF b = c THEN Calls(calls, new)
                ELSE IF b \in AtWork THEN [work[b] EXCEPT !.alone = FALSE] ELSE work[b]]

Ends(c) == Len(work[c].calls) = 1

\* The next call of c is made; with the last one, of a handler another ran
\* beside, nobody knows whose file and whose restart came last.
Returns(c, r) ==
    /\ work' = [work EXCEPT ![c] =
                   IF Ends(c) THEN None ELSE [r EXCEPT !.calls = Tail(@)]]
    /\ dmnPhase' = IF c = "boot" /\ Ends(c) THEN "up" ELSE dmnPhase

Beside(c) == Ends(c) /\ ~ work[c].alone

-----------------------------------------------------------------------------
(* Requests.                                                               *)

DmnClient(c) ==
    /\ dmnPhase = "up" /\ c \in Thread /\ work[c] = None
    /\ dmnOps < MaxDmnOps
    /\ dmnOps' = dmnOps + 1

\* syslog and acng set and save first, and then write and restart.
SaveFirst(c, new) ==
    /\ DmnClient(c)
    /\ settings' = new @@ settings
    /\ saved' = settings'
    /\ Enter(c, <<"render", "put", "restart">>, None)
    /\ UNCHANGED <<dmnConfig, dmnPhase, daemon, dmnHistory>>

UpdateSyslog(c, new) == plugin = "syslog" /\ SaveFirst(c, new)
UpdateAcng(c, new) == plugin = "acng" /\ SaveFirst(c, new)

\* smtp sets with postconf, and records what it has set.
UpdateSmtp(c, new) ==
    /\ plugin = "smtp"
    /\ DmnClient(c)
    /\ Enter(c, <<"render", "put", "record">>, new)
    /\ UNCHANGED <<dmnConfig, dmnPhase, dmnMem, daemon, dmnHistory>>

\* _reload: a restart whatever the file says; postfix reads its file again.
ReloadDaemon(c) ==
    /\ DmnClient(c)
    /\ Enter(c, <<"restart">>, None)
    /\ UNCHANGED <<dmnConfig, dmnPhase, dmnMem, daemon, dmnHistory>>

-----------------------------------------------------------------------------
(* Calls.                                                                  *)

Calling(c, call) == c \in AtWork /\ Head(work[c].calls) = call

\* The content is made of the settings as they are now, and compared with
\* the file as it is now.
RenderConfig(c) ==
    /\ Calling(c, "render")
    /\ LET text == Render(IF work[c].new = None THEN settings ELSE work[c].new)
       IN Returns(c, [work[c] EXCEPT !.content = text, !.changed = (text # daemonConf)])
    /\ UNCHANGED <<dmnConfig, dmnMem, daemon, dmnHistory, dmnOps>>

\* smtp changes the file in place; nothing restarts postfix, nor acng at boot.
PutFile(c) ==
    /\ Calling(c, "put")
    /\ daemonConf' = IF plugin = "smtp" THEN Postconf(work[c].content) ELSE work[c].content
    /\ Returns(c, work[c])
    /\ spoilt' = IF work[c].alone /\ (plugin # "smtp" \/ c = "boot") THEN FALSE
                 ELSE spoilt \/ Beside(c)
    /\ owed' = (owed \/ (/\ daemonConf' # daemonConf
                         /\ plugin = "smtp" \/ (plugin = "acng" /\ c = "boot")))
    /\ UNCHANGED <<dmnConfig, dmnMem, included, alive, loaded, dmnOps>>

\* Mutant of RestartDaemon: syslog compares the file after it was written.
RestartComparingLate(c) ==
    /\ Calling(c, "restart")
    /\ Returns(c, work[c])
    /\ IF plugin = "syslog" /\ work[c].content = daemonConf
       THEN owed' = (owed \/ Beside(c)) /\ UNCHANGED <<alive, loaded>>
       ELSE alive' = TRUE /\ loaded' = ReadConf /\ owed' = Beside(c)
    /\ spoilt' = (spoilt \/ Beside(c))
    /\ UNCHANGED <<dmnConfig, dmnMem, daemonConf, included, dmnOps>>

\* syslog restarts fluent-bit only for a file that has changed; a postfix that
\* is stopped cannot be reloaded.
RestartDaemon(c) ==
    /\ Calling(c, "restart")
    /\ plugin = "smtp" => alive
    /\ Returns(c, work[c])
    /\ IF plugin = "syslog" /\ ~ work[c].changed
       THEN /\ owed' = (owed \/ Beside(c))
            /\ UNCHANGED <<alive, loaded>>
       ELSE /\ alive' = TRUE /\ loaded' = ReadConf
            /\ owed' = Beside(c)
    /\ spoilt' = (spoilt \/ Beside(c))
    /\ UNCHANGED <<dmnConfig, dmnMem, daemonConf, included, dmnOps>>

RecordSettings(c) ==
    /\ Calling(c, "record")
    /\ settings' = work[c].new @@ settings
    /\ saved' = settings'
    /\ Returns(c, work[c])
    /\ spoilt' = (spoilt \/ Beside(c))
    /\ UNCHANGED <<dmnConfig, daemon, owed, dmnOps>>

\* The first calls of syslog's setup(): a main file that does not mention
\* conf.d is written, or cannot be read; the daemon is enabled and started.
IncludeConf(c) ==
    /\ Calling(c, "include")
    /\ included' \in {included, TRUE}
    /\ Returns(c, work[c])
    /\ owed' = (owed \/ included' # included)
    /\ UNCHANGED <<dmnConfig, dmnMem, daemonConf, alive, loaded, spoilt, dmnOps>>

\* acng asks initsys.service.add, which leaves an enabled one as it is.
StartDaemon(c) ==
    /\ Calling(c, "start")
    /\ Returns(c, work[c])
    /\ \/ ~ alive /\ alive' = TRUE /\ loaded' = ReadConf /\ owed' = FALSE
       \/ (plugin = "acng" \/ alive) /\ UNCHANGED <<alive, loaded, owed>>
    /\ UNCHANGED <<dmnConfig, dmnMem, daemonConf, included, spoilt, dmnOps>>

\* Without enable_os_boot acng asks initsys.service.disable, which stops it.
StopDaemon(c) ==
    /\ Calling(c, "stop")
    /\ Returns(c, work[c])
    /\ alive' = FALSE
    /\ UNCHANGED <<dmnConfig, dmnMem, daemonConf, included, loaded, dmnHistory, dmnOps>>

\* A call fails and ends the handler; but acng starts or stops its daemon
\* although its file could not be written, and a timeout of postconf ends
\* smtp's setup(), so that its routes are never mounted.
CallFailed(c) ==
    /\ c \in AtWork
    /\ LET call == Head(work[c].calls)
           last == work[c].calls[Len(work[c].calls)]
           goesOn == plugin = "acng" /\ c = "boot" /\ ~ Ends(c)
       IN /\ work' = [work EXCEPT ![c] = IF goesOn THEN [@ EXCEPT !.calls = <<last>>] ELSE None]
          /\ dmnPhase' \in IF c # "boot" \/ goesOn THEN {dmnPhase}
                           ELSE IF plugin = "smtp" THEN {"up", "down"} ELSE {"up"}
          /\ spoilt' = (spoilt \/ call \in {"render", "put", "record", "include", "start"}
                               \/ ~ work[c].alone)
          /\ owed' = (owed \/ call = "restart" \/ ~ work[c].alone)
    /\ UNCHANGED <<dmnConfig, dmnMem, daemon, dmnOps>>

-----------------------------------------------------------------------------
(* Start and stop of the process, and of the daemon by others.             *)

\* Mutant of DmnLoad: acng and smtp trust their daemon's file at boot.
DmnLoadOnly(ignore) ==
    /\ dmnPhase = "down"
    /\ settings' = IF saved = None THEN << >> ELSE saved
    /\ dmnPhase' = "up"
    /\ saved' = settings'
    /\ spoilt' = FALSE
    /\ UNCHANGED <<dmnConfig, work, daemon, owed, dmnOps>>

\* The calls of each setup(), where restore says that there are settings to
\* put back.
SyslogSetup == <<"include", "start", "render", "put", "restart">>
AcngSetup(restore) ==
    (IF restore THEN <<"render", "put">> ELSE << >>) \o <<IF osBoot THEN "start" ELSE "stop">>
SmtpSetup(restore) == IF restore THEN <<"render", "put">> ELSE << >>

\* configure() and the calls of setup().  smtp loads its settings even with
\* ignore_state_on_boot, and does not apply them.
DmnLoad(ignore) ==
    /\ dmnPhase = "down"
    /\ settings' = IF saved = None \/ (ignore /\ plugin # "smtp") THEN << >> ELSE saved
    /\ LET restore == ~ ignore /\ settings' # << >>
           calls == CASE plugin = "syslog" -> SyslogSetup
                      [] plugin = "acng" -> AcngSetup(restore)
                      [] plugin = "smtp" -> SmtpSetup(restore)
       IN IF calls = << >>
          THEN dmnPhase' = "up" /\ UNCHANGED work
          ELSE dmnPhase' = "starting" /\ Enter("boot", calls, None)
    /\ saved' = IF saved = None /\ (plugin = "smtp" \/ ~ ignore) THEN settings' ELSE saved
    /\ spoilt' = (plugin = "smtp" /\ ignore /\ settings' # << >>)
    /\ UNCHANGED <<dmnConfig, daemon, owed, dmnOps>>

\* The process is killed, possibly between a file and its restart.
DmnStop ==
    /\ dmnPhase # "down"
    /\ dmnPhase' = "down"
    /\ settings' = << >>
    /\ work' = [c \in DOMAIN work |-> None]
    /\ owed' = (owed \/ \E c \in AtWork : ~ work[c].alone \/ Head(work[c].calls) = "restart")
    /\ UNCHANGED <<dmnConfig, saved, daemon, spoilt, dmnOps>>

\* Somebody else, or a reboot, stops and starts the daemon.
DaemonRestarts ==
    /\ alive' = TRUE /\ loaded' = ReadConf
    /\ owed' = FALSE
    /\ UNCHANGED <<dmnConfig, dmnPhase, dmnMem, work, daemonConf, included, spoilt, dmnOps>>

DmnInit ==
    /\ plugin \in {"syslog", "acng", "smtp"}
    /\ osBoot \in BOOLEAN
    /\ dmnPhase = "down" /\ settings = << >> /\ saved = None
    /\ work = [c \in Thread \union {"boot"} |-> None]
    /\ daemonConf = None /\ included = FALSE
    /\ alive = FALSE /\ loaded = None
    /\ spoilt = FALSE /\ owed = FALSE
    /\ dmnOps = 0

DmnNext ==
    \/ \E c \in Thread : ReloadDaemon(c)
    \/ \E c \in Thread, new \in Patch :
          UpdateSyslog(c, new) \/ UpdateAcng(c, new) \/ UpdateSmtp(c, new)
    \/ \E c \in Thread \union {"boot"} :
          \/ RenderConfig(c) \/ PutFile(c) \/ RestartDaemon(c) \/ RecordSettings(c)
          \/ IncludeConf(c) \/ StartDaemon(c) \/ StopDaemon(c) \/ CallFailed(c)
    \/ \E ignore \in BOOLEAN : DmnLoad(ignore)
    \/ DmnStop \/ DaemonRestarts

DmnSpec == DmnInit /\ [][DmnNext]_dmnVars

-----------------------------------------------------------------------------
DmnIdle == dmnPhase = "up" /\ AtWork = {}

\* The settings a plugin shows are those in its daemon's file, through kills
\* and restarts; except when a call failed, two requests overlapped, or smtp
\* was told to ignore its state (syslog/plugin.py:315, apt_cacher_ng/
\* plugin.py:228, smtp/plugin.py:321).
ConfHoldsSettings ==
    DmnIdle /\ ~ spoilt /\ settings # << >> =>
        /\ daemonConf # None
        /\ \A f \in DOMAIN settings : f \in DOMAIN daemonConf /\ daemonConf[f] = settings[f]

\* A daemon that runs has read its file as it is, so that a change that was
\* answered is in effect; except after a failed restart or a kill before it
\* (which syslog never makes up for, plugin.py:276: the file has not changed),
\* overlapping requests, and where the plugin does not restart its daemon.
DaemonServesConf ==
    DmnIdle /\ alive /\ ~ owed => loaded = ReadConf
=============================================================================
