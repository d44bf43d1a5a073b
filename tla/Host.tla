---------------------------------- MODULE Host ----------------------------------
(***************************************************************************)
(* The host plugin (src/plugins/host/plugin.py): kernel parameters, users, *)
(* groups and their members, cron jobs, kernel modules and the domain      *)
(* name.  Every change is made on the system first and recorded, in memory *)
(* and in the file, when the worker that made it has answered; requests    *)
(* run on a pool of threads.                                               *)
(*                                                                         *)
(* A managed entry is a key <<section, name>> with a value.  What the      *)
(* system holds is indexed alike, except a cron job: it is the line of its *)
(* command, whatever name it is managed by.                                *)
(***************************************************************************)
EXTENDS Plugin, Naturals

CONSTANTS
    Param, User, Group, Job, Kmod,      \* names of entries, by section
    Spec,           \* what a parameter, a user, a group can be set to
    Volatile,       \* those a reboot undoes (persist = False)
    Command, Schedule,      \* of cron jobs
    Always,         \* the schedule "* * * * *"
    Foreign,        \* the cron jobs of the system outside root's crontab
    ConfFile,       \* /etc/modules and the like
    MaxHostOps      \* bound: requests (starts are not counted)

Domain == <<"domainname", "domainname">>

GroupKey(g) == <<"groups", g>>

Key ==
    ({"sysctl"} \X Param) \union ({"users"} \X User) \union ({"groups"} \X Group)
    \union ({"cron"} \X Job) \union ({"kernmod"} \X Kmod) \union {Domain}

IsCron(k) == k[1] = "cron"

\* What can be asked for an entry; kernmod: whether to load it at boot.
Body(k) ==
    CASE k[1] = "cron" -> [command : Command, schedule : Schedule]
      [] k[1] = "kernmod" -> BOOLEAN
      [] k[1] = "groups" -> [spec : Spec, members : {{}}]
      [] OTHER -> Spec

\* What is kept of it.
Managed(k) == IF k[1] = "groups" THEN [spec : Spec, members : SUBSET User] ELSE Body(k)

AnyManaged == UNION {Managed(k) : k \in Key}

HostState == {h \in Table(Key, AnyManaged) : \A k \in DOMAIN h : h[k] \in Managed(k)}

HostRecord == [desired : HostState, current : HostState]

Request == [do : {"set", "delete", "join", "leave"}, key : Key,
            val : AnyManaged \union User \union {None},
            alone : BOOLEAN, old : SUBSET ConfFile]

\* A foreign job is a line of /etc/crontab, of a file in /etc/cron.d, or a
\* script of /etc/cron.hourly and the like, which has no schedule of its own.
ASSUME HostAssumption ==
    /\ Foreign \subseteq [command : Command, schedule : Schedule \union {None}]
    /\ Always \in Schedule
    /\ Volatile \subseteq Spec
    /\ None \notin HostRecord /\ None \notin Request
    /\ MaxHostOps \in Nat

VARIABLES
    hostPhase,      \* "down", "loaded" or "up"
    host,           \* self._state
    hostFile,       \* [desired, current], None if there is no file
    request,        \* of each thread: what it has yet to record, None if idle
    machine,        \* what the system holds
    enrolled,       \* the members the system knows of each group
    ffLoads,        \* modules with a file of our own in modules-load.d
    lines,          \* <<file, module>>: modules named in other files
    doubtful,       \* history: entries the system may hold otherwise
    hostOps

hostSystem == <<machine, enrolled, ffLoads, lines>>
hostVars == <<hostPhase, host, hostFile, request, hostSystem, doubtful, hostOps>>

-----------------------------------------------------------------------------
\* Where and how the system holds it.
Object(k, v) == IF IsCron(k) THEN <<"cron", v.command>> ELSE k

Content(k, v) ==
    CASE k[1] = "cron" -> v.schedule
      [] k[1] = "kernmod" -> "loaded"
      [] k[1] = "groups" -> v.spec
      [] OTHER -> v

\* The system holds an entry: as the plugin would put it there, or, of a cron
\* job that was imported, as the line it was imported from.
Holds(k, v) ==
    \/ Object(k, v) \in DOMAIN machine /\ machine[Object(k, v)] = Content(k, v)
    \/ IsCron(k) /\ v \in Foreign

\* Cron entries that are the same line of the crontab.
Sharing(h) ==
    {k \in DOMAIN h : IsCron(k) /\ \E j \in DOMAIN h \ {k} :
                                      IsCron(j) /\ h[j].command = h[k].command}

-----------------------------------------------------------------------------
(* Requests.                                                               *)

HostClient(t) ==
    /\ hostPhase = "up"
    /\ request[t] = None
    /\ hostOps < MaxHostOps
    /\ hostOps' = hostOps + 1

\* Two requests that may change the same object of the system at once.
Conflicts(j, k) == j = k \/ (IsCron(j) /\ IsCron(k))

Rivals(t, k) == {s \in Thread \ {t} : request[s] # None /\ Conflicts(request[s].key, k)}

Disturbed(t, k) ==
    [s \in Thread |->
        IF s \in Rivals(t, k) THEN [request[s] EXCEPT !.alone = FALSE] ELSE request[s]]

\* The thread has changed the system, or read it, and has the rest to do: to
\* remove a module from the old files, and to record what it did.  Whether the
\* system is as it will be recorded is known if no other changes it meanwhile.
Submit(t, do, k, v, old, known) ==
    request' = [Disturbed(t, k) EXCEPT
                   ![t] = [do |-> do, key |-> k, val |-> v,
                           alone |-> known /\ Rivals(t, k) = {}, old |-> old]]

\* PUT and POST of an entry, and the host.sysctl.set event.  A module's own
\* file is written last; when that fails the module is managed nevertheless.
SetEntry(t, k, v) ==
    /\ HostClient(t)
    /\ machine' = Object(k, v) :> Content(k, v) @@ machine
    /\ ffLoads' \in {ffLoads} \union
                    (IF k[1] = "kernmod" /\ v = TRUE THEN {ffLoads \union {k[2]}} ELSE {})
    /\ Submit(t, "set", k, v, {}, TRUE)
    /\ UNCHANGED <<hostPhase, host, hostFile, enrolled, lines, doubtful>>

\* The worker fails, possibly after it has changed the system: 500.
SetFails(t, k, v) ==
    /\ HostClient(t)
    /\ machine' \in {machine, Object(k, v) :> Content(k, v) @@ machine}
    /\ request' = Disturbed(t, k)
    /\ doubtful' = doubtful \union {j \in Key : Conflicts(j, k)}
    /\ UNCHANGED <<hostPhase, host, hostFile, enrolled, ffLoads, lines>>

\* PUT /hostname: the machine's name, and with it the domain, is replaced.
SetHostname(t) ==
    /\ HostClient(t)
    /\ machine' = Without(machine, {Domain})
    /\ request' = Disturbed(t, Domain)
    /\ doubtful' = doubtful \union {Domain}
    /\ UNCHANGED <<hostPhase, host, hostFile, enrolled, ffLoads, lines>>

\* What the worker that removes an entry does to the system.
Removed(k) ==
    /\ machine' = Without(machine, {Object(k, host[k])})
    /\ enrolled' = [g \in Group |->
                       IF k = GroupKey(g) THEN {}
                       ELSE IF k[1] = "users" THEN enrolled[g] \ {k[2]}
                       ELSE enrolled[g]]

\* DELETE of a user, a group or a cron job removes it from the system.
DeleteEntry(t, k) ==
    /\ k \in DOMAIN host /\ k[1] \in {"users", "groups", "cron"}
    /\ HostClient(t)
    /\ Removed(k)
    /\ Submit(t, "delete", k, None, {}, TRUE)
    /\ UNCHANGED <<hostPhase, host, hostFile, ffLoads, lines, doubtful>>

\* The worker fails, possibly after it has removed the entry: 500.
DeleteFails(t, k) ==
    /\ k \in DOMAIN host /\ k[1] \in {"users", "groups", "cron"}
    /\ HostClient(t)
    /\ Removed(k) \/ UNCHANGED <<machine, enrolled>>
    /\ request' = Disturbed(t, k)
    /\ doubtful' = doubtful \union {j \in Key : Conflicts(j, k)}
    /\ UNCHANGED <<hostPhase, host, hostFile, ffLoads, lines>>

Persist(h) == hostFile' = [desired |-> h, current |-> h]

\* DELETE of a parameter, a module or the domain name only stops managing it.
StopManaging(t, k) ==
    /\ k \in DOMAIN host /\ k[1] \in {"sysctl", "kernmod", "domainname"}
    /\ HostClient(t)
    /\ host' = Without(host, {k})
    /\ Persist(host')
    /\ UNCHANGED <<hostPhase, request, hostSystem, doubtful>>

\* What an import reads: for a group its members too.
Found(k, o) ==
    CASE k[1] = "cron" -> [command |-> o[2], schedule |-> machine[o]]
      [] k[1] = "groups" -> [spec |-> machine[o], members |-> enrolled[k[2]]]
      [] OTHER -> machine[o]

ImportEntry(t, k, o) ==
    /\ k[1] \in {"sysctl", "users", "groups", "cron"}
    /\ o \in DOMAIN machine
    /\ IF IsCron(k) THEN o[1] = "cron" ELSE o = k
    /\ HostClient(t)
    /\ Submit(t, "set", k, Found(k, o), {}, TRUE)
    /\ UNCHANGED <<hostPhase, host, hostFile, hostSystem, doubtful>>

\* A cron job found elsewhere is recorded as it is, with "*" for what it lacks:
\* a script of cron.daily is managed from now on as one that runs every minute,
\* and is that on the system when the next start has put it in the crontab.
AsImported(j) == [j EXCEPT !.schedule = IF j.schedule = None THEN Always ELSE j.schedule]

ImportForeign(t, k, j) ==
    /\ IsCron(k)
    /\ HostClient(t)
    /\ Submit(t, "set", k, AsImported(j), {}, j.schedule # None)
    /\ UNCHANGED <<hostPhase, host, hostFile, hostSystem, doubtful>>

\* Mutant of ImportKmod: our own file is left for later.
ImportKmodUnwritten(t, m) ==
    /\ <<"kernmod", m>> \in DOMAIN machine
    /\ HostClient(t)
    /\ Submit(t, "set", <<"kernmod", m>>, TRUE, {f \in ConfFile : <<f, m>> \in lines}, TRUE)
    /\ UNCHANGED <<hostPhase, host, hostFile, machine, enrolled, ffLoads, lines, doubtful>>

\* The import of a loaded module writes our own file first ...
ImportKmod(t, m) ==
    /\ <<"kernmod", m>> \in DOMAIN machine
    /\ HostClient(t)
    /\ ffLoads' = ffLoads \union {m}
    /\ Submit(t, "set", <<"kernmod", m>>, TRUE, {f \in ConfFile : <<f, m>> \in lines}, TRUE)
    /\ UNCHANGED <<hostPhase, host, hostFile, machine, enrolled, lines, doubtful>>

\* ... and then removes the module from every file it was found in.  A
\* failure ends the request: 503.
StripOld(t) ==
    /\ request[t] # None /\ request[t].old # {}
    /\ \/ \E f \in request[t].old :
             /\ lines' = lines \ {<<f, request[t].key[2]>>}
             /\ request' = [request EXCEPT ![t].old = @ \ {f}]
       \/ request' = [request EXCEPT ![t] = None] /\ UNCHANGED lines
    /\ UNCHANGED <<hostPhase, host, hostFile, machine, enrolled, ffLoads, doubtful, hostOps>>

\* gpasswd -a and -d, for a group that is managed; -d for a member that is.
AddGroupMember(t, g, u) ==
    /\ GroupKey(g) \in DOMAIN host
    /\ HostClient(t)
    /\ enrolled' = [enrolled EXCEPT ![g] = @ \union {u}]
    /\ Submit(t, "join", GroupKey(g), u, {}, TRUE)
    /\ UNCHANGED <<hostPhase, host, hostFile, machine, ffLoads, lines, doubtful>>

RemoveGroupMember(t, g, u) ==
    /\ GroupKey(g) \in DOMAIN host /\ u \in host[GroupKey(g)].members
    /\ HostClient(t)
    /\ enrolled' = [enrolled EXCEPT ![g] = @ \ {u}]
    /\ Submit(t, "leave", GroupKey(g), u, {}, TRUE)
    /\ UNCHANGED <<hostPhase, host, hostFile, machine, ffLoads, lines, doubtful>>

\* gpasswd fails, possibly after it has changed the group: 500.
MemberFails(t, g, u) ==
    /\ GroupKey(g) \in DOMAIN host
    /\ HostClient(t)
    /\ \/ enrolled' = [enrolled EXCEPT ![g] = @ \union {u}]
       \/ u \in host[GroupKey(g)].members /\ enrolled' = [enrolled EXCEPT ![g] = @ \ {u}]
       \/ UNCHANGED enrolled
    /\ UNCHANGED <<hostPhase, host, hostFile, request, machine, ffLoads, lines, doubtful>>

Recorded(r) ==
    CASE r.do = "set" -> r.key :> r.val @@ host
      [] r.do = "delete" -> Without(host, {r.key})
      [] r.do = "join" -> [host EXCEPT ![r.key].members = @ \union {r.val}]
      [] r.do = "leave" -> [host EXCEPT ![r.key].members = @ \ {r.val}]

\* The second half of every handler: the entry is changed in self._state and
\* saved.  One that another request has deleted in between raises KeyError.
Record(t) ==
    /\ request[t] # None /\ request[t].old = {}
    /\ LET r == request[t]
       IN IF r.do = "set" \/ r.key \in DOMAIN host
          THEN /\ host' = Recorded(r)
               /\ Persist(host')
               /\ doubtful' = (IF r.alone /\ r.do \in {"set", "delete"}
                               THEN doubtful \ {r.key}
                               ELSE IF r.alone THEN doubtful ELSE doubtful \union {r.key})
                              \union Sharing(host')
          ELSE UNCHANGED <<host, hostFile, doubtful>>
    /\ request' = [request EXCEPT ![t] = None]
    /\ UNCHANGED <<hostPhase, hostSystem, hostOps>>

-----------------------------------------------------------------------------
(* Start and stop. *)

\* configure(); with ignore_state_on_boot the file is not even read.  Without
\* one the system's domain name is taken over.
HostLoad(ignore) ==
    /\ hostPhase = "down"
    /\ IF ignore
       THEN /\ hostPhase' = "up" /\ host' = << >>
            /\ UNCHANGED hostFile
       ELSE /\ hostPhase' = "loaded"
            /\ IF hostFile = None
               THEN host' = Without(machine, DOMAIN machine \ {Domain}) /\ Persist(host')
               ELSE host' = hostFile.desired /\ UNCHANGED hostFile
    /\ UNCHANGED <<request, hostSystem, doubtful, hostOps>>

Restored == DOMAIN host \ {Domain}

\* Mutant of Restore: what was loaded is taken to be on the system already.
RestoreNothing ==
    /\ hostPhase = "loaded"
    /\ hostPhase' = "up"
    /\ UNCHANGED <<host, hostFile, request, hostSystem, doubtful, hostOps>>

\* setup(): one batch restores the entries, each of which may fail, and what
\* succeeded is committed; the members of groups and the domain name are not
\* restored.  Of cron jobs with the same command the last one is in force.
Restore ==
    /\ hostPhase = "loaded"
    /\ hostPhase' = "up"
    /\ \E failed \in SUBSET Restored :
          LET done == Restored \ failed
              objects == {Object(k, host[k]) : k \in done}
          IN /\ \E last \in [objects -> done] :
                   /\ \A o \in objects : Object(last[o], host[last[o]]) = o
                   /\ machine' = [o \in objects |-> Content(last[o], host[last[o]])] @@ machine
             /\ hostFile' = IF Restored = {} THEN hostFile
                            ELSE [hostFile EXCEPT !.current = Without(host, failed)]
             /\ doubtful' = (doubtful \ done) \union failed \union Sharing(host)
    /\ UNCHANGED <<host, request, enrolled, ffLoads, lines, hostOps>>

Busy(k) == \E t \in Thread : request[t] # None /\ Conflicts(request[t].key, k)

\* Mutant of HostStop: a request goes on in the next process.
HostStopBusy ==
    /\ hostPhase # "down"
    /\ hostPhase' = "down" /\ host' = << >>
    /\ UNCHANGED <<hostFile, request, hostSystem, doubtful, hostOps>>

\* The process is killed, at any point.  A domain name it has set and not
\* recorded stays: the next start does not set the recorded one again.
HostStop ==
    /\ hostPhase # "down"
    /\ hostPhase' = "down"
    /\ host' = << >>
    /\ request' = [t \in Thread |-> None]
    /\ doubtful' = doubtful \union {k \in {Domain} : Busy(k)}
    /\ UNCHANGED <<hostFile, hostSystem, hostOps>>

Configured(m) == m \in ffLoads \/ \E f \in ConfFile : <<f, m>> \in lines

\* The machine restarts: parameters that are not persistent are lost, and the
\* modules loaded are those some file names.
Reboot ==
    /\ hostPhase = "down"
    /\ LET lost == {o \in DOMAIN machine : o[1] = "sysctl" /\ machine[o] \in Volatile}
           booted == {<<"kernmod", m>> : m \in {n \in Kmod : Configured(n)}}
       IN machine' = [o \in booted |-> "loaded"] @@
                     Without(machine, lost \union ({"kernmod"} \X Kmod))
    /\ machine' # machine
    /\ UNCHANGED <<hostPhase, host, hostFile, request, enrolled, ffLoads, lines,
                   doubtful, hostOps>>

-----------------------------------------------------------------------------
\* A machine on which each module is loaded, and named in one file.
HostInit ==
    /\ hostPhase = "down" /\ host = << >> /\ hostFile = None
    /\ request = [t \in Thread |-> None]
    /\ machine = [o \in {"kernmod"} \X Kmod |-> "loaded"]
    /\ enrolled = [g \in Group |-> {}]
    /\ ffLoads = {} /\ lines = ConfFile \X Kmod
    /\ doubtful = {}
    /\ hostOps = 0

HostRequest(t) ==
    \/ \E k \in Key : \E v \in Body(k) : SetEntry(t, k, v) \/ SetFails(t, k, v)
    \/ SetHostname(t)
    \/ \E k \in DOMAIN host : DeleteEntry(t, k) \/ DeleteFails(t, k) \/ StopManaging(t, k)
    \/ \E k \in Key : \E o \in DOMAIN machine : ImportEntry(t, k, o)
    \/ \E k \in Key : \E j \in Foreign : ImportForeign(t, k, j)
    \/ \E m \in Kmod : ImportKmod(t, m)
    \/ \E g \in Group, u \in User :
          AddGroupMember(t, g, u) \/ RemoveGroupMember(t, g, u) \/ MemberFails(t, g, u)
    \/ StripOld(t) \/ Record(t)

HostNext ==
    \/ \E t \in Thread : HostRequest(t)
    \/ \E ignore \in BOOLEAN : HostLoad(ignore)
    \/ Restore \/ HostStop \/ Reboot

HostSpec == HostInit /\ [][HostNext]_hostVars

-----------------------------------------------------------------------------
IsHostState(h) == DOMAIN h \subseteq Key /\ \A k \in DOMAIN h : h[k] \in Managed(k)

\* The variables have their types.
HostTypeOK ==
    /\ hostPhase \in {"down", "loaded", "up"}
    /\ IsHostState(host)
    /\ hostFile # None => IsHostState(hostFile.desired) /\ IsHostState(hostFile.current)
    /\ \A t \in Thread : request[t] # None =>
          hostPhase = "up" /\ request[t].key \in Key /\ request[t].old \subseteq ConfFile
    /\ \A o \in DOMAIN machine :
          machine[o] \in CASE o[1] = "cron" -> Schedule
                           [] o[1] = "kernmod" -> {"loaded"}
                           [] OTHER -> Spec
    /\ enrolled \in [Group -> SUBSET User]
    /\ ffLoads \subseteq Kmod /\ lines \subseteq ConfFile \X Kmod
    /\ doubtful \subseteq Key
    /\ hostOps \in 0..MaxHostOps

\* What the plugin shows as managed is on the system, whatever was killed
\* half way, rebooted or restarted; except an entry whose restore or change
\* failed (plugin.py:306, 877), one that two requests changed at once (890), a
\* cron job that shares its command with another, an imported script of
\* cron.daily and the like until a start (1262), and the domain name after PUT
\* /hostname (788) or a kill before it was recorded.
ManagedIsOnSystem ==
    hostPhase = "up" =>
        \A k \in DOMAIN host \ doubtful :
            Busy(k) \/ Holds(k, host[k])

\* "write the ff persist file before touching anything else" (plugin.py:1378):
\* a module the next boot would load is one it loads whatever is imported, and
\* wherever the import fails or the process dies.
ModuleStaysConfigured ==
    [][\A m \in Kmod : Configured(m) => Configured(m)']_hostVars
=============================================================================
