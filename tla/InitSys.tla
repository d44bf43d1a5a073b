-------------------------------- MODULE InitSys --------------------------------
(***************************************************************************)
(* The host plugin's answers to initsys.service.* events, which every      *)
(* other plugin uses to start, stop, install and remove the services it    *)
(* depends on, and the init script of its own configuration                *)
(* (src/plugins/host/plugin.py).  An answer takes several calls of a       *)
(* worker, each of which may fail and end it.                              *)
(***************************************************************************)
EXTENDS Plugin, Naturals, Sequences

CONSTANTS
    Svc,            \* names of services
    Definition,     \* unit files an event may ask for
    MaxEvents       \* bound: events

ASSUME InitSysAssumption == None \notin Definition /\ MaxEvents \in Nat

VARIABLES
    initSystem,     \* what _detect_init_system finds
    svc,            \* each service: its definition, enabled, and what runs
    handling,       \* each handler: the service and the calls left, None if idle
    contested,      \* history: services two handlers were at work on
    events

initsysVars == <<initSystem, svc, handling, contested, events>>

-----------------------------------------------------------------------------
InitSystems == {"systemd", "upstart", "sysvinit", "unknown"}

Exists(s) == svc[s].unit # None
Running(s) == svc[s].runs # None

\* Only systemd says whether a service is enabled.
KnownEnabled(s) == initSystem = "systemd" /\ Exists(s) /\ svc[s].enabled
KnownDisabled(s) == initSystem = "systemd" /\ Exists(s) /\ ~ svc[s].enabled

Enable(oneshot) ==
    (IF initSystem = "systemd" THEN <<"daemon_reload">> ELSE << >>)
    \o <<IF oneshot THEN "enable" ELSE "enable and start">>

Begin(h, s, calls, def) ==
    /\ initSystem # "unknown"
    /\ handling[h] = None
    /\ events < MaxEvents
    /\ events' = events + 1
    /\ handling' = [handling EXCEPT ![h] = [name |-> s, calls |-> calls, def |-> def]]
    /\ contested' = IF \E g \in Thread \ {h} : handling[g] # None /\ handling[g].name = s
                    THEN contested \union {s} ELSE contested
    /\ UNCHANGED <<initSystem, svc>>

\* One that is installed and enabled is left alone, whatever its definition.
ServiceAdd(h, s, def, oneshot) ==
    /\ ~ (Exists(s) /\ KnownEnabled(s))
    /\ Begin(h, s, (IF def = None THEN << >> ELSE <<"place">>) \o Enable(oneshot), def)

ServiceStart(h, s) ==
    /\ ~ (Running(s) /\ ~ KnownDisabled(s))
    /\ Begin(h, s, Enable(FALSE), None)

ServiceStop(h, s) == Running(s) /\ Begin(h, s, <<"stop">>, None)

ServiceRestart(h, s) == Begin(h, s, <<"restart">>, None)

\* Upstart and System V are asked to disable it whether or not they know how.
ServiceDisable(h, s) ==
    /\ ~ (~ Running(s) /\ KnownDisabled(s))
    /\ Begin(h, s, <<"stop and disable">>, None)

\* Mutant of ServiceRemove: the unit file goes first.
RemoveUnitFirst(h, s) ==
    Begin(h, s, IF initSystem = "systemd"
                THEN <<"unlink", "stop and disable", "daemon_reload">>
                ELSE <<"unlink", "stop">>, None)

ServiceRemove(h, s) ==
    Begin(h, s, IF initSystem = "systemd"
                THEN <<"stop and disable", "unlink", "daemon_reload">>
                ELSE <<"stop", "unlink">>, None)

\* setup() of the host plugin, init.enable_init_script.
RunInitScript(h, s, def) ==
    Begin(h, s, (IF def = None THEN << >> ELSE <<"place">>) \o Enable(FALSE), def)

\* What a call does to the service.  pyinfra's running=False stops it, so
\* enabling a oneshot that has run stops it too.
Done(r, call, def) ==
    CASE call = "place" -> [r EXCEPT !.unit = def]
      [] call = "daemon_reload" -> r
      [] call = "enable" -> [r EXCEPT !.runs = None, !.enabled = TRUE]
      [] call = "enable and start" ->
            [r EXCEPT !.runs = IF r.runs = None THEN r.unit ELSE r.runs, !.enabled = TRUE]
      [] call = "stop" -> [r EXCEPT !.runs = None]
      [] call = "stop and disable" -> [r EXCEPT !.runs = None, !.enabled = FALSE]
      [] call = "restart" -> [r EXCEPT !.runs = r.unit]
      [] call = "unlink" -> [r EXCEPT !.unit = None]

\* A call that needs a definition, and there is none, fails.
Possible(r, call) ==
    call \in {"enable", "enable and start", "restart"} => r.unit # None

Call(h) ==
    /\ handling[h] # None
    /\ LET w == handling[h] IN
       /\ Possible(svc[w.name], Head(w.calls))
       /\ svc' = [svc EXCEPT ![w.name] = Done(@, Head(w.calls), w.def)]
       /\ handling' = [handling EXCEPT ![h] =
                          IF Tail(w.calls) = << >> THEN None
                          ELSE [w EXCEPT !.calls = Tail(@)]]
    /\ UNCHANGED <<initSystem, contested, events>>

\* The worker fails, or the process is killed: the calls left are not made.
CallFails(h) ==
    /\ handling[h] # None
    /\ handling' = [handling EXCEPT ![h] = None]
    /\ UNCHANGED <<initSystem, svc, contested, events>>

\* A service ends by itself; a reboot ends all and starts those enabled.
ServiceDies(s) ==
    /\ Running(s)
    /\ svc' = [svc EXCEPT ![s].runs = None]
    /\ UNCHANGED <<initSystem, handling, contested, events>>

HostReboots ==
    /\ handling' = [h \in Thread |-> None]
    /\ svc' = [s \in Svc |-> [svc[s] EXCEPT !.runs = IF svc[s].enabled THEN svc[s].unit ELSE None]]
    /\ UNCHANGED <<initSystem, contested, events>>

-----------------------------------------------------------------------------
InitsysInit ==
    /\ initSystem \in InitSystems
    /\ svc = [s \in Svc |-> [unit |-> None, enabled |-> FALSE, runs |-> None]]
    /\ handling = [h \in Thread |-> None]
    /\ contested = {}
    /\ events = 0

ServiceEvent(h, s) ==
    \/ \E def \in Definition \union {None} :
          \/ \E oneshot \in BOOLEAN : ServiceAdd(h, s, def, oneshot)
          \/ RunInitScript(h, s, def)
    \/ ServiceStart(h, s) \/ ServiceStop(h, s) \/ ServiceRestart(h, s)
    \/ ServiceDisable(h, s) \/ ServiceRemove(h, s)

InitsysNext ==
    \/ \E h \in Thread, s \in Svc : ServiceEvent(h, s)
    \/ \E h \in Thread : Call(h) \/ CallFails(h)
    \/ \E s \in Svc : ServiceDies(s)
    \/ HostReboots

InitsysSpec == InitsysInit /\ [][InitsysNext]_initsysVars

-----------------------------------------------------------------------------
\* A service that runs has its definition, so that it can be stopped, restarted
\* or removed, and under systemd so has one the next boot starts: wherever a
\* removal fails or is killed (plugin.py:740), unless another handler was at
\* work on it too.  System V and upstart leave a removed service enabled.
RunningHasUnit ==
    \A s \in Svc \ contested :
        svc[s].runs # None \/ (initSystem = "systemd" /\ svc[s].enabled)
            => svc[s].unit # None
=============================================================================
