--------------------------------- MODULE Caddy ---------------------------------
(***************************************************************************)
(* The reverse proxy plugin (src/plugins/caddy/plugin.py): applications    *)
(* registered over HTTP or by other plugins' events, the configuration     *)
(* file and the systemd override an apply writes before it tells Caddy,    *)
(* discard, and a boot that falls back on the recorded configuration when  *)
(* the desired one cannot be applied.  An apply takes no lock: edits and   *)
(* other applies go on while it waits for the commands it runs.            *)
(***************************************************************************)
EXTENDS Plugin, Naturals

CONSTANTS
    App,            \* application names
    Upstream,       \* what is registered for one
    Rejected,       \* upstreams Caddy refuses (or whose macro is unknown)
    Setting,        \* contents of the settings section
    DefaultSetting, DefaultApps,    \* what a plugin without a file starts with
    MaxCadOps       \* bound: requests, events and starts

\* The values of the working state, of the record and of caddy.json.
CadState == [apps : Table(App, Upstream), settings : Setting]
CadRecord == [desired : CadState, current : CadState \union {None}]
Conf == [routes : SUBSET Upstream, settings : Setting]

\* Requests run on the pool's threads, the boot on the main one.
Runner == Thread \union {"main"}

\* Why a state is pushed: for POST /apply, or as the boot's first or second try.
Purpose == {"apply", "desired", "current"}

\* alone (history): no other apply was under way when it began, nor began since.
CadFrame == [state : CadState, purpose : Purpose, alone : BOOLEAN]

ASSUME CaddyAssumption ==
    /\ Rejected \subseteq Upstream
    /\ [apps |-> DefaultApps, settings |-> DefaultSetting] \in CadState
    /\ None \notin CadState \union CadRecord \union CadFrame
    /\ "main" \notin Thread
    /\ MaxCadOps \in Nat

VARIABLES
    cadPhase,       \* "down", "loaded", "up"; "failed" if setup() raised
    cad,            \* self._state
    cadDesired, cadCurrent, cadFile,    \* the plugin's PluginStateFile
    aliased,        \* self._state is the very object self._current
    cadPc, cadHeld, \* where each thread is in _do_apply, and what it holds
    sysConf,        \* the system's caddy.json, None if there is none
    override,       \* the systemd override is on disk
    proxy,          \* the configuration Caddy runs, None while it does not run
    cadInstalled, cadMisrecorded,       \* history, as in Networking
    cadOps

cadMem == <<cad, cadDesired, cadCurrent, aliased>>
cadApplying == <<cadPc, cadHeld>>
cadSystem == <<sysConf, override, proxy>>
cadHistory == <<cadInstalled, cadMisrecorded>>
cadVars == <<cadPhase, cadMem, cadFile, cadApplying, cadSystem, cadHistory, cadOps>>

-----------------------------------------------------------------------------
DefaultState == [apps |-> DefaultApps, settings |-> DefaultSetting]

\* One route for each application; its name and description are not in it.
CaddyConf(c) == [routes |-> Range(c.apps), settings |-> c.settings]

\* Caddy starts with no missing file and takes no configuration with a bad route.
Acceptable(conf) == conf # None /\ conf.routes \intersect Rejected = {}

CadClient ==
    /\ cadPhase = "up"
    /\ cadOps < MaxCadOps
    /\ cadOps' = cadOps + 1

\* An edit in place, which an aliased working state shares with the record.
CadEdit(live) ==
    /\ CadClient
    /\ cad' = live /\ cadDesired' = live
    /\ cadCurrent' = IF aliased THEN live ELSE cadCurrent
    /\ cadFile' = [desired |-> live, current |-> cadCurrent']
    /\ cadMisrecorded' = (cadMisrecorded \/ cadCurrent' # cadCurrent)
    /\ UNCHANGED <<cadPhase, aliased, cadApplying, cadSystem, cadInstalled>>

SetApp(a, u) == CadEdit([cad EXCEPT !.apps = a :> u @@ @])
RemoveApp(a) ==
    /\ a \in DOMAIN cad.apps
    /\ CadEdit([cad EXCEPT !.apps = Without(@, {a})])

\* An event registers over an application of the same name, and one that
\* unregisters an unknown name is ignored; a request is refused.
OnRegister(a, u) == SetApp(a, u)
OnUnregister(a) == RemoveApp(a)
AddApp(a, u) == a \notin DOMAIN cad.apps /\ SetApp(a, u)
UpdateApp(a, u) == a \in DOMAIN cad.apps /\ SetApp(a, u)
DeleteApp(a) == RemoveApp(a)
UpdateSettings(x) == CadEdit([cad EXCEPT !.settings = x])

\* The recorded snapshot itself becomes the working state.
CadDiscard ==
    /\ cadCurrent # None
    /\ CadClient
    /\ cad' = cadCurrent /\ cadDesired' = cadCurrent
    /\ cadFile' = [desired |-> cadCurrent, current |-> cadCurrent]
    /\ aliased' = TRUE
    /\ UNCHANGED <<cadPhase, cadCurrent, cadApplying, cadSystem, cadHistory>>

-----------------------------------------------------------------------------
(* _do_apply(state), from POST /apply and, twice at most, from setup().    *)

CadGoto(t, step, h) ==
    /\ cadPc' = [cadPc EXCEPT ![t] = step]
    /\ cadHeld' = [cadHeld EXCEPT ![t] = h]

\* Mutant of CadReturn: the apply's frame outlives it.
CadReturnHolding(t) == CadGoto(t, "idle", cadHeld[t])

CadReturn(t) == CadGoto(t, "idle", None)

\* The state is a copy, which later edits leave alone.
CadBegin(t) ==
    /\ CadClient
    /\ cadPc[t] = "idle"
    /\ cadPc' = [cadPc EXCEPT ![t] = "put"]
    /\ cadHeld' = [u \in Runner |->
                     IF u = t THEN [state |-> cad, purpose |-> "apply",
                                    alone |-> \A v \in Runner : cadPc[v] = "idle"]
                     ELSE IF cadPc[u] = "idle" THEN None
                     ELSE [cadHeld[u] EXCEPT !.alone = FALSE]]
    /\ UNCHANGED <<cadPhase, cadMem, cadFile, cadSystem, cadHistory>>

\* The next command of the apply.
Onward(t, step) == CadGoto(t, step, cadHeld[t]) /\ UNCHANGED cadPhase

\* Where an exception out of _do_apply leads: an answer 500; at boot, the
\* recorded state, if there is one; or no plugin at all.
Raised(t) ==
    LET h == cadHeld[t]
    IN IF h.purpose = "desired" /\ cadCurrent # None
       THEN /\ CadGoto(t, "put", [h EXCEPT !.state = cadCurrent, !.purpose = "current"])
            /\ UNCHANGED cadPhase
       ELSE /\ CadReturn(t)
            /\ cadPhase' = IF h.purpose = "apply" THEN cadPhase ELSE "failed"

\* Mutant of PutConf: a put that fails is passed over.
PutConfAnyhow(t) ==
    /\ cadPc[t] = "put"
    /\ sysConf' \in {sysConf, CaddyConf(cadHeld[t].state)}
    /\ Onward(t, IF override THEN "load" ELSE "override")
    /\ UNCHANGED <<cadMem, cadFile, override, proxy, cadHistory, cadOps>>

\* A worker that fails, here and below, may have done its work.
PutConf(t) ==
    /\ cadPc[t] = "put"
    /\ \/ /\ sysConf' = CaddyConf(cadHeld[t].state)
          /\ Onward(t, IF override THEN "load" ELSE "override")
       \/ sysConf' \in {sysConf, CaddyConf(cadHeld[t].state)} /\ Raised(t)
    /\ UNCHANGED <<cadMem, cadFile, override, proxy, cadHistory, cadOps>>

\* The override, and systemd told of it.
PutOverride(t) ==
    /\ cadPc[t] = "override"
    /\ \/ override' = TRUE /\ Onward(t, "restart")
       \/ override' \in {override, TRUE} /\ Raised(t)
    /\ UNCHANGED <<cadMem, cadFile, sysConf, proxy, cadHistory, cadOps>>

\* The admin API takes the configuration, in answer or not, refuses it, or is
\* not there: then the service is restarted.
AdminLoad(t) ==
    /\ cadPc[t] = "load"
    /\ \/ /\ proxy # None /\ Acceptable(CaddyConf(cadHeld[t].state))
          /\ proxy' = CaddyConf(cadHeld[t].state)
          /\ Onward(t, "commit") \/ Raised(t)
       \/ UNCHANGED proxy /\ (Raised(t) \/ Onward(t, "restart"))
    /\ UNCHANGED <<cadMem, cadFile, sysConf, override, cadHistory, cadOps>>

\* Caddy starts with the file it finds, which it refuses if it would refuse it
\* from the admin API.
RestartCaddy(t) ==
    /\ cadPc[t] = "restart"
    /\ \/ /\ Acceptable(sysConf) /\ proxy' = sysConf
          /\ Onward(t, "commit") \/ Raised(t)
       \/ proxy' \in {proxy, None} /\ Raised(t)
    /\ UNCHANGED <<cadMem, cadFile, sysConf, override, cadHistory, cadOps>>

\* Mutant of CadCommit: what is recorded is the state as it is by now.
CadCommitLive(c) ==
    /\ cadCurrent' = cad
    /\ cadFile' = [desired |-> cadDesired, current |-> cad]
    /\ cadInstalled' = c /\ cadMisrecorded' = FALSE
    /\ UNCHANGED cadDesired

CadCommit(c) ==
    /\ cadCurrent' = c
    /\ cadFile' = [desired |-> cadDesired, current |-> c]
    /\ cadInstalled' = c /\ cadMisrecorded' = FALSE
    /\ UNCHANGED cadDesired

\* Mutant of CadFinish: the second attempt leaves the working state as it is.
CadFinishBeside(t) ==
    /\ cadPc[t] = "commit"
    /\ CadCommit(cadHeld[t].state)
    /\ UNCHANGED cad
    /\ aliased' = FALSE
    /\ cadPhase' = "up"
    /\ CadReturn(t)
    /\ UNCHANGED <<cadSystem, cadOps>>

\* The boot's second attempt makes the recorded state the working one; what
\* is desired stays as it is in the file.
CadFinish(t) ==
    /\ cadPc[t] = "commit"
    /\ CadCommit(cadHeld[t].state)
    /\ IF cadHeld[t].purpose = "current" THEN cad' = cadHeld[t].state /\ aliased' = TRUE
                                         ELSE UNCHANGED cad /\ aliased' = FALSE
    /\ cadPhase' = "up"
    /\ CadReturn(t)
    /\ UNCHANGED <<cadSystem, cadOps>>

-----------------------------------------------------------------------------
(* Start and stop. *)

CadLoad(ignore) ==
    /\ cadPhase \in {"down", "failed"} /\ cadOps < MaxCadOps
    /\ cad' = IF cadFile = None THEN DefaultState ELSE cadFile.desired
    /\ cadDesired' = cad'
    /\ cadCurrent' = IF cadFile = None THEN None ELSE cadFile.current
    /\ cadFile' = [desired |-> cad', current |-> cadCurrent']
    /\ aliased' = FALSE
    /\ cadPhase' = IF ignore THEN "up" ELSE "loaded"
    /\ IF ignore THEN UNCHANGED cadApplying
       ELSE CadGoto("main", "put", [state |-> cad', purpose |-> "desired", alone |-> TRUE])
    /\ cadOps' = cadOps + 1
    /\ UNCHANGED <<cadSystem, cadHistory>>

CadStop ==
    /\ cadPhase # "down"
    /\ cadPhase' = "down"
    /\ cad' = DefaultState /\ cadDesired' = None /\ cadCurrent' = None
    /\ aliased' = FALSE
    /\ cadPc' = [t \in Runner |-> "idle"] /\ cadHeld' = [t \in Runner |-> None]
    /\ UNCHANGED <<cadFile, cadSystem, cadHistory, cadOps>>

\* The service, or the machine, restarts and Caddy reads its file.
CaddyReboots ==
    /\ override /\ proxy # sysConf
    /\ proxy' = IF Acceptable(sysConf) THEN sysConf ELSE None
    /\ UNCHANGED <<cadPhase, cadMem, cadFile, cadApplying, sysConf, override,
                   cadHistory, cadOps>>

CadInit ==
    /\ cadPhase = "down"
    /\ cad = DefaultState /\ cadDesired = None /\ cadCurrent = None /\ cadFile = None
    /\ aliased = FALSE
    /\ cadPc = [t \in Runner |-> "idle"] /\ cadHeld = [t \in Runner |-> None]
    /\ sysConf = None /\ override = FALSE /\ proxy = None
    /\ cadInstalled = None /\ cadMisrecorded = FALSE
    /\ cadOps = 0

EditApps ==
    \/ \E a \in App, u \in Upstream : OnRegister(a, u) \/ AddApp(a, u) \/ UpdateApp(a, u)
    \/ \E a \in App : OnUnregister(a) \/ DeleteApp(a)
    \/ \E x \in Setting : UpdateSettings(x)

CadNext ==
    \/ EditApps \/ CadDiscard
    \/ \E t \in Thread : CadBegin(t)
    \/ \E t \in Runner : PutConf(t) \/ PutOverride(t) \/ AdminLoad(t) \/ RestartCaddy(t)
                       \/ CadFinish(t)
    \/ \E ignore \in BOOLEAN : CadLoad(ignore)
    \/ CadStop \/ CaddyReboots

CadSpec == CadInit /\ [][CadNext]_cadVars

-----------------------------------------------------------------------------
CadSteps == {"idle", "put", "override", "load", "restart", "commit"}

\* The variables have their types.
CadTypeOK ==
    /\ cadPhase \in {"down", "loaded", "up", "failed"}
    /\ cad \in CadState
    /\ {cadDesired, cadCurrent} \subseteq CadState \union {None}
    /\ cadFile \in CadRecord \union {None}
    /\ {sysConf, proxy} \subseteq Conf \union {None}
    /\ cadPc \in [Runner -> CadSteps] /\ cadHeld \in [Runner -> CadFrame \union {None}]
    /\ \A t \in Runner : cadPc[t] = "idle" <=> cadHeld[t] = None
    /\ cadPhase = "loaded" <=> cadPc["main"] # "idle"
    /\ cadPhase # "up" => \A t \in Thread : cadPc[t] = "idle"
    /\ cadPhase \in {"loaded", "up"} => cadDesired # None
    /\ aliased \in BOOLEAN /\ override \in BOOLEAN /\ cadMisrecorded \in BOOLEAN
    /\ cadOps \in 0..MaxCadOps

\* current_state is the last configuration Caddy took from an apply or a boot,
\* until an edit of an aliased working state (plugin.py:344, 397) overwrites it.
CadRecordIsInstalled == ~ cadMisrecorded => cadCurrent \in {None, cadInstalled}

\* A plugin that comes up from a boot serves its working state, and never runs
\* with the desired state shown and the recorded one served.
BootServesWorking ==
    [][cadPhase = "loaded" /\ cadPhase' = "up" => 
         proxy' = CaddyConf(cad') /\ cadCurrent' = cad']_cadVars

\* An apply, or the boot's push of either state, that no other apply overlapped
\* records what Caddy runs, and what it will run when the machine restarts: the
\* file, the override that names it and the running process agree.
CadCommitIsServed ==
    \A t \in Runner :
        cadPc[t] = "commit" /\ cadHeld[t].alone =>
            override /\ sysConf = CaddyConf(cadHeld[t].state) /\ proxy = sysConf
=============================================================================
