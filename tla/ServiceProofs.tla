----------------------------- MODULE ServiceProofs -----------------------------
(***************************************************************************)
(* Proofs about the services a plugin starts and configures: the init      *)
(* scripts of InitSys and the daemons of Daemon, for any services,         *)
(* settings and number of threads.                                         *)
(***************************************************************************)
EXTENDS InitSys, Daemon, SequenceTheorems, TLAPS

-----------------------------------------------------------------------------
(* InitSys. *)

CallName == {"place", "daemon_reload", "enable", "enable and start", "stop",
             "stop and disable", "restart", "unlink"}

Unit == Definition \union {None}

\* Calls a handler has left: there is one, a service is stopped, for good where
\* the init system knows how, just before its unit is removed, and what is put
\* in place is a definition.
StopCall == IF initSystem = "systemd" THEN "stop and disable" ELSE "stop"

SafeCalls(calls, def, stop) ==
    /\ calls # << >>
    /\ \A i \in 1..Len(calls) :
          /\ calls[i] = "unlink" /\ i # 1 => calls[i - 1] = stop
          /\ calls[i] = "place" => def # None

AtUnlink(h) == handling[h] # None /\ Head(handling[h].calls) = "unlink"

Stopped(s) == svc[s].runs = None /\ (initSystem = "systemd" => ~ svc[s].enabled)

ServiceTypeOK ==
    /\ svc \in [Svc -> [unit : Unit, enabled : BOOLEAN, runs : Unit]]
    /\ handling \in [Thread -> [name : Svc, calls : Seq(CallName), def : Unit] \union {None}]

CallsAreSafe ==
    \A h \in Thread : handling[h] # None => SafeCalls(handling[h].calls, handling[h].def, StopCall)

OneHandlerEach ==
    \A g, h \in Thread :
        handling[g] # None /\ handling[h] # None /\ handling[g].name = handling[h].name
            => g = h \/ handling[g].name \in contested

UnlinkAfterStop ==
    \A h \in Thread : AtUnlink(h) /\ handling[h].name \notin contested
                          => Stopped(handling[h].name)

ServiceInv ==
    ServiceTypeOK /\ CallsAreSafe /\ OneHandlerEach /\ UnlinkAfterStop /\ RunningHasUnit

LEMMA ServiceInvInit == InitsysInit => ServiceInv
  BY DEF InitsysInit, ServiceInv, ServiceTypeOK, CallsAreSafe, OneHandlerEach,
         UnlinkAfterStop, RunningHasUnit, Unit, AtUnlink

\* What an event asks for, by the calls it makes.
Plan(calls, def) ==
    /\ calls \in Seq(CallName) /\ def \in Unit
    /\ SafeCalls(calls, def, StopCall)
    /\ Head(calls) # "unlink"

LEMMA JoinOne ==
    ASSUME NEW a, NEW b
    PROVE  <<a>> \o <<b>> = <<a, b>> /\ << >> \o <<a>> = <<a>> /\ << >> \o <<a, b>> = <<a, b>>
<1>1. <<a>> \o <<b>> = Append(<<a>>, b)
  OBVIOUS
<1>2. <<a, b>> = Append(<<a>>, b)
  OBVIOUS
<1>3. <<a>> \in Seq({a, b}) /\ <<a, b>> \in Seq({a, b})
  OBVIOUS
<1>4. << >> \o <<a>> = <<a>> /\ << >> \o <<a, b>> = <<a, b>>
  BY <1>3, ConcatEmptySeq
<1>. QED
  BY <1>1, <1>2, <1>4, Zenon

LEMMA JoinTwo == ASSUME NEW a, NEW b, NEW c PROVE <<a>> \o <<b, c>> = <<a, b, c>>
<1>1. <<a>> \in Seq({a, b, c}) /\ <<b>> \in Seq({a, b, c}) /\ <<c>> \in Seq({a, b, c})
  OBVIOUS
<1>2. <<a>> \o (<<b>> \o <<c>>) = (<<a>> \o <<b>>) \o <<c>>
  BY <1>1, ConcatAssociative
<1>3. <<a>> \o <<b, c>> = <<a, b>> \o <<c>>
  BY <1>2, JoinOne, Zenon
<1>4. <<a, b>> \o <<c>> = Append(<<a, b>>, c)
  OBVIOUS
<1>5. <<a, b, c>> = Append(<<a, b>>, c)
  OBVIOUS
<1>. QED
  BY <1>3, <1>4, <1>5, Zenon

LEMMA ShortPlan ==
    ASSUME NEW a \in CallName, NEW b \in CallName, NEW c \in CallName, NEW def \in Unit,
           a # "unlink", b = "unlink" => a = StopCall, c # "unlink",
           "place" \in {a, b, c} => def # None
    PROVE  Plan(<<a>>, def) /\ Plan(<<a, b>>, def) /\ Plan(<<a, b, c>>, def)
<1>. DEFINE one == <<a>>   two == <<a, b>>   three == <<a, b, c>>
<1>1. /\ one \in Seq(CallName) /\ one # << >> /\ Head(one) = a
      /\ Len(one) = 1 /\ one[1] = a
  OBVIOUS
<1>2. /\ two \in Seq(CallName) /\ two # << >> /\ Head(two) = a
      /\ Len(two) = 2 /\ two[1] = a /\ two[2] = b
  OBVIOUS
<1>3. /\ three \in Seq(CallName) /\ three # << >> /\ Head(three) = a
      /\ Len(three) = 3 /\ three[1] = a /\ three[2] = b /\ three[3] = c
  OBVIOUS
<1>. HIDE DEF one, two, three
<1>4. Plan(one, def)
  BY <1>1 DEF Plan, SafeCalls
<1>5. Plan(two, def)
  BY <1>2 DEF Plan, SafeCalls
<1>6. Plan(three, def)
  BY <1>3 DEF Plan, SafeCalls
<1>. QED
  BY <1>4, <1>5, <1>6 DEF one, two, three

LEMMA EnableCalls ==
    ASSUME NEW oneshot \in BOOLEAN, NEW def \in Unit
    PROVE  /\ Plan(<< >> \o Enable(oneshot), def) /\ Plan(Enable(oneshot), def)
           /\ def # None => Plan(<<"place">> \o Enable(oneshot), def)
<1>. DEFINE last == IF oneshot THEN "enable" ELSE "enable and start"
<1>1. last \in {"enable", "enable and start"}
  OBVIOUS
<1>. HIDE DEF last
<1>2. /\ Plan(<<last>>, def) /\ Plan(<<"daemon_reload", last>>, def)
      /\ def # None => /\ Plan(<<"place", last>>, def)
                       /\ Plan(<<"place", "daemon_reload", last>>, def)
  BY <1>1, ShortPlan DEF CallName
<1>3. CASE initSystem = "systemd"
  <2>1. Enable(oneshot) = <<"daemon_reload", last>>
    <3>1. Enable(oneshot) = <<"daemon_reload">> \o <<last>>
      BY <1>3 DEF Enable, last
    <3>. QED
      BY <3>1, JoinOne, Zenon
  <2>2. << >> \o <<"daemon_reload", last>> = <<"daemon_reload", last>>
    BY JoinOne, Zenon
  <2>3. <<"place">> \o <<"daemon_reload", last>> = <<"place", "daemon_reload", last>>
    BY JoinTwo, Zenon
  <2>. QED
    BY <1>2, <2>1, <2>2, <2>3, Zenon
<1>4. CASE initSystem # "systemd"
  <2>1. Enable(oneshot) = <<last>>
    <3>1. Enable(oneshot) = << >> \o <<last>>
      BY <1>4 DEF Enable, last
    <3>. QED
      BY <3>1, JoinOne, Zenon
  <2>2. << >> \o <<last>> = <<last>> /\ <<"place">> \o <<last>> = <<"place", last>>
    BY JoinOne, Zenon
  <2>. QED
    BY <1>2, <2>1, <2>2, Zenon
<1>. QED
  BY <1>3, <1>4

LEMMA OtherCalls ==
    /\ \A call \in CallName \ {"unlink", "place"} : Plan(<<call>>, None)
    /\ initSystem = "systemd" => Plan(<<"stop and disable", "unlink", "daemon_reload">>, None)
    /\ initSystem # "systemd" => Plan(<<"stop", "unlink">>, None)
<1>1. None \in Unit
  BY DEF Unit
<1>2. ASSUME NEW call \in CallName \ {"unlink", "place"} PROVE Plan(<<call>>, None)
  BY <1>1, ShortPlan
<1>3. ASSUME initSystem = "systemd"
      PROVE  Plan(<<"stop and disable", "unlink", "daemon_reload">>, None)
  <2>. DEFINE a == "stop and disable"   b == "unlink"   c == "daemon_reload"
  <2>1. /\ a \in CallName /\ b \in CallName /\ c \in CallName
        /\ a # "unlink" /\ a = StopCall /\ c # "unlink" /\ "place" \notin {a, b, c}
    BY <1>3 DEF CallName, StopCall
  <2>. HIDE DEF a, b, c
  <2>2. Plan(<<a, b, c>>, None)
    BY <1>1, <2>1, ShortPlan
  <2>. QED
    BY <2>2 DEF a, b, c
<1>4. ASSUME initSystem # "systemd" PROVE Plan(<<"stop", "unlink">>, None)
  <2>. DEFINE a == "stop"   b == "unlink"
  <2>1. /\ a \in CallName /\ b \in CallName
        /\ a # "unlink" /\ a = StopCall /\ "place" \notin {a, b, a}
    BY <1>4 DEF CallName, StopCall
  <2>. HIDE DEF a, b
  <2>2. Plan(<<a, b>>, None)
    BY <1>1, <2>1, ShortPlan
  <2>. QED
    BY <2>2 DEF a, b
<1>. QED
  BY <1>2, <1>3, <1>4

LEMMA EventCases ==
    ASSUME NEW h \in Thread, NEW s \in Svc, ServiceEvent(h, s)
    PROVE  \E calls, def : Plan(calls, def) /\ Begin(h, s, calls, def)
<1>1. ASSUME NEW def \in Definition \union {None}, NEW oneshot \in BOOLEAN,
             ServiceAdd(h, s, def, oneshot)
      PROVE  \E calls : Plan(calls, def) /\ Begin(h, s, calls, def)
  BY <1>1, EnableCalls DEF ServiceAdd, Unit
<1>2. ASSUME NEW def \in Definition \union {None}, RunInitScript(h, s, def)
      PROVE  \E calls : Plan(calls, def) /\ Begin(h, s, calls, def)
  BY <1>2, EnableCalls DEF RunInitScript, Unit
<1>3. CASE ServiceStart(h, s)
  BY <1>3, EnableCalls DEF ServiceStart, Unit
<1>4. CASE ServiceStop(h, s) \/ ServiceRestart(h, s) \/ ServiceDisable(h, s)
  BY <1>4, OtherCalls DEF ServiceStop, ServiceRestart, ServiceDisable, CallName
<1>5. CASE ServiceRemove(h, s)
  BY <1>5, OtherCalls DEF ServiceRemove
<1>. QED
  BY <1>1, <1>2, <1>3, <1>4, <1>5 DEF ServiceEvent

-----------------------------------------------------------------------------
\* Under its invariant a step of the init scripts keeps the types ...
LEMMA BeginKeepsInv ==
    ASSUME ServiceInv, NEW h \in Thread, NEW s \in Svc, NEW calls, NEW def,
           Plan(calls, def), Begin(h, s, calls, def)
    PROVE  ServiceInv'
<1>. USE DEF Begin, ServiceInv, ServiceTypeOK
<1>. DEFINE w == [name |-> s, calls |-> calls, def |-> def]
<1>1. w \in [name : Svc, calls : Seq(CallName), def : Unit]
  BY DEF Plan
<1>2. handling' = [handling EXCEPT ![h] = w] /\ w.name = s /\ w.calls = calls /\ w.def = def
  OBVIOUS
<1>. HIDE DEF w
<1>3. ServiceTypeOK'
  BY <1>1, <1>2
<1>4. CallsAreSafe'
  <2>1. SafeCalls(calls, def, StopCall) /\ StopCall' = StopCall
    BY DEF Plan, StopCall
  <2>. QED
    BY <1>1, <1>2, <2>1 DEF CallsAreSafe
<1>5. OneHandlerEach'
  BY <1>1, <1>2 DEF OneHandlerEach
<1>6. UnlinkAfterStop'
  BY <1>1, <1>2 DEF UnlinkAfterStop, AtUnlink, Stopped, Plan
<1>7. RunningHasUnit'
  BY DEF RunningHasUnit
<1>. QED
  BY <1>3, <1>4, <1>5, <1>6, <1>7

\* Only the last but one call of a removal leaves a service without its unit,
\* and it is stopped by then.
LEMMA CallKeepsInv ==
    ASSUME ServiceInv, NEW h \in Thread, Call(h)
    PROVE  ServiceInv'
<1>. USE DEF ServiceInv, ServiceTypeOK
<1>. DEFINE w == handling[h]   r == svc[w.name]   call == Head(w.calls)   rest == Tail(w.calls)
<1>1. /\ w # None /\ w \in [name : Svc, calls : Seq(CallName), def : Unit]
      /\ w.name \in Svc /\ w.calls \in Seq(CallName) /\ w.def \in Unit
      /\ r \in [unit : Unit, enabled : BOOLEAN, runs : Unit]
  BY DEF Call
<1>2. w.calls # << >> /\ SafeCalls(w.calls, w.def, StopCall)
  BY <1>1 DEF CallsAreSafe, SafeCalls
<1>3. call \in CallName /\ call = w.calls[1] /\ Len(w.calls) \in Nat \ {0}
  BY <1>1, <1>2
<1>4. /\ rest \in Seq(CallName) /\ Len(rest) = Len(w.calls) - 1
      /\ \A i \in 1..Len(rest) : rest[i] = w.calls[i + 1]
      /\ rest # << >> => Head(rest) = rest[1] /\ Len(rest) \in Nat \ {0}
  <2>1. /\ rest \in Seq(CallName) /\ Len(rest) = Len(w.calls) - 1
        /\ \A i \in 1..Len(rest) : rest[i] = w.calls[i + 1]
    BY <1>1, <1>2, HeadTailProperties
  <2>2. rest # << >> => Head(rest) = rest[1] /\ Len(rest) \in Nat \ {0}
    <3>. HIDE DEF rest
    <3>. QED
      BY <2>1
  <2>. QED
    BY <2>1, <2>2
<1>5. rest # << >> => SafeCalls(rest, w.def, StopCall)
  <2>. SUFFICES ASSUME NEW i \in 1..Len(rest), rest # << >>
                PROVE  /\ rest[i] = "unlink" /\ i # 1 => rest[i - 1] = StopCall
                       /\ rest[i] = "place" => w.def # None
    BY DEF SafeCalls
  <2>1. i + 1 \in 1..Len(w.calls) /\ rest[i] = w.calls[i + 1]
    BY <1>3, <1>4
  <2>2. i # 1 => rest[i - 1] = w.calls[i]
    BY <1>3, <1>4
  <2>3. (i + 1) - 1 = i /\ i + 1 # 1
    OBVIOUS
  <2>. QED
    BY <1>2, <2>1, <2>2, <2>3 DEF SafeCalls
<1>6. rest # << >> /\ Head(rest) = "unlink" => call = StopCall
  BY <1>2, <1>3, <1>4 DEF SafeCalls
<1>7. call = "place" => w.def # None
  BY <1>2, <1>3 DEF SafeCalls
<1>8. /\ Possible(r, call)
      /\ svc' = [svc EXCEPT ![w.name] = Done(r, call, w.def)]
      /\ handling' = [handling EXCEPT ![h] = IF rest = << >> THEN None ELSE [w EXCEPT !.calls = rest]]
      /\ UNCHANGED <<initSystem, contested, events>>
  BY <1>1 DEF Call
<1>9. handling'[h] # None => /\ rest # << >> /\ handling'[h] = [w EXCEPT !.calls = rest]
                             /\ handling'[h].calls = rest
                             /\ handling'[h].name = w.name /\ handling'[h].def = w.def
  BY <1>1, <1>8
<1>10. \A g \in Thread \ {h} : handling'[g] = handling[g]
  BY <1>8
<1>. HIDE DEF w, call, rest
<1>11. Done(r, call, w.def) \in [unit : Unit, enabled : BOOLEAN, runs : Unit]
  BY <1>1, <1>3 DEF Done, CallName, Unit
<1>12. ServiceTypeOK'
  BY <1>1, <1>4, <1>8, <1>11
<1>13. CallsAreSafe'
  <2>1. StopCall' = StopCall
    BY <1>8 DEF StopCall
  <2>. QED
    BY <1>5, <1>9, <1>10, <2>1 DEF CallsAreSafe
<1>14. OneHandlerEach'
  BY <1>1, <1>8, <1>9, <1>10 DEF OneHandlerEach, w
<1>15. UnlinkAfterStop'
  <2>. SUFFICES ASSUME NEW g \in Thread, AtUnlink(g)', handling'[g].name \notin contested'
                PROVE  Stopped(handling[g].name)'
    BY DEF UnlinkAfterStop
  <2>1. CASE g = h
    <3>1. Head(rest) = "unlink" /\ rest # << >> /\ handling'[g].name = w.name
      BY <1>9, <2>1 DEF AtUnlink
    <3>2. call = StopCall /\ svc'[w.name] = Done(r, call, w.def)
      BY <1>1, <1>6, <1>8, <3>1
    <3>. QED
      BY <1>1, <1>8, <3>1, <3>2 DEF Stopped, Done, StopCall
  <2>2. CASE g # h
    <3>1. handling[g] # None /\ handling'[g] = handling[g]
      BY <1>10, <2>2 DEF AtUnlink
    <3>2. handling[g].name # w.name
      BY <1>1, <1>8, <2>2, <3>1 DEF OneHandlerEach, w
    <3>3. handling[g].name \in Svc
      BY <3>1
    <3>. QED
      BY <1>8, <3>1, <3>2, <3>3 DEF UnlinkAfterStop, AtUnlink, Stopped
  <2>. QED
    BY <2>1, <2>2
<1>16. RunningHasUnit'
  <2>. SUFFICES ASSUME NEW s \in Svc \ contested,
                       svc'[s].runs # None \/ (initSystem = "systemd" /\ svc'[s].enabled)
                PROVE  svc'[s].unit # None
    BY <1>8 DEF RunningHasUnit
  <2>1. CASE s # w.name
    BY <1>8, <2>1 DEF RunningHasUnit
  <2>2. CASE s = w.name
    <3>1. svc'[s] = Done(r, call, w.def)
      BY <1>1, <1>8, <2>2
    <3>2. r.runs # None \/ (initSystem = "systemd" /\ r.enabled) => r.unit # None
      BY <1>1, <2>2 DEF RunningHasUnit
    <3>3. call = "unlink" => r.runs = None /\ (initSystem = "systemd" => ~ r.enabled)
      BY <1>1, <2>2 DEF UnlinkAfterStop, AtUnlink, Stopped, w, call
    <3>. QED
      BY <1>1, <1>3, <1>7, <1>8, <3>1, <3>2, <3>3 DEF Done, Possible, CallName
  <2>. QED
    BY <2>1, <2>2
<1>. QED
  BY <1>12, <1>13, <1>14, <1>15, <1>16

LEMMA EndsKeepInv ==
    ASSUME ServiceInv,
           \/ \E h \in Thread : CallFails(h)
           \/ \E s \in Svc : ServiceDies(s)
           \/ HostReboots
    PROVE  ServiceInv'
<1>. USE DEF ServiceInv, ServiceTypeOK
<1>1. ASSUME NEW h \in Thread, CallFails(h) PROVE ServiceInv'
  <2>1. /\ handling' \in [Thread -> [name : Svc, calls : Seq(CallName), def : Unit] \union {None}]
        /\ \A g \in Thread : handling'[g] # None => handling'[g] = handling[g]
        /\ UNCHANGED <<initSystem, svc, contested, events>>
    BY <1>1 DEF CallFails
  <2>2. CallsAreSafe'
    BY <2>1 DEF CallsAreSafe, StopCall
  <2>3. OneHandlerEach' /\ UnlinkAfterStop' /\ RunningHasUnit'
    BY <2>1 DEF OneHandlerEach, UnlinkAfterStop, AtUnlink, Stopped, RunningHasUnit
  <2>. QED
    BY <2>1, <2>2, <2>3
<1>2. ASSUME NEW s \in Svc, ServiceDies(s) PROVE ServiceInv'
  <2>1. /\ svc' = [svc EXCEPT ![s] = [@ EXCEPT !.runs = None]]
        /\ UNCHANGED <<initSystem, handling, contested, events>>
    BY <1>2 DEF ServiceDies
  <2>2. /\ svc' \in [Svc -> [unit : Unit, enabled : BOOLEAN, runs : Unit]]
        /\ \A t \in Svc : /\ svc'[t].unit = svc[t].unit /\ svc'[t].enabled = svc[t].enabled
                          /\ svc'[t].runs = svc[t].runs \/ svc'[t].runs = None
    BY <2>1 DEF Unit
  <2>3. CallsAreSafe' /\ OneHandlerEach'
    BY <2>1 DEF CallsAreSafe, OneHandlerEach, StopCall
  <2>4. UnlinkAfterStop' /\ RunningHasUnit'
    BY <2>1, <2>2 DEF UnlinkAfterStop, AtUnlink, Stopped, RunningHasUnit
  <2>. QED
    BY <2>1, <2>2, <2>3, <2>4
<1>3. ASSUME HostReboots PROVE ServiceInv'
  <2>1. /\ handling' = [h \in Thread |-> None]
        /\ svc' \in [Svc -> [unit : Unit, enabled : BOOLEAN, runs : Unit]]
        /\ \A t \in Svc : /\ svc'[t].unit = svc[t].unit /\ svc'[t].enabled = svc[t].enabled
                          /\ svc'[t].runs = IF svc[t].enabled THEN svc[t].unit ELSE None
        /\ UNCHANGED <<initSystem, contested, events>>
    BY <1>3 DEF HostReboots, Unit
  <2>2. CallsAreSafe' /\ OneHandlerEach' /\ UnlinkAfterStop'
    BY <2>1 DEF CallsAreSafe, OneHandlerEach, UnlinkAfterStop, AtUnlink
  <2>3. RunningHasUnit'
    BY <2>1 DEF RunningHasUnit
  <2>. QED
    BY <2>1, <2>2, <2>3
<1>. QED
  BY <1>1, <1>2, <1>3

\* Whatever the handlers do side by side, and wherever a call fails, the process
\* is killed or the host reboots, an idle handler is idle, one at work has a call
\* to make, and no service is left running, or enabled under systemd, without its
\* unit, except one that two handlers were at work on (_handle_service_remove,
\* src/plugins/host/plugin.py).
THEOREM ServicesKeepTheirUnits == InitsysSpec => []RunningHasUnit
<1>1. InitsysInit => ServiceInv
  BY ServiceInvInit
<1>2. ServiceInv /\ [InitsysNext]_initsysVars => ServiceInv'
  <2>. SUFFICES ASSUME ServiceInv, [InitsysNext]_initsysVars PROVE ServiceInv'
    OBVIOUS
  <2>1. ASSUME NEW h \in Thread, NEW s \in Svc, ServiceEvent(h, s) PROVE ServiceInv'
    BY <2>1, EventCases, BeginKeepsInv
  <2>2. ASSUME NEW h \in Thread, Call(h) PROVE ServiceInv'
    BY <2>2, CallKeepsInv
  <2>3. CASE UNCHANGED initsysVars
    BY <2>3 DEF initsysVars, ServiceInv, ServiceTypeOK, CallsAreSafe, OneHandlerEach,
                UnlinkAfterStop, RunningHasUnit, AtUnlink, Stopped, StopCall
  <2>. QED
    BY <2>1, <2>2, <2>3, EndsKeepInv DEF InitsysNext
<1>3. ServiceInv => RunningHasUnit
  BY DEF ServiceInv
<1>. QED
  BY <1>1, <1>2, <1>3, PTL DEF InitsysSpec

-----------------------------------------------------------------------------
(* Daemon: what a handler has left to do. *)

\* The end of a handler that writes the file.
Writing(last) == {<<"put", last>>, <<"render", "put", last>>}

ClientCalls ==
    IF plugin = "smtp" THEN {<<"restart">>, <<"record">>} \union Writing("record")
                       ELSE {<<"restart">>} \union Writing("restart")

SetupCalls ==
    CASE plugin = "syslog" -> {<<"restart">>, <<"start", "render", "put", "restart">>, SyslogSetup}
                              \union Writing("restart")
      [] plugin = "acng" -> {<<"start">>, <<"stop">>} \union Writing("start") \union Writing("stop")
      [] plugin = "smtp" -> {<<"put">>, <<"render", "put">>}

\* The file is still to be written.
Unwritten(calls) == Len(calls) # 1 \/ Head(calls) = "put"

DmnTyped ==
    /\ plugin \in {"syslog", "acng", "smtp"} /\ osBoot \in BOOLEAN
    /\ dmnPhase \in {"down", "starting", "up"}
    /\ settings \in DmnSettings /\ saved \in DmnSettings \union {None}
    /\ work \in [Thread \union {"boot"} -> DmnWork \union {None}]
    /\ daemonConf \in DmnSettings \union {None}
    /\ included \in BOOLEAN /\ alive \in BOOLEAN /\ spoilt \in BOOLEAN /\ owed \in BOOLEAN

CallsLeft ==
    \A c \in AtWork :
        /\ work[c].calls \in IF c = "boot" THEN SetupCalls ELSE ClientCalls
        /\ work[c].new # None <=>
              plugin = "smtp" /\ c # "boot" /\ work[c].calls # <<"restart">>
        /\ Head(work[c].calls) = "put" => work[c].content # None

\* One who is alone is so, and setup() is.
WorkAlone ==
    /\ \A c \in AtWork : work[c].alone => AtWork = {c}
    /\ dmnPhase = "down" => AtWork = {}
    /\ dmnPhase = "starting" <=> "boot" \in AtWork
    /\ dmnPhase = "starting" => work["boot"].alone

\* What one who is alone is about to put is made of things as they are.
ContentIsCurrent ==
    \A c \in AtWork :
        work[c].alone /\ Head(work[c].calls) = "put" =>
            /\ work[c].content = Render(IF work[c].new = None THEN settings ELSE work[c].new)
            /\ work[c].changed = (work[c].content # daemonConf)

InConf(s) ==
    s # << >> =>
        daemonConf # None /\ \A f \in DOMAIN s : f \in DOMAIN daemonConf /\ daemonConf[f] = s[f]

\* The file holds the settings, or one who is alone will write them, or has
\* written what it will record.
ConfOrWriter ==
    dmnPhase # "down" /\ ~ spoilt =>
        /\ AtWork = {} => InConf(settings)
        /\ \A c \in AtWork : work[c].alone =>
              IF work[c].calls = <<"record">> THEN InConf(work[c].new @@ settings)
              ELSE InConf(settings) \/ (work[c].new = None /\ Unwritten(work[c].calls))

\* The daemon has read the file, or somebody will restart it.
ReadOrRestart ==
    alive /\ ~ owed /\ loaded # ReadConf =>
        /\ plugin # "smtp"
        /\ \E c \in AtWork :
              \/ ~ work[c].alone
              \/ work[c].calls = <<"restart">> /\ (plugin = "syslog" => work[c].changed)

DmnInv == DmnTyped /\ CallsLeft /\ WorkAlone /\ ContentIsCurrent /\ ConfOrWriter /\ ReadOrRestart

LEMMA Tuples ==
    ASSUME NEW a, NEW b, NEW c, NEW d, NEW e
    PROVE  /\ Len(<<a>>) = 1 /\ Head(<<a>>) = a
           /\ Len(<<a, b>>) = 2 /\ Head(<<a, b>>) = a /\ Tail(<<a, b>>) = <<b>>
           /\ Len(<<a, b, c>>) = 3 /\ Head(<<a, b, c>>) = a /\ Tail(<<a, b, c>>) = <<b, c>>
           /\ Len(<<a, b, c, d>>) = 4 /\ Head(<<a, b, c, d>>) = a
           /\ Tail(<<a, b, c, d>>) = <<b, c, d>>
           /\ Len(<<a, b, c, d, e>>) = 5 /\ Head(<<a, b, c, d, e>>) = a
           /\ Tail(<<a, b, c, d, e>>) = <<b, c, d, e>>
<1>1. Len(<<a>>) = 1 /\ Head(<<a>>) = a
  OBVIOUS
<1>2. Len(<<a, b>>) = 2 /\ Head(<<a, b>>) = a
  OBVIOUS
<1>3. Len(<<a, b, c>>) = 3 /\ Head(<<a, b, c>>) = a
  OBVIOUS
<1>4. Len(<<a, b, c, d>>) = 4 /\ Head(<<a, b, c, d>>) = a
  OBVIOUS
<1>5. Len(<<a, b, c, d, e>>) = 5 /\ Head(<<a, b, c, d, e>>) = a
  OBVIOUS
<1>6. Tail(<<a, b>>) = <<b>>
  OBVIOUS
<1>7. Tail(<<a, b, c>>) = <<b, c>>
  OBVIOUS
<1>8. Tail(<<a, b, c, d>>) = <<b, c, d>>
  OBVIOUS
<1>9. Tail(<<a, b, c, d, e>>) = <<b, c, d, e>>
  OBVIOUS
<1>. QED
  BY <1>1, <1>2, <1>3, <1>4, <1>5, <1>6, <1>7, <1>8, <1>9

\* What comes next, for every list of calls.
Shape(l, client) ==
    /\ l \in Seq(DmnCall) /\ Len(l) \in Nat /\ Len(l) >= 1 /\ Head(l) \in DmnCall
    /\ Head(l) = "render" =>
          Len(l) # 1 /\ Head(Tail(l)) = "put" /\ Unwritten(Tail(l)) /\ Tail(l) # <<"restart">>
                     /\ Tail(l) # <<"record">>
    /\ Head(l) = "put" =>
          /\ Len(l) = 1 <=> plugin = "smtp" /\ ~ client
          /\ Len(l) # 1 => ~ Unwritten(Tail(l)) /\ Head(Tail(l)) # "put"
                           /\ (Tail(l) = <<"record">> <=> plugin = "smtp")
                           /\ (Tail(l) = <<"restart">> <=> plugin = "syslog" \/ (plugin = "acng" /\ client))
    /\ Head(l) = "restart" => l = <<"restart">> /\ Len(l) = 1 /\ (plugin = "syslog" \/ client)
    /\ Head(l) = "record" => l = <<"record">> /\ Len(l) = 1 /\ client /\ plugin = "smtp"
    /\ Head(l) = "include" =>
          /\ plugin = "syslog" /\ ~ client
          /\ Len(l) # 1 /\ Head(Tail(l)) = "start" /\ Unwritten(Tail(l)) /\ Tail(l) # <<"restart">>
          /\ Tail(l) # <<"record">>
    /\ Head(l) = "start" =>
          /\ ~ client /\ plugin # "smtp"
          /\ Len(l) = 1 => plugin = "acng"
          /\ Len(l) # 1 => Head(Tail(l)) = "render" /\ Unwritten(Tail(l)) /\ Tail(l) # <<"restart">>
                           /\ Tail(l) # <<"record">>
    /\ Head(l) = "stop" => ~ client /\ plugin = "acng" /\ Len(l) = 1

LEMMA ClientShape ==
    ASSUME plugin \in {"syslog", "acng", "smtp"}, NEW l \in ClientCalls
    PROVE  Shape(l, TRUE) /\ (Len(l) # 1 => Tail(l) \in ClientCalls)
<1>. USE Tuples DEF Shape, Unwritten, DmnCall
<1>1. CASE l = <<"restart">>
  BY <1>1
<1>2. CASE l = <<"record">> /\ plugin = "smtp"
  BY <1>2
<1>3. CASE l = <<"put", "record">> /\ plugin = "smtp"
  BY <1>3 DEF ClientCalls
<1>4. CASE l = <<"render", "put", "record">> /\ plugin = "smtp"
  BY <1>4 DEF ClientCalls, Writing
<1>5. CASE l = <<"put", "restart">> /\ plugin # "smtp"
  BY <1>5 DEF ClientCalls
<1>6. CASE l = <<"render", "put", "restart">> /\ plugin # "smtp"
  BY <1>6 DEF ClientCalls, Writing
<1>. QED
  BY <1>1, <1>2, <1>3, <1>4, <1>5, <1>6 DEF ClientCalls, Writing

LEMMA SetupShape ==
    ASSUME plugin \in {"syslog", "acng", "smtp"}, NEW l \in SetupCalls
    PROVE  /\ Shape(l, FALSE) /\ (Len(l) # 1 => Tail(l) \in SetupCalls)
           /\ plugin = "acng" => <<l[Len(l)]>> \in {<<"start">>, <<"stop">>}
<1>. USE Tuples DEF Shape, Unwritten, DmnCall
<1>1. CASE plugin = "syslog"
  <2>1. CASE l = <<"restart">>
    BY <1>1, <2>1
  <2>2. CASE l = <<"put", "restart">>
    BY <1>1, <2>2 DEF SetupCalls
  <2>3. CASE l = <<"render", "put", "restart">>
    BY <1>1, <2>3 DEF SetupCalls, Writing
  <2>4. CASE l = <<"start", "render", "put", "restart">>
    BY <1>1, <2>4 DEF SetupCalls, Writing
  <2>5. CASE l = SyslogSetup
    BY <1>1, <2>5 DEF SetupCalls, SyslogSetup
  <2>. QED
    BY <1>1, <2>1, <2>2, <2>3, <2>4, <2>5 DEF SetupCalls, Writing
<1>2. CASE plugin = "acng"
  <2>1. ASSUME NEW x \in {"start", "stop"}, l = <<x>>
        PROVE  Shape(l, FALSE) /\ l[Len(l)] = x /\ Len(l) = 1
    BY <1>2, <2>1
  <2>2. ASSUME NEW x \in {"start", "stop"}, l = <<"put", x>>
        PROVE  Shape(l, FALSE) /\ l[Len(l)] = x /\ Tail(l) = <<x>>
    BY <1>2, <2>2
  <2>3. ASSUME NEW x \in {"start", "stop"}, l = <<"render", "put", x>>
        PROVE  Shape(l, FALSE) /\ l[Len(l)] = x /\ Tail(l) = <<"put", x>>
    BY <1>2, <2>3
  <2>4. PICK x \in {"start", "stop"} : l \in {<<x>>, <<"put", x>>, <<"render", "put", x>>}
    BY <1>2 DEF SetupCalls, Writing
  <2>5. {<<x>>, <<"put", x>>} \subseteq SetupCalls /\ <<x>> \in {<<"start">>, <<"stop">>}
    BY <1>2 DEF SetupCalls, Writing
  <2>6. CASE l = <<x>>
    BY <2>1, <2>5, <2>6
  <2>7. CASE l = <<"put", x>>
    BY <2>2, <2>5, <2>7
  <2>8. CASE l = <<"render", "put", x>>
    BY <2>3, <2>5, <2>8
  <2>. QED
    BY <2>4, <2>6, <2>7, <2>8
<1>3. CASE plugin = "smtp"
  <2>1. CASE l = <<"put">>
    BY <1>3, <2>1
  <2>2. CASE l = <<"render", "put">>
    BY <1>3, <2>2 DEF SetupCalls
  <2>. QED
    BY <1>3, <2>1, <2>2 DEF SetupCalls
<1>. QED
  BY <1>1, <1>2, <1>3

LEMMA CallsShape ==
    ASSUME DmnTyped, CallsLeft, NEW c \in AtWork
    PROVE  /\ Shape(work[c].calls, c # "boot")
           /\ Len(work[c].calls) # 1 =>
                 Tail(work[c].calls) \in IF c = "boot" THEN SetupCalls ELSE ClientCalls
           /\ work[c] \in DmnWork /\ c \in Thread \union {"boot"} /\ work[c] # None
           /\ Len(work[c].calls) >= 1
<1>1. work[c] \in DmnWork /\ c \in Thread \union {"boot"} /\ work[c] # None
  BY DEF DmnTyped, AtWork
<1>2. /\ Shape(work[c].calls, c # "boot")
      /\ Len(work[c].calls) # 1 =>
                 Tail(work[c].calls) \in IF c = "boot" THEN SetupCalls ELSE ClientCalls
  BY ClientShape, SetupShape DEF DmnTyped, CallsLeft
<1>3. Len(work[c].calls) >= 1
  BY <1>2 DEF Shape
<1>. QED
  BY <1>1, <1>2, <1>3

-----------------------------------------------------------------------------
(* Daemon: settings, and what a step does to the handlers. *)

LEMMA SettingsOver ==
    /\ << >> \in DmnSettings /\ DOMAIN << >> = {}
    /\ \A f \in DmnSettings, g \in DmnSettings : f @@ g \in DmnSettings
    /\ Patch \subseteq DmnSettings
    /\ \A f \in DmnSettings : DOMAIN f \in SUBSET Field
<1>1. << >> \in [{} -> SettingValue] /\ DOMAIN << >> = {}
  OBVIOUS
<1>2. << >> \in DmnSettings
  BY <1>1 DEF DmnSettings, Table
<1>3. ASSUME NEW f \in DmnSettings, NEW g \in DmnSettings PROVE f @@ g \in DmnSettings
  <2>1. PICK A \in SUBSET Field : f \in [A -> SettingValue]
    BY DEF DmnSettings, Table
  <2>2. PICK B \in SUBSET Field : g \in [B -> SettingValue]
    BY DEF DmnSettings, Table
  <2>3. f @@ g \in [(A \union B) -> SettingValue]
    BY <2>1, <2>2 DEF @@
  <2>. QED
    BY <2>3 DEF DmnSettings, Table
<1>4. ASSUME NEW f \in Field, NEW v \in SettingValue PROVE f :> v \in DmnSettings
  <2>1. f :> v \in [{f} -> SettingValue]
    BY DEF :>
  <2>. QED
    BY <2>1 DEF DmnSettings, Table
<1>5. \A f \in DmnSettings : DOMAIN f \in SUBSET Field
  BY DEF DmnSettings, Table
<1>. QED
  BY <1>1, <1>2, <1>3, <1>4, <1>5 DEF Patch

LEMMA RenderIs ==
    ASSUME DmnTyped, NEW s \in DmnSettings
    PROVE  Render(s) \in DmnSettings /\ Postconf(s) \in DmnSettings
  BY SettingsOver DEF DmnTyped, Render, RenderFluentBit, RenderAcng, Postconf

LEMMA EnterIs ==
    ASSUME DmnTyped, CallsLeft, NEW c \in Thread \union {"boot"}, work[c] = None,
           NEW l \in IF c = "boot" THEN SetupCalls ELSE ClientCalls,
           NEW new \in DmnSettings \union {None}, Enter(c, l, new)
    PROVE  /\ work' \in [Thread \union {"boot"} -> DmnWork \union {None}]
           /\ AtWork' = AtWork \union {c} /\ c \notin AtWork
           /\ work'[c].calls = l /\ work'[c].new = new /\ (work'[c].alone <=> AtWork = {})
           /\ work'[c].changed
           /\ \A b \in AtWork : /\ work'[b].calls = work[b].calls /\ work'[b].new = work[b].new
                                /\ work'[b].content = work[b].content /\ ~ work'[b].alone
<1>. DEFINE w(b) == IF b = c THEN Calls(l, new)
                    ELSE IF b \in AtWork THEN [work[b] EXCEPT !.alone = FALSE] ELSE work[b]
<1>1. work' = [b \in Thread \union {"boot"} |-> w(b)]
  BY DEF Enter, DmnTyped
<1>2. l \in Seq(DmnCall)
  BY ClientShape, SetupShape DEF Shape, DmnTyped
<1>3. Calls(l, new) \in DmnWork
  <2>1. (AtWork = {}) \in BOOLEAN
    OBVIOUS
  <2>. QED
    BY <1>2, <2>1 DEF Calls, DmnWork
<1>4. ASSUME NEW b \in AtWork
      PROVE  /\ [work[b] EXCEPT !.alone = FALSE] \in DmnWork
             /\ [work[b] EXCEPT !.alone = FALSE].calls = work[b].calls
             /\ [work[b] EXCEPT !.alone = FALSE].new = work[b].new
             /\ [work[b] EXCEPT !.alone = FALSE].content = work[b].content
             /\ [work[b] EXCEPT !.alone = FALSE].alone = FALSE
  BY CallsShape DEF DmnWork
<1>5. ASSUME NEW b \in Thread \union {"boot"} PROVE w(b) \in DmnWork \union {None}
  BY <1>3, <1>4 DEF DmnTyped
<1>6. None \notin DmnWork
  BY DaemonAssumption
<1>7. c \notin AtWork /\ DOMAIN work = Thread \union {"boot"}
  BY DEF AtWork, DmnTyped
<1>8. ASSUME NEW b \in Thread \union {"boot"} PROVE w(b) # None <=> b \in AtWork \union {c}
  BY <1>3, <1>4, <1>6, <1>7 DEF AtWork
<1>9. /\ Calls(l, new).calls = l /\ Calls(l, new).new = new /\ Calls(l, new).changed
      /\ Calls(l, new).alone <=> AtWork = {}
  BY DEF Calls
<1>10. /\ w(c) = Calls(l, new)
       /\ \A b \in AtWork : b \in Thread \union {"boot"} /\ w(b) = [work[b] EXCEPT !.alone = FALSE]
  BY <1>7 DEF AtWork
<1>. HIDE DEF w
<1>11. /\ work' \in [Thread \union {"boot"} -> DmnWork \union {None}]
       /\ \A b \in Thread \union {"boot"} : work'[b] = w(b)
  BY <1>1, <1>5
<1>12. AtWork' = AtWork \union {c}
  BY <1>7, <1>8, <1>11 DEF AtWork
<1>13. work'[c] = Calls(l, new)
  BY <1>10, <1>11
<1>14. \A b \in AtWork : work'[b] = [work[b] EXCEPT !.alone = FALSE]
  BY <1>10, <1>11
<1>15. /\ work'[c].calls = l /\ work'[c].new = new /\ (work'[c].alone <=> AtWork = {})
       /\ work'[c].changed
  BY <1>9, <1>13
<1>. QED
  BY <1>4, <1>7, <1>11, <1>12, <1>14, <1>15

\* A handler that makes its last call ends, another has that call less to do.
LEMMA ReturnsIs ==
    ASSUME DmnTyped, CallsLeft, NEW c \in AtWork, NEW r \in DmnWork,
           r.calls = work[c].calls, Returns(c, r)
    PROVE  /\ work' \in [Thread \union {"boot"} -> DmnWork \union {None}]
           /\ \A b \in AtWork \ {c} : work'[b] = work[b]
           /\ Ends(c) => AtWork' = AtWork \ {c} /\ dmnPhase' = IF c = "boot" THEN "up" ELSE dmnPhase
           /\ ~ Ends(c) => /\ AtWork' = AtWork /\ dmnPhase' = dmnPhase
                           /\ Len(work[c].calls) # 1
                           /\ work'[c].calls = Tail(work[c].calls) /\ work'[c].new = r.new
                           /\ work'[c].content = r.content /\ work'[c].changed = r.changed
                           /\ work'[c].alone = r.alone
<1>. DEFINE next == [r EXCEPT !.calls = Tail(@)]
            w == IF Ends(c) THEN None ELSE next
<1>1. /\ Shape(work[c].calls, c # "boot") /\ DOMAIN work = Thread \union {"boot"}
      /\ c \in Thread \union {"boot"}
  BY CallsShape DEF DmnTyped
<1>2. ~ Ends(c) => Len(work[c].calls) # 1
  BY DEF Ends
<1>3. ~ Ends(c) => Tail(r.calls) \in Seq(DmnCall)
  <2>1. r.calls \in Seq(DmnCall) /\ Len(r.calls) >= 1
    BY CallsShape DEF DmnWork
  <2>2. r.calls # << >>
    BY <2>1
  <2>. QED
    BY <2>1, <2>2, HeadTailProperties
<1>4. ~ Ends(c) => /\ next \in DmnWork /\ next.calls = Tail(work[c].calls) /\ next.new = r.new
                   /\ next.content = r.content /\ next.changed = r.changed /\ next.alone = r.alone
  BY <1>3 DEF DmnWork
<1>5. work' = [work EXCEPT ![c] = w]
  BY DEF Returns
<1>6. w \in DmnWork \union {None} /\ (w = None <=> Ends(c)) /\ (~ Ends(c) => w = next)
  BY <1>4, DaemonAssumption
<1>. HIDE DEF next, w
<1>7. /\ work' \in [Thread \union {"boot"} -> DmnWork \union {None}]
      /\ work'[c] = w /\ \A b \in (Thread \union {"boot"}) \ {c} : work'[b] = work[b]
  BY <1>1, <1>5, <1>6 DEF DmnTyped
<1>8. AtWork' = IF Ends(c) THEN AtWork \ {c} ELSE AtWork
  BY <1>1, <1>6, <1>7 DEF AtWork
<1>9. dmnPhase' = IF c = "boot" /\ Ends(c) THEN "up" ELSE dmnPhase
  BY DEF Returns
<1>10. \A b \in AtWork \ {c} : work'[b] = work[b]
  BY <1>1, <1>7 DEF AtWork
<1>. QED
  BY <1>2, <1>4, <1>6, <1>7, <1>8, <1>9, <1>10

LEMMA EnterKeeps ==
    ASSUME DmnInv, NEW c \in Thread \union {"boot"}, work[c] = None,
           NEW l \in IF c = "boot" THEN SetupCalls ELSE ClientCalls, Head(l) # "put",
           NEW new \in DmnSettings \union {None},
           new # None <=> plugin = "smtp" /\ c # "boot" /\ l # <<"restart">>,
           Enter(c, l, new), UNCHANGED <<dmnConfig, daemon, owed>>
    PROVE  /\ work' \in [Thread \union {"boot"} -> DmnWork \union {None}]
           /\ AtWork' = AtWork \union {c}
           /\ \A b \in AtWork' : work'[b].alone => b = c /\ AtWork = {} /\ AtWork' = {c}
           /\ work'[c].calls = l /\ work'[c].new = new /\ (AtWork = {} => work'[c].alone)
           /\ CallsLeft' /\ ContentIsCurrent' /\ ReadOrRestart'
<1>1. /\ work' \in [Thread \union {"boot"} -> DmnWork \union {None}]
      /\ AtWork' = AtWork \union {c} /\ c \notin AtWork
      /\ work'[c].calls = l /\ work'[c].new = new /\ (work'[c].alone <=> AtWork = {})
      /\ \A b \in AtWork : /\ work'[b].calls = work[b].calls /\ work'[b].new = work[b].new
                           /\ work'[b].content = work[b].content /\ ~ work'[b].alone
  BY EnterIs DEF DmnInv
<1>2. plugin' = plugin
  BY DEF dmnConfig
<1>3. CallsLeft'
  <2>1. SetupCalls' = SetupCalls /\ ClientCalls' = ClientCalls
    BY <1>2 DEF SetupCalls, ClientCalls
  <2>2. ASSUME NEW b \in AtWork'
        PROVE  /\ work'[b].calls \in IF b = "boot" THEN SetupCalls ELSE ClientCalls
               /\ work'[b].new # None <=> plugin = "smtp" /\ b # "boot" /\ work'[b].calls # <<"restart">>
               /\ Head(work'[b].calls) = "put" => work'[b].content # None
    <3>1. CASE b = c
      BY <1>1, <3>1
    <3>2. CASE b \in AtWork
      BY <1>1, <3>2 DEF DmnInv, CallsLeft
    <3>. QED
      BY <1>1, <3>1, <3>2
  <2>. QED
    BY <1>2, <2>1, <2>2 DEF CallsLeft
<1>4. \A b \in AtWork' : work'[b].alone => b = c /\ AtWork = {} /\ AtWork' = {c}
  BY <1>1
<1>5. ContentIsCurrent'
  BY <1>1, <1>4 DEF ContentIsCurrent
<1>6. ReadOrRestart'
  <2>1. /\ alive' = alive /\ owed' = owed /\ loaded' = loaded /\ ReadConf' = ReadConf
    BY <1>2 DEF daemon, ReadConf
  <2>. SUFFICES ASSUME alive, ~ owed, loaded # ReadConf
                PROVE  plugin # "smtp" /\ \E b \in AtWork' : ~ work'[b].alone
    BY <1>2, <2>1 DEF ReadOrRestart
  <2>2. plugin # "smtp" /\ \E b \in AtWork : TRUE
    BY DEF DmnInv, ReadOrRestart
  <2>. QED
    BY <1>1, <2>2
<1>. QED
  BY <1>1, <1>3, <1>4, <1>5, <1>6

LEMMA ReturnKeeps ==
    ASSUME DmnInv, NEW c \in AtWork, NEW r \in DmnWork, r.calls = work[c].calls,
           r.new = work[c].new, r.alone = work[c].alone,
           Head(work[c].calls) = "render" => r.content # None,
           Returns(c, r), UNCHANGED dmnConfig
    PROVE  /\ work' \in [Thread \union {"boot"} -> DmnWork \union {None}]
           /\ dmnPhase' \in {"starting", "up"}
           /\ \A b \in AtWork' : work'[b].alone =>
                 b = c /\ ~ Ends(c) /\ work[c].alone /\ AtWork = {c} /\ AtWork' = {c}
           /\ AtWork' = IF Ends(c) THEN AtWork \ {c} ELSE AtWork
           /\ ~ Ends(c) => /\ Len(work[c].calls) # 1
                           /\ work'[c].calls = Tail(work[c].calls) /\ work'[c].new = work[c].new
                           /\ work'[c].content = r.content /\ work'[c].changed = r.changed
                           /\ work'[c].alone = work[c].alone
                           /\ Head(work'[c].calls) = "put" => Head(work[c].calls) = "render"
           /\ CallsLeft' /\ WorkAlone'
<1>1. /\ work' \in [Thread \union {"boot"} -> DmnWork \union {None}]
      /\ \A b \in AtWork \ {c} : work'[b] = work[b]
      /\ Ends(c) => AtWork' = AtWork \ {c} /\ dmnPhase' = IF c = "boot" THEN "up" ELSE dmnPhase
      /\ ~ Ends(c) => /\ AtWork' = AtWork /\ dmnPhase' = dmnPhase
                      /\ Len(work[c].calls) # 1
                      /\ work'[c].calls = Tail(work[c].calls) /\ work'[c].new = work[c].new
                      /\ work'[c].content = r.content /\ work'[c].changed = r.changed
                      /\ work'[c].alone = work[c].alone
  BY ReturnsIs DEF DmnInv
<1>2. plugin' = plugin /\ dmnPhase \in {"starting", "up"}
  BY DEF dmnConfig, DmnInv, DmnTyped, WorkAlone
<1>3. /\ Shape(work[c].calls, c # "boot") /\ c \in Thread \union {"boot"}
      /\ Len(work[c].calls) # 1 =>
            Tail(work[c].calls) \in IF c = "boot" THEN SetupCalls ELSE ClientCalls
  BY CallsShape DEF DmnInv
<1>4. Len(work[c].calls) # 1 =>
         /\ Head(work[c].calls) \in {"render", "put", "include", "start"}
         /\ Head(Tail(work[c].calls)) = "put" => Head(work[c].calls) = "render"
         /\ plugin = "smtp" => Tail(work[c].calls) # <<"restart">>
  <2>. SUFFICES ASSUME Len(work[c].calls) # 1
                PROVE  /\ Head(work[c].calls) \in {"render", "put", "include", "start"}
                       /\ Head(Tail(work[c].calls)) = "put" => Head(work[c].calls) = "render"
                       /\ plugin = "smtp" => Tail(work[c].calls) # <<"restart">>
    OBVIOUS
  <2>1. Head(work[c].calls) \in {"render", "put", "include", "start"}
    BY <1>3 DEF Shape, DmnCall
  <2>2. CASE Head(work[c].calls) = "render"
    BY <1>3, <2>2 DEF Shape
  <2>3. CASE Head(work[c].calls) = "put"
    BY <1>3, <2>3 DEF Shape
  <2>4. CASE Head(work[c].calls) = "include"
    BY <1>3, <2>4 DEF Shape
  <2>5. CASE Head(work[c].calls) = "start"
    BY <1>3, <2>5 DEF Shape
  <2>. QED
    BY <2>1, <2>2, <2>3, <2>4, <2>5
<1>5. CallsLeft'
  <2>1. SetupCalls' = SetupCalls /\ ClientCalls' = ClientCalls
    BY <1>2 DEF SetupCalls, ClientCalls
  <2>2. ASSUME NEW b \in AtWork'
        PROVE  /\ work'[b].calls \in IF b = "boot" THEN SetupCalls ELSE ClientCalls
               /\ work'[b].new # None <=> plugin = "smtp" /\ b # "boot" /\ work'[b].calls # <<"restart">>
               /\ Head(work'[b].calls) = "put" => work'[b].content # None
    <3>1. CASE b = c
      <4>1. ~ Ends(c)
        BY <1>1, <3>1
      <4>2. work[c].new # None <=> plugin = "smtp" /\ c # "boot" /\ work[c].calls # <<"restart">>
        BY DEF DmnInv, CallsLeft
      <4>3. work[c].calls # <<"restart">>
        BY <1>1, <4>1
      <4>. QED
        BY <1>1, <1>3, <1>4, <3>1, <4>1, <4>2, <4>3
    <3>2. CASE b \in AtWork \ {c}
      BY <1>1, <3>2 DEF DmnInv, CallsLeft
    <3>. QED
      BY <1>1, <3>1, <3>2
  <2>. QED
    BY <1>2, <2>1, <2>2 DEF CallsLeft
<1>6. ASSUME NEW b \in AtWork', work'[b].alone
      PROVE  b = c /\ ~ Ends(c) /\ work[c].alone /\ AtWork = {c} /\ AtWork' = {c}
  <2>1. CASE b = c
    BY <1>1, <1>6, <2>1 DEF DmnInv, WorkAlone
  <2>2. CASE b \in AtWork \ {c}
    BY <1>1, <1>6, <2>2 DEF DmnInv, WorkAlone
  <2>. QED
    BY <1>1, <2>1, <2>2
<1>7. dmnPhase' \in {"starting", "up"}
  BY <1>1, <1>2
<1>8. WorkAlone'
  <2>1. dmnPhase = "starting" <=> "boot" \in AtWork
    BY DEF DmnInv, WorkAlone
  <2>2. dmnPhase = "starting" => work["boot"].alone /\ AtWork = {"boot"}
    BY DEF DmnInv, WorkAlone
  <2>3. dmnPhase' = "starting" <=> "boot" \in AtWork'
    BY <1>1, <1>2, <2>1, <2>2
  <2>4. dmnPhase' = "starting" => work'["boot"].alone
    BY <1>1, <2>1, <2>2, <2>3
  <2>. QED
    BY <1>6, <1>7, <2>3, <2>4 DEF WorkAlone
<1>. QED
  BY <1>1, <1>4, <1>5, <1>6, <1>7, <1>8

-----------------------------------------------------------------------------
(* Daemon: requests. *)

LEMMA ClientIs ==
    ASSUME DmnInv, NEW c \in Thread, DmnClient(c)
    PROVE  /\ dmnPhase = "up" /\ work[c] = None /\ c # "boot" /\ "boot" \notin AtWork
           /\ AtWork = {} /\ ~ spoilt => InConf(settings)
  BY DaemonAssumption DEF DmnClient, DmnInv, WorkAlone, ConfOrWriter

\* A client enters: who is alone then is that client, and found nobody.
LEMMA ClientEnters ==
    ASSUME DmnInv, NEW c \in Thread, DmnClient(c), NEW l \in ClientCalls, Head(l) # "put",
           NEW new \in DmnSettings \union {None},
           new # None <=> plugin = "smtp" /\ l # <<"restart">>,
           Enter(c, l, new), UNCHANGED <<dmnConfig, dmnPhase, daemon, dmnHistory>>,
           settings' \in DmnSettings, saved' \in DmnSettings \union {None},
           settings' = settings \/ (new = None /\ Unwritten(l)), l # <<"record">>
    PROVE  DmnInv'
<1>1. /\ dmnPhase = "up" /\ work[c] = None /\ c # "boot" /\ "boot" \notin AtWork
      /\ AtWork = {} /\ ~ spoilt => InConf(settings)
  BY ClientIs
<1>2. /\ work' \in [Thread \union {"boot"} -> DmnWork \union {None}]
      /\ AtWork' = AtWork \union {c}
      /\ \A b \in AtWork' : work'[b].alone => b = c /\ AtWork = {} /\ AtWork' = {c}
      /\ work'[c].calls = l /\ work'[c].new = new
      /\ CallsLeft' /\ ContentIsCurrent' /\ ReadOrRestart'
  BY <1>1, EnterKeeps DEF dmnHistory
<1>3. DmnTyped'
  BY <1>2 DEF DmnInv, DmnTyped, dmnConfig, daemon, dmnHistory
<1>4. WorkAlone'
  BY <1>1, <1>2 DEF WorkAlone
<1>5. ConfOrWriter'
  <2>. SUFFICES ASSUME ~ spoilt, NEW b \in AtWork', work'[b].alone
                PROVE  /\ work'[b].calls # <<"record">>
                       /\ InConf(settings)' \/ (work'[b].new = None /\ Unwritten(work'[b].calls))
    BY <1>2 DEF ConfOrWriter, dmnHistory
  <2>1. b = c /\ AtWork = {}
    BY <1>2
  <2>2. CASE settings' = settings
    <3>1. InConf(settings)
      BY <1>1, <2>1
    <3>2. daemonConf' = daemonConf
      BY DEF daemon
    <3>3. InConf(settings)'
      BY <2>2, <3>1, <3>2 DEF InConf
    <3>. QED
      BY <1>2, <2>1, <3>3
  <2>. QED
    BY <1>2, <2>1, <2>2
<1>. QED
  BY <1>2, <1>3, <1>4, <1>5 DEF DmnInv

LEMMA RequestsKeepDmnInv ==
    ASSUME DmnInv, NEW c \in Thread,
           \/ ReloadDaemon(c)
           \/ \E new \in Patch : UpdateSyslog(c, new) \/ UpdateAcng(c, new) \/ UpdateSmtp(c, new)
    PROVE  DmnInv'
<1>. DEFINE reload == <<"restart">>
            change == <<"render", "put", "restart">>
            set == <<"render", "put", "record">>
<1>1. /\ Head(reload) # "put" /\ Head(change) # "put" /\ Head(set) # "put"
      /\ reload # <<"record">> /\ change # <<"record">> /\ set # <<"record">>
      /\ change # <<"restart">> /\ set # <<"restart">> /\ Unwritten(change)
  BY Tuples DEF Unwritten
<1>2. /\ reload \in ClientCalls
      /\ plugin # "smtp" => change \in ClientCalls
      /\ plugin = "smtp" => set \in ClientCalls
  BY DEF ClientCalls, Writing
<1>3. reload = <<"restart">>
  OBVIOUS
<1>4. settings \in DmnSettings /\ saved \in DmnSettings \union {None}
  BY DEF DmnInv, DmnTyped
<1>5. CASE ReloadDaemon(c)
  <2>1. DmnClient(c) /\ Enter(c, reload, None)
        /\ UNCHANGED <<dmnConfig, dmnPhase, dmnMem, daemon, dmnHistory>>
    BY <1>5 DEF ReloadDaemon
  <2>. HIDE DEF reload
  <2>. QED
    BY <1>1, <1>2, <1>3, <1>4, <2>1, ClientEnters DEF dmnMem
<1>6. ASSUME NEW new \in Patch, UpdateSyslog(c, new) \/ UpdateAcng(c, new) PROVE DmnInv'
  <2>1. /\ DmnClient(c) /\ Enter(c, change, None) /\ plugin # "smtp"
        /\ settings' = new @@ settings /\ saved' = settings'
        /\ UNCHANGED <<dmnConfig, dmnPhase, daemon, dmnHistory>>
    BY <1>6 DEF UpdateSyslog, UpdateAcng, SaveFirst
  <2>2. settings' \in DmnSettings
    BY <1>4, <2>1, SettingsOver
  <2>. HIDE DEF change
  <2>. QED
    BY <1>1, <1>2, <2>1, <2>2, ClientEnters
<1>7. ASSUME NEW new \in Patch, UpdateSmtp(c, new) PROVE DmnInv'
  <2>1. /\ DmnClient(c) /\ Enter(c, set, new) /\ plugin = "smtp"
        /\ UNCHANGED <<dmnConfig, dmnPhase, dmnMem, daemon, dmnHistory>>
    BY <1>7 DEF UpdateSmtp
  <2>2. new \in DmnSettings /\ new # None
    BY SettingsOver, DaemonAssumption
  <2>. HIDE DEF set
  <2>. QED
    BY <1>1, <1>2, <1>4, <2>1, <2>2, ClientEnters DEF dmnMem
<1>. QED
  BY <1>5, <1>6, <1>7

-----------------------------------------------------------------------------
(* Daemon: calls. *)

LEMMA CallingIs ==
    ASSUME DmnInv, NEW c, NEW call, Calling(c, call)
    PROVE  /\ c \in AtWork /\ work[c] \in DmnWork /\ c \in Thread \union {"boot"}
           /\ Head(work[c].calls) = call /\ Shape(work[c].calls, c # "boot")
           /\ dmnPhase # "down" /\ plugin \in {"syslog", "acng", "smtp"}
           /\ (work[c].new # None <=>
                  plugin = "smtp" /\ c # "boot" /\ work[c].calls # <<"restart">>)
           /\ (call = "put" => work[c].content \in DmnSettings)
           /\ (c = "boot" => work[c].alone)
  BY CallsShape DEF Calling, DmnInv, WorkAlone, DmnTyped, CallsLeft, DmnWork

LEMMA RenderKeepsDmnInv == ASSUME DmnInv, NEW c, RenderConfig(c) PROVE DmnInv'
<1>1. /\ c \in AtWork /\ work[c] \in DmnWork /\ Head(work[c].calls) = "render"
      /\ Shape(work[c].calls, c # "boot") /\ dmnPhase # "down"
  BY CallingIs DEF RenderConfig
<1>2. ~ Ends(c) /\ Head(Tail(work[c].calls)) = "put" /\ Unwritten(Tail(work[c].calls))
      /\ Tail(work[c].calls) # <<"restart">> /\ Tail(work[c].calls) # <<"record">>
  BY <1>1 DEF Shape, Ends
<1>3. PICK s : s = IF work[c].new = None THEN settings ELSE work[c].new
  OBVIOUS
<1>4. s \in DmnSettings
  BY <1>1, <1>3 DEF DmnInv, DmnTyped, DmnWork
<1>5. PICK text : text = Render(s)
  OBVIOUS
<1>6. text \in DmnSettings /\ text # None
  BY <1>4, <1>5, RenderIs, DaemonAssumption DEF DmnInv
<1>7. PICK r : r = [work[c] EXCEPT !.content = text, !.changed = (text # daemonConf)]
  OBVIOUS
<1>8. /\ r \in DmnWork /\ r.calls = work[c].calls /\ r.new = work[c].new
      /\ r.alone = work[c].alone /\ r.content = text /\ r.changed = (text # daemonConf)
  BY <1>1, <1>6, <1>7 DEF DmnWork
<1>9. Returns(c, r) /\ UNCHANGED <<dmnConfig, dmnMem, daemon, dmnHistory>>
  BY <1>3, <1>5, <1>7 DEF RenderConfig
<1>10. /\ work' \in [Thread \union {"boot"} -> DmnWork \union {None}]
       /\ dmnPhase' \in {"starting", "up"}
       /\ \A b \in AtWork' : work'[b].alone => b = c /\ work[c].alone /\ AtWork = {c}
       /\ AtWork' = AtWork
       /\ work'[c].calls = Tail(work[c].calls) /\ work'[c].new = work[c].new
       /\ work'[c].content = r.content /\ work'[c].changed = r.changed
       /\ work'[c].alone = work[c].alone
       /\ CallsLeft' /\ WorkAlone'
  BY <1>1, <1>2, <1>6, <1>8, <1>9, ReturnKeeps
<1>11. DmnTyped'
  BY <1>9, <1>10 DEF DmnInv, DmnTyped, dmnConfig, dmnMem, daemon, dmnHistory
<1>12. ContentIsCurrent'
  <2>1. plugin' = plugin /\ daemonConf' = daemonConf /\ settings' = settings
    BY <1>9 DEF dmnConfig, daemon, dmnMem
  <2>2. ASSUME NEW b \in AtWork', work'[b].alone
        PROVE  /\ work'[b].content = text /\ work'[b].changed = (text # daemonConf)
               /\ s = IF work'[b].new = None THEN settings ELSE work'[b].new
    BY <1>3, <1>8, <1>10, <2>2
  <2>3. text = CASE plugin = "syslog" -> s
                 [] plugin = "acng" -> IF daemonConf = None THEN s ELSE s @@ daemonConf
                 [] plugin = "smtp" -> IF daemonConf = None THEN s ELSE s @@ daemonConf
    BY <1>5 DEF Render, RenderFluentBit, RenderAcng, Postconf
  <2>. QED
    BY <2>1, <2>2, <2>3 DEF ContentIsCurrent, Render, RenderFluentBit, RenderAcng, Postconf
<1>13. ConfOrWriter'
  <2>. SUFFICES ASSUME ~ spoilt, NEW b \in AtWork', work'[b].alone
                PROVE  /\ work'[b].calls # <<"record">>
                       /\ InConf(settings)' \/ (work'[b].new = None /\ Unwritten(work'[b].calls))
    BY <1>1, <1>9, <1>10 DEF ConfOrWriter, dmnHistory
  <2>1. b = c /\ work[c].alone
    BY <1>10
  <2>2. work[c].calls # <<"record">>
    BY <1>1, Tuples
  <2>3. InConf(settings) \/ work[c].new = None
    BY <1>1, <2>1, <2>2 DEF DmnInv, ConfOrWriter
  <2>4. InConf(settings) => InConf(settings)'
    BY <1>9 DEF InConf, dmnMem, daemon
  <2>. QED
    BY <1>2, <1>10, <2>1, <2>3, <2>4
<1>14. ReadOrRestart'
  <2>1. /\ alive' = alive /\ owed' = owed /\ loaded' = loaded /\ ReadConf' = ReadConf
        /\ plugin' = plugin
    BY <1>9 DEF daemon, ReadConf, dmnConfig, dmnHistory
  <2>. SUFFICES ASSUME alive, ~ owed, loaded # ReadConf
                PROVE  plugin # "smtp" /\ \E b \in AtWork' : ~ work'[b].alone
    BY <2>1 DEF ReadOrRestart
  <2>2. plugin # "smtp"
    BY DEF DmnInv, ReadOrRestart
  <2>3. PICK b \in AtWork :
           ~ work[b].alone \/ (work[b].alone /\ work[b].calls = <<"restart">>)
    BY DEF DmnInv, ReadOrRestart
  <2>4. ~ work[b].alone
    <3>1. work[c].calls # <<"restart">>
      BY <1>1, Tuples
    <3>2. work[b].alone => b = c
      BY <1>1 DEF DmnInv, WorkAlone
    <3>. QED
      BY <2>3, <3>1, <3>2
  <2>5. ~ work[c].alone
    BY <1>1, <2>4 DEF DmnInv, WorkAlone
  <2>. QED
    BY <1>1, <1>10, <2>2, <2>5
<1>. QED
  BY <1>10, <1>11, <1>12, <1>13, <1>14 DEF DmnInv

LEMMA PutKeepsDmnInv == ASSUME DmnInv, NEW c, PutFile(c) PROVE DmnInv'
<1>1. /\ c \in AtWork /\ work[c] \in DmnWork /\ Head(work[c].calls) = "put"
      /\ Shape(work[c].calls, c # "boot") /\ dmnPhase # "down"
      /\ plugin \in {"syslog", "acng", "smtp"} /\ work[c].content \in DmnSettings
      /\ (work[c].new # None <=> plugin = "smtp" /\ c # "boot" /\ work[c].calls # <<"restart">>)
      /\ (c = "boot" => work[c].alone)
  BY CallingIs DEF PutFile
<1>2. work[c].calls # <<"restart">> /\ work[c].calls # <<"record">>
  BY <1>1, Tuples
<1>3. /\ Ends(c) <=> plugin = "smtp" /\ c = "boot"
      /\ ~ Ends(c) => /\ Tail(work[c].calls) = <<"record">> <=> plugin = "smtp"
                      /\ Tail(work[c].calls) = <<"restart">> <=>
                            plugin = "syslog" \/ (plugin = "acng" /\ c # "boot")
  BY <1>1 DEF Shape, Ends
<1>4. /\ work' \in [Thread \union {"boot"} -> DmnWork \union {None}]
      /\ dmnPhase' \in {"starting", "up"}
      /\ \A b \in AtWork' : work'[b].alone => b = c /\ ~ Ends(c) /\ work[c].alone /\ AtWork = {c}
      /\ AtWork' = IF Ends(c) THEN AtWork \ {c} ELSE AtWork
      /\ ~ Ends(c) => /\ work'[c].calls = Tail(work[c].calls) /\ work'[c].new = work[c].new
                      /\ work'[c].changed = work[c].changed /\ work'[c].alone = work[c].alone
                      /\ Head(work'[c].calls) # "put"
      /\ CallsLeft' /\ WorkAlone'
  <2>1. Returns(c, work[c]) /\ UNCHANGED dmnConfig /\ Head(work[c].calls) # "render"
    BY <1>1 DEF PutFile
  <2>2. Head(work[c].calls) # "render" => ~ (~ Ends(c) /\ Head(work'[c].calls) = "put")
    BY <1>1, <2>1, ReturnKeeps
  <2>. QED
    BY <1>1, <2>1, <2>2, ReturnKeeps
<1>5. /\ UNCHANGED <<plugin, osBoot, settings, saved, included, alive, loaded>>
      /\ daemonConf' = IF plugin = "smtp" THEN Postconf(work[c].content) ELSE work[c].content
      /\ spoilt' = IF work[c].alone /\ (plugin # "smtp" \/ c = "boot") THEN FALSE
                   ELSE spoilt \/ Beside(c)
      /\ owed' = (owed \/ (/\ daemonConf' # daemonConf
                           /\ plugin = "smtp" \/ (plugin = "acng" /\ c = "boot")))
  BY DEF PutFile, dmnConfig, dmnMem
<1>6. daemonConf' \in DmnSettings /\ daemonConf' # None
  BY <1>1, <1>5, RenderIs, DaemonAssumption DEF DmnInv
<1>7. DmnTyped'
  <2>1. spoilt' \in BOOLEAN /\ owed' \in BOOLEAN
    BY <1>5 DEF DmnInv, DmnTyped, Beside
  <2>. QED
    BY <1>4, <1>5, <1>6, <2>1 DEF DmnInv, DmnTyped
<1>8. ContentIsCurrent'
  BY <1>4 DEF ContentIsCurrent
<1>9. work[c].alone => work[c].content = Render(IF work[c].new = None THEN settings ELSE work[c].new)
                       /\ work[c].changed = (work[c].content # daemonConf)
  BY <1>1 DEF DmnInv, ContentIsCurrent
<1>10. ConfOrWriter'
  <2>1. settings \in DmnSettings /\ daemonConf \in DmnSettings \union {None}
    BY DEF DmnInv, DmnTyped
  <2>2. CASE ~ work[c].alone
    <3>1. Ends(c) => spoilt'
      BY <1>5, <2>2 DEF Beside
    <3>. QED
      BY <1>1, <1>4, <2>2, <3>1 DEF ConfOrWriter
  <2>3. CASE work[c].alone /\ (plugin # "smtp" \/ c = "boot")
    <3>1. work[c].content = Render(settings)
      BY <1>1, <1>9, <2>3
    <3>2. \A f \in DOMAIN settings : f \in DOMAIN work[c].content /\ work[c].content[f] = settings[f]
      <4>1. work[c].content = settings
            \/ work[c].content = settings @@ daemonConf
        BY <1>1, <3>1 DEF Render, RenderFluentBit, RenderAcng, Postconf
      <4>2. CASE work[c].content = settings
        BY <4>2
      <4>3. CASE work[c].content = settings @@ daemonConf
        BY <4>3 DEF @@
      <4>. QED
        BY <4>1, <4>2, <4>3
    <3>3. \A f \in DOMAIN settings : f \in DOMAIN daemonConf' /\ daemonConf'[f] = settings[f]
      <4>1. CASE plugin # "smtp"
        BY <1>5, <3>2, <4>1
      <4>2. CASE plugin = "smtp"
        <5>1. daemonConf' = IF daemonConf = None THEN work[c].content
                                                 ELSE work[c].content @@ daemonConf
          BY <1>5, <4>2 DEF Postconf
        <5>2. CASE daemonConf = None
          BY <3>2, <5>1, <5>2
        <5>3. CASE daemonConf # None
          <6>1. daemonConf \in DmnSettings
            BY <2>1, <5>3
          <6>2. \A f \in DOMAIN work[c].content :
                   /\ f \in DOMAIN (work[c].content @@ daemonConf)
                   /\ (work[c].content @@ daemonConf)[f] = work[c].content[f]
            BY DEF @@
          <6>. QED
            BY <3>2, <5>1, <5>3, <6>2
        <5>. QED
          BY <5>2, <5>3
      <4>. QED
        BY <4>1, <4>2
    <3>4. InConf(settings)'
      BY <1>5, <1>6, <3>3 DEF InConf
    <3>. QED
      BY <1>3, <1>4, <2>3, <3>4 DEF ConfOrWriter
  <2>4. CASE work[c].alone /\ plugin = "smtp" /\ c # "boot"
    <3>. PICK both : both = work[c].new @@ settings
      OBVIOUS
    <3>. SUFFICES ASSUME ~ spoilt
                  PROVE  \A f \in DOMAIN both : f \in DOMAIN daemonConf' /\ daemonConf'[f] = both[f]
      <4>1. work'[c].new = work[c].new /\ settings' = settings /\ work'[c].calls = <<"record">>
        BY <1>3, <1>4, <1>5, <2>4
      <4>2. AtWork' = AtWork /\ AtWork # {} /\ (~ spoilt <=> ~ spoilt')
        BY <1>1, <1>3, <1>4, <1>5, <2>4 DEF Beside
      <4>. QED
        BY <1>4, <1>6, <4>1, <4>2 DEF ConfOrWriter, InConf
    <3>1. InConf(settings) /\ work[c].new # None /\ work[c].new \in DmnSettings
      BY <1>1, <1>2, <2>4 DEF DmnInv, ConfOrWriter, DmnWork
    <3>2. work[c].content = Postconf(work[c].new)
      BY <1>9, <2>4, <3>1 DEF Render
    <3>. DEFINE new == work[c].new
    <3>3. ASSUME NEW f \in DOMAIN both PROVE f \in DOMAIN daemonConf' /\ daemonConf'[f] = both[f]
      <4>1. CASE daemonConf = None
        <5>1. daemonConf' = new
          BY <1>5, <2>4, <3>2, <4>1 DEF Postconf
        <5>2. settings = << >>
          BY <3>1, <4>1 DEF InConf
        <5>3. DOMAIN settings = {}
          BY <5>2, SettingsOver
        <5>. QED
          BY <5>1, <5>3 DEF @@
      <4>2. CASE daemonConf # None
        <5>1. daemonConf \in DmnSettings
          BY <2>1, <4>2
        <5>2. PICK text : text = new @@ daemonConf
          OBVIOUS
        <5>3. text = work[c].content /\ daemonConf' = text @@ daemonConf
          BY <1>5, <2>4, <3>2, <4>2, <5>2 DEF Postconf
        <5>4. text \in DmnSettings
          BY <1>1, <5>3
        <5>5. \A x \in DOMAIN new : x \in DOMAIN text /\ text[x] = new[x]
          BY <5>2 DEF @@
        <5>6. \A x \in DOMAIN daemonConf :
                 x \notin DOMAIN new => x \in DOMAIN text /\ text[x] = daemonConf[x]
          BY <5>2 DEF @@
        <5>7. \A x \in DOMAIN text : x \in DOMAIN daemonConf' /\ daemonConf'[x] = text[x]
          BY <5>3 DEF @@
        <5>8. CASE f \in DOMAIN new
          BY <5>5, <5>7, <5>8 DEF @@
        <5>9. CASE f \in DOMAIN settings \ DOMAIN new
          <6>1. settings # << >>
            BY <5>9, SettingsOver
          <6>2. f \in DOMAIN daemonConf /\ daemonConf[f] = settings[f]
            BY <3>1, <5>9, <6>1 DEF InConf
          <6>3. both[f] = settings[f]
            BY <5>9 DEF @@
          <6>. QED
            BY <5>6, <5>7, <5>9, <6>2, <6>3
        <5>10. DOMAIN both = DOMAIN new \union DOMAIN settings
          BY DEF @@
        <5>. QED
          BY <5>8, <5>9, <5>10
      <4>. QED
        BY <4>1, <4>2
    <3>. QED
      BY <3>3
  <2>. QED
    BY <2>2, <2>3, <2>4
<1>11. ReadOrRestart'
  <2>. SUFFICES ASSUME alive, ~ owed', loaded # ReadConf'
                PROVE  /\ plugin # "smtp"
                       /\ \E b \in AtWork' :
                             \/ ~ work'[b].alone
                             \/ work'[b].calls = <<"restart">> /\ (plugin = "syslog" => work'[b].changed)
    BY <1>5 DEF ReadOrRestart
  <2>1. ~ owed
    BY <1>5
  <2>2. CASE daemonConf' = daemonConf
    <3>1. loaded # ReadConf
      BY <1>5, <2>2 DEF ReadConf
    <3>2. /\ plugin # "smtp"
          /\ \E b \in AtWork : ~ work[b].alone \/ work[b].calls = <<"restart">>
      BY <2>1, <3>1 DEF DmnInv, ReadOrRestart
    <3>3. ~ work[c].alone
      BY <1>1, <1>2, <3>2 DEF DmnInv, WorkAlone
    <3>. QED
      BY <1>1, <1>3, <1>4, <3>2, <3>3
  <2>3. CASE daemonConf' # daemonConf
    <3>1. plugin # "smtp" /\ (plugin = "syslog" \/ c # "boot")
      BY <1>1, <1>5, <2>3
    <3>2. ~ Ends(c) /\ c \in AtWork' /\ work'[c].calls = <<"restart">>
      BY <1>1, <1>3, <1>4, <3>1
    <3>3. daemonConf' = work[c].content
      BY <1>5, <3>1
    <3>4. work[c].alone => work[c].changed
      BY <1>9, <2>3, <3>3
    <3>5. work'[c].alone = work[c].alone /\ work'[c].changed = work[c].changed
      BY <1>4, <3>2
    <3>. QED
      BY <3>1, <3>2, <3>4, <3>5
  <2>. QED
    BY <2>2, <2>3
<1>. QED
  BY <1>4, <1>7, <1>8, <1>10, <1>11 DEF DmnInv

\* A call that is the last and leaves the file and the settings as they are.
LEMMA LastCallKeeps ==
    ASSUME DmnInv, NEW c \in AtWork, Ends(c), Head(work[c].calls) \notin {"render", "put", "record"},
           Returns(c, work[c]), UNCHANGED <<dmnConfig, dmnMem, daemonConf, included>>,
           spoilt' = (spoilt \/ Beside(c))
    PROVE  /\ work' \in [Thread \union {"boot"} -> DmnWork \union {None}]
           /\ dmnPhase' \in {"starting", "up"}
           /\ CallsLeft' /\ WorkAlone' /\ ContentIsCurrent' /\ ConfOrWriter'
<1>1. /\ work[c] \in DmnWork /\ Shape(work[c].calls, c # "boot") /\ c \in Thread \union {"boot"}
  BY CallsShape DEF DmnInv
<1>2. /\ work' \in [Thread \union {"boot"} -> DmnWork \union {None}]
      /\ dmnPhase' \in {"starting", "up"}
      /\ \A b \in AtWork' : ~ work'[b].alone
      /\ AtWork' = AtWork \ {c}
      /\ CallsLeft' /\ WorkAlone'
  BY <1>1, ReturnKeeps
<1>3. ContentIsCurrent'
  BY <1>2 DEF ContentIsCurrent
<1>4. ConfOrWriter'
  <2>. SUFFICES ASSUME AtWork' = {}, ~ spoilt, work[c].alone PROVE InConf(settings)'
    BY <1>2 DEF ConfOrWriter, Beside
  <2>1. work[c].calls # <<"record">>
    BY Tuples
  <2>2. ~ Unwritten(work[c].calls)
    BY DEF Unwritten, Ends
  <2>3. InConf(settings)
    BY <2>1, <2>2 DEF DmnInv, WorkAlone, ConfOrWriter
  <2>. QED
    BY <2>3 DEF InConf, dmnMem
<1>. QED
  BY <1>2, <1>3, <1>4

LEMMA RestartKeepsDmnInv == ASSUME DmnInv, NEW c, RestartDaemon(c) PROVE DmnInv'
<1>1. /\ c \in AtWork /\ Head(work[c].calls) = "restart" /\ Shape(work[c].calls, c # "boot")
  BY CallingIs DEF RestartDaemon
<1>2. Ends(c) /\ work[c].calls = <<"restart">>
  BY <1>1 DEF Shape, Ends
<1>3. /\ work' \in [Thread \union {"boot"} -> DmnWork \union {None}]
      /\ dmnPhase' \in {"starting", "up"}
      /\ CallsLeft' /\ WorkAlone' /\ ContentIsCurrent' /\ ConfOrWriter'
  BY <1>1, <1>2, LastCallKeeps DEF RestartDaemon
<1>4. UNCHANGED <<plugin, osBoot, settings, saved, daemonConf, included>>
  BY DEF RestartDaemon, dmnConfig, dmnMem
<1>5. DmnTyped'
  BY <1>3, <1>4 DEF RestartDaemon, DmnInv, DmnTyped, Beside
<1>6. ReadOrRestart'
  <2>. SUFFICES ASSUME alive', ~ owed' PROVE loaded' = ReadConf'
    BY DEF ReadOrRestart
  <2>1. ReadConf' = ReadConf
    BY <1>4 DEF ReadConf
  <2>2. CASE plugin = "syslog" /\ ~ work[c].changed
    <3>1. /\ alive /\ loaded' = loaded /\ ~ owed /\ work[c].alone
      BY <1>2, <2>2 DEF RestartDaemon, Beside
    <3>2. \A b \in AtWork : b = c
      BY <1>1, <3>1 DEF DmnInv, WorkAlone
    <3>3. loaded = ReadConf
      BY <2>2, <3>1, <3>2 DEF DmnInv, ReadOrRestart
    <3>. QED
      BY <2>1, <3>1, <3>3
  <2>3. CASE ~ (plugin = "syslog" /\ ~ work[c].changed)
    BY <2>1, <2>3 DEF RestartDaemon
  <2>. QED
    BY <2>2, <2>3
<1>. QED
  BY <1>3, <1>5, <1>6 DEF DmnInv

LEMMA RecordKeepsDmnInv == ASSUME DmnInv, NEW c, RecordSettings(c) PROVE DmnInv'
<1>1. /\ c \in AtWork /\ Head(work[c].calls) = "record" /\ Shape(work[c].calls, c # "boot")
      /\ work[c] \in DmnWork
      /\ (work[c].new # None <=> plugin = "smtp" /\ c # "boot" /\ work[c].calls # <<"restart">>)
  BY CallingIs DEF RecordSettings
<1>2. Ends(c) /\ work[c].calls = <<"record">> /\ plugin = "smtp" /\ c # "boot"
  BY <1>1 DEF Shape, Ends
<1>3. work[c].new \in DmnSettings
  <2>1. work[c].calls # <<"restart">>
    BY <1>1, Tuples
  <2>. QED
    BY <1>1, <1>2, <2>1 DEF DmnWork
<1>4. /\ settings' = work[c].new @@ settings /\ saved' = settings' /\ Returns(c, work[c])
      /\ spoilt' = (spoilt \/ Beside(c))
      /\ UNCHANGED <<plugin, osBoot, daemonConf, included, alive, loaded, owed>>
  BY DEF RecordSettings, dmnConfig, daemon
<1>5. /\ work' \in [Thread \union {"boot"} -> DmnWork \union {None}]
      /\ dmnPhase' \in {"starting", "up"}
      /\ \A b \in AtWork' : ~ work'[b].alone
      /\ CallsLeft' /\ WorkAlone'
  BY <1>1, <1>2, <1>4, ReturnKeeps DEF dmnConfig
<1>6. settings' \in DmnSettings
  BY <1>3, <1>4, SettingsOver DEF DmnInv, DmnTyped
<1>7. DmnTyped'
  BY <1>4, <1>5, <1>6 DEF DmnInv, DmnTyped, Beside
<1>8. ContentIsCurrent'
  BY <1>5 DEF ContentIsCurrent
<1>9. ConfOrWriter'
  <2>. SUFFICES ASSUME ~ spoilt, work[c].alone PROVE InConf(settings)'
    BY <1>2, <1>4, <1>5 DEF ConfOrWriter, Beside
  <2>1. InConf(work[c].new @@ settings)
    BY <1>1, <1>2 DEF DmnInv, WorkAlone, ConfOrWriter
  <2>2. PICK s : s = work[c].new @@ settings
    OBVIOUS
  <2>. QED
    BY <1>4, <2>1, <2>2 DEF InConf
<1>10. ReadOrRestart'
  BY <1>2, <1>4 DEF DmnInv, ReadOrRestart, ReadConf
<1>. QED
  BY <1>5, <1>7, <1>8, <1>9, <1>10 DEF DmnInv

\* setup() is alone, so that one who is to restart the daemon is setup().
LEMMA BootIsAlone ==
    ASSUME DmnInv, "boot" \in AtWork
    PROVE  work["boot"].alone /\ AtWork = {"boot"}
  BY DEF DmnInv, WorkAlone

LEMMA IncludeKeepsDmnInv == ASSUME DmnInv, NEW c, IncludeConf(c) PROVE DmnInv'
<1>1. /\ c \in AtWork /\ Head(work[c].calls) = "include" /\ Shape(work[c].calls, c # "boot")
      /\ work[c] \in DmnWork
      /\ (work[c].new # None <=> plugin = "smtp" /\ c # "boot" /\ work[c].calls # <<"restart">>)
  BY CallingIs DEF IncludeConf
<1>2. /\ ~ Ends(c) /\ c = "boot" /\ plugin = "syslog"
      /\ Unwritten(Tail(work[c].calls)) /\ Tail(work[c].calls) # <<"record">>
  BY <1>1 DEF Shape, Ends
<1>3. work[c].alone /\ AtWork = {c}
  BY <1>1, <1>2, BootIsAlone
<1>4. /\ Returns(c, work[c]) /\ included' \in {included, TRUE}
      /\ owed' = (owed \/ included' # included)
      /\ UNCHANGED <<plugin, osBoot, settings, saved, daemonConf, alive, loaded, spoilt>>
  BY DEF IncludeConf, dmnConfig, dmnMem
<1>5. /\ work' \in [Thread \union {"boot"} -> DmnWork \union {None}]
      /\ dmnPhase' \in {"starting", "up"}
      /\ AtWork' = {c} /\ work'[c].calls = Tail(work[c].calls) /\ work'[c].new = None
      /\ Head(work'[c].calls) # "put"
      /\ CallsLeft' /\ WorkAlone'
  BY <1>1, <1>2, <1>3, <1>4, ReturnKeeps DEF dmnConfig
<1>6. DmnTyped'
  BY <1>4, <1>5 DEF DmnInv, DmnTyped
<1>7. ContentIsCurrent'
  BY <1>5 DEF ContentIsCurrent
<1>8. ConfOrWriter'
  BY <1>2, <1>5 DEF ConfOrWriter
<1>9. ReadOrRestart'
  <2>. SUFFICES ASSUME alive, ~ owed, included' = included PROVE loaded = ReadConf'
    BY <1>4 DEF ReadOrRestart
  <2>1. work[c].calls # <<"restart">>
    BY <1>1, Tuples
  <2>2. loaded = ReadConf
    BY <1>3, <2>1 DEF DmnInv, ReadOrRestart
  <2>. QED
    BY <1>4, <2>2 DEF ReadConf
<1>. QED
  BY <1>5, <1>6, <1>7, <1>8, <1>9 DEF DmnInv

LEMMA StartKeepsDmnInv == ASSUME DmnInv, NEW c, StartDaemon(c) PROVE DmnInv'
<1>1. /\ c \in AtWork /\ Head(work[c].calls) = "start" /\ Shape(work[c].calls, c # "boot")
      /\ work[c] \in DmnWork
      /\ (work[c].new # None <=> plugin = "smtp" /\ c # "boot" /\ work[c].calls # <<"restart">>)
  BY CallingIs DEF StartDaemon
<1>2. /\ c = "boot" /\ plugin # "smtp"
      /\ ~ Ends(c) => /\ Unwritten(Tail(work[c].calls)) /\ Tail(work[c].calls) # <<"record">>
                      /\ Head(Tail(work[c].calls)) # "put"
  BY <1>1 DEF Shape, Ends
<1>3. work[c].alone /\ AtWork = {c}
  BY <1>1, <1>2, BootIsAlone
<1>4. /\ Returns(c, work[c])
      /\ \/ ~ alive /\ alive' = TRUE /\ loaded' = ReadConf /\ owed' = FALSE
         \/ UNCHANGED <<alive, loaded, owed>>
      /\ UNCHANGED <<plugin, osBoot, settings, saved, daemonConf, included, spoilt>>
  BY DEF StartDaemon, dmnConfig, dmnMem
<1>5. /\ work' \in [Thread \union {"boot"} -> DmnWork \union {None}]
      /\ dmnPhase' \in {"starting", "up"}
      /\ CallsLeft' /\ WorkAlone' /\ ContentIsCurrent' /\ ConfOrWriter'
  <2>1. CASE Ends(c)
    <3>1. spoilt' = (spoilt \/ Beside(c))
      BY <1>3, <1>4 DEF Beside, DmnInv, DmnTyped
    <3>. QED
      BY <1>1, <1>4, <2>1, <3>1, LastCallKeeps DEF dmnConfig, dmnMem
  <2>2. CASE ~ Ends(c)
    <3>1. /\ work' \in [Thread \union {"boot"} -> DmnWork \union {None}]
          /\ dmnPhase' \in {"starting", "up"}
          /\ AtWork' = {c} /\ work'[c].calls = Tail(work[c].calls) /\ work'[c].new = None
          /\ Head(work'[c].calls) # "put"
          /\ CallsLeft' /\ WorkAlone'
      BY <1>1, <1>2, <1>3, <1>4, <2>2, ReturnKeeps DEF dmnConfig
    <3>2. ContentIsCurrent'
      BY <3>1 DEF ContentIsCurrent
    <3>3. ConfOrWriter'
      BY <1>2, <2>2, <3>1 DEF ConfOrWriter
    <3>. QED
      BY <3>1, <3>2, <3>3
  <2>. QED
    BY <2>1, <2>2
<1>6. DmnTyped'
  BY <1>4, <1>5 DEF DmnInv, DmnTyped
<1>7. ReadOrRestart'
  <2>1. ReadConf' = ReadConf
    BY <1>4 DEF ReadConf
  <2>2. work[c].calls # <<"restart">>
    BY <1>1, Tuples
  <2>3. alive /\ ~ owed => loaded = ReadConf
    BY <1>3, <2>2 DEF DmnInv, ReadOrRestart
  <2>4. CASE loaded' = ReadConf
    BY <2>1, <2>4 DEF ReadOrRestart
  <2>5. CASE UNCHANGED <<alive, loaded, owed>>
    BY <2>1, <2>3, <2>5 DEF ReadOrRestart
  <2>. QED
    BY <1>4, <2>4, <2>5
<1>. QED
  BY <1>5, <1>6, <1>7 DEF DmnInv

LEMMA StopDaemonKeepsDmnInv == ASSUME DmnInv, NEW c, StopDaemon(c) PROVE DmnInv'
<1>1. /\ c \in AtWork /\ Head(work[c].calls) = "stop" /\ Shape(work[c].calls, c # "boot")
  BY CallingIs DEF StopDaemon
<1>2. c = "boot" /\ Ends(c)
  BY <1>1 DEF Shape, Ends
<1>3. spoilt' = (spoilt \/ Beside(c))
  BY <1>1, <1>2, BootIsAlone DEF StopDaemon, dmnHistory, Beside, DmnInv, DmnTyped
<1>4. /\ work' \in [Thread \union {"boot"} -> DmnWork \union {None}]
      /\ dmnPhase' \in {"starting", "up"}
      /\ CallsLeft' /\ WorkAlone' /\ ContentIsCurrent' /\ ConfOrWriter'
  BY <1>1, <1>2, <1>3, LastCallKeeps DEF StopDaemon
<1>5. DmnTyped'
  BY <1>4 DEF StopDaemon, DmnInv, DmnTyped, dmnConfig, dmnMem, dmnHistory
<1>6. ReadOrRestart'
  BY DEF StopDaemon, ReadOrRestart
<1>. QED
  BY <1>4, <1>5, <1>6 DEF DmnInv

LEMMA FailureKeepsDmnInv == ASSUME DmnInv, NEW c, CallFailed(c) PROVE DmnInv'
<1>1. /\ c \in AtWork /\ work[c] \in DmnWork /\ c \in Thread \union {"boot"}
      /\ Shape(work[c].calls, c # "boot") /\ DOMAIN work = Thread \union {"boot"}
  BY CallsShape DEF CallFailed, DmnInv, DmnTyped
<1>2. PICK goesOn \in BOOLEAN : goesOn <=> plugin = "acng" /\ c = "boot" /\ ~ Ends(c)
  OBVIOUS
<1>3. PICK last : last = work[c].calls[Len(work[c].calls)]
  OBVIOUS
<1>4. /\ work' = [work EXCEPT ![c] = IF goesOn THEN [@ EXCEPT !.calls = <<last>>] ELSE None]
      /\ dmnPhase' \in IF c = "boot" /\ ~ goesOn THEN {"up", "down"} ELSE {dmnPhase}
      /\ spoilt' = (spoilt \/ Head(work[c].calls) \in {"render", "put", "record", "include", "start"}
                           \/ ~ work[c].alone)
      /\ owed' = (owed \/ Head(work[c].calls) = "restart" \/ ~ work[c].alone)
      /\ UNCHANGED <<plugin, osBoot, settings, saved, daemonConf, included, alive, loaded>>
  BY <1>2, <1>3 DEF CallFailed, dmnConfig, dmnMem, daemon
<1>5. SetupCalls' = SetupCalls /\ ClientCalls' = ClientCalls /\ ReadConf' = ReadConf
  BY <1>4 DEF SetupCalls, ClientCalls, ReadConf
<1>6. ReadOrRestart'
  <2>. SUFFICES ASSUME alive, ~ owed, Head(work[c].calls) # "restart", work[c].alone
                PROVE  loaded = ReadConf
    BY <1>4, <1>5 DEF ReadOrRestart
  <2>1. work[c].calls # <<"restart">>
    BY Tuples
  <2>2. AtWork = {c}
    BY <1>1 DEF DmnInv, WorkAlone
  <2>. QED
    BY <2>1, <2>2 DEF DmnInv, ReadOrRestart
<1>7. CASE goesOn
  <2>. DEFINE r == [work[c] EXCEPT !.calls = <<last>>]
  <2>1. /\ plugin = "acng" /\ c = "boot" /\ ~ Ends(c) /\ work[c].alone /\ AtWork = {c}
    BY <1>1, <1>2, <1>7, BootIsAlone
  <2>2. <<last>> \in {<<"start">>, <<"stop">>}
    BY <1>3, <2>1, SetupShape DEF DmnInv, CallsLeft, DmnTyped
  <2>3. /\ <<last>> \in SetupCalls /\ <<last>> \in Seq(DmnCall)
        /\ Head(<<last>>) # "put"
    BY <2>1, <2>2, Tuples DEF SetupCalls, DmnCall
  <2>4. /\ r \in DmnWork /\ r.calls = <<last>> /\ r.new = work[c].new /\ r.alone = work[c].alone
    BY <1>1, <2>3 DEF DmnWork
  <2>5. work' = [work EXCEPT ![c] = r]
    BY <1>4, <1>7
  <2>. HIDE DEF r
  <2>6. /\ work' \in [Thread \union {"boot"} -> DmnWork \union {None}]
        /\ work'[c] = r /\ \A b \in (Thread \union {"boot"}) \ {c} : work'[b] = work[b]
    BY <1>1, <2>4, <2>5 DEF DmnInv, DmnTyped
  <2>7. AtWork' = {c}
    BY <1>1, <2>1, <2>4, <2>6, DaemonAssumption DEF AtWork
  <2>8. work[c].new = None
    BY <1>1, <2>1 DEF DmnInv, CallsLeft
  <2>9. CallsLeft'
    BY <1>4, <1>5, <2>1, <2>3, <2>4, <2>6, <2>7, <2>8 DEF CallsLeft
  <2>10. dmnPhase' = dmnPhase /\ dmnPhase = "starting"
    BY <1>1, <1>4, <1>7, <2>1 DEF DmnInv, WorkAlone
  <2>11. WorkAlone'
    BY <2>1, <2>4, <2>6, <2>7, <2>10 DEF WorkAlone
  <2>12. ContentIsCurrent'
    BY <2>3, <2>4, <2>6, <2>7 DEF ContentIsCurrent
  <2>13. spoilt'
    <3>1. Head(work[c].calls) \in {"render", "put", "include", "start"}
      BY <1>1, <2>1 DEF Shape, DmnCall, Ends
    <3>. QED
      BY <1>4, <3>1
  <2>14. DmnTyped'
    BY <1>4, <2>6, <2>10 DEF DmnInv, DmnTyped
  <2>. QED
    BY <1>6, <2>9, <2>11, <2>12, <2>13, <2>14 DEF DmnInv, ConfOrWriter
<1>8. CASE ~ goesOn
  <2>1. work' = [work EXCEPT ![c] = None]
    BY <1>4, <1>8
  <2>2. /\ work' \in [Thread \union {"boot"} -> DmnWork \union {None}]
        /\ work'[c] = None /\ \A b \in (Thread \union {"boot"}) \ {c} : work'[b] = work[b]
    BY <1>1, <2>1 DEF DmnInv, DmnTyped
  <2>3. AtWork' = AtWork \ {c} /\ \A b \in AtWork' : work'[b] = work[b]
    BY <1>1, <2>2 DEF AtWork
  <2>4. \A b \in AtWork' : ~ work'[b].alone
    BY <1>1, <2>3 DEF DmnInv, WorkAlone
  <2>5. CallsLeft'
    BY <1>4, <1>5, <2>3 DEF DmnInv, CallsLeft
  <2>6. dmnPhase \in {"starting", "up"} /\ (dmnPhase = "starting" <=> "boot" \in AtWork)
    BY <1>1 DEF DmnInv, DmnTyped, WorkAlone
  <2>7. WorkAlone'
    <3>1. dmnPhase' \in IF c = "boot" THEN {"up", "down"} ELSE {dmnPhase}
      BY <1>4, <1>8
    <3>2. dmnPhase' = "starting" <=> "boot" \in AtWork'
      BY <2>3, <2>6, <3>1
    <3>3. dmnPhase' # "starting"
      BY <1>1, <2>6, <3>1, BootIsAlone
    <3>4. CASE c = "boot"
      <4>1. AtWork' = {}
        BY <1>1, <2>3, <3>4, BootIsAlone
      <4>. QED
        BY <3>2, <3>3, <4>1 DEF WorkAlone
    <3>5. CASE c # "boot"
      <4>1. dmnPhase' # "down"
        BY <2>6, <3>1, <3>5
      <4>. QED
        BY <2>4, <3>2, <3>3, <4>1 DEF WorkAlone
    <3>. QED
      BY <3>4, <3>5
  <2>8. ContentIsCurrent'
    BY <2>4 DEF ContentIsCurrent
  <2>9. ConfOrWriter'
    <3>. SUFFICES ASSUME ~ spoilt', AtWork' = {} PROVE InConf(settings)'
      BY <2>4 DEF ConfOrWriter
    <3>1. /\ ~ spoilt /\ work[c].alone /\ AtWork = {c}
          /\ Head(work[c].calls) \notin {"render", "put", "record", "include", "start"}
      BY <1>1, <1>4, <2>3
    <3>2. Head(work[c].calls) \in {"restart", "stop"}
      BY <1>1, <3>1 DEF Shape, DmnCall
    <3>3. Len(work[c].calls) = 1 /\ ~ Unwritten(work[c].calls)
      BY <1>1, <3>2 DEF Shape, Unwritten
    <3>4. work[c].calls # <<"record">>
      BY <3>2, Tuples
    <3>5. InConf(settings)
      BY <2>6, <3>1, <3>3, <3>4 DEF DmnInv, ConfOrWriter
    <3>. QED
      BY <1>4, <3>5 DEF InConf
  <2>10. DmnTyped'
    BY <1>4, <1>8, <2>2, <2>6 DEF DmnInv, DmnTyped
  <2>. QED
    BY <1>6, <2>5, <2>7, <2>8, <2>9, <2>10 DEF DmnInv
<1>. QED
  BY <1>7, <1>8

-----------------------------------------------------------------------------
(* Daemon: start and stop of the process, and the theorems. *)

LEMMA LoadKeepsDmnInv == ASSUME DmnInv, NEW ignore \in BOOLEAN, DmnLoad(ignore) PROVE DmnInv'
<1>1. /\ dmnPhase = "down" /\ AtWork = {}
      /\ plugin \in {"syslog", "acng", "smtp"} /\ osBoot \in BOOLEAN
      /\ work["boot"] = None /\ DOMAIN work = Thread \union {"boot"}
      /\ saved \in DmnSettings \union {None}
  BY DEF DmnLoad, DmnInv, DmnTyped, WorkAlone, AtWork
<1>2. PICK restore \in BOOLEAN : restore <=> ~ ignore /\ settings' # << >>
  OBVIOUS
<1>3. PICK calls : calls = CASE plugin = "syslog" -> SyslogSetup
                             [] plugin = "acng" -> AcngSetup(restore)
                             [] plugin = "smtp" -> SmtpSetup(restore)
  OBVIOUS
<1>4. /\ settings' = IF saved = None \/ (ignore /\ plugin # "smtp") THEN << >> ELSE saved
      /\ IF calls = << >> THEN dmnPhase' = "up" /\ UNCHANGED work
                          ELSE dmnPhase' = "starting" /\ Enter("boot", calls, None)
      /\ saved' = IF saved = None /\ (plugin = "smtp" \/ ~ ignore) THEN settings' ELSE saved
      /\ spoilt' = (plugin = "smtp" /\ ignore /\ settings' # << >>)
      /\ UNCHANGED <<plugin, osBoot, daemonConf, included, alive, loaded, owed>>
  <2>1. restore = (~ ignore /\ settings' # << >>)
    BY <1>2
  <2>. QED
    BY <1>3, <2>1 DEF DmnLoad, dmnConfig, daemon
<1>5. settings' \in DmnSettings /\ saved' \in DmnSettings \union {None} /\ spoilt' \in BOOLEAN
  BY <1>1, <1>4, SettingsOver
<1>6. CASE calls = << >>
  <2>1. dmnPhase' = "up" /\ work' = work /\ AtWork' = {}
    BY <1>1, <1>4, <1>6 DEF AtWork
  <2>2. plugin = "smtp" /\ ~ restore
    <3>1. /\ SyslogSetup # << >> /\ <<"render", "put">> # << >> /\ <<"start">> # << >>
          /\ <<"stop">> # << >>
      BY DEF SyslogSetup
    <3>2. AcngSetup(restore) # << >>
      BY JoinTwo, JoinOne DEF AcngSetup
    <3>. QED
      BY <1>1, <1>3, <1>6, <3>1, <3>2 DEF SmtpSetup
  <2>3. spoilt' \/ settings' = << >>
    BY <1>2, <1>4, <2>2
  <2>4. ConfOrWriter'
    BY <2>1, <2>3 DEF ConfOrWriter, InConf
  <2>5. ReadOrRestart'
    BY <1>1, <1>4 DEF DmnInv, ReadOrRestart, ReadConf
  <2>6. CallsLeft' /\ WorkAlone' /\ ContentIsCurrent'
    BY <2>1 DEF CallsLeft, WorkAlone, ContentIsCurrent
  <2>7. DmnTyped'
    BY <1>1, <1>4, <1>5, <2>1 DEF DmnInv, DmnTyped
  <2>. QED
    BY <2>4, <2>5, <2>6, <2>7 DEF DmnInv
<1>7. CASE calls # << >>
  <2>. DEFINE long == {SyslogSetup, <<"render", "put", "start">>, <<"render", "put", "stop">>,
                       <<"render", "put">>}
              short == {<<"start">>, <<"stop">>}
  <2>1. dmnPhase' = "starting" /\ Enter("boot", calls, None)
    BY <1>4, <1>7
  <2>2. calls \in SetupCalls /\ (calls \in long \/ (calls \in short /\ plugin = "acng" /\ ~ restore))
    <3>1. CASE plugin = "syslog"
      BY <1>3, <3>1 DEF SetupCalls
    <3>2. CASE plugin = "acng"
      <4>1. \A x : <<"render", "put">> \o <<x>> = <<"render", "put", x>> /\ << >> \o <<x>> = <<x>>
        <5>1. ASSUME NEW x PROVE <<"render", "put">> \o <<x>> = <<"render", "put", x>>
          <6>1. <<"render", "put">> \o <<x>> = Append(<<"render", "put">>, x)
            OBVIOUS
          <6>2. <<"render", "put", x>> = Append(<<"render", "put">>, x)
            OBVIOUS
          <6>. QED
            BY <6>1, <6>2, Zenon
        <5>2. ASSUME NEW x PROVE << >> \o <<x>> = <<x>>
          BY JoinOne
        <5>. QED
          BY <5>1, <5>2, Zenon
      <4>2. calls = AcngSetup(restore)
        BY <1>3, <3>2
      <4>3. calls \in {<<"start">>, <<"stop">>, <<"render", "put", "start">>, <<"render", "put", "stop">>}
            /\ (calls \in short \/ restore) /\ (calls \in long \/ ~ restore)
        BY <4>1, <4>2 DEF AcngSetup
      <4>. QED
        BY <3>2, <4>3 DEF SetupCalls, Writing
    <3>3. CASE plugin = "smtp"
      BY <1>3, <1>7, <3>3 DEF SetupCalls, SmtpSetup
    <3>. QED
      BY <1>1, <3>1, <3>2, <3>3
  <2>3. /\ \A l \in long : Head(l) # "put" /\ Unwritten(l) /\ l # <<"record">>
        /\ \A l \in short : Head(l) # "put" /\ l # <<"record">>
    BY Tuples DEF SyslogSetup, Unwritten
  <2>4. Head(calls) # "put" /\ calls # <<"record">>
    BY <2>2, <2>3
  <2>5. /\ work' \in [Thread \union {"boot"} -> DmnWork \union {None}]
        /\ AtWork' = {"boot"} /\ work'["boot"].calls = calls /\ work'["boot"].new = None
        /\ work'["boot"].alone
        /\ CallsLeft' /\ ContentIsCurrent' /\ ReadOrRestart'
    <3>1. PICK c \in Thread \union {"boot"} : c = "boot"
      OBVIOUS
    <3>2. PICK new \in DmnSettings \union {None} : new = None
      OBVIOUS
    <3>3. calls \in IF c = "boot" THEN SetupCalls ELSE ClientCalls
      BY <2>2, <3>1
    <3>4. new # None <=> plugin = "smtp" /\ c # "boot" /\ calls # <<"restart">>
      BY <3>1, <3>2
    <3>5. work[c] = None /\ Enter(c, calls, new)
      BY <1>1, <2>1, <3>1, <3>2
    <3>6. UNCHANGED <<dmnConfig, daemon, owed>>
      BY <1>4 DEF dmnConfig, daemon
    <3>7. /\ work' \in [Thread \union {"boot"} -> DmnWork \union {None}]
          /\ AtWork' = AtWork \union {c}
          /\ work'[c].calls = calls /\ work'[c].new = new /\ (AtWork = {} => work'[c].alone)
          /\ CallsLeft' /\ ContentIsCurrent' /\ ReadOrRestart'
      BY <2>4, <3>3, <3>4, <3>5, <3>6, EnterKeeps
    <3>. QED
      BY <1>1, <3>1, <3>2, <3>7
  <2>6. WorkAlone'
    BY <2>1, <2>5 DEF WorkAlone
  <2>7. Unwritten(calls) \/ settings' = << >>
    BY <1>2, <1>4, <2>2, <2>3
  <2>8. ConfOrWriter'
    BY <2>4, <2>5, <2>7 DEF ConfOrWriter, InConf
  <2>9. DmnTyped'
    BY <1>1, <1>4, <1>5, <2>1, <2>5 DEF DmnInv, DmnTyped
  <2>. QED
    BY <2>5, <2>6, <2>8, <2>9 DEF DmnInv
<1>. QED
  BY <1>6, <1>7

LEMMA StopKeepsDmnInv == ASSUME DmnInv, DmnStop \/ DaemonRestarts PROVE DmnInv'
<1>1. CASE DmnStop
  <2>1. /\ dmnPhase' = "down" /\ settings' = << >> /\ work' = [c \in DOMAIN work |-> None]
        /\ owed' = (owed \/ \E c \in AtWork : ~ work[c].alone \/ Head(work[c].calls) = "restart")
        /\ UNCHANGED <<plugin, osBoot, saved, daemonConf, included, alive, loaded, spoilt>>
    BY <1>1 DEF DmnStop, dmnConfig, daemon
  <2>2. AtWork' = {}
    BY <2>1 DEF AtWork
  <2>3. DmnTyped'
    BY <2>1, SettingsOver DEF DmnInv, DmnTyped
  <2>4. CallsLeft' /\ WorkAlone' /\ ContentIsCurrent' /\ ConfOrWriter'
    BY <2>1, <2>2 DEF CallsLeft, WorkAlone, ContentIsCurrent, ConfOrWriter
  <2>5. ReadOrRestart'
    <3>. SUFFICES ASSUME alive, ~ owed', loaded # ReadConf PROVE FALSE
      BY <2>1 DEF ReadOrRestart, ReadConf
    <3>1. PICK c \in AtWork : ~ work[c].alone \/ work[c].calls = <<"restart">>
      BY <2>1 DEF DmnInv, ReadOrRestart
    <3>2. ~ work[c].alone \/ Head(work[c].calls) = "restart"
      BY <3>1, Tuples
    <3>. QED
      BY <2>1, <3>2
  <2>. QED
    BY <2>3, <2>4, <2>5 DEF DmnInv
<1>2. CASE DaemonRestarts
  <2>1. /\ alive' = TRUE /\ loaded' = ReadConf /\ owed' = FALSE
        /\ UNCHANGED <<plugin, osBoot, dmnPhase, settings, saved, work, daemonConf, included, spoilt>>
    BY <1>2 DEF DaemonRestarts, dmnConfig, dmnMem
  <2>2. ReadConf' = ReadConf /\ AtWork' = AtWork /\ SetupCalls' = SetupCalls
        /\ ClientCalls' = ClientCalls
    BY <2>1 DEF ReadConf, AtWork, SetupCalls, ClientCalls
  <2>3. DmnTyped' /\ WorkAlone'
    BY <2>1, <2>2 DEF DmnInv, DmnTyped, WorkAlone
  <2>4. CallsLeft'
    BY <2>1, <2>2 DEF DmnInv, CallsLeft
  <2>5. ContentIsCurrent'
    BY <2>1, <2>2 DEF DmnInv, ContentIsCurrent, Render, RenderFluentBit, RenderAcng, Postconf
  <2>6. ConfOrWriter'
    BY <2>1, <2>2 DEF DmnInv, ConfOrWriter, InConf
  <2>7. ReadOrRestart'
    BY <2>1, <2>2 DEF ReadOrRestart
  <2>. QED
    BY <2>3, <2>4, <2>5, <2>6, <2>7 DEF DmnInv
<1>. QED
  BY <1>1, <1>2

LEMMA DmnInvInit == DmnInit => DmnInv
<1>. SUFFICES ASSUME DmnInit PROVE DmnInv
  OBVIOUS
<1>1. AtWork = {}
  BY DEF DmnInit, AtWork
<1>2. DmnTyped
  BY SettingsOver DEF DmnInit, DmnTyped
<1>. QED
  BY <1>1, <1>2
  DEF DmnInit, DmnInv, CallsLeft, WorkAlone, ContentIsCurrent, ConfOrWriter, ReadOrRestart

LEMMA DmnStepKeepsInv == DmnInv /\ [DmnNext]_dmnVars => DmnInv'
<1>. SUFFICES ASSUME DmnInv, [DmnNext]_dmnVars PROVE DmnInv'
  OBVIOUS
<1>1. CASE UNCHANGED dmnVars
  <2>1. /\ UNCHANGED <<plugin, osBoot, dmnPhase, settings, saved, work, daemonConf, included>>
        /\ UNCHANGED <<alive, loaded, spoilt, owed>>
    BY <1>1 DEF dmnVars, dmnConfig, dmnMem, daemon, dmnHistory
  <2>2. ReadConf' = ReadConf /\ AtWork' = AtWork /\ SetupCalls' = SetupCalls
        /\ ClientCalls' = ClientCalls
    BY <2>1 DEF ReadConf, AtWork, SetupCalls, ClientCalls
  <2>3. DmnTyped' /\ WorkAlone' /\ CallsLeft' /\ ReadOrRestart'
    BY <2>1, <2>2 DEF DmnInv, DmnTyped, WorkAlone, CallsLeft, ReadOrRestart
  <2>4. ContentIsCurrent'
    BY <2>1, <2>2 DEF DmnInv, ContentIsCurrent, Render, RenderFluentBit, RenderAcng, Postconf
  <2>5. ConfOrWriter'
    BY <2>1, <2>2 DEF DmnInv, ConfOrWriter, InConf
  <2>. QED
    BY <2>3, <2>4, <2>5 DEF DmnInv
<1>2. CASE DmnNext
  BY <1>2, RequestsKeepDmnInv, RenderKeepsDmnInv, PutKeepsDmnInv, RestartKeepsDmnInv,
     RecordKeepsDmnInv, IncludeKeepsDmnInv, StartKeepsDmnInv, StopDaemonKeepsDmnInv,
     FailureKeepsDmnInv, LoadKeepsDmnInv, StopKeepsDmnInv DEF DmnNext
<1>. QED
  BY <1>1, <1>2

\* Between requests the daemon's file holds the settings the plugin shows,
\* through kills and restarts, for every plugin, setting and number of threads
\* (syslog, apt_cacher_ng and smtp plugin.py).
THEOREM SettingsAreInConf == DmnSpec => []ConfHoldsSettings
<1>1. DmnInv => ConfHoldsSettings
  BY DEF DmnInv, ConfOrWriter, InConf, ConfHoldsSettings, DmnIdle
<1>. QED
  BY <1>1, DmnInvInit, DmnStepKeepsInv, PTL DEF DmnSpec

\* Between requests a daemon that runs has read its file as it is.
THEOREM DaemonReadsConf == DmnSpec => []DaemonServesConf
<1>1. DmnInv => DaemonServesConf
  BY DEF DmnInv, ReadOrRestart, DaemonServesConf, DmnIdle
<1>. QED
  BY <1>1, DmnInvInit, DmnStepKeepsInv, PTL DEF DmnSpec
=============================================================================
