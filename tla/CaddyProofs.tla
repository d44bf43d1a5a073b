------------------------------ MODULE CaddyProofs ------------------------------
(***************************************************************************)
(* Proofs about the reverse proxy plugin, for any applications, upstreams  *)
(* and settings.                                                           *)
(***************************************************************************)
EXTENDS Caddy, TLAPS

LEMMA Tables ==
    ASSUME NEW K, NEW V, NEW t \in Table(K, V)
    PROVE  /\ \A k \in K, v \in V : k :> v @@ t \in Table(K, V)
           /\ \A S : Without(t, S) \in Table(K, V)
<1>. USE DEF Table
<1>1. PICK A \in SUBSET K : t \in [A -> V]
  OBVIOUS
<1>2. ASSUME NEW k \in K, NEW v \in V PROVE k :> v @@ t \in Table(K, V)
  <2>1. k :> v @@ t \in [({k} \union A) -> V]
    BY <1>1 DEF :>, @@
  <2>. QED
    BY <2>1
<1>3. ASSUME NEW S PROVE Without(t, S) \in Table(K, V)
  <2>1. Without(t, S) \in [(A \ S) -> V]
    BY <1>1 DEF Without, Restrict
  <2>2. A \ S \in SUBSET K
    BY <1>1
  <2>. QED
    BY <2>1, <2>2
<1>. QED
  BY <1>2, <1>3

\* Every edit keeps the working state a state.
LEMMA EditedState ==
    ASSUME NEW c \in CadState
    PROVE  /\ \A a \in App, u \in Upstream : [c EXCEPT !.apps = a :> u @@ @] \in CadState
           /\ \A a \in App : [c EXCEPT !.apps = Without(@, {a})] \in CadState
           /\ \A x \in Setting : [c EXCEPT !.settings = x] \in CadState
  BY Tables DEF CadState

LEMMA Values ==
    /\ MaxCadOps \in Nat /\ DefaultState \in CadState
    /\ None \notin CadState /\ None \notin CadRecord /\ None \notin CadFrame
    /\ "main" \in Runner /\ "main" \notin Thread /\ Runner = Thread \union {"main"}
    /\ CadSteps = {"idle", "put", "override", "load", "restart", "commit"}
    /\ Purpose = {"apply", "desired", "current"}
  BY CaddyAssumption DEF DefaultState, Purpose, CadSteps, Runner

LEMMA EditsAreStates ==
    ASSUME CadTypeOK, EditApps
    PROVE  \E live \in CadState : CadEdit(live)
  BY EditedState DEF CadTypeOK, EditApps, OnRegister, OnUnregister, AddApp, UpdateApp, DeleteApp,
                     UpdateSettings, SetApp, RemoveApp

LEMMA ConfIsConf == \A c \in CadState : CaddyConf(c) \in Conf
  BY DEF CadState, Table, CaddyConf, Conf, Range

-----------------------------------------------------------------------------
(* What holds between an edit, an apply and a start. *)

RecordAsInstalled ==
    ~ cadMisrecorded => /\ cadCurrent \in {None, cadInstalled}
                        /\ cadFile # None => cadFile.current \in {None, cadInstalled}

\* What the frame h of an apply that was alone stands for at each step.
FrameAt(step, h) ==
    /\ step \in {"override", "load", "restart", "commit"} => sysConf = CaddyConf(h.state)
    /\ step \in {"load", "restart", "commit"} => override
    /\ step = "commit" => proxy = sysConf

AloneInv ==
    \A t \in Runner :
        cadPc[t] # "idle" /\ cadHeld[t].alone =>
            /\ \A u \in Runner \ {t} : cadPc[u] = "idle"
            /\ FrameAt(cadPc[t], cadHeld[t])

\* A boot is alone, and pushes the working state and then the recorded one.
BootInv ==
    /\ \A t \in Runner : cadPc[t] # "idle" => (t = "main" <=> cadHeld[t].purpose # "apply")
    /\ cadPhase = "loaded" =>
          /\ cadHeld["main"].alone
          /\ cadHeld["main"].purpose = "desired" => cadHeld["main"].state = cad

CadInv == CadTypeOK /\ RecordAsInstalled /\ AloneInv /\ BootInv

LEMMA CadInvInit == CadInit => CadInv
<1>. SUFFICES ASSUME CadInit PROVE CadInv
  OBVIOUS
<1>0. /\ \A t \in Runner : cadPc[t] = "idle" /\ cadHeld[t] = None
      /\ cadPc \in [Runner -> CadSteps] /\ cadHeld \in [Runner -> CadFrame \union {None}]
      /\ cadPc["main"] = "idle"
  BY Values DEF CadInit
<1>1. CadTypeOK
  <2>1. cad \in CadState
    BY Values DEF CadInit
  <2>2. aliased \in BOOLEAN /\ override \in BOOLEAN /\ cadMisrecorded \in BOOLEAN
    BY DEF CadInit
  <2>3. cadOps \in 0..MaxCadOps
    BY Values DEF CadInit
  <2>4. /\ cadPhase = "down" /\ cadDesired = None /\ cadCurrent = None /\ cadFile = None
        /\ sysConf = None /\ proxy = None
    BY DEF CadInit
  <2>5. \A t \in Thread : cadPc[t] = "idle"
    BY <1>0, Values
  <2>. QED
    BY <1>0, <2>1, <2>2, <2>3, <2>4, <2>5 DEF CadTypeOK
<1>2. RecordAsInstalled /\ AloneInv /\ BootInv
  BY <1>0 DEF CadInit, RecordAsInstalled, AloneInv, BootInv
<1>. QED
  BY <1>1, <1>2 DEF CadInv

LEMMA EditKeepsInv ==
    ASSUME CadInv, NEW live \in CadState, CadEdit(live)
    PROVE  CadInv'
<1>. USE DEF CadInv, CadEdit, CadClient, cadApplying, cadSystem
<1>1. CadTypeOK'
  <2>1. [desired |-> live, current |-> cadCurrent'] \in CadRecord
    BY DEF CadTypeOK, CadRecord
  <2>2. cadOps' \in 0..MaxCadOps /\ cadMisrecorded' \in BOOLEAN
    BY Values DEF CadTypeOK
  <2>3. cadCurrent' \in CadState \union {None} /\ live # None
    BY Values DEF CadTypeOK
  <2>4. UNCHANGED <<cadPhase, aliased, cadPc, cadHeld, sysConf, override, proxy>>
    OBVIOUS
  <2>5. cad' = live /\ cadDesired' = live /\ cadFile' \in CadRecord
    BY <2>1
  <2>. QED
    BY <2>2, <2>3, <2>4, <2>5 DEF CadTypeOK
<1>2. RecordAsInstalled'
  <2>1. cadMisrecorded' = (cadMisrecorded \/ cadCurrent' # cadCurrent)
    OBVIOUS
  <2>2. ~ cadMisrecorded' => ~ cadMisrecorded /\ cadCurrent' = cadCurrent
    BY <2>1
  <2>3. cadFile'.current = cadCurrent' /\ cadInstalled' = cadInstalled
    OBVIOUS
  <2>. QED
    BY <2>2, <2>3 DEF RecordAsInstalled
<1>3. AloneInv' /\ BootInv'
  BY DEF AloneInv, FrameAt, BootInv
<1>. QED
  BY <1>1, <1>2, <1>3

\* A step of the thread t, by where it leaves the frame and the system.
LEMMA MoveKeepsInv ==
    ASSUME CadInv, NEW t \in Runner, cadPc[t] # "idle", NEW step \in CadSteps, NEW h,
           CadGoto(t, step, h),
           \/ /\ step = "idle" /\ h = None
              /\ cadPhase' = IF t = "main" THEN "failed" ELSE cadPhase
           \/ /\ step # "idle" /\ h \in CadFrame /\ UNCHANGED cadPhase
              /\ h.alone => cadHeld[t].alone /\ FrameAt(step, h)'
              /\ t = "main" <=> h.purpose # "apply"
              /\ t = "main" => h.alone
              /\ h.purpose = "desired" => h.state = cad,
           sysConf' \in Conf \union {None}, proxy' \in Conf \union {None}, override' \in BOOLEAN,
           UNCHANGED <<cadMem, cadFile, cadHistory, cadOps>>
    PROVE  CadInv'
<1>. USE DEF CadInv, cadMem, cadHistory
<1>1. /\ cadPc' \in [Runner -> CadSteps] /\ cadPc'[t] = step
      /\ \A u \in Runner \ {t} : cadPc'[u] = cadPc[u] /\ cadHeld'[u] = cadHeld[u]
      /\ cadHeld' \in [Runner -> CadFrame \union {None}] /\ cadHeld'[t] = h
  BY DEF CadGoto, CadTypeOK
<1>2. \A u \in Runner : cadPc'[u] = "idle" <=> cadHeld'[u] = None
  BY <1>1, Values DEF CadTypeOK
<1>3. t = "main" => cadPhase = "loaded"
  BY DEF CadTypeOK
<1>4. t # "main" => cadPhase = "up"
  BY Values DEF CadTypeOK
<1>5. /\ cadPhase' \in {"down", "loaded", "up", "failed"}
      /\ cadPhase' = "loaded" <=> cadPc'["main"] # "idle"
      /\ cadPhase' # "up" => \A u \in Thread : cadPc'[u] = "idle"
  <2>1. CASE t = "main"
    <3>1. \A u \in Thread : cadPc'[u] = "idle"
      BY <1>1, <1>3, <2>1, Values DEF CadTypeOK
    <3>. QED
      BY <1>1, <1>3, <2>1, <3>1
  <2>2. CASE t # "main"
    <3>1. cadPc'["main"] = cadPc["main"]
      BY <1>1, <2>2, Values
    <3>. QED
      BY <1>4, <2>2, <3>1 DEF CadTypeOK
  <2>. QED
    BY <2>1, <2>2
<1>6. CadTypeOK'
  <2>1. /\ cad' \in CadState
        /\ {cadDesired', cadCurrent'} \subseteq CadState \union {None}
        /\ cadFile' \in CadRecord \union {None}
        /\ cadPhase' \in {"loaded", "up"} => cadDesired' # None
        /\ aliased' \in BOOLEAN /\ cadMisrecorded' \in BOOLEAN /\ cadOps' \in 0..MaxCadOps
    BY <1>3, <1>4 DEF CadTypeOK
  <2>. QED
    BY <1>1, <1>2, <1>5, <2>1 DEF CadTypeOK
<1>7. RecordAsInstalled'
  BY DEF RecordAsInstalled
<1>8. AloneInv'
  <2>. SUFFICES ASSUME NEW u \in Runner, cadPc'[u] # "idle", cadHeld'[u].alone
                PROVE  /\ \A v \in Runner \ {u} : cadPc'[v] = "idle"
                       /\ FrameAt(cadPc[u], cadHeld[u])'
    BY DEF AloneInv
  <2>1. u = t
    <3>1. u # t => cadPc[u] # "idle" /\ cadHeld[u].alone
      BY <1>1
    <3>. QED
      BY <3>1 DEF AloneInv
  <2>2. cadHeld[t].alone /\ FrameAt(step, h)'
    BY <1>1, <2>1
  <2>3. \A v \in Runner \ {t} : cadPc'[v] = "idle"
    BY <1>1, <2>2 DEF AloneInv
  <2>4. FrameAt(cadPc[t], cadHeld[t])'
    BY <1>1, <2>2 DEF FrameAt
  <2>. QED
    BY <2>1, <2>3, <2>4
<1>9. BootInv'
  <2>1. \A u \in Runner : cadPc'[u] # "idle" => (u = "main" <=> cadHeld'[u].purpose # "apply")
    BY <1>1 DEF BootInv
  <2>2. cadPhase' = "loaded" => cadPhase = "loaded" /\ t = "main" /\ step # "idle"
    BY <1>3, <1>4
  <2>3. cadPhase' = "loaded" => cadHeld'["main"] = h
    BY <1>1, <2>2
  <2>. QED
    BY <2>1, <2>2, <2>3 DEF BootInv
<1>. QED
  BY <1>6, <1>7, <1>8, <1>9

\* What is known of a frame before a step.
LEMMA FrameFacts ==
    ASSUME CadInv, NEW t \in Runner, cadPc[t] # "idle", NEW g, g = cadHeld[t]
    PROVE  /\ g \in CadFrame /\ g.state \in CadState /\ CaddyConf(g.state) \in Conf
           /\ g.alone => FrameAt(cadPc[t], g)
           /\ t = "main" <=> g.purpose # "apply"
           /\ t = "main" => g.alone
           /\ g.purpose = "desired" => g.state = cad
           /\ g.purpose \in Purpose
<1>1. g \in CadFrame /\ g.state \in CadState /\ g.purpose \in Purpose
  BY DEF CadInv, CadTypeOK, CadFrame
<1>2. g.alone => FrameAt(cadPc[t], g)
  BY DEF CadInv, AloneInv
<1>3. t = "main" <=> g.purpose # "apply"
  BY DEF CadInv, BootInv
<1>4. t = "main" => cadPhase = "loaded"
  BY DEF CadInv, CadTypeOK
<1>5. (t = "main" => g.alone) /\ (g.purpose = "desired" => g.state = cad)
  BY <1>3, <1>4 DEF CadInv, BootInv
<1>. QED
  BY <1>1, <1>2, <1>3, <1>5, ConfIsConf

LEMMA OnwardKeepsInv ==
    ASSUME CadInv, NEW t \in Runner, cadPc[t] # "idle", NEW step \in CadSteps \ {"idle"},
           Onward(t, step), NEW g, g = cadHeld[t], g.alone => FrameAt(step, g)',
           sysConf' \in Conf \union {None}, proxy' \in Conf \union {None}, override' \in BOOLEAN,
           UNCHANGED <<cadMem, cadFile, cadHistory, cadOps>>
    PROVE  CadInv'
<1>1. CadGoto(t, step, g) /\ UNCHANGED cadPhase
  BY DEF Onward
<1>. QED
  BY <1>1, FrameFacts, MoveKeepsInv

LEMMA RaisedKeepsInv ==
    ASSUME CadInv, NEW t \in Runner, cadPc[t] # "idle", Raised(t),
           sysConf' \in Conf \union {None}, proxy' \in Conf \union {None}, override' \in BOOLEAN,
           UNCHANGED <<cadMem, cadFile, cadHistory, cadOps>>
    PROVE  CadInv'
<1>1. PICK g : g = cadHeld[t]
  OBVIOUS
<1>2. /\ g \in CadFrame
      /\ t = "main" <=> g.purpose # "apply"
      /\ t = "main" => g.alone
  BY <1>1, FrameFacts
<1>3. CASE g.purpose = "desired" /\ cadCurrent # None
  <2>1. PICK h : h = [g EXCEPT !.state = cadCurrent, !.purpose = "current"]
    OBVIOUS
  <2>2. cadCurrent \in CadState
    BY <1>3 DEF CadInv, CadTypeOK
  <2>3. h \in CadFrame /\ h.alone = g.alone /\ h.purpose = "current"
    BY <1>2, <2>1, <2>2, Values DEF CadFrame
  <2>4. CadGoto(t, "put", h) /\ UNCHANGED cadPhase
    BY <1>1, <1>3, <2>1 DEF Raised
  <2>5. FrameAt("put", h)'
    BY DEF FrameAt
  <2>6. "put" \in CadSteps /\ t = "main"
    BY <1>2, <1>3, Values
  <2>. QED
    BY <1>1, <1>2, <2>3, <2>4, <2>5, <2>6, MoveKeepsInv
<1>4. CASE ~ (g.purpose = "desired" /\ cadCurrent # None)
  <2>1. CadGoto(t, "idle", None) /\ cadPhase' = IF t = "main" THEN "failed" ELSE cadPhase
    BY <1>1, <1>2, <1>4 DEF Raised, CadReturn
  <2>2. "idle" \in CadSteps
    BY Values
  <2>. QED
    BY <2>1, <2>2, MoveKeepsInv
<1>. QED
  BY <1>3, <1>4

LEMMA BeginKeepsInv ==
    ASSUME CadInv, NEW t \in Thread, CadBegin(t)
    PROVE  CadInv'
<1>. USE DEF CadInv, CadBegin, CadClient, cadMem, cadSystem, cadHistory
<1>. DEFINE g == [state |-> cad, purpose |-> "apply", alone |-> \A v \in Runner : cadPc[v] = "idle"]
<1>1. g \in CadFrame
  <2>1. (\A v \in Runner : cadPc[v] = "idle") \in BOOLEAN
    OBVIOUS
  <2>. QED
    BY <2>1, Values DEF CadFrame, CadTypeOK
<1>2. g.purpose = "apply" /\ (g.alone <=> \A v \in Runner : cadPc[v] = "idle")
  OBVIOUS
<1>3. cadHeld' = [u \in Runner |-> IF u = t THEN g ELSE IF cadPc[u] = "idle" THEN None
                                   ELSE [cadHeld[u] EXCEPT !.alone = FALSE]]
  OBVIOUS
<1>. HIDE DEF g
<1>4. t \in Runner /\ t # "main" /\ cadPhase = "up" /\ cadPc["main"] = "idle" /\ "put" \in CadSteps
  BY Values DEF CadTypeOK
<1>5. /\ cadPc' \in [Runner -> CadSteps] /\ cadPc'[t] = "put"
      /\ \A u \in Runner \ {t} : cadPc'[u] = cadPc[u]
  BY <1>4 DEF CadTypeOK
<1>6. ASSUME NEW u \in Runner, u # t
      PROVE  IF cadPc[u] = "idle" THEN cadHeld'[u] = None
             ELSE cadHeld'[u] \in CadFrame /\ ~ cadHeld'[u].alone /\ cadHeld'[u].purpose = "apply"
  <2>1. CASE cadPc[u] = "idle"
    BY <1>3, <1>6, <2>1
  <2>2. CASE cadPc[u] # "idle"
    <3>1. cadHeld[u] \in CadFrame /\ cadHeld[u].purpose = "apply"
      BY <1>4, <2>2 DEF CadTypeOK, BootInv
    <3>2. cadHeld'[u] = [cadHeld[u] EXCEPT !.alone = FALSE]
      BY <1>3, <1>6, <2>2
    <3>3. cadHeld'[u] \in CadFrame /\ ~ cadHeld'[u].alone /\ cadHeld'[u].purpose = "apply"
      BY <3>1, <3>2 DEF CadFrame
    <3>. QED
      BY <2>2, <3>3
  <2>. QED
    BY <2>1, <2>2
<1>7. /\ cadHeld'[t] = g /\ DOMAIN cadHeld' = Runner
      /\ \A u \in Runner : cadHeld'[u] \in CadFrame \union {None}
      /\ \A u \in Runner : cadPc'[u] = "idle" <=> cadHeld'[u] = None
  <2>1. cadHeld'[t] = g /\ DOMAIN cadHeld' = Runner
    BY <1>3, <1>4
  <2>2. ASSUME NEW u \in Runner
        PROVE  cadHeld'[u] \in CadFrame \union {None} /\ (cadPc'[u] = "idle" <=> cadHeld'[u] = None)
    <3>1. CASE u = t
      <4>1. cadHeld'[u] = g /\ cadPc'[u] = "put"
        BY <1>5, <2>1, <3>1
      <4>. QED
        BY <1>1, <4>1, Values
    <3>2. CASE u # t
      <4>1. cadPc'[u] = cadPc[u]
        BY <1>5, <3>2
      <4>. QED
        BY <1>6, <3>2, <4>1, Values
    <3>. QED
      BY <3>1, <3>2
  <2>. QED
    BY <2>1, <2>2
<1>8. cadHeld' \in [Runner -> CadFrame \union {None}]
  BY <1>3, <1>7
<1>9. CadTypeOK'
  <2>1. cadOps' \in 0..MaxCadOps
    BY Values DEF CadTypeOK
  <2>2. cadPhase' = "up" /\ cadPc'["main"] = "idle"
    BY <1>4, <1>5, Values
  <2>3. /\ cad' \in CadState /\ {cadDesired', cadCurrent'} \subseteq CadState \union {None}
        /\ cadFile' \in CadRecord \union {None} /\ {sysConf', proxy'} \subseteq Conf \union {None}
        /\ cadDesired' # None
        /\ aliased' \in BOOLEAN /\ override' \in BOOLEAN /\ cadMisrecorded' \in BOOLEAN
    BY <1>4 DEF CadTypeOK
  <2>. QED
    BY <1>5, <1>7, <1>8, <2>1, <2>2, <2>3 DEF CadTypeOK
<1>10. RecordAsInstalled'
  BY DEF RecordAsInstalled
<1>11. AloneInv'
  <2>. SUFFICES ASSUME NEW u \in Runner, cadPc'[u] # "idle", cadHeld'[u].alone
                PROVE  /\ \A v \in Runner \ {u} : cadPc'[v] = "idle"
                       /\ FrameAt(cadPc[u], cadHeld[u])'
    BY DEF AloneInv
  <2>1. u = t
    BY <1>5, <1>6
  <2>2. \A v \in Runner \ {t} : cadPc'[v] = "idle"
    BY <1>2, <1>5, <1>7, <2>1
  <2>3. FrameAt(cadPc[t], cadHeld[t])'
    BY <1>5 DEF FrameAt
  <2>. QED
    BY <2>1, <2>2, <2>3
<1>12. BootInv'
  BY <1>2, <1>4, <1>5, <1>6, <1>7 DEF BootInv
<1>. QED
  BY <1>9, <1>10, <1>11, <1>12

LEMMA ApplyKeepsInv ==
    ASSUME CadInv, NEW t \in Runner,
           PutConf(t) \/ PutOverride(t) \/ AdminLoad(t) \/ RestartCaddy(t)
    PROVE  CadInv'
<1>1. PICK g : g = cadHeld[t]
  OBVIOUS
<1>2. cadPc[t] # "idle" /\ UNCHANGED <<cadMem, cadFile, cadHistory, cadOps>>
  BY DEF PutConf, PutOverride, AdminLoad, RestartCaddy
<1>3. CaddyConf(g.state) \in Conf /\ (g.alone => FrameAt(cadPc[t], g))
  BY <1>1, <1>2, FrameFacts
<1>4. /\ sysConf \in Conf \union {None} /\ proxy \in Conf \union {None} /\ override \in BOOLEAN
      /\ {"override", "load", "restart", "commit"} \subseteq CadSteps \ {"idle"}
  BY Values DEF CadInv, CadTypeOK
<1>5. /\ sysConf' \in Conf \union {None} /\ proxy' \in Conf \union {None} /\ override' \in BOOLEAN
  BY <1>1, <1>3, <1>4 DEF PutConf, PutOverride, AdminLoad, RestartCaddy
<1>6. CASE Raised(t)
  BY <1>2, <1>5, <1>6, RaisedKeepsInv
<1>7. CASE PutConf(t) /\ ~ Raised(t)
  <2>1. PICK step \in {"load", "override"} : Onward(t, step) /\ (step = "load" => override)
    BY <1>7 DEF PutConf
  <2>2. sysConf' = CaddyConf(g.state) /\ override' = override
    BY <1>1, <1>7 DEF PutConf
  <2>3. FrameAt(step, g)'
    BY <2>1, <2>2 DEF FrameAt
  <2>. QED
    BY <1>1, <1>2, <1>4, <1>5, <2>1, <2>3, OnwardKeepsInv
<1>8. CASE PutOverride(t) /\ ~ Raised(t)
  <2>1. Onward(t, "restart") /\ override' = TRUE /\ sysConf' = sysConf /\ cadPc[t] = "override"
    BY <1>8 DEF PutOverride
  <2>2. g.alone => FrameAt("restart", g)'
    BY <1>3, <2>1 DEF FrameAt
  <2>. QED
    BY <1>1, <1>2, <1>4, <1>5, <2>1, <2>2, OnwardKeepsInv
<1>9. CASE AdminLoad(t) /\ ~ Raised(t)
  <2>1. cadPc[t] = "load" /\ UNCHANGED <<sysConf, override>>
    BY <1>9 DEF AdminLoad
  <2>2. CASE Onward(t, "commit") /\ proxy' = CaddyConf(g.state)
    <3>1. g.alone => FrameAt("commit", g)'
      BY <1>3, <2>1, <2>2 DEF FrameAt
    <3>. QED
      BY <1>1, <1>2, <1>4, <1>5, <2>2, <3>1, OnwardKeepsInv
  <2>3. CASE Onward(t, "restart")
    <3>1. g.alone => FrameAt("restart", g)'
      BY <1>3, <2>1 DEF FrameAt
    <3>. QED
      BY <1>1, <1>2, <1>4, <1>5, <2>3, <3>1, OnwardKeepsInv
  <2>. QED
    BY <1>1, <1>9, <2>2, <2>3 DEF AdminLoad
<1>10. CASE RestartCaddy(t) /\ ~ Raised(t)
  <2>1. /\ cadPc[t] = "restart" /\ UNCHANGED <<sysConf, override>>
        /\ Onward(t, "commit") /\ proxy' = sysConf
    BY <1>10 DEF RestartCaddy
  <2>2. g.alone => FrameAt("commit", g)'
    BY <1>3, <2>1 DEF FrameAt
  <2>. QED
    BY <1>1, <1>2, <1>4, <1>5, <2>1, <2>2, OnwardKeepsInv
<1>. QED
  BY <1>6, <1>7, <1>8, <1>9, <1>10

LEMMA FinishKeepsInv ==
    ASSUME CadInv, NEW t \in Runner, CadFinish(t)
    PROVE  CadInv'
<1>. USE DEF CadFinish, cadSystem
<1>1. PICK c : c = cadHeld[t].state
  OBVIOUS
<1>2. c \in CadState /\ cadPc[t] = "commit"
  BY <1>1, FrameFacts
<1>3. /\ cadPc' \in [Runner -> CadSteps] /\ cadPc'[t] = "idle"
      /\ \A u \in Runner \ {t} : cadPc'[u] = cadPc[u] /\ cadHeld'[u] = cadHeld[u]
      /\ cadHeld' \in [Runner -> CadFrame \union {None}] /\ cadHeld'[t] = None
  BY Values DEF CadReturn, CadGoto, CadInv, CadTypeOK
<1>4. /\ cadCurrent' = c /\ cadDesired' = cadDesired
      /\ cadFile' = [desired |-> cadDesired, current |-> c]
      /\ cadInstalled' = c /\ cadMisrecorded' = FALSE /\ cadPhase' = "up"
      /\ cad' \in CadState /\ aliased' \in BOOLEAN
  BY <1>1, <1>2 DEF CadCommit, CadInv, CadTypeOK
<1>5. cadPhase \in {"loaded", "up"} /\ cadDesired \in CadState
  BY <1>2, Values DEF CadInv, CadTypeOK
<1>6. cadPc'["main"] = "idle"
  <2>1. CASE t = "main"
    BY <1>3, <2>1
  <2>2. CASE t # "main"
    <3>1. t \in Thread
      BY <2>2, Values
    <3>2. cadPhase = "up"
      BY <1>2, <3>1 DEF CadInv, CadTypeOK
    <3>. QED
      BY <1>3, <2>2, <3>2, Values DEF CadInv, CadTypeOK
  <2>. QED
    BY <2>1, <2>2
<1>7. CadTypeOK'
  <2>1. cadFile' \in CadRecord
    BY <1>2, <1>4, <1>5 DEF CadRecord
  <2>2. \A u \in Runner : cadPc'[u] = "idle" <=> cadHeld'[u] = None
    BY <1>3 DEF CadInv, CadTypeOK
  <2>3. {sysConf', proxy'} \subseteq Conf \union {None} /\ override' \in BOOLEAN
        /\ cadOps' \in 0..MaxCadOps
    BY DEF CadInv, CadTypeOK
  <2>. QED
    BY <1>2, <1>3, <1>4, <1>5, <1>6, <2>1, <2>2, <2>3, Values DEF CadTypeOK
<1>8. RecordAsInstalled'
  <2>1. cadFile'.current = c
    BY <1>4
  <2>. QED
    BY <1>4, <2>1 DEF RecordAsInstalled
<1>9. AloneInv'
  <2>. SUFFICES ASSUME NEW u \in Runner, cadPc'[u] # "idle", cadHeld'[u].alone PROVE FALSE
    BY DEF AloneInv
  <2>1. u # t /\ cadPc[u] # "idle" /\ cadHeld[u].alone
    BY <1>3
  <2>. QED
    BY <1>2, <2>1 DEF CadInv, AloneInv
<1>10. BootInv'
  BY <1>3, <1>4 DEF CadInv, BootInv
<1>. QED
  BY <1>7, <1>8, <1>9, <1>10 DEF CadInv

LEMMA StartKeepsInv ==
    ASSUME CadInv, NEW ignore \in BOOLEAN, CadLoad(ignore)
    PROVE  CadInv'
<1>. USE DEF CadLoad, cadApplying, cadSystem, cadHistory
<1>1. cad' \in CadState /\ cadCurrent' \in CadState \union {None}
  BY Values DEF CadInv, CadTypeOK, CadRecord
<1>2. cadFile' \in CadRecord /\ cadFile'.current = cadCurrent'
  BY <1>1 DEF CadRecord
<1>3. \A t \in Runner : cadPc[t] = "idle" /\ cadHeld[t] = None
  BY Values DEF CadInv, CadTypeOK
<1>0. PICK c : c = cad'
  OBVIOUS
<1>4. PICK h : h = [state |-> c, purpose |-> "desired", alone |-> TRUE]
  OBVIOUS
<1>5. h \in CadFrame /\ h.alone /\ h.purpose = "desired" /\ h.state = c /\ h # None
  <2>1. c \in CadState
    BY <1>0, <1>1
  <2>2. "desired" \in Purpose /\ TRUE \in BOOLEAN
    BY Values
  <2>3. h \in CadFrame
    BY <1>4, <2>1, <2>2 DEF CadFrame
  <2>. QED
    BY <1>4, <2>3, Values
<1>6. CASE ignore
  <2>1. cadPhase' = "up" /\ UNCHANGED <<cadPc, cadHeld>>
    BY <1>6
  <2>2. CadTypeOK'
    <3>1. {sysConf', proxy'} \subseteq Conf \union {None} /\ override' \in BOOLEAN
          /\ aliased' \in BOOLEAN /\ cadMisrecorded' \in BOOLEAN
      BY DEF CadInv, CadTypeOK
    <3>2. cadOps' \in 0..MaxCadOps
      BY Values DEF CadInv, CadTypeOK
    <3>3. cadDesired' = cad' /\ cad' # None
      BY <1>1, Values
    <3>4. cadPc' \in [Runner -> CadSteps] /\ cadHeld' \in [Runner -> CadFrame \union {None}]
          /\ \A t \in Runner : cadPc'[t] = "idle" /\ cadHeld'[t] = None
      BY <1>3, <2>1 DEF CadInv, CadTypeOK
    <3>. QED
      BY <1>1, <1>2, <2>1, <3>1, <3>2, <3>3, <3>4, Values DEF CadTypeOK
  <2>3. AloneInv' /\ BootInv'
    BY <1>3, <2>1 DEF AloneInv, BootInv
  <2>4. RecordAsInstalled'
    BY <1>2 DEF CadInv, RecordAsInstalled
  <2>. QED
    BY <2>2, <2>3, <2>4 DEF CadInv
<1>7. CASE ~ ignore
  <2>1. cadPhase' = "loaded" /\ CadGoto("main", "put", h)
    BY <1>0, <1>4, <1>7
  <2>2. /\ cadPc' \in [Runner -> CadSteps] /\ cadPc'["main"] = "put" /\ cadHeld'["main"] = h
        /\ \A u \in Runner \ {"main"} : cadPc'[u] = "idle" /\ cadHeld'[u] = None
        /\ cadHeld' \in [Runner -> CadFrame \union {None}]
    BY <1>3, <1>5, <2>1, Values DEF CadGoto, CadInv, CadTypeOK
  <2>3. /\ \A u \in Runner : cadPc'[u] = "idle" <=> cadHeld'[u] = None
        /\ \A u \in Thread : cadPc'[u] = "idle"
    BY <1>5, <2>2, Values
  <2>4. CadTypeOK'
    <3>1. {sysConf', proxy'} \subseteq Conf \union {None} /\ override' \in BOOLEAN
          /\ aliased' \in BOOLEAN /\ cadMisrecorded' \in BOOLEAN
      BY DEF CadInv, CadTypeOK
    <3>2. cadOps' \in 0..MaxCadOps
      BY Values DEF CadInv, CadTypeOK
    <3>3. cadDesired' = cad' /\ cad' # None
      BY <1>1, Values
    <3>. QED
      BY <1>1, <1>2, <2>1, <2>2, <2>3, <3>1, <3>2, <3>3, Values DEF CadTypeOK
  <2>5. AloneInv'
    <3>. SUFFICES ASSUME NEW u \in Runner, cadPc'[u] # "idle", cadHeld'[u].alone
                  PROVE  /\ \A v \in Runner \ {u} : cadPc'[v] = "idle"
                         /\ FrameAt(cadPc[u], cadHeld[u])'
      BY DEF AloneInv
    <3>1. u = "main"
      BY <2>2
    <3>2. FrameAt(cadPc["main"], cadHeld["main"])'
      BY <2>2 DEF FrameAt
    <3>. QED
      BY <2>2, <3>1, <3>2
  <2>6. BootInv'
    BY <1>0, <1>5, <2>2 DEF BootInv
  <2>7. RecordAsInstalled'
    BY <1>2 DEF CadInv, RecordAsInstalled
  <2>. QED
    BY <2>4, <2>5, <2>6, <2>7 DEF CadInv
<1>. QED
  BY <1>6, <1>7

LEMMA StepKeepsInv == CadInv /\ [CadNext]_cadVars => CadInv'
<1>. SUFFICES ASSUME CadInv, [CadNext]_cadVars PROVE CadInv'
  OBVIOUS
<1>. USE DEF cadMem, cadApplying, cadSystem, cadHistory
<1>1. CASE EditApps
  BY <1>1, EditsAreStates, EditKeepsInv DEF CadInv
<1>2. CASE CadDiscard
  <2>1. CadTypeOK'
    BY <1>2, Values DEF CadInv, CadDiscard, CadClient, CadTypeOK, CadRecord
  <2>2. RecordAsInstalled'
    BY <1>2 DEF CadInv, CadDiscard, RecordAsInstalled
  <2>3. AloneInv' /\ BootInv'
    BY <1>2 DEF CadInv, CadDiscard, CadClient, AloneInv, FrameAt, BootInv
  <2>. QED
    BY <2>1, <2>2, <2>3 DEF CadInv
<1>3. CASE CadStop
  <2>1. cad' \in CadState
    BY <1>3, Values DEF CadStop
  <2>2. /\ \A t \in Runner : cadPc'[t] = "idle" /\ cadHeld'[t] = None
        /\ cadPc' \in [Runner -> CadSteps] /\ cadHeld' \in [Runner -> CadFrame \union {None}]
    BY <1>3, Values DEF CadStop
  <2>3. CadTypeOK'
    BY <1>3, <2>1, <2>2, Values DEF CadInv, CadStop, CadTypeOK
  <2>4. RecordAsInstalled' /\ AloneInv' /\ BootInv'
    BY <1>3, <2>2 DEF CadInv, CadStop, RecordAsInstalled, AloneInv, BootInv
  <2>. QED
    BY <2>3, <2>4 DEF CadInv
<1>4. CASE CaddyReboots
  <2>1. CadTypeOK' /\ RecordAsInstalled' /\ BootInv'
    BY <1>4 DEF CadInv, CaddyReboots, CadTypeOK, RecordAsInstalled, BootInv
  <2>2. AloneInv'
    BY <1>4 DEF CadInv, CaddyReboots, AloneInv, FrameAt
  <2>. QED
    BY <2>1, <2>2 DEF CadInv
<1>5. CASE UNCHANGED cadVars
  BY <1>5 DEF cadVars, CadInv, CadTypeOK, RecordAsInstalled, AloneInv, FrameAt, BootInv
<1>6. ASSUME NEW t \in Thread, CadBegin(t) PROVE CadInv'
  BY <1>6, BeginKeepsInv
<1>. QED
  BY <1>1, <1>2, <1>3, <1>4, <1>5, <1>6, ApplyKeepsInv, FinishKeepsInv, StartKeepsInv DEF CadNext

LEMMA CadInvAlways == CadSpec => []CadInv
  BY CadInvInit, StepKeepsInv, PTL DEF CadSpec

-----------------------------------------------------------------------------
\* The plugin's state keeps its shape: an apply or a boot under way holds a
\* state to push, and there is one only while the plugin runs or starts.
THEOREM CaddyTypes == CadSpec => []CadTypeOK
<1>1. CadInv => CadTypeOK
  BY DEF CadInv
<1>. QED
  BY <1>1, CadInvAlways, PTL

\* current_state is the last configuration that was pushed with success, until
\* an edit of a working state that is the recorded one writes through it
\* (plugin.py:344, 397), and again after the next push.
THEOREM CaddyRecord == CadSpec => []CadRecordIsInstalled
<1>1. CadInv => CadRecordIsInstalled
  BY DEF CadInv, RecordAsInstalled, CadRecordIsInstalled
<1>. QED
  BY <1>1, CadInvAlways, PTL

\* What an apply that no other one overlapped records, the file holds and Caddy
\* runs, whichever way it was given it (_do_apply).
THEOREM CaddyCommit == CadSpec => []CadCommitIsServed
<1>1. CadInv => CadCommitIsServed
  BY DEF CadInv, AloneInv, FrameAt, CadCommitIsServed
<1>. QED
  BY <1>1, CadInvAlways, PTL

\* A boot that brings the plugin up leaves Caddy serving the state it shows,
\* whichever of its two attempts succeeded (setup, _do_apply).
THEOREM CaddyBoot == CadSpec => BootServesWorking
<1>1. CadInv /\ [CadNext]_cadVars
        => [cadPhase = "loaded" /\ cadPhase' = "up" =>
              proxy' = CaddyConf(cad') /\ cadCurrent' = cad']_cadVars
  <2>. SUFFICES ASSUME CadInv, CadNext, cadPhase = "loaded", cadPhase' = "up"
                PROVE  proxy' = CaddyConf(cad') /\ cadCurrent' = cad'
    OBVIOUS
  <2>1. PICK t \in Runner : CadFinish(t)
    BY DEF CadNext, EditApps, OnRegister, OnUnregister, AddApp, UpdateApp, DeleteApp,
           UpdateSettings, SetApp, RemoveApp, CadEdit, CadClient, CadDiscard, CadBegin, PutConf,
           PutOverride, AdminLoad, RestartCaddy, Onward, Raised, CadLoad, CadStop, CaddyReboots
  <2>2. PICK g : g = cadHeld[t]
    OBVIOUS
  <2>3. cadPc[t] = "commit"
    BY <2>1 DEF CadFinish
  <2>4. t = "main"
    BY <2>3, Values DEF CadInv, CadTypeOK
  <2>5. /\ g.alone => FrameAt("commit", g)
        /\ t = "main" => g.alone
        /\ t = "main" <=> g.purpose # "apply"
        /\ g.purpose = "desired" => g.state = cad
        /\ g.purpose \in Purpose
    BY <2>2, <2>3, FrameFacts
  <2>6. proxy = CaddyConf(g.state) /\ g.purpose \in {"desired", "current"}
    BY <2>4, <2>5, Values DEF FrameAt
  <2>. QED
    BY <2>1, <2>2, <2>5, <2>6 DEF CadFinish, CadCommit, cadSystem
<1>. QED
  BY <1>1, CadInvAlways, PTL DEF CadSpec, BootServesWorking
=============================================================================
