---------------------------- MODULE FirewallProofs ----------------------------
(***************************************************************************)
(* Proofs about Firewall, for any rules, policies and number of threads;   *)
(* the ones that need requests not to overlap assume Serial.               *)
(***************************************************************************)
EXTENDS Firewall, TLAPS

\* At most one request at a time.
Serial == \A s, t \in Thread : s = t

USE FirewallAssumption

LEMMA ConfigTypes ==
    /\ EmptyConfig \in Config
    /\ SeededConfig \in Config
    /\ \A c \in Config : Compile(c) \in Ruleset
<1>1. EmptyConfig \in Config
  BY DEF EmptyConfig, Config
<1>2. SeededConfig \in Config
  BY DEF SeededConfig, EmptyConfig, Config
<1>3. \A c \in Config : Compile(c) \in Ruleset
  BY DEF Compile, Enabled, Config, Ruleset
<1>. QED
  BY <1>1, <1>2, <1>3

\* What the handlers make of a configuration is a configuration.
LEMMA EditTypes ==
    ASSUME NEW c \in Config
    PROVE  /\ \A id \in Body, b \in Body \union {Absent} : [c EXCEPT !.rules[id] = b] \in Config
           /\ \A p \in Policy : [c EXCEPT !.policy = p] \in Config
           /\ \A d \in Config : [c EXCEPT !.rules = d.rules, !.policy = d.policy] = d
<1>1. \A id \in Body, b \in Body \union {Absent} : [c EXCEPT !.rules[id] = b] \in Config
  BY DEF Config
<1>2. \A p \in Policy : [c EXCEPT !.policy = p] \in Config
  BY DEF Config
<1>3. \A d \in Config : [c EXCEPT !.rules = d.rules, !.policy = d.policy] = d
  BY DEF Config
<1>. QED
  BY <1>1, <1>2, <1>3

-----------------------------------------------------------------------------
\* SF's sets over this plugin's configurations.
LEMMA StateFileTypes ==
    SF!sfTypeOK <=> /\ desired \in Config \union {None}
                    /\ current \in Config \union {None}
                    /\ file \in SF!Envelope \union {None, Corrupt}
  BY DEF SF!sfTypeOK, SF!Maybe

\* A write, done or failed, leaves a well-formed file.
LEMMA FlushTypes ==
    ASSUME desired' \in Config, current' \in Config \union {None},
           file \in SF!Envelope \union {None, Corrupt}, SF!Flush
    PROVE  file' \in SF!Envelope \union {None, Corrupt}
  BY DEF SF!Flush, SF!Envelop, SF!Envelope, SF!Maybe

\* What a request edits is again a configuration.
EditStep(t) == \E c \in Config : Edit(t, c)

LEMMA RequestCases ==
    ASSUME TypeOK, NEW t \in Thread, Request(t)
    PROVE  EditStep(t) \/ Apply(t) \/ CompileToFile(t)
<1>. USE DEF EditStep
<1>1. live # None => live \in Config
  BY DEF TypeOK
<1>2. ASSUME NEW body \in Body, CreateRule(t, body) PROVE EditStep(t)
  BY <1>1, <1>2, EditTypes DEF CreateRule
<1>3. ASSUME NEW id \in Body, NEW body \in Body, UpdateRule(t, id, body) PROVE EditStep(t)
  BY <1>1, <1>3, EditTypes DEF UpdateRule
<1>4. ASSUME NEW id \in Body, DeleteRule(t, id) PROVE EditStep(t)
  BY <1>1, <1>4, EditTypes DEF DeleteRule
<1>5. ASSUME NEW policy \in Policy, UpdateChain(t, policy) PROVE EditStep(t)
  BY <1>1, <1>5, EditTypes DEF UpdateChain
<1>6. ASSUME Discard(t) PROVE EditStep(t)
  <2>1. current \in Config /\ live \in Config
    BY <1>6, StateFileTypes DEF Discard, TypeOK
  <2>2. [live EXCEPT !.rules = current.rules, !.policy = current.policy] = current
    BY <2>1, EditTypes
  <2>. QED
    BY <1>6, <2>1, <2>2 DEF Discard
<1>. QED
  BY <1>2, <1>3, <1>4, <1>5, <1>6 DEF Request

THEOREM TypeCorrect == Spec => []TypeOK
<1>1. Init => TypeOK
  BY DEF Init, TypeOK, Steps, SF!sfInit, SF!sfUnloaded, SF!sfTypeOK, SF!Maybe
<1>2. TypeOK /\ [Next]_vars => TypeOK'
  <2>. SUFFICES ASSUME TypeOK, [Next]_vars PROVE TypeOK'
    OBVIOUS
  <2>. USE ConfigTypes DEF Steps, threadVars, memVars
  <2>1. CASE LoadFresh
    <3>1. EmptyConfig \in Config /\ SeededConfig \in Config
      OBVIOUS
    <3>2. \A c \in Config : SF!Envelop(c, None) \in SF!Envelope
      BY DEF SF!Envelop, SF!Envelope, SF!Maybe
    <3>3. file' \in SF!Envelope \union {None}
      BY <2>1, <3>1, <3>2 DEF LoadFresh
    <3>. QED
      BY <2>1, <3>1, <3>3 DEF TypeOK, LoadFresh, SF!sfTypeOK, SF!Maybe
  <2>2. CASE LoadExisting
    <3>1. desired' \in Config /\ current' \in Config \union {None} /\ file' = file
      BY <2>2 DEF LoadExisting, SF!LoadDesired, SF!LoadMissing, SF!LoadPresent,
                  SF!LoadCorrupt, SF!Envelope, SF!Maybe
    <3>. QED
      BY <2>2, <3>1 DEF TypeOK, LoadExisting, SF!sfTypeOK, SF!Maybe
  <2>3. CASE SkipReapply
    BY <2>3 DEF TypeOK, SkipReapply, SF!sfTypeOK
  <2>4. CASE Reapply
    BY <2>4 DEF TypeOK, Reapply, SF!sfTypeOK
  <2>5. CASE CommitReapplied
    <3>1. file' \in SF!Envelope \union {None, Corrupt}
      BY <2>5, FlushTypes, StateFileTypes DEF TypeOK, CommitReapplied, SF!Commit
    <3>. QED
      BY <2>5, <3>1 DEF TypeOK, CommitReapplied, SF!Commit, SF!sfTypeOK, SF!Maybe
  <2>6. CASE ReapplyFails
    BY <2>6 DEF TypeOK, ReapplyFails, SF!sfTypeOK
  <2>7. ASSUME NEW t \in Thread, EditStep(t) PROVE TypeOK'
    BY <2>7 DEF TypeOK, EditStep, Edit, Ready, Goto, SF!sfTypeOK
  <2>8. ASSUME NEW t \in Thread, Apply(t) PROVE TypeOK'
    BY <2>8 DEF TypeOK, Apply, Ready, Hold, Goto, WriteNftFile, SF!sfTypeOK
  <2>9. ASSUME NEW t \in Thread, CompileToFile(t) PROVE TypeOK'
    BY <2>9 DEF TypeOK, CompileToFile, Ready, WriteNftFile, SF!sfTypeOK
  <2>10. ASSUME NEW t \in Thread, Snapshot(t) PROVE TypeOK'
    BY <2>10 DEF TypeOK, Snapshot, Hold, Goto, SF!sfTypeOK
  <2>11. ASSUME NEW t \in Thread, Save(t) PROVE TypeOK'
    <3>1. held[t] \in Config /\ current \in Config \union {None}
      BY <2>11, StateFileTypes DEF TypeOK, Save
    <3>2. file' \in SF!Envelope \union {None, Corrupt}
      BY <2>11, <3>1, FlushTypes, StateFileTypes DEF TypeOK, Save, SF!SaveDesired
    <3>. QED
      BY <2>11, <3>1, <3>2 DEF TypeOK, Save, Hold, Goto, SF!SaveDesired, SF!sfTypeOK, SF!Maybe
  <2>12. ASSUME NEW t \in Thread, NftLoads(t) PROVE TypeOK'
    BY <2>12 DEF TypeOK, NftLoads, Goto, SF!sfTypeOK
  <2>13. ASSUME NEW t \in Thread, NftFails(t) PROVE TypeOK'
    BY <2>13 DEF TypeOK, NftFails, Hold, Goto, SF!sfTypeOK
  <2>14. ASSUME NEW t \in Thread, Commit(t) PROVE TypeOK'
    <3>1. desired \in Config
      BY <2>14, StateFileTypes DEF TypeOK, Commit
    <3>2. file' \in SF!Envelope \union {None, Corrupt}
      BY <2>14, <3>1, FlushTypes, StateFileTypes DEF TypeOK, Commit, SF!CommitDesired, SF!Commit
    <3>. QED
      BY <2>14, <3>1, <3>2 DEF TypeOK, Commit, Hold, Goto, SF!CommitDesired, SF!Commit, SF!sfTypeOK, SF!Maybe
  <2>15. CASE Crash
    BY <2>15 DEF TypeOK, Crash, Die, SF!Forget, SF!sfTypeOK, SF!Maybe
  <2>16. CASE Reboot
    BY <2>16 DEF TypeOK, Reboot, Die, SF!Forget, SF!sfTypeOK, SF!Maybe
  <2>17. CASE UNCHANGED vars
    BY <2>17 DEF TypeOK, vars, SF!sfTypeOK, SF!Maybe
  <2>. QED
    BY <2>1, <2>2, <2>3, <2>4, <2>5, <2>6, <2>7, <2>8, <2>9, <2>10, <2>11, <2>12, <2>13,
       <2>14, <2>15, <2>16, <2>17, RequestCases DEF Next, Boot, Continue
<1>. QED
  BY <1>1, <1>2, PTL DEF Spec

-----------------------------------------------------------------------------
(* What holds between any two steps of requests that do not overlap. *)

\* desired_state follows the live dicts, but for the edit being saved.
SavedUpToEdit ==
    (phase # "down" /\ \A t \in Thread : pc[t] \notin {"snapshot", "save"}) => desired = live

\* The one request in flight works on the configuration everyone sees.
FramesAreFresh == \A t \in Thread : pc[t] \in {"save", "nft", "commit"} => held[t] = live

\* A commit is due exactly for what the kernel has just loaded.
CommitIsDue ==
    (phase = "reapplied" \/ \E t \in Thread : pc[t] = "commit")
        => enforced /\ kernel = Compile(live)

EnforcedAfterLoad == enforced => phase \in {"reapplied", "up"}

\* The boot service reads what was compiled from some configuration.
ScriptIsCompiled == nftFile # None => \E c \in Config : nftFile = Compile(c)

SerialInv ==
    /\ TypeOK
    /\ ScriptIsCompiled
    /\ SavedUpToEdit
    /\ FramesAreFresh
    /\ CommitIsDue
    /\ EnforcedAfterLoad
    /\ RecordedIsEnforced

LEMMA SerialInvInit == Init => SerialInv
<1>. SUFFICES ASSUME Init PROVE SerialInv
  OBVIOUS
<1>1. TypeOK
  BY DEF Init, TypeOK, Steps, SF!sfInit, SF!sfUnloaded, SF!sfTypeOK, SF!Maybe
<1>. QED
  BY <1>1 DEF Init, SerialInv, ScriptIsCompiled, SavedUpToEdit, FramesAreFresh, CommitIsDue, EnforcedAfterLoad,
              RecordedIsEnforced

LEMMA SerialInvStep ==
    ASSUME Serial, SerialInv, TypeOK', [Next]_vars
    PROVE  SerialInv'
<1>. USE DEF SerialInv, ScriptIsCompiled, SavedUpToEdit, FramesAreFresh, CommitIsDue, EnforcedAfterLoad,
             RecordedIsEnforced, Steps, threadVars, memVars
<1>1. CASE LoadFresh
  BY <1>1 DEF LoadFresh, TypeOK
<1>2. CASE LoadExisting
  BY <1>2 DEF LoadExisting, TypeOK
<1>3. CASE SkipReapply
  BY <1>3 DEF SkipReapply, TypeOK
<1>4. CASE Reapply
  BY <1>4 DEF Reapply, TypeOK
<1>5. CASE CommitReapplied
  BY <1>5 DEF CommitReapplied, TypeOK, SF!Commit
<1>6. CASE ReapplyFails
  BY <1>6 DEF ReapplyFails, TypeOK
<1>7. ASSUME NEW t \in Thread, EditStep(t) PROVE SerialInv'
  BY <1>7 DEF EditStep, Edit, Ready, Goto, TypeOK, Serial
<1>8. ASSUME NEW t \in Thread, Apply(t) PROVE SerialInv'
  BY <1>8 DEF Apply, WriteNftFile, Ready, Hold, Goto, TypeOK, Serial
<1>9. ASSUME NEW t \in Thread, CompileToFile(t) PROVE SerialInv'
  BY <1>9 DEF CompileToFile, WriteNftFile, Ready, TypeOK
<1>10. ASSUME NEW t \in Thread, Snapshot(t) PROVE SerialInv'
  BY <1>10 DEF Snapshot, Hold, Goto, TypeOK, Serial
<1>11. ASSUME NEW t \in Thread, Save(t) PROVE SerialInv'
  BY <1>11 DEF Save, Hold, Goto, TypeOK, Serial, SF!SaveDesired
<1>12. ASSUME NEW t \in Thread, NftLoads(t) PROVE SerialInv'
  BY <1>12 DEF NftLoads, Goto, TypeOK, Serial
<1>13. ASSUME NEW t \in Thread, NftFails(t) PROVE SerialInv'
  BY <1>13 DEF NftFails, Hold, Goto, TypeOK, Serial
<1>14. ASSUME NEW t \in Thread, Commit(t) PROVE SerialInv'
  BY <1>14 DEF Commit, Hold, Goto, TypeOK, Serial, SF!CommitDesired, SF!Commit
<1>15. CASE Crash
  BY <1>15 DEF Crash, Die, TypeOK
<1>16. CASE Reboot
  BY <1>16 DEF Reboot, Die, TypeOK
<1>17. CASE UNCHANGED vars
  BY <1>17 DEF vars
<1>. QED
  BY <1>1, <1>2, <1>3, <1>4, <1>5, <1>6, <1>7, <1>8, <1>9, <1>10, <1>11, <1>12, <1>13,
     <1>14, <1>15, <1>16, <1>17, RequestCases DEF Next, Boot, Continue

\* Requests that do not overlap: what is reported as applied is what the kernel
\* runs, and an answered mutation is in desired_state.
THEOREM SerialSafety ==
    ASSUME Serial
    PROVE  Spec => [](RecordedIsEnforced /\ MutationsAreSaved)
<1>1. SerialInv => RecordedIsEnforced /\ MutationsAreSaved
  BY DEF SerialInv, SavedUpToEdit, MutationsAreSaved, Idle
<1>2. SerialInv /\ TypeOK' /\ [Next]_vars => SerialInv'
  BY SerialInvStep
<1>. QED
  BY <1>1, <1>2, SerialInvInit, TypeCorrect, PTL DEF Spec

\* In particular every answered mutation is in desired_state, so that the next
\* start of the process finds it there.
THEOREM SerialMutationsAreSaved ==
    ASSUME Serial
    PROVE  Spec => []MutationsAreSaved
  BY SerialSafety, PTL

\* Each commit records what the kernel runs, each discard returns to it.
THEOREM SerialCommits ==
    ASSUME Serial
    PROVE  Spec => CommitRecordsKernel /\ DiscardRestoresKernel
<1>1. SerialInv /\ [Next]_vars =>
          [\A t \in Thread : Commit(t) => kernel = Compile(current')]_vars
  <2>. SUFFICES ASSUME SerialInv, NEW t \in Thread, Commit(t)
                PROVE  kernel = Compile(current')
    OBVIOUS
  <2>1. desired = live
    BY DEF Commit, SerialInv, SavedUpToEdit, Serial, TypeOK
  <2>2. current' = desired /\ kernel = Compile(live)
    BY DEF Commit, SF!CommitDesired, SF!Commit, SerialInv, CommitIsDue
  <2>. QED
    BY <2>1, <2>2
<1>2. SerialInv /\ [Next]_vars =>
          [\A t \in Thread : Discard(t) /\ enforced => Compile(live') = kernel]_vars
  <2>. SUFFICES ASSUME SerialInv, NEW t \in Thread, Discard(t), enforced
                PROVE  Compile(live') = kernel
    OBVIOUS
  <2>1. phase = "up" /\ \A s \in Thread : pc[s] # "commit"
    BY DEF Discard, Edit, Ready, Serial
  <2>2. kernel = Compile(current)
    BY <2>1 DEF SerialInv, RecordedIsEnforced
  <2>3. current \in Config /\ live \in Config
    BY StateFileTypes DEF Discard, SerialInv, TypeOK
  <2>4. live' = current
    BY <2>3, EditTypes DEF Discard, Edit
  <2>. QED
    BY <2>2, <2>4
<1>3. SerialInv /\ TypeOK' /\ [Next]_vars => SerialInv'
  BY SerialInvStep
<1>. QED
  BY <1>1, <1>2, <1>3, SerialInvInit, TypeCorrect, PTL
  DEF Spec, CommitRecordsKernel, DiscardRestoresKernel

\* The plugin implements the deferred model's promise.
THEOREM SerialRefinement ==
    ASSUME Serial
    PROVE  Spec => KeepsPromise
<1>. USE DEF Promise!vars, Promise!Next, vars, memVars, threadVars
<1>1. Init => Promise!Init
  BY DEF Init, Promise!Init, SF!sfInit, SF!sfUnloaded
<1>2. SerialInv /\ TypeOK' /\ [Next]_vars => [Promise!Next]_(Promise!vars)
  <2>. SUFFICES ASSUME SerialInv, TypeOK', [Next]_vars PROVE [Promise!Next]_(Promise!vars)
    OBVIOUS
  <2>. USE DEF SerialInv
  <2>1. CASE LoadFresh
    BY <2>1, ConfigTypes DEF LoadFresh, Promise!Start, TypeOK
  <2>2. CASE LoadExisting
    <3>1. live' \in Config /\ current' \in Config \union {None}
      BY <2>2, StateFileTypes DEF TypeOK, SF!sfTypeOK, SF!Maybe, LoadExisting
    <3>. QED
      BY <2>2, <3>1 DEF LoadExisting, Promise!Start, TypeOK
  <2>3. CASE SkipReapply
    BY <2>3 DEF SkipReapply
  <2>4. CASE Reapply
    BY <2>4 DEF Reapply, Promise!Enforce, TypeOK
  <2>5. CASE CommitReapplied
    BY <2>5 DEF CommitReapplied, Promise!Record, SF!Commit, CommitIsDue, TypeOK
  <2>6. CASE ReapplyFails
    BY <2>6 DEF ReapplyFails
  <2>7. ASSUME NEW t \in Thread, EditStep(t) PROVE [Promise!Next]_(Promise!vars)
    BY <2>7 DEF EditStep, Edit, Ready, Promise!Change, TypeOK
  <2>8. ASSUME NEW t \in Thread, Apply(t) PROVE [Promise!Next]_(Promise!vars)
    BY <2>8 DEF Apply
  <2>9. ASSUME NEW t \in Thread, CompileToFile(t) PROVE [Promise!Next]_(Promise!vars)
    BY <2>9 DEF CompileToFile
  <2>10. ASSUME NEW t \in Thread, Snapshot(t) PROVE [Promise!Next]_(Promise!vars)
    BY <2>10 DEF Snapshot
  <2>11. ASSUME NEW t \in Thread, Save(t) PROVE [Promise!Next]_(Promise!vars)
    BY <2>11 DEF Save, SF!SaveDesired
  <2>12. ASSUME NEW t \in Thread, NftLoads(t) PROVE [Promise!Next]_(Promise!vars)
    BY <2>12 DEF NftLoads, FramesAreFresh, Promise!Enforce, TypeOK
  <2>13. ASSUME NEW t \in Thread, NftFails(t) PROVE [Promise!Next]_(Promise!vars)
    BY <2>13 DEF NftFails
  <2>14. ASSUME NEW t \in Thread, Commit(t) PROVE [Promise!Next]_(Promise!vars)
    <3>1. desired = live /\ enforced /\ kernel = Compile(live) /\ live # None
      BY <2>14 DEF Commit, SavedUpToEdit, CommitIsDue, Serial, TypeOK
    <3>. QED
      BY <2>14, <3>1 DEF Commit, SF!CommitDesired, SF!Commit, Promise!Record
  <2>15. CASE Crash
    BY <2>15 DEF Crash, Die, SF!Forget, Promise!Stop, TypeOK
  <2>16. CASE Reboot
    <3>1. live' = None /\ current' = None
      BY <2>16 DEF Reboot, Die, SF!Forget
    <3>2. CASE kernel' = None
      BY <3>1, <3>2 DEF Promise!Reset
    <3>3. CASE kernel' = nftFile /\ nftFile # None
      <4>1. PICK c \in Config : nftFile = Compile(c)
        BY <3>3 DEF ScriptIsCompiled
      <4>. QED
        BY <3>1, <3>3, <4>1 DEF Promise!Reset
    <3>. QED
      BY <2>16, <3>2, <3>3 DEF Reboot
  <2>17. CASE UNCHANGED vars
    BY <2>17
  <2>. QED
    BY <2>1, <2>2, <2>3, <2>4, <2>5, <2>6, <2>7, <2>8, <2>9, <2>10, <2>11, <2>12, <2>13,
       <2>14, <2>15, <2>16, <2>17, RequestCases DEF Next, Boot, Continue
<1>3. SerialInv /\ TypeOK' /\ [Next]_vars => SerialInv'
  BY SerialInvStep
<1>. QED
  BY <1>1, <1>2, <1>3, SerialInvInit, TypeCorrect, PTL DEF Spec, KeepsPromise, Promise!Spec
===============================================================================
