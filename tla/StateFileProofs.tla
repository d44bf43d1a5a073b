--------------------------- MODULE StateFileProofs ---------------------------
(***************************************************************************)
(* Proofs about StateFileIO, for any snapshots, any number of threads and  *)
(* any set of methods the owning plugin calls.                             *)
(***************************************************************************)
EXTENDS StateFileIO, TLAPS

USE SnapshotAssumption, FileAssumption, IOAssumption

Flushing == {"read_current", "backup", "write", "replace"}

\* What an envelope under construction holds, and when memory is loaded.
Shape ==
    /\ \A t \in Thread : pc[t] \in Flushing => buf[t].desired # None
    /\ \A t \in Thread : pc[t] # "idle" => desired # None
    /\ \A t \in Thread : pc[t] # "idle" => arg[t] \in Snapshot /\ before[t].desired # None
    /\ desired = None => current = None /\ last = "none"

TypeInv == TypeOK /\ Shape

BeginStep(t) ==
    \E m \in Methods, s \in Snapshot :
        /\ Begin(t, m, s)
        /\ desired' \in Snapshot /\ current' \in Maybe
        /\ Goto(t, "assign") \/ Goto(t, "read_desired")

LEMMA CallCases ==
    ASSUME TypeInv, NEW t \in Thread, Call(t)
    PROVE  BeginStep(t)
<1>1. desired \in Maybe /\ current \in Maybe
  BY DEF TypeInv, TypeOK, sfTypeOK
<1>2. ASSUME NEW s \in Snapshot, BeginSaveDesired(t, s) PROVE BeginStep(t)
  BY <1>1, <1>2 DEF BeginSaveDesired, BeginStep, Methods
<1>3. ASSUME NEW s \in Snapshot, BeginCommit(t, s) PROVE BeginStep(t)
  BY <1>1, <1>3 DEF BeginCommit, BeginStep, Methods, Begin, Maybe
<1>4. ASSUME BeginCommitDefault(t) PROVE BeginStep(t)
  BY <1>1, <1>4 DEF BeginCommitDefault, BeginStep, Methods, Begin, Maybe
<1>5. ASSUME NEW s \in Snapshot, BeginSaveAndCommit(t, s) PROVE BeginStep(t)
  BY <1>1, <1>5 DEF BeginSaveAndCommit, BeginStep, Methods
<1>. QED
  BY <1>2, <1>3, <1>4, <1>5 DEF Call

LEMMA NothingHeldTypes == NothingHeld \in Memory
  BY DEF NothingHeld, Envelop, Memory, Maybe

LEMMA TypeInvInit == Init => TypeInv
<1>. SUFFICES ASSUME Init PROVE TypeInv
  OBVIOUS
<1>1. sfTypeOK
  BY DEF Init, sfInit, sfUnloaded, sfTypeOK, Maybe
<1>2. pc \in [Thread -> Steps] /\ arg \in [Thread -> Maybe] /\ clock \in 0..MaxClock
  BY DEF Init, Maybe, Steps
<1>3. buf \in [Thread -> Memory] /\ before \in [Thread -> Memory]
  BY NothingHeldTypes DEF Init
<1>4. backups \in [0..MaxClock -> Envelope \union {None, Corrupt}]
  BY DEF Init
<1>5. TypeOK
  BY <1>1, <1>2, <1>3, <1>4 DEF Init, TypeOK
<1>6. Shape
  BY DEF Init, Shape, sfInit, sfUnloaded, Flushing
<1>. QED
  BY <1>5, <1>6 DEF TypeInv

LEMMA LoadTypes ==
    ASSUME LoadDesired
    PROVE  /\ desired' \in Snapshot /\ current' \in Maybe
           /\ file' \in Envelope \union {None, Corrupt}
           /\ file' = Corrupt => file = Corrupt
<1>1. CASE LoadMissing
  BY <1>1 DEF LoadMissing, Flush, Envelop, Envelope, Maybe
<1>2. CASE LoadPresent
  BY <1>2 DEF LoadPresent, Envelope, Maybe
<1>3. CASE LoadCorrupt
  BY <1>3 DEF LoadCorrupt, Maybe
<1>. QED
  BY <1>1, <1>2, <1>3 DEF LoadDesired

LEMMA TypeInvStep == TypeInv /\ [Next]_vars => TypeInv'
<1>. SUFFICES ASSUME TypeInv, [Next]_vars PROVE TypeInv'
  OBVIOUS
<1>. USE DEF TypeInv, TypeOK, Shape, sfTypeOK, Steps, Flushing, callVars, histVars, backupVars, sfVars
<1>1. CASE Load
  <2>1. sfUnloaded /\ LoadDesired /\ UNCHANGED <<callVars, histVars, backupVars>>
    BY <1>1 DEF Load
  <2>. QED
    BY <2>1, LoadTypes DEF sfUnloaded, Maybe
<1>2. ASSUME NEW t \in Thread, BeginStep(t) PROVE TypeInv'
  <2>1. desired \in Snapshot /\ Envelop(desired, current) \in Memory
    BY <1>2 DEF BeginStep, Begin, Maybe, Envelop, Memory
  <2>. QED
    BY <1>2, <2>1 DEF BeginStep, Begin, Goto, Maybe, Envelop
<1>3. ASSUME NEW t \in Thread, AssignCurrent(t) PROVE TypeInv'
  BY <1>3 DEF AssignCurrent, Goto, Maybe
<1>4. ASSUME NEW t \in Thread, ReadDesired(t) PROVE TypeInv'
  BY <1>4 DEF ReadDesired, Goto, Memory
<1>5. ASSUME NEW t \in Thread, ReadCurrent(t) PROVE TypeInv'
  BY <1>5 DEF ReadCurrent, Goto, Memory
<1>6. ASSUME NEW t \in Thread, Backup(t) PROVE TypeInv'
  BY <1>6 DEF Backup, Goto
<1>7. ASSUME NEW t \in Thread, WriteTemp(t) PROVE TypeInv'
  BY <1>7 DEF WriteTemp, Goto
<1>8. ASSUME NEW t \in Thread, Replace(t) PROVE TypeInv'
  <2>1. buf[t] \in Envelope
    BY <1>8 DEF Replace, Memory, Envelope, Maybe
  <2>. QED
    BY <1>8, <2>1, NothingHeldTypes DEF Replace, Return, Goto, Maybe
<1>9. ASSUME NEW t \in Thread, FlushFails(t) PROVE TypeInv'
  BY <1>9, NothingHeldTypes DEF FlushFails, Return, Goto, Maybe
<1>10. CASE Crash
  BY <1>10, NothingHeldTypes DEF Crash, Forget, Maybe
<1>11. CASE Tick
  BY <1>11 DEF Tick
<1>12. CASE UNCHANGED vars
  BY <1>12 DEF vars
<1>. QED
  BY <1>1, <1>2, <1>3, <1>4, <1>5, <1>6, <1>7, <1>8, <1>9, <1>10, <1>11, <1>12, CallCases
  DEF Next, Progress

\* Types, for any number of threads.
THEOREM TypeCorrect == Spec => []TypeOK
  BY TypeInvInit, TypeInvStep, PTL DEF Spec, TypeInv

-----------------------------------------------------------------------------
\* A call that no other has overlapped is alone, and builds its envelope from
\* the memory everyone sees.
AloneInv ==
    ~contended =>
        /\ \A s, t \in Thread : pc[s] # "idle" /\ pc[t] # "idle" => s = t
        /\ \A t \in Thread : pc[t] \in Flushing => buf[t].desired = desired
        /\ \A t \in Thread : pc[t] \in Flushing \ {"read_current"} => buf[t].current = current

HealInv == TypeInv /\ AloneInv /\ UncontendedSaveIsOnDisk

LEMMA HealInvStep == HealInv /\ TypeInv' /\ [Next]_vars => HealInv'
<1>. SUFFICES ASSUME HealInv, TypeInv', [Next]_vars PROVE HealInv'
  OBVIOUS
<1>. USE DEF HealInv, AloneInv, UncontendedSaveIsOnDisk, Idle, Flushing, callVars, histVars,
             backupVars, sfVars
<1>0. pc \in [Thread -> Steps] /\ buf \in [Thread -> Memory]
  BY DEF TypeInv, TypeOK
<1>1. CASE Load
  BY <1>1 DEF Load, sfUnloaded, TypeInv, Shape
<1>2. ASSUME NEW t \in Thread, BeginStep(t) PROVE HealInv'
  <2>1. /\ pc'[t] \in {"assign", "read_desired"}
        /\ \A u \in Thread : u # t => pc'[u] = pc[u]
        /\ contended' = ~(\A u \in Thread : pc[u] = "idle")
    BY <1>0, <1>2 DEF BeginStep, Begin, Goto
  <2>2. AloneInv'
    BY <2>1
  <2>3. UncontendedSaveIsOnDisk'
    BY <2>1
  <2>. QED
    BY <2>2, <2>3
<1>3. ASSUME NEW t \in Thread, AssignCurrent(t) PROVE HealInv'
  BY <1>0, <1>3 DEF AssignCurrent, Goto, Steps
<1>4. ASSUME NEW t \in Thread, ReadDesired(t) PROVE HealInv'
  BY <1>0, <1>4 DEF ReadDesired, Goto, Steps, Memory
<1>5. ASSUME NEW t \in Thread, ReadCurrent(t) PROVE HealInv'
  BY <1>0, <1>5 DEF ReadCurrent, Goto, Steps, Memory
<1>6. ASSUME NEW t \in Thread, Backup(t) PROVE HealInv'
  BY <1>0, <1>6 DEF Backup, Goto, Steps
<1>7. ASSUME NEW t \in Thread, WriteTemp(t) PROVE HealInv'
  BY <1>0, <1>7 DEF WriteTemp, Goto, Steps
<1>8. ASSUME NEW t \in Thread, Replace(t) PROVE HealInv'
  <2>1. ~contended => buf[t] = Envelop(desired, current)
    BY <1>0, <1>8 DEF Replace, Memory, Envelop
  <2>. QED
    BY <1>0, <1>8, <2>1 DEF Replace, Return, Goto, Steps, Envelop
<1>9. ASSUME NEW t \in Thread, FlushFails(t) PROVE HealInv'
  BY <1>0, <1>9 DEF FlushFails, Return, Goto, Steps
<1>10. CASE Crash
  BY <1>10 DEF Crash
<1>11. CASE Tick
  BY <1>11 DEF Tick
<1>12. CASE UNCHANGED vars
  BY <1>12 DEF vars
<1>. QED
  BY <1>1, <1>2, <1>3, <1>4, <1>5, <1>6, <1>7, <1>8, <1>9, <1>10, <1>11, <1>12, CallCases
  DEF Next, Progress

\* Whatever races came before, a successful call that overlapped no other
\* leaves on disk what memory holds.
THEOREM UncontendedSafety == Spec => []UncontendedSaveIsOnDisk
<1>1. Init => HealInv
  BY TypeInvInit
  DEF Init, HealInv, AloneInv, UncontendedSaveIsOnDisk, Flushing
<1>2. HealInv => UncontendedSaveIsOnDisk
  BY DEF HealInv
<1>. QED
  BY <1>1, <1>2, HealInvStep, TypeInvInit, TypeInvStep, PTL DEF Spec

\* No interleaving of calls and crashes leaves a file that cannot be read.
THEOREM FileIsNeverTorn == Spec => NeverTorn
<1>1. TypeInv /\ [Next]_vars => [file' = Corrupt => file = Corrupt]_vars
  <2>. SUFFICES ASSUME TypeInv, Next, file' = Corrupt PROVE file = Corrupt
    OBVIOUS
  <2>1. CASE Load
    BY <2>1, LoadTypes DEF Load
  <2>2. ASSUME NEW t \in Thread, Replace(t) PROVE file = Corrupt
    <3>1. buf[t] \in Envelope
      BY <2>2 DEF Replace, TypeInv, TypeOK, Shape, Flushing, Memory, Envelope, Maybe
    <3>. QED
      BY <2>2, <3>1 DEF Replace
  <2>3. CASE file' = file
    BY <2>3
  <2>4. ASSUME NEW t \in Thread, Call(t) \/ (Progress(t) /\ ~Replace(t)) PROVE file' = file
    BY <2>4, CallCases DEF BeginStep, Begin, Progress, AssignCurrent, ReadDesired, ReadCurrent,
                           Backup, WriteTemp, FlushFails, sfVars
  <2>5. CASE Crash \/ Tick
    BY <2>5 DEF Crash, Forget, Tick, sfVars
  <2>. QED
    BY <2>1, <2>2, <2>3, <2>4, <2>5 DEF Next
<1>. QED
  BY <1>1, TypeInvInit, TypeInvStep, PTL DEF Spec, NeverTorn
-----------------------------------------------------------------------------
\* What the only call of an immediate plugin has done to memory, if it is alone.
PairInv ==
    ~contended =>
        /\ \A t \in Thread : pc[t] = "assign" => desired = arg[t]
        /\ \A t \in Thread : pc[t] \notin {"idle", "assign"} => current = desired
        /\ Idle /\ last # "none" => current = desired

ImmediateInv == HealInv /\ PairInv

LEMMA PairStep ==
    ASSUME Immediate, Calls = {"save_desired"}, ImmediateInv, HealInv', [Next]_vars
    PROVE  PairInv'
<1>. USE DEF ImmediateInv, PairInv, Idle, callVars, histVars, backupVars, sfVars
<1>0. /\ pc \in [Thread -> Steps] /\ arg \in [Thread -> Maybe]
  BY DEF HealInv, TypeInv, TypeOK
<1>1. CASE Load
  BY <1>1 DEF Load, sfUnloaded, HealInv, TypeInv, Shape
<1>2. ASSUME NEW t \in Thread, Call(t) PROVE PairInv'
  <2>1. PICK s \in Snapshot : BeginSaveDesired(t, s)
    BY <1>2 DEF Call, BeginCommit, BeginCommitDefault, BeginSaveAndCommit, Begin
  <2>2. /\ pc' = [pc EXCEPT ![t] = "assign"] /\ arg' = [arg EXCEPT ![t] = s]
        /\ desired' = s
    BY <2>1 DEF BeginSaveDesired, Begin, Goto
  <2>3. ~contended' => \A u \in Thread : pc[u] = "idle"
    BY <2>1 DEF BeginSaveDesired, Begin
  <2>. QED
    BY <1>0, <2>2, <2>3
<1>3. ASSUME NEW t \in Thread, AssignCurrent(t) PROVE PairInv'
  BY <1>0, <1>3 DEF AssignCurrent, Goto, HealInv, AloneInv
<1>4. ASSUME NEW t \in Thread, ReadDesired(t) PROVE PairInv'
  BY <1>0, <1>4 DEF ReadDesired, Goto
<1>5. ASSUME NEW t \in Thread, ReadCurrent(t) PROVE PairInv'
  BY <1>0, <1>5 DEF ReadCurrent, Goto
<1>6. ASSUME NEW t \in Thread, Backup(t) PROVE PairInv'
  BY <1>0, <1>6 DEF Backup, Goto
<1>7. ASSUME NEW t \in Thread, WriteTemp(t) PROVE PairInv'
  BY <1>0, <1>7 DEF WriteTemp, Goto
<1>8. ASSUME NEW t \in Thread, Replace(t) \/ FlushFails(t) PROVE PairInv'
  <2>1. /\ pc[t] \in {"write", "replace"} /\ pc' = [pc EXCEPT ![t] = "idle"]
        /\ contended' = contended
        /\ desired' = desired /\ current' = current
    BY <1>8 DEF Replace, FlushFails, Return, Goto
  <2>2. \A u \in Thread : pc'[u] # "idle" => pc'[u] = pc[u] /\ arg'[u] = arg[u]
    BY <1>0, <1>8 DEF Replace, FlushFails, Return, Goto
  <2>. QED
    BY <1>0, <2>1, <2>2
<1>9. CASE Crash
  BY <1>9 DEF Crash
<1>10. CASE Tick
  BY <1>10 DEF Tick
<1>11. CASE UNCHANGED vars
  BY <1>11 DEF vars
<1>. QED
  BY <1>1, <1>2, <1>3, <1>4, <1>5, <1>6, <1>7, <1>8, <1>9, <1>10, <1>11 DEF Next, Progress

\* Any number of threads: in an immediate plugin, a mutation that overlapped no
\* other leaves nothing pending, whatever races and failures came before it.
THEOREM ImmediateSafety ==
    ASSUME Immediate, Calls = {"save_desired"}
    PROVE  Spec => []UncontendedNeverPending
<1>1. Init => ImmediateInv
  BY TypeInvInit
  DEF Init, ImmediateInv, PairInv, HealInv, AloneInv, UncontendedSaveIsOnDisk, Flushing
<1>2. ImmediateInv /\ [Next]_vars => ImmediateInv'
  BY PairStep, HealInvStep, TypeInvStep DEF ImmediateInv, HealInv
<1>3. ImmediateInv => UncontendedNeverPending
  BY DEF ImmediateInv, PairInv, UncontendedNeverPending, PendingChanges
<1>. QED
  BY <1>1, <1>2, <1>3, PTL DEF Spec

-----------------------------------------------------------------------------
(***************************************************************************)
(* One thread: StateFileIO implements StateFile.  The steps of a call are  *)
(* invisible until it returns, because what the file then holds is what    *)
(* the call found in memory changed as its method says.                    *)
(***************************************************************************)
Serial == \A s, t \in Thread : s = t

\* What a call has done to memory once its assignments are behind it.
Assigned(t) ==
    \/ desired = arg[t] /\ current = arg[t]
    \/ desired = arg[t] /\ current = before[t].current /\ ~Immediate
    \/ desired = before[t].desired /\ current = arg[t]

CallEffect ==
    \A t \in Thread :
        /\ pc[t] = "assign" => desired = arg[t]
        /\ pc[t] \notin {"idle", "assign"} => Assigned(t)

SerialInv == HealInv /\ ~contended /\ CallEffect

LEMMA EffectStep ==
    ASSUME Serial, SerialInv, HealInv', [Next]_vars
    PROVE  SerialInv'
<1>. USE DEF SerialInv, CallEffect, Assigned, callVars, histVars, backupVars, sfVars
<1>0. /\ pc \in [Thread -> Steps] /\ arg \in [Thread -> Maybe]
      /\ before \in [Thread -> Memory]
  BY DEF HealInv, TypeInv, TypeOK
<1>1. CASE Load
  BY <1>1 DEF Load, sfUnloaded, HealInv, TypeInv, Shape
<1>2. ASSUME NEW t \in Thread, Call(t) PROVE SerialInv'
  <2>1. CallEffect'
    <3>1. ASSUME NEW s \in Snapshot, BeginSaveDesired(t, s) PROVE CallEffect'
      BY <1>0, <3>1 DEF BeginSaveDesired, Begin, Goto, Serial, Envelop, Memory
    <3>2. ASSUME NEW s \in Snapshot, BeginCommit(t, s) PROVE CallEffect'
      BY <1>0, <3>2 DEF BeginCommit, Begin, Goto, Serial, Envelop, Memory
    <3>3. ASSUME BeginCommitDefault(t) PROVE CallEffect'
      BY <1>0, <3>3 DEF BeginCommitDefault, Begin, Goto, Serial, Envelop, Memory
    <3>4. ASSUME NEW s \in Snapshot, BeginSaveAndCommit(t, s) PROVE CallEffect'
      BY <1>0, <3>4 DEF BeginSaveAndCommit, Begin, Goto, Serial, Envelop, Memory
    <3>. QED
      BY <1>2, <3>1, <3>2, <3>3, <3>4 DEF Call
  <2>2. PICK m \in Methods, s \in Snapshot : Begin(t, m, s)
    BY <1>2, CallCases DEF BeginStep, HealInv
  <2>3. Idle
    BY <2>2 DEF Begin, Idle, Serial
  <2>4. ~contended'
    BY <2>2, <2>3 DEF Begin
  <2>. QED
    BY <2>1, <2>4
<1>3. ASSUME NEW t \in Thread, AssignCurrent(t) PROVE SerialInv'
  BY <1>0, <1>3 DEF AssignCurrent, Goto, Serial
<1>4. ASSUME NEW t \in Thread, ReadDesired(t) PROVE SerialInv'
  BY <1>0, <1>4 DEF ReadDesired, Goto, Serial
<1>5. ASSUME NEW t \in Thread, ReadCurrent(t) PROVE SerialInv'
  BY <1>0, <1>5 DEF ReadCurrent, Goto, Serial
<1>6. ASSUME NEW t \in Thread, Backup(t) PROVE SerialInv'
  BY <1>0, <1>6 DEF Backup, Goto, Serial
<1>7. ASSUME NEW t \in Thread, WriteTemp(t) PROVE SerialInv'
  BY <1>0, <1>7 DEF WriteTemp, Goto, Serial
<1>8. ASSUME NEW t \in Thread, Replace(t) \/ FlushFails(t) PROVE SerialInv'
  BY <1>0, <1>8 DEF Replace, FlushFails, Return, Goto, Serial
<1>9. CASE Crash
  BY <1>9 DEF Crash
<1>10. CASE Tick
  BY <1>10 DEF Tick
<1>11. CASE UNCHANGED vars
  BY <1>11 DEF vars
<1>. QED
  BY <1>1, <1>2, <1>3, <1>4, <1>5, <1>6, <1>7, <1>8, <1>9, <1>10, <1>11 DEF Next, Progress

\* Between calls the settled view is memory; during one it is what the call found.
LEMMA SettledIdle == Idle => settledDesired = desired /\ settledCurrent = current
  BY DEF settledDesired, settledCurrent

LEMMA SettledBusy ==
    ASSUME Serial, NEW t \in Thread, pc[t] # "idle"
    PROVE  /\ ~Idle
           /\ settledDesired = before[t].desired
           /\ settledCurrent = before[t].current
<1>1. ~Idle
  BY DEF Idle
<1>2. InFlight = t
  <2>1. InFlight \in Thread
    BY Zenon DEF InFlight
  <2>. QED
    BY <2>1 DEF Serial
<1>. QED
  BY <1>1, <1>2 DEF settledDesired, settledCurrent

settledVars == <<settledDesired, settledCurrent, file>>

LEMMA SettledStep ==
    ASSUME Serial, SerialInv, SerialInv', [Next]_vars
    PROVE  [Atomic!sfNext]_settledVars
<1>. USE DEF settledVars
<1>0. /\ pc \in [Thread -> Steps] /\ arg \in [Thread -> Maybe]
      /\ before \in [Thread -> Memory] /\ desired \in Maybe /\ current \in Maybe
  BY DEF SerialInv, HealInv, TypeInv, TypeOK, sfTypeOK
<1>a. Idle' => settledDesired' = desired' /\ settledCurrent' = current'
  BY DEF settledDesired, settledCurrent
<1>b. ASSUME NEW t \in Thread, pc'[t] # "idle"
      PROVE  settledDesired' = before'[t].desired /\ settledCurrent' = before'[t].current
  <2>1. ~Idle'
    BY <1>b DEF Idle
  <2>2. InFlight' = t
    <3>1. InFlight' \in Thread
      BY <1>b, Zenon DEF InFlight
    <3>. QED
      BY <3>1 DEF Serial
  <2>. QED
    BY <2>1, <2>2 DEF settledDesired, settledCurrent
<1>1. CASE Load
  <2>1. desired = None /\ current = None /\ LoadDesired /\ pc' = pc
    BY <1>1 DEF Load, sfUnloaded, callVars
  <2>2. Idle /\ Idle'
    BY <2>1 DEF SerialInv, HealInv, TypeInv, Shape, Idle
  <2>3. /\ settledDesired = desired /\ settledCurrent = current
        /\ settledDesired' = desired' /\ settledCurrent' = current'
    BY <2>2, SettledIdle, <1>a
  <2>4. Atomic!LoadDesired
    BY <2>1, <2>3
    DEF LoadDesired, LoadMissing, LoadPresent, LoadCorrupt, Flush, Envelop, Envelope, Maybe,
        Atomic!LoadDesired, Atomic!LoadMissing, Atomic!LoadPresent, Atomic!LoadCorrupt,
        Atomic!Flush, Atomic!Envelop, Atomic!Envelope, Atomic!Maybe
  <2>. QED
    BY <2>1, <2>3, <2>4 DEF Atomic!sfNext, Atomic!sfUnloaded
<1>2. ASSUME NEW t \in Thread, Call(t) PROVE UNCHANGED settledVars
  <2>1. PICK m \in Methods, s \in Snapshot : Begin(t, m, s) /\ pc'[t] # "idle"
    BY <1>0, <1>2, CallCases DEF BeginStep, Goto, SerialInv, HealInv
  <2>2. Idle
    BY <2>1 DEF Begin, Idle, Serial
  <2>3. before'[t].desired = desired /\ before'[t].current = current
    BY <1>0, <2>1 DEF Begin, Envelop
  <2>4. file' = file
    BY <2>1 DEF Begin
  <2>. QED
    BY <2>1, <2>2, <2>3, <2>4, SettledIdle, <1>b
<1>3. ASSUME NEW t \in Thread,
             \/ AssignCurrent(t) \/ ReadDesired(t) \/ ReadCurrent(t) \/ Backup(t) \/ WriteTemp(t)
      PROVE  UNCHANGED settledVars
  <2>1. pc[t] # "idle" /\ pc'[t] # "idle" /\ before' = before /\ file' = file
    BY <1>0, <1>3 DEF AssignCurrent, ReadDesired, ReadCurrent, Backup, WriteTemp, Goto, sfVars
  <2>. QED
    BY <2>1, SettledBusy, <1>b
<1>4. ASSUME NEW t \in Thread, Replace(t) \/ FlushFails(t) PROVE Atomic!sfNext
  <2>1. /\ pc[t] \in {"write", "replace"} /\ pc'[t] = "idle"
        /\ desired' = desired /\ current' = current
        /\ (file' = buf[t] /\ pc[t] = "replace") \/ file' = file
    BY <1>0, <1>4 DEF Replace, FlushFails, Return, Goto, sfVars
  <2>2. Idle'
    BY <2>1 DEF Idle, Serial
  <2>3. /\ settledDesired = before[t].desired /\ settledCurrent = before[t].current
        /\ settledDesired' = desired /\ settledCurrent' = current
    BY <2>1, <2>2, SettledBusy, <1>a
  <2>4. Atomic!Flush
    <3>1. file' = buf[t] => file' = Envelop(desired, current)
      BY <2>1 DEF SerialInv, HealInv, AloneInv, TypeInv, TypeOK, Memory, Flushing, Envelop
    <3>. QED
      BY <2>1, <2>3, <3>1 DEF Atomic!Flush, Atomic!Envelop, Envelop
  <2>5. arg[t] \in Snapshot /\ before[t].desired # None /\ Assigned(t)
    BY <2>1 DEF SerialInv, CallEffect, HealInv, TypeInv, Shape
  <2>6. CASE desired = arg[t] /\ current = arg[t]
    <3>1. Atomic!SaveAndCommit(arg[t])
      BY <2>3, <2>4, <2>6 DEF Atomic!SaveAndCommit
    <3>. QED
      BY <2>3, <2>5, <3>1 DEF Atomic!sfNext
  <2>7. CASE desired = arg[t] /\ current = before[t].current /\ ~Immediate
    <3>1. Atomic!SaveDesired(arg[t])
      BY <2>3, <2>4, <2>7 DEF Atomic!SaveDesired
    <3>. QED
      BY <2>3, <2>5, <3>1 DEF Atomic!sfNext
  <2>8. CASE desired = before[t].desired /\ current = arg[t]
    <3>1. Atomic!Commit(arg[t])
      BY <2>3, <2>4, <2>8 DEF Atomic!Commit
    <3>. QED
      BY <2>3, <2>5, <3>1 DEF Atomic!sfNext
  <2>. QED
    BY <2>5, <2>6, <2>7, <2>8 DEF Assigned
<1>5. CASE Crash
  <2>1. desired # None /\ Forget /\ Idle'
    BY <1>5 DEF Crash, Idle
  <2>2. settledDesired # None
    <3>1. CASE Idle
      BY <3>1, <2>1, SettledIdle
    <3>2. ASSUME NEW t \in Thread, pc[t] # "idle" PROVE settledDesired # None
      BY <3>2, SettledBusy DEF SerialInv, HealInv, TypeInv, Shape
    <3>. QED
      BY <3>1, <3>2 DEF Idle
  <2>. QED
    BY <2>1, <2>2, <1>a DEF Forget, Atomic!sfNext, Atomic!Forget
<1>6. CASE Tick \/ UNCHANGED vars
  <2>1. UNCHANGED <<desired, current, file, pc, before>>
    BY <1>6 DEF Tick, vars, sfVars, callVars
  <2>2. CASE Idle
    <3>1. Idle'
      BY <2>1, <2>2 DEF Idle
    <3>. QED
      BY <2>1, <2>2, <3>1, SettledIdle, <1>a
  <2>3. ASSUME NEW t \in Thread, pc[t] # "idle" PROVE UNCHANGED settledVars
    BY <2>1, <2>3, SettledBusy, <1>b
  <2>. QED
    BY <2>2, <2>3 DEF Idle
<1>. QED
  BY <1>1, <1>2, <1>3, <1>4, <1>5, <1>6 DEF Next, Progress

\* With one thread the step-by-step methods implement the atomic ones.
THEOREM SerialRefinement ==
    ASSUME Serial
    PROVE  Spec => ImplementsStateFile
<1>1. Init => SerialInv
  BY TypeInvInit
  DEF Init, SerialInv, HealInv, AloneInv, UncontendedSaveIsOnDisk, Flushing, CallEffect
<1>2. SerialInv /\ [Next]_vars => SerialInv'
  BY EffectStep, HealInvStep, TypeInvStep DEF SerialInv, HealInv
<1>3. Init => Atomic!sfInit
  BY SettledIdle DEF Init, Idle, sfInit, sfUnloaded, Atomic!sfInit, Atomic!sfUnloaded
<1>4. SerialInv /\ SerialInv' /\ [Next]_vars => [Atomic!sfNext]_settledVars
  BY SettledStep
<1>. QED
  BY <1>1, <1>2, <1>3, <1>4, PTL
  DEF Spec, ImplementsStateFile, Atomic!sfSpec, Atomic!sfVars, settledVars

-----------------------------------------------------------------------------
\* A call that is about to write has a backup of the file as it is now: nothing
\* between the copy and the rename changes the file, or the second of the copy.
BackedUp ==
    BackupEnabled /\ ~BackupMayFail /\ file # None =>
        \A t \in Thread : pc[t] \in {"write", "replace"} =>
            \E s \in DOMAIN backups : backups[s] = file

LEMMA BackedUpStep == ASSUME Serial, TypeInv, BackedUp, [Next]_vars PROVE BackedUp'
<1>. USE DEF BackedUp, callVars, histVars, backupVars, sfVars
<1>0. /\ pc \in [Thread -> Steps] /\ clock \in 0..MaxClock
      /\ backups \in [0..MaxClock -> Envelope \union {None, Corrupt}]
  BY DEF TypeInv, TypeOK
<1>1. CASE Load
  BY <1>1 DEF Load, sfUnloaded, TypeInv, Shape
<1>2. ASSUME NEW t \in Thread, Call(t) PROVE BackedUp'
  <2>1. \A s \in Thread : pc'[s] \notin {"write", "replace"}
    BY <1>0, <1>2 DEF Call, BeginSaveDesired, BeginCommit, BeginCommitDefault,
                      BeginSaveAndCommit, Begin, Goto, Serial
  <2>. QED
    BY <2>1
<1>3. ASSUME NEW t \in Thread, AssignCurrent(t) \/ ReadDesired(t) PROVE BackedUp'
  BY <1>0, <1>3 DEF AssignCurrent, ReadDesired, Goto, Serial
<1>4. ASSUME NEW t \in Thread, ReadCurrent(t) PROVE BackedUp'
  BY <1>0, <1>4 DEF ReadCurrent, Goto, Serial
<1>5. ASSUME NEW t \in Thread, Backup(t) PROVE BackedUp'
  <2>1. CASE file # None /\ backups' = [backups EXCEPT ![clock] = file]
    <3>1. clock \in DOMAIN backups' /\ backups'[clock] = file
      BY <1>0, <2>1
    <3>2. file' = file
      BY <1>5 DEF Backup
    <3>. QED
      BY <3>1, <3>2
  <2>2. CASE file = None \/ BackupMayFail
    BY <1>5, <2>2 DEF Backup
  <2>. QED
    BY <1>5, <2>1, <2>2 DEF Backup
<1>6. ASSUME NEW t \in Thread, WriteTemp(t) PROVE BackedUp'
  BY <1>0, <1>6 DEF WriteTemp, Goto, Serial
<1>7. ASSUME NEW t \in Thread, Replace(t) \/ FlushFails(t) PROVE BackedUp'
  BY <1>0, <1>7 DEF Replace, FlushFails, Return, Goto, Serial
<1>8. CASE Crash
  BY <1>8 DEF Crash
<1>9. CASE Tick \/ UNCHANGED vars
  BY <1>9 DEF Tick, vars
<1>. QED
  BY <1>1, <1>2, <1>3, <1>4, <1>5, <1>6, <1>7, <1>8, <1>9 DEF Next, Progress

\* "snapshots every state file before every write": with calls that do not
\* overlap, a file that is replaced is in a backup at that moment, although
\* backups of the same second replace each other.
THEOREM SerialBackups ==
    ASSUME Serial
    PROVE  Spec => OverwrittenIsBackedUp
<1>1. Init => BackedUp
  BY DEF Init, BackedUp
<1>2. TypeInv /\ BackedUp /\ [Next]_vars => BackedUp'
  BY BackedUpStep
<1>3. BackedUp /\ [Next]_vars =>
          [\A t \in Thread : BackupEnabled /\ ~BackupMayFail /\ Replace(t) /\ file # None
              => \E s \in DOMAIN backups : backups[s] = file]_vars
  BY DEF BackedUp, Replace
<1>. QED
  BY <1>1, <1>2, <1>3, TypeInvInit, TypeInvStep, PTL DEF Spec, OverwrittenIsBackedUp
=============================================================================
