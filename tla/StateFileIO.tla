----------------------------- MODULE StateFileIO -----------------------------
(***************************************************************************)
(* The methods of PluginStateFile taken apart: the assignments to memory,  *)
(* the two reads that build the envelope, the backup copy, the temporary   *)
(* file and the rename are separate steps.  FastAPI runs a plain "def"     *)
(* endpoint on a thread pool and the class takes no lock, so the steps of  *)
(* several calls interleave; the process may die between any two of them.  *)
(***************************************************************************)
EXTENDS StateFile, Naturals, FiniteSets

CONSTANTS
    Thread,         \* request threads
    Calls,          \* the methods the owning plugin calls
    BackupEnabled,  \* state.backup.enabled of app_config.yaml
    BackupMayFail,  \* whether the copy into the backup directory can fail
    FlushMayFail,   \* whether writing the state file can fail
    MaxClock        \* bound: seconds that may pass

Methods == {"save_desired", "commit", "commit_default", "save_and_commit"}

ASSUME IOAssumption ==
    /\ Calls \subseteq Methods
    /\ {BackupEnabled, BackupMayFail, FlushMayFail} \subseteq BOOLEAN
    /\ MaxClock \in Nat

VARIABLES
    pc,         \* where each thread is
    arg,        \* the snapshot its call was given
    buf,        \* the envelope its _flush is building
    before,     \* history: memory when its call began
    last,       \* history: what the last call to finish returned
    contended,  \* history: a call began while another was in flight
    clock,      \* time.time(), in seconds
    backups     \* backups[s]: the backup file whose name carries second s

callVars == <<pc, arg, buf, before>>
histVars == <<last, contended>>
backupVars == <<clock, backups>>
vars == <<sfVars, callVars, histVars, backupVars>>

Steps == {"idle", "assign", "read_desired", "read_current", "backup", "write", "replace"}

Memory == [desired : Maybe, current : Maybe]

TypeOK ==
    /\ sfTypeOK
    /\ pc \in [Thread -> Steps]
    /\ arg \in [Thread -> Maybe]
    /\ buf \in [Thread -> Memory]
    /\ before \in [Thread -> Memory]
    /\ last \in {"none", "ok", "failed"}
    /\ contended \in BOOLEAN
    /\ clock \in 0..MaxClock
    /\ backups \in [0..MaxClock -> Envelope \union {None, Corrupt}]

NothingHeld == Envelop(None, None)

Init ==
    /\ sfInit
    /\ pc = [t \in Thread |-> "idle"]
    /\ arg = [t \in Thread |-> None]
    /\ buf = [t \in Thread |-> NothingHeld]
    /\ before = [t \in Thread |-> NothingHeld]
    /\ last = "none" /\ contended = FALSE
    /\ clock = 0
    /\ backups = [s \in 0..MaxClock |-> None]

-----------------------------------------------------------------------------
\* configure() loads before any route is mounted, so no call can overlap it.
Load ==
    /\ sfUnloaded
    /\ LoadDesired
    /\ UNCHANGED <<callVars, histVars, backupVars>>

Idle == \A t \in Thread : pc[t] = "idle"

Goto(t, step) == pc' = [pc EXCEPT ![t] = step]

Begin(t, method, s) ==
    /\ method \in Calls
    /\ pc[t] = "idle" /\ desired # None
    /\ arg' = [arg EXCEPT ![t] = s]
    /\ before' = [before EXCEPT ![t] = Envelop(desired, current)]
    /\ contended' = ~Idle
    /\ UNCHANGED <<file, buf, last, backupVars>>

\* Mutant of BeginSaveDesired: the immediate model forgets current.
SaveDesiredOnly(t, s) ==
    /\ Begin(t, "save_desired", s)
    /\ desired' = s
    /\ UNCHANGED current
    /\ Goto(t, "read_desired")

BeginSaveDesired(t, s) ==
    /\ Begin(t, "save_desired", s)
    /\ desired' = s
    /\ UNCHANGED current
    /\ Goto(t, IF Immediate THEN "assign" ELSE "read_desired")

BeginCommit(t, s) ==
    /\ Begin(t, "commit", s)
    /\ current' = s
    /\ UNCHANGED desired
    /\ Goto(t, "read_desired")

BeginCommitDefault(t) ==
    /\ Begin(t, "commit_default", desired)
    /\ current' = desired
    /\ UNCHANGED desired
    /\ Goto(t, "read_desired")

BeginSaveAndCommit(t, s) ==
    /\ Begin(t, "save_and_commit", s)
    /\ desired' = s
    /\ UNCHANGED current
    /\ Goto(t, "assign")

AssignCurrent(t) ==
    /\ pc[t] = "assign"
    /\ current' = arg[t]
    /\ Goto(t, "read_desired")
    /\ UNCHANGED <<desired, file, arg, buf, before, histVars, backupVars>>

\* Mutant of ReadDesired: the envelope goes without a desired_state.
SkipDesired(t) ==
    /\ pc[t] = "read_desired"
    /\ Goto(t, "read_current")
    /\ UNCHANGED <<sfVars, arg, buf, before, histVars, backupVars>>

ReadDesired(t) ==
    /\ pc[t] = "read_desired"
    /\ buf' = [buf EXCEPT ![t].desired = desired]
    /\ Goto(t, "read_current")
    /\ UNCHANGED <<sfVars, arg, before, histVars, backupVars>>

\* Mutant of ReadCurrent: the file is written without a backup.
ReadCurrentOnly(t) ==
    /\ pc[t] = "read_current"
    /\ buf' = [buf EXCEPT ![t].current = current]
    /\ Goto(t, "write")
    /\ UNCHANGED <<sfVars, arg, before, histVars, backupVars>>

\* Mutant of ReadCurrent: the envelope was built before the assignments.
ReadCurrentEarly(t) ==
    /\ pc[t] = "read_current"
    /\ buf' = [buf EXCEPT ![t].current = before[t].current]
    /\ Goto(t, IF BackupEnabled THEN "backup" ELSE "write")
    /\ UNCHANGED <<sfVars, arg, before, histVars, backupVars>>

ReadCurrent(t) ==
    /\ pc[t] = "read_current"
    /\ buf' = [buf EXCEPT ![t].current = current]
    /\ Goto(t, IF BackupEnabled THEN "backup" ELSE "write")
    /\ UNCHANGED <<sfVars, arg, before, histVars, backupVars>>

\* shutil.copy2 to a name with one-second resolution; a failure is logged only.
Backup(t) ==
    /\ pc[t] = "backup"
    /\ \/ file # None /\ backups' = [backups EXCEPT ![clock] = file]
       \/ (file = None \/ BackupMayFail) /\ UNCHANGED backups
    /\ Goto(t, "write")
    /\ UNCHANGED <<sfVars, arg, buf, before, histVars, clock>>

\* Mutant of WriteTemp: the file is opened for writing in place.
WriteInPlace(t) ==
    /\ pc[t] = "write"
    /\ file' = Corrupt
    /\ Goto(t, "replace")
    /\ UNCHANGED <<desired, current, arg, buf, before, histVars, backupVars>>

\* mkstemp and json.dump: nothing is visible under self._path yet.
WriteTemp(t) ==
    /\ pc[t] = "write"
    /\ Goto(t, "replace")
    /\ UNCHANGED <<sfVars, arg, buf, before, histVars, backupVars>>

\* The call returns and its locals die with it.
Return(t, outcome) ==
    /\ Goto(t, "idle")
    /\ arg' = [arg EXCEPT ![t] = None]
    /\ buf' = [buf EXCEPT ![t] = NothingHeld]
    /\ before' = [before EXCEPT ![t] = NothingHeld]
    /\ last' = outcome
    /\ UNCHANGED contended

Replace(t) ==
    /\ pc[t] = "replace"
    /\ file' = buf[t]
    /\ Return(t, "ok")
    /\ UNCHANGED <<desired, current, clock, backups>>

\* Mutant of FlushFails: the exception is logged and True returned.
FlushFailsUnnoticed(t) ==
    /\ FlushMayFail
    /\ pc[t] \in {"write", "replace"}
    /\ Return(t, "ok")
    /\ UNCHANGED <<sfVars, backupVars>>

FlushFails(t) ==
    /\ FlushMayFail
    /\ pc[t] \in {"write", "replace"}
    /\ Return(t, "failed")
    /\ UNCHANGED <<sfVars, backupVars>>

Call(t) ==
    \/ \E s \in Snapshot : BeginSaveDesired(t, s) \/ BeginCommit(t, s) \/ BeginSaveAndCommit(t, s)
    \/ BeginCommitDefault(t)

Progress(t) ==
    \/ AssignCurrent(t) \/ ReadDesired(t) \/ ReadCurrent(t)
    \/ Backup(t) \/ WriteTemp(t) \/ Replace(t) \/ FlushFails(t)

\* The process is killed: the calls in flight never return.  What a power loss
\* leaves of a file renamed and never synced is not modelled.
Crash ==
    /\ desired # None
    /\ Forget
    /\ pc' = [t \in Thread |-> "idle"]
    /\ arg' = [t \in Thread |-> None]
    /\ buf' = [t \in Thread |-> NothingHeld]
    /\ before' = [t \in Thread |-> NothingHeld]
    /\ last' = "none" /\ contended' = FALSE
    /\ UNCHANGED backupVars

Tick ==
    /\ clock < MaxClock
    /\ clock' = clock + 1
    /\ UNCHANGED <<sfVars, callVars, histVars, backups>>

Next ==
    \/ Load
    \/ \E t \in Thread : Call(t) \/ Progress(t)
    \/ Crash
    \/ Tick

Spec == Init /\ [][Next]_vars

-----------------------------------------------------------------------------
\* save_desired's "Persist *snapshot* as desired_state ... Returns True on
\* success": when no call is in flight and the last one reported success, a
\* restart would find in the file exactly what memory holds.
SavedMeansOnDisk == (Idle /\ last = "ok") => file = Envelop(desired, current)

\* The same for a call that no other call overlapped: whatever a race left in
\* the file, the next uncontended successful call repairs it.
UncontendedSaveIsOnDisk ==
    (Idle /\ last = "ok" /\ ~contended) => file = Envelop(desired, current)

\* Only damage from outside leaves a file that json.load rejects: whatever
\* interleaving of calls and crashes, save() never shows a partial file.
NeverTorn == [][file' = Corrupt => file = Corrupt]_vars

\* With the immediate model and a plugin that only calls save_desired, desired
\* and current agree after a call no other overlapped, whether its write failed
\* or not: pending_changes "stays False after every mutation", or a race that
\* split the pair is repaired by the next mutation.
UncontendedNeverPending == (Idle /\ last # "none" /\ ~contended) => ~PendingChanges

\* "snapshots every state file before every write": a file a call replaces is
\* in some backup at that moment, unless the copy could not be made.
OverwrittenIsBackedUp ==
    [][\A t \in Thread : BackupEnabled /\ ~BackupMayFail /\ Replace(t) /\ file # None
            => \E s \in DOMAIN backups : backups[s] = file]_vars

\* Calls that do not overlap behave like the one-step methods of StateFile: a
\* call that fails or dies half-way leaves the previous file, a call that
\* succeeds leaves the new one, and memory never shows a mixture to the next.
InFlight == CHOOSE t \in Thread : pc[t] # "idle"
settledDesired == IF Idle THEN desired ELSE before[InFlight].desired
settledCurrent == IF Idle THEN current ELSE before[InFlight].current

Atomic == INSTANCE StateFile WITH desired <- settledDesired, current <- settledCurrent

ImplementsStateFile == Atomic!sfSpec
=============================================================================
