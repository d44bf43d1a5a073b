------------------------------ MODULE StateFile ------------------------------
(***************************************************************************)
(* PluginStateFile of src/infra/state_manager.py, one action per method:   *)
(* the desired/current pair a plugin holds in memory and the envelope it   *)
(* keeps on disk.  Every plugin that persists anything owns one.           *)
(*                                                                         *)
(* Each method is one step here, which is what a plugin relies on when it  *)
(* calls it.  StateFileIO takes the methods apart and shows when that view *)
(* is justified.  A snapshot is an opaque value; versions, timestamps and  *)
(* the macro snapshot, which no decision reads, are left out.              *)
(***************************************************************************)
CONSTANTS
    Snapshot,   \* the states a plugin can be asked to configure
    Default,    \* the default a plugin passes to load_desired
    None,       \* Python's None, and "no file"
    Corrupt,    \* a file json.load cannot parse
    Immediate   \* TRUE for mutation_model="immediate", FALSE for "deferred"

ASSUME SnapshotAssumption ==
    /\ Default \in Snapshot
    /\ None \notin Snapshot
    /\ Immediate \in BOOLEAN

VARIABLES
    desired,    \* self._desired
    current,    \* self._current
    file        \* the JSON file at self._path

sfVars == <<desired, current, file>>

Maybe == Snapshot \union {None}

Envelope == [desired : Snapshot, current : Maybe]

ASSUME FileAssumption == Corrupt # None /\ {Corrupt, None} \intersect Envelope = {}

sfTypeOK ==
    /\ desired \in Maybe
    /\ current \in Maybe
    /\ file \in Envelope \union {None, Corrupt}

-----------------------------------------------------------------------------
\* A process that has not called load_desired yet.
sfUnloaded == desired = None /\ current = None

\* A first start, or a file damaged from outside.
sfInit == sfUnloaded /\ file \in {None, Corrupt}

Envelop(d, c) == [desired |-> d, current |-> c]

\* save() replaces the file or, on any exception, logs it and returns False;
\* no caller undoes the change of memory it was meant to persist.
Flush == file' \in {Envelop(desired', current'), file}

LoadMissing ==
    /\ file = None
    /\ desired' = Default
    /\ current' = IF Immediate THEN Default ELSE None
    /\ Flush

LoadPresent ==
    /\ file \in Envelope
    /\ desired' = file.desired
    /\ current' = file.current
    /\ UNCHANGED file

\* load() swallows the parse error and answers {}.
LoadCorrupt ==
    /\ file = Corrupt
    /\ desired' = Default
    /\ current' = None
    /\ UNCHANGED file

LoadDesired == LoadMissing \/ LoadPresent \/ LoadCorrupt

SaveDesired(s) ==
    /\ desired' = s
    /\ current' = IF Immediate THEN s ELSE current
    /\ Flush

Commit(s) ==
    /\ current' = s
    /\ UNCHANGED desired
    /\ Flush

\* commit() called without a snapshot.
CommitDesired == Commit(desired)

SaveAndCommit(s) ==
    /\ desired' = s
    /\ current' = s
    /\ Flush

\* The process dies: memory goes, the file stays.
Forget ==
    /\ desired' = None
    /\ current' = None
    /\ UNCHANGED file

\* "self._desired != (self._current or self._desired)"; a committed snapshot
\* is never an empty dict, so only None is falsy.
PendingChanges == desired # None /\ current # None /\ desired # current

-----------------------------------------------------------------------------
sfNext ==
    \/ sfUnloaded /\ LoadDesired
    \/ /\ desired # None
       /\ \/ \E s \in Snapshot : SaveDesired(s) \/ Commit(s) \/ SaveAndCommit(s)
          \/ CommitDesired
          \/ Forget

sfSpec == sfInit /\ [][sfNext]_sfVars
=============================================================================
