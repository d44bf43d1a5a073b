---------------------------- MODULE DeferredConfig ----------------------------
(***************************************************************************)
(* What a plugin with the deferred mutation model promises (README.md,     *)
(* "State files"): mutations change what is intended and nothing else; an  *)
(* apply makes the system enforce what is intended, and only then is it    *)
(* recorded as applied; a discard returns to what was last recorded.       *)
(* A stop may come at any point and a start may find any record on disk.   *)
(***************************************************************************)
CONSTANTS
    Config,     \* what a client can ask for
    Image(_),   \* what the system runs when it enforces a configuration
    None

VARIABLES
    intended,   \* the configuration the API edits, None while stopped
    enforced,   \* what the system runs, None if nothing
    recorded    \* the configuration reported as applied, None if never

vars == <<intended, enforced, recorded>>

Init ==
    /\ intended = None
    /\ enforced = None
    /\ recorded = None

Start ==
    /\ intended = None
    /\ intended' \in Config
    /\ recorded' \in Config \union {None}
    /\ UNCHANGED enforced

Stop ==
    /\ intended # None
    /\ intended' = None
    /\ recorded' = None
    /\ UNCHANGED enforced

\* The machine restarts: the system enforces nothing, or what it loads by itself.
Reset(loaded) ==
    /\ intended' = None
    /\ recorded' = None
    /\ enforced' = loaded

Change ==
    /\ intended # None
    /\ intended' \in Config
    /\ UNCHANGED <<enforced, recorded>>

Revert ==
    /\ recorded # None
    /\ intended' = recorded
    /\ UNCHANGED <<enforced, recorded>>

Enforce ==
    /\ intended # None
    /\ enforced' = Image(intended)
    /\ UNCHANGED <<intended, recorded>>

Record ==
    /\ intended # None
    /\ enforced = Image(intended)
    /\ recorded' = intended
    /\ UNCHANGED <<intended, enforced>>

Next ==
    \/ Start \/ Stop \/ Change \/ Revert \/ Enforce \/ Record
    \/ Reset(None)
    \/ \E c \in Config : Reset(Image(c))

Spec == Init /\ [][Next]_vars
===============================================================================
