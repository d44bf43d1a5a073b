-------------------------------- MODULE Plugin --------------------------------
(***************************************************************************)
(* What the models of the plugins share.                                   *)
(***************************************************************************)
EXTENDS Functions

CONSTANTS
    None,       \* no value, no file, nobody
    Thread      \* the threads of FastAPI's pool

\* One entry, and f laid over g: the operators of module TLC, whose definitions
\* the proof system does not have.
k :> v == [x \in {k} |-> v]
f @@ g == [x \in DOMAIN f \union DOMAIN g |-> IF x \in DOMAIN f THEN f[x] ELSE g[x]]

\* Functions from some of the keys.
Table(Key, Value) == UNION {[S -> Value] : S \in SUBSET Key}

\* f without the entries of S.
Without(f, S) == Restrict(f, DOMAIN f \ S)
=============================================================================
