------------------------------ MODULE MCLoader ------------------------------
(* Loader on small instances: three plugins, one directory and the installed *)
(* packages, one resource that two plugins may claim.                        *)
EXTENDS Loader, TLC

CONSTANT dns

Plugins == 1..3
Resources == {dns}

Entries(founds, requirements, claimed, onlys) ==
    {[found |-> f, enabled |-> f, requires |-> q,
      claims |-> [p \in Plugins |-> IF p \in c THEN Resources ELSE {}], only |-> o] :
        f \in founds, q \in requirements, c \in claimed, o \in onlys}

\* In the directory and installed as well, as --makecfg leaves it.
Seeded == <<Plugins, Plugins>>
InstalledOnly == <<{}, Plugins>>
\* The operator's own plugin 2, which an installed plugin may require.
OwnPlugin == <<{2}, {1, 3}>>

AnyGraph == [Plugins -> SUBSET Plugins]
Chain == 1 :> {2} @@ 2 :> {3} @@ 3 :> {}
Fork == 1 :> {3} @@ 2 :> {3} @@ 3 :> {}
Join == 1 :> {2, 3} @@ 2 :> {} @@ 3 :> {}

BootCatalogue ==
    Entries({Seeded}, {Chain, Fork, Join}, {{}, {1, 2}}, {Plugins, {1}})
        \union Entries({InstalledOnly, OwnPlugin}, AnyGraph, {{1, 2}}, {Plugins})
DisabledCatalogue == Entries({Seeded}, {Chain}, {{}}, {Plugins})
=============================================================================
