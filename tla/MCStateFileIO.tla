---------------------------- MODULE MCStateFileIO ----------------------------
(* StateFileIO on small instances. *)
EXTENDS StateFileIO, TLC

CONSTANTS s1, s2, t1, t2

MCSnapshot == {s1, s2}
OneThread == {t1}
TwoThreads == {t1, t2}
TwoThreadSymmetry == Permutations(TwoThreads)

AllCalls == Methods
SaveOnly == {"save_desired"}
=============================================================================
