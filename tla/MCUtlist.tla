------------------------------- MODULE MCUtlist -------------------------------
(* An instance of Utlist, with its sorts, for TLC.                         *)
EXTENDS UtlistSort, TLC

CONSTANTS n1, n2, n3, n4, n5, a, b

MCNodes == {n1, n2, n3, n4, n5}
NodeSymmetry == Permutations(MCNodes)
=============================================================================
