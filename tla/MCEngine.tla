------------------------------ MODULE MCEngine ------------------------------
(***************************************************************************)
(* One song that everybody fights over, or two; two recordings.            *)
(***************************************************************************)
EXTENDS Engine, TLC

CONSTANTS c1, c2, c3, c4, a, b, f1, f2

Symmetry == Permutations(Calls) \cup Permutations(Songs) \cup Permutations(Prints)
=============================================================================
