---------------------------- MODULE MCLifecycle ----------------------------
(***************************************************************************)
(* Requests about one record that is stored and one that is created.       *)
(***************************************************************************)
EXTENDS Lifecycle, TLC

CONSTANTS c1, c2, c3

CallSymmetry == Permutations(Calls)
=============================================================================
