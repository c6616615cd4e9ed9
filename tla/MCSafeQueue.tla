---------------------------- MODULE MCSafeQueue ----------------------------
(***************************************************************************)
(* SafeQueue with two producers, three consumers and two aborting threads. *)
(* No symmetry: the run checks liveness too.                               *)
(***************************************************************************)
EXTENDS SafeQueue

CONSTANTS p1, p2, c1, c2, c3, k1, k2, v1, v2

MCProducers == {p1, p2}
MCConsumers == {c1, c2, c3}
MCClosers == {k1, k2}
MCValues == {v1, v2}
=============================================================================
