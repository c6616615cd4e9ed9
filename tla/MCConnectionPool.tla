------------------------- MODULE MCConnectionPool -------------------------
(***************************************************************************)
(* A pool with fewer connections than borrowers: the queue runs empty, the *)
(* counter wraps and connections are created on the fly.                   *)
(***************************************************************************)
EXTENDS ConnectionPool

CONSTANTS b1, b2, b3, n1, n2, n3

MCBorrowers == {b1, b2, b3}
MCConnections == {n1, n2, n3}
=============================================================================
