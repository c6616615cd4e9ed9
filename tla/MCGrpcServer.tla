---------------------------- MODULE MCGrpcServer ----------------------------
(***************************************************************************)
(* Two threads on one queue.                                               *)
(***************************************************************************)
EXTENDS GrpcServer, TLC

CONSTANTS t1, t2, q1

MCQueueOf == t1 :> q1 @@ t2 :> q1
=============================================================================
