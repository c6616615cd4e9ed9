---------------------------- MODULE MCThreadPool ----------------------------
(***************************************************************************)
(* Two queues and two or three workers, of which two may serve queue 0.    *)
(***************************************************************************)
EXTENDS ThreadPool, TLC

CONSTANTS w1, w2, w3, s1, s2, j1, j2, j3, n1

MCQueues == {0, 1}
MCQueueOf == w1 :> 0 @@ w2 :> 1
MCQueueOfThree == w1 :> 0 @@ w2 :> 1 @@ w3 :> 0

CallerSymmetry == Permutations(Jobs) \cup Permutations(Submitters)
=============================================================================
