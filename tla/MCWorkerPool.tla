---------------------------- MODULE MCWorkerPool ----------------------------
(* Instances of WorkerPool for TLC. *)
EXTENDS WorkerPool

CONSTANTS a1, a2, m1, ca, w1, w2

OneComponent == [s \in Signals |-> ca]
=============================================================================
