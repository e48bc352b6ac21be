----------------------------- MODULE MCWorkerPool -----------------------------
(* WorkerPool on small instances.  The workers are interchangeable, and so   *)
(* are the order numbers; symmetry is used without liveness only.            *)
EXTENDS WorkerPool, TLC

MCWorkerSymmetry == Permutations(Workers)
MCOrderSymmetry == Permutations(Orders)
=============================================================================
