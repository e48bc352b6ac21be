------------------------------ MODULE MCLifecycle ------------------------------
(* Lifecycle on a small instance: a puller and two workers, two requests, the *)
(* three migrations of the code, three starts.                               *)
EXTENDS Lifecycle
=============================================================================
