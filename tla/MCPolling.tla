------------------------------- MODULE MCPolling -------------------------------
(* Polling on a small instance: one worker, one order.                       *)
EXTENDS Polling
=============================================================================
