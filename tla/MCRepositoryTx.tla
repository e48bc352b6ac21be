---------------------------- MODULE MCRepositoryTx ----------------------------
(* RepositoryTx on a small instance: calls, users and order numbers are     *)
(* interchangeable (Init, Next and the safety properties treat them alike). *)
EXTENDS RepositoryTx, TLC

MCSymmetry == Permutations(Calls) \cup Permutations(Users) \cup Permutations(Orders)
=============================================================================
