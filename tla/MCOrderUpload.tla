----------------------------- MODULE MCOrderUpload -----------------------------
(* OrderUpload on a small instance: requests, users and order numbers are     *)
(* interchangeable.                                                          *)
EXTENDS OrderUpload, TLC

MCUploadSymmetry == Permutations(Requests) \cup Permutations(Users) \cup Permutations(Orders)
=============================================================================
