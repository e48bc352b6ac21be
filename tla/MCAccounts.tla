------------------------------ MODULE MCAccounts ------------------------------
(* Accounts on a small instance: ids, logins and passwords are                *)
(* interchangeable, and every order is awarded in the end (an INVALID one     *)
(* changes no balance).                                                       *)
EXTENDS Accounts, TLC

MCAccountsSymmetry ==
  Permutations(Users) \cup Permutations(Logins) \cup Permutations(Passwords)

\* Bound of the model: the first request registers, the last one does not.
RegistersFirst ==
  /\ request[1].kind \in {"none", "register"}
  /\ request[4].kind # "register"

MCAccountsInit == AccountsInit /\ conclusion \in [Orders -> {"PROCESSED"} \X Amounts]

MCAccountsSpec == MCAccountsInit /\ [][AccountsNext]_accountsVars
=============================================================================
