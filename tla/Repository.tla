------------------------------ MODULE Repository ------------------------------
(***************************************************************************)
(* What the gophermart repository promises its callers, one atomic action  *)
(* per method that changes the database (internal/gophermart/repository,   *)
(* migrations/gophermart).  RepositoryTx is the same repository statement  *)
(* by statement; the services and the accrual worker pool are modelled on  *)
(* top of this one.                                                        *)
(*                                                                         *)
(* Amounts are cents (model.Amount, an int64) and never negative: Withdraw *)
(* refuses a negative sum, and the accrual service computes no negative    *)
(* award.  User rows are never deleted, so the users of the model exist    *)
(* from the start.                                                         *)
(***************************************************************************)
EXTENDS Domain, Sequences, Functions

CONSTANTS
  Users,          \* users.id
  NoUser,         \* the owner of a number that has no row in orders
  StartBalances   \* balances an account may have when a behaviour starts

ASSUME RepositoryAssumption ==
  /\ StartBalances \subseteq Nat
  /\ NoUser \notin Users

Statuses == {"NEW", "PROCESSING", "INVALID", "PROCESSED"}

VARIABLES
  owner,          \* orders.user_id, NoUser while the row does not exist
  status,         \* orders.status
  accrual,        \* orders.accrual
  balance,        \* users.balance
  withdrawn,      \* users.withdrawn
  transactions,   \* balance_transactions.sum, the rows of each user
  earned,         \* history: everything ever added to the user's balance
  credits         \* history: how often the order's award was added to a balance

orderVars == <<owner, status, accrual>>
userVars == <<balance, withdrawn, transactions, earned>>
repoVars == <<orderVars, userVars, credits>>

RepoInit ==
  /\ owner \in [Orders -> Users \cup {NoUser}]
  /\ status = [o \in Orders |-> "NEW"]
  /\ accrual = [o \in Orders |-> 0]
  /\ balance \in [Users -> StartBalances]
  /\ withdrawn = [u \in Users |-> 0]
  /\ transactions = [u \in Users |-> <<>>]
  /\ earned = balance
  /\ credits = [o \in Orders |-> 0]

\* Mutant of CreateOrder: the number has no unique constraint.
CreateOrderUpserts(u, o) ==
  /\ owner' = [owner EXCEPT ![o] = u]
  /\ status' = [status EXCEPT ![o] = "NEW"]
  /\ accrual' = [accrual EXCEPT ![o] = 0]
  /\ UNCHANGED <<userVars, credits>>

\* Mutant of CreateOrder: the default of the status is one of the accrual service.
CreateOrderRegistered(u, o) ==
  /\ owner[o] = NoUser
  /\ owner' = [owner EXCEPT ![o] = u]
  /\ status' = [status EXCEPT ![o] = "REGISTERED"]
  /\ accrual' = [accrual EXCEPT ![o] = 0]
  /\ UNCHANGED <<userVars, credits>>

(***************************************************************************)
(* INSERT INTO orders.  The unique number is taken at most once; the row   *)
(* starts with the defaults of its columns.                                *)
(***************************************************************************)
CreateOrder(u, o) ==
  /\ owner[o] = NoUser
  /\ owner' = [owner EXCEPT ![o] = u]
  /\ status' = [status EXCEPT ![o] = "NEW"]
  /\ accrual' = [accrual EXCEPT ![o] = 0]
  /\ UNCHANGED <<userVars, credits>>

\* Mutant of AddsAward: the current status is not looked at.
AddsAwardMutant(current, s) == s = "PROCESSED"

\* The condition under which UpdateOrderStatus adds the award to the balance.
AddsAward(current, s) == current # "PROCESSED" /\ s = "PROCESSED"

AddToBalance(u, a) ==
  /\ balance' = [balance EXCEPT ![u] = @ + a]
  /\ earned' = [earned EXCEPT ![u] = @ + a]
  /\ UNCHANGED <<withdrawn, transactions>>

(***************************************************************************)
(* The order's status and accrual are overwritten, whatever they were; the *)
(* owner is credited when the order becomes PROCESSED.                     *)
(***************************************************************************)
UpdateOrderStatus(o, s, a) ==
  /\ owner[o] # NoUser
  /\ status' = [status EXCEPT ![o] = s]
  /\ accrual' = [accrual EXCEPT ![o] = a]
  /\ UNCHANGED owner
  /\ \/ /\ AddsAward(status[o], s)
        /\ AddToBalance(owner[o], a)
        /\ credits' = [credits EXCEPT ![o] = @ + 1]
     \/ /\ ~AddsAward(status[o], s)
        /\ UNCHANGED <<userVars, credits>>

\* Mutant of WithdrawBalance: the funds are not compared with the amount.
WithdrawUncovered(u, a) ==
  /\ balance' = [balance EXCEPT ![u] = @ - a]
  /\ withdrawn' = [withdrawn EXCEPT ![u] = @ + a]
  /\ transactions' = [transactions EXCEPT ![u] = Append(@, a)]
  /\ UNCHANGED <<orderVars, earned, credits>>

\* Mutant of WithdrawBalance: no row is inserted in balance_transactions.
WithdrawUnlisted(u, a) ==
  /\ balance[u] >= a
  /\ balance' = [balance EXCEPT ![u] = @ - a]
  /\ withdrawn' = [withdrawn EXCEPT ![u] = @ + a]
  /\ UNCHANGED <<orderVars, transactions, earned, credits>>

WithdrawBalance(u, a) ==
  /\ balance[u] >= a
  /\ balance' = [balance EXCEPT ![u] = @ - a]
  /\ withdrawn' = [withdrawn EXCEPT ![u] = @ + a]
  /\ transactions' = [transactions EXCEPT ![u] = Append(@, a)]
  /\ UNCHANGED <<orderVars, earned, credits>>

AddAccrual(u, a) ==
  /\ AddToBalance(u, a)
  /\ UNCHANGED <<orderVars, credits>>

\* What a caller may ask UpdateOrderStatus for: only PROCESSED has an amount
\* (the answers of mapStatus in the poller).
Settlements == ({"PROCESSING", "INVALID"} \X {0}) \cup ({"PROCESSED"} \X Amounts)

RepoNext ==
  \/ \E u \in Users, o \in Orders : CreateOrder(u, o)
  \/ \E o \in Orders, s \in Settlements : UpdateOrderStatus(o, s[1], s[2])
  \/ \E u \in Users, a \in Amounts : WithdrawBalance(u, a) \/ AddAccrual(u, a)

RepoSpec == RepoInit /\ [][RepoNext]_repoVars

-----------------------------------------------------------------------------
RepoTypeOK ==
  /\ owner \in [Orders -> Users \cup {NoUser}]
  /\ status \in [Orders -> Statuses]
  /\ accrual \in [Orders -> Nat]
  /\ balance \in [Users -> Nat]
  /\ withdrawn \in [Users -> Nat]
  /\ transactions \in [Users -> Seq(Amounts)]
  /\ earned \in [Users -> Nat]
  /\ credits \in [Orders -> Nat]

(***************************************************************************)
(* No point is created or lost: what a user holds and what the user has    *)
(* withdrawn is what was added to the account (UpdateOrderStatus,          *)
(* WithdrawBalance and AddAccrual, however they overlap).                  *)
(***************************************************************************)
Conservation == \A u \in Users : balance[u] + withdrawn[u] = earned[u]

(***************************************************************************)
(* Every withdrawn point is on the list of withdrawals and the list shows  *)
(* nothing else (WithdrawBalance writes users and balance_transactions,    *)
(* GetWithdrawals reads the second): two withdrawals that spend the same   *)
(* points would leave more rows than users.withdrawn admits.               *)
(***************************************************************************)
WithdrawnIsItemized ==
  \A u \in Users : SumFunction(transactions[u]) = withdrawn[u]
=============================================================================
