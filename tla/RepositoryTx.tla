----------------------------- MODULE RepositoryTx -----------------------------
(***************************************************************************)
(* The gophermart repository statement by statement.  Each call of a       *)
(* method that changes the database runs one READ COMMITTED transaction of *)
(* PostgreSQL: a statement takes the row locks it needs, or waits for      *)
(* them, reads the last committed version of a row, and keeps its own      *)
(* version from the other transactions until COMMIT.  The variables of     *)
(* Repository are the committed database, so the refinement mapping is the *)
(* identity.                                                               *)
(*                                                                         *)
(* Calls are concurrent HTTP requests and accrual workers; a call runs one *)
(* operation once.  Any statement, and the COMMIT, may fail (a lost        *)
(* connection, a cancelled context): the deferred Rollback undoes the      *)
(* call, except when only the answer to the COMMIT is lost.                *)
(***************************************************************************)
EXTENDS Repository

CONSTANTS Calls, NoCall

ASSUME CallsAssumption == NoCall \notin Calls

VARIABLES
  op,         \* the method a call invokes, with its arguments
  phase,      \* how far its statements have got
  seen,       \* what its SELECT ... FOR UPDATE returned, the locals of the method
  draft,      \* its uncommitted version of a row of users
  orderLock,  \* the call holding the row (or the unique index entry) of an order
  userLock,   \* the call holding the row of a user
  answer      \* what the method returned

callVars == <<op, phase, seen, draft, orderLock, userLock, answer>>
txVars == <<repoVars, callVars>>

Operations ==
  [kind : {"create"}, user : Users, order : Orders]
    \cup [kind : {"update"}, order : Orders, settle : Settlements]
    \cup [kind : {"withdraw"}, user : Users, amount : Amounts]
    \cup [kind : {"addAccrual"}, user : Users, amount : Amounts]

\* idle, then: the transaction has begun; its SELECT ... FOR UPDATE has
\* returned; it has written its first row; it has run its last statement.
Phases == {"idle", "begun", "locked", "written", "ready", "done"}
Answers == {"none", "ok", "exists", "insufficient", "failed"}

TxInit ==
  /\ RepoInit
  /\ op \in [Calls -> Operations]
  /\ phase = [c \in Calls |-> "idle"]
  /\ seen = [c \in Calls |-> [user |-> NoUser, status |-> "NEW", balance |-> 0, withdrawn |-> 0]]
  /\ draft = [c \in Calls |-> [balance |-> 0, withdrawn |-> 0]]
  /\ orderLock = [o \in Orders |-> NoCall]
  /\ userLock = [u \in Users |-> NoCall]
  /\ answer = [c \in Calls |-> "none"]

Is(c, kind, p) == op[c].kind = kind /\ phase[c] = p
Advance(c, p) == phase' = [phase EXCEPT ![c] = p]

Unheld(lock, c) == [r \in DOMAIN lock |-> IF lock[r] = c THEN NoCall ELSE lock[r]]

\* The end of a transaction, COMMIT or ROLLBACK: its locks are released and
\* the method returns.
Finish(c, result) ==
  /\ Advance(c, "done")
  /\ answer' = [answer EXCEPT ![c] = result]
  /\ orderLock' = Unheld(orderLock, c)
  /\ userLock' = Unheld(userLock, c)
  /\ UNCHANGED <<op, seen, draft>>

\* Mutant of Rollback: the deferred Rollback is missing.
RollbackMutant(c, result) ==
  /\ Advance(c, "done")
  /\ answer' = [answer EXCEPT ![c] = result]
  /\ UNCHANGED <<repoVars, op, seen, draft, orderLock, userLock>>

\* The method returns early: its deferred Rollback leaves no trace.
Rollback(c, result) == Finish(c, result) /\ UNCHANGED repoVars

\* COMMIT succeeded; the caller learns so, or sees an error.
Committed(c) == \E result \in {"ok", "failed"} : Finish(c, result)

LockOrder(c, o) == orderLock[o] = NoCall /\ orderLock' = [orderLock EXCEPT ![o] = c]
LockUser(c, u) == userLock[u] = NoCall /\ userLock' = [userLock EXCEPT ![u] = c]
WriteUser(c, b, w) == draft' = [draft EXCEPT ![c] = [balance |-> b, withdrawn |-> w]]

\* A credit is relative to the row it locks: SET balance = balance + $1.
CreditRow(c, u, a) == LockUser(c, u) /\ WriteUser(c, balance[u] + a, withdrawn[u])

InstallUser(c, u) ==
  /\ balance' = [balance EXCEPT ![u] = draft[c].balance]
  /\ withdrawn' = [withdrawn EXCEPT ![u] = draft[c].withdrawn]

Begin(c) ==
  /\ phase[c] = "idle"
  /\ Advance(c, "begun")
  /\ UNCHANGED <<repoVars, op, seen, draft, orderLock, userLock, answer>>

-----------------------------------------------------------------------------
(* CreateOrder: one INSERT.  It waits for an uncommitted INSERT of the same *)
(* number, then fails on a committed one; its foreign key check takes a     *)
(* KEY SHARE lock, which only a FOR UPDATE lock on the user's row stops.    *)

Insert(c) ==
  /\ Is(c, "create", "begun")
  /\ owner[op[c].order] = NoUser
  /\ LockOrder(c, op[c].order)
  /\ Advance(c, "written")
  /\ UNCHANGED <<repoVars, op, seen, draft, userLock, answer>>

InsertDuplicate(c) ==
  /\ Is(c, "create", "begun")
  /\ owner[op[c].order] # NoUser
  /\ Rollback(c, "exists")

HeldForUpdate(u) == userLock[u] # NoCall /\ op[userLock[u]].kind = "withdraw"

CommitOrder(c) ==
  /\ Is(c, "create", "written")
  /\ ~HeldForUpdate(op[c].user)
  /\ owner' = [owner EXCEPT ![op[c].order] = op[c].user]
  /\ status' = [status EXCEPT ![op[c].order] = "NEW"]
  /\ accrual' = [accrual EXCEPT ![op[c].order] = 0]
  /\ Committed(c)
  /\ UNCHANGED <<userVars, credits>>

-----------------------------------------------------------------------------
(* UpdateOrderStatus *)

\* Mutant of SelectOrder: the SELECT has no FOR UPDATE.
SelectOrderMutant(c) ==
  /\ Is(c, "update", "begun")
  /\ LET o == op[c].order
     IN \/ /\ owner[o] # NoUser
           /\ seen' = [seen EXCEPT ![c].user = owner[o], ![c].status = status[o]]
           /\ Advance(c, "locked")
           /\ UNCHANGED <<repoVars, op, draft, orderLock, userLock, answer>>
        \/ owner[o] = NoUser /\ Rollback(c, "failed")

SelectOrder(c) ==
  /\ Is(c, "update", "begun")
  /\ LET o == op[c].order
     IN \/ /\ owner[o] # NoUser
           /\ LockOrder(c, o)
           /\ seen' = [seen EXCEPT ![c].user = owner[o], ![c].status = status[o]]
           /\ Advance(c, "locked")
           /\ UNCHANGED <<repoVars, op, draft, userLock, answer>>
        \/ owner[o] = NoUser /\ Rollback(c, "failed")

\* Mutant of Awards: the current status is not looked at.
AwardsMutant(c) == op[c].settle[1] = "PROCESSED"

Awards(c) == AddsAward(seen[c].status, op[c].settle[1])

CreditOwner(c) ==
  /\ Is(c, "update", "locked")
  /\ Awards(c)
  /\ CreditRow(c, seen[c].user, op[c].settle[2])
  /\ Advance(c, "written")
  /\ UNCHANGED <<repoVars, op, seen, orderLock, answer>>

UpdateOrder(c) ==
  /\ \/ Is(c, "update", "locked") /\ ~Awards(c)
     \/ Is(c, "update", "written")
  /\ Advance(c, "ready")
  /\ UNCHANGED <<repoVars, op, seen, draft, orderLock, userLock, answer>>

CommitUpdate(c) ==
  /\ Is(c, "update", "ready")
  /\ LET o == op[c].order
         u == seen[c].user
         a == op[c].settle[2]
     IN /\ status' = [status EXCEPT ![o] = op[c].settle[1]]
        /\ accrual' = [accrual EXCEPT ![o] = a]
        /\ \/ /\ Awards(c)
              /\ InstallUser(c, u)
              /\ earned' = [earned EXCEPT ![u] = @ + a]
              /\ credits' = [credits EXCEPT ![o] = @ + 1]
           \/ ~Awards(c) /\ UNCHANGED <<balance, withdrawn, earned, credits>>
  /\ Committed(c)
  /\ UNCHANGED <<owner, transactions>>

-----------------------------------------------------------------------------
(* WithdrawBalance: the new balance is computed in Go from the SELECT.      *)

\* Mutant of SelectBalance: the SELECT has no FOR UPDATE.
SelectBalanceMutant(c) ==
  /\ Is(c, "withdraw", "begun")
  /\ LET u == op[c].user
     IN seen' = [seen EXCEPT ![c].balance = balance[u], ![c].withdrawn = withdrawn[u]]
  /\ Advance(c, "locked")
  /\ UNCHANGED <<repoVars, op, draft, orderLock, userLock, answer>>

SelectBalance(c) ==
  /\ Is(c, "withdraw", "begun")
  /\ LET u == op[c].user
     IN /\ LockUser(c, u)
        /\ seen' = [seen EXCEPT ![c].balance = balance[u], ![c].withdrawn = withdrawn[u]]
  /\ Advance(c, "locked")
  /\ UNCHANGED <<repoVars, op, draft, orderLock, answer>>

\* Mutant of Insufficient: the funds are not checked.
InsufficientMutant(c) == FALSE

Insufficient(c) == seen[c].balance < op[c].amount

RefuseWithdrawal(c) ==
  /\ Is(c, "withdraw", "locked")
  /\ Insufficient(c)
  /\ Rollback(c, "insufficient")

Debit(c) ==
  /\ Is(c, "withdraw", "locked")
  /\ ~Insufficient(c)
  /\ WriteUser(c, seen[c].balance - op[c].amount, seen[c].withdrawn + op[c].amount)
  /\ Advance(c, "written")
  /\ UNCHANGED <<repoVars, op, seen, orderLock, userLock, answer>>

InsertTransaction(c) ==
  /\ Is(c, "withdraw", "written")
  /\ Advance(c, "ready")
  /\ UNCHANGED <<repoVars, op, seen, draft, orderLock, userLock, answer>>

CommitWithdrawal(c) ==
  /\ Is(c, "withdraw", "ready")
  /\ InstallUser(c, op[c].user)
  /\ transactions' = [transactions EXCEPT ![op[c].user] = Append(@, op[c].amount)]
  /\ Committed(c)
  /\ UNCHANGED <<orderVars, earned, credits>>

-----------------------------------------------------------------------------
(* AddAccrual: one UPDATE.                                                  *)

UpdateBalance(c) ==
  /\ Is(c, "addAccrual", "begun")
  /\ CreditRow(c, op[c].user, op[c].amount)
  /\ Advance(c, "written")
  /\ UNCHANGED <<repoVars, op, seen, orderLock, answer>>

CommitAccrual(c) ==
  /\ Is(c, "addAccrual", "written")
  /\ InstallUser(c, op[c].user)
  /\ earned' = [earned EXCEPT ![op[c].user] = @ + op[c].amount]
  /\ Committed(c)
  /\ UNCHANGED <<orderVars, transactions, credits>>

-----------------------------------------------------------------------------
Statement(c) ==
  \/ Insert(c) \/ InsertDuplicate(c) \/ CommitOrder(c)
  \/ SelectOrder(c) \/ CreditOwner(c) \/ UpdateOrder(c) \/ CommitUpdate(c)
  \/ SelectBalance(c) \/ RefuseWithdrawal(c) \/ Debit(c)
  \/ InsertTransaction(c) \/ CommitWithdrawal(c)
  \/ UpdateBalance(c) \/ CommitAccrual(c)

\* A statement fails, or the context of the call is cancelled.
Fail(c) == phase[c] \notin {"idle", "done"} /\ Rollback(c, "failed")

AllDone == (\A c \in Calls : phase[c] = "done") /\ UNCHANGED txVars

TxNext == (\E c \in Calls : Begin(c) \/ Statement(c) \/ Fail(c)) \/ AllDone

TxSpec == TxInit /\ [][TxNext]_txVars

-----------------------------------------------------------------------------
TxTypeOK ==
  /\ RepoTypeOK
  /\ op \in [Calls -> Operations]
  /\ phase \in [Calls -> Phases]
  /\ seen \in [Calls -> [user : Users \cup {NoUser}, status : Statuses,
                        balance : Nat, withdrawn : Nat]]
  /\ draft \in [Calls -> [balance : Nat, withdrawn : Nat]]
  /\ orderLock \in [Orders -> Calls \cup {NoCall}]
  /\ userLock \in [Users -> Calls \cup {NoCall}]
  /\ answer \in [Calls -> Answers]

\* The atomic operation a call stands for.
Effect(p) ==
  \/ p.kind = "create" /\ CreateOrder(p.user, p.order)
  \/ p.kind = "update" /\ UpdateOrderStatus(p.order, p.settle[1], p.settle[2])
  \/ p.kind = "withdraw" /\ WithdrawBalance(p.user, p.amount)
  \/ p.kind = "addAccrual" /\ AddAccrual(p.user, p.amount)

\* The atomic operation would be refused on the database as it is.
Refused(p) ==
  \/ p.kind = "create" /\ owner[p.order] # NoUser
  \/ p.kind = "withdraw" /\ balance[p.user] < p.amount

(***************************************************************************)
(* What a method answers is what it did, at the moment it answers: nil     *)
(* means that its whole effect, as one atomic operation, is in the         *)
(* database; ErrOrderAlreadyExists and ErrInsufficientFunds, that the      *)
(* operation is impossible there and nothing changed; another error, that  *)
(* all of the effect is there or none of it.  Before it answers, nothing   *)
(* is visible of a call.                                                   *)
(***************************************************************************)
AnswersTellTheEffect ==
  [][/\ \A c \in Calls : answer'[c] # answer[c] =>
           CASE answer'[c] = "ok" -> Effect(op[c])
             [] answer'[c] \in {"exists", "insufficient"} -> Refused(op[c]) /\ UNCHANGED repoVars
             [] OTHER -> Effect(op[c]) \/ UNCHANGED repoVars
     /\ answer' = answer => UNCHANGED repoVars]_txVars

Active(c) == phase[c] \notin {"idle", "done"}

\* The next statement of a call is stopped by a row lock of another call.
Waits(c) ==
  \/ Is(c, "create", "begun") /\ owner[op[c].order] = NoUser /\ orderLock[op[c].order] # NoCall
  \/ Is(c, "create", "written") /\ HeldForUpdate(op[c].user)
  \/ Is(c, "update", "begun") /\ owner[op[c].order] # NoUser /\ orderLock[op[c].order] # NoCall
  \/ Is(c, "update", "locked") /\ Awards(c) /\ userLock[seen[c].user] # NoCall
  \/ op[c].kind \in {"withdraw", "addAccrual"} /\ phase[c] = "begun" /\ userLock[op[c].user] # NoCall

(***************************************************************************)
(* The transactions never wait for each other in a circle, nor for a row   *)
(* that a method has left locked on one of its paths out: while calls are  *)
(* running, one of them can run its next statement (UpdateOrderStatus      *)
(* takes an order's row before its owner's, an INSERT into orders the      *)
(* number before the foreign key's lock, WithdrawBalance one row).  Every  *)
(* statement brings its call nearer to its end, so all calls return.       *)
(***************************************************************************)
NoCircularWait == (\E c \in Calls : Active(c)) => \E c \in Calls : Active(c) /\ ~Waits(c)
=============================================================================
