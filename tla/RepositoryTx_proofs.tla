-------------------------- MODULE RepositoryTx_proofs --------------------------
(***************************************************************************)
(* Proofs about RepositoryTx for any users, orders, amounts and number of  *)
(* overlapping calls.  The argument is two-phase locking: while a call     *)
(* holds a row, what it read of the row is still what is committed, so at  *)
(* COMMIT the versions it kept are those of the atomic operation.          *)
(***************************************************************************)
EXTENDS RepositoryTx, Repository_proofs

USE AmountsAssumption, RepositoryAssumption, CallsAssumption

\* The call has the row of its order, or the index entry of its number.
HoldsOrder(c) ==
  \/ Is(c, "create", "written")
  \/ op[c].kind = "update" /\ phase[c] \in {"locked", "written", "ready"}

\* The call has the row of the user whose balance it changes.
HoldsUser(c) ==
  \/ op[c].kind = "withdraw" /\ phase[c] \in {"locked", "written", "ready"}
  \/ Is(c, "update", "written")
  \/ Is(c, "update", "ready") /\ Awards(c)
  \/ Is(c, "addAccrual", "written")

Target(c) == IF op[c].kind = "update" THEN seen[c].user ELSE op[c].user

LocksAreHeld(c) ==
  /\ HoldsOrder(c) => orderLock[op[c].order] = c
  /\ HoldsUser(c) => userLock[Target(c)] = c

\* What the SELECT ... FOR UPDATE returned is still what is committed.
ReadsAreCurrent(c) ==
  /\ Is(c, "create", "written") => owner[op[c].order] = NoUser
  /\ HoldsOrder(c) /\ op[c].kind = "update" =>
       /\ seen[c].user = owner[op[c].order]
       /\ seen[c].user # NoUser
       /\ seen[c].status = status[op[c].order]
       /\ phase[c] = "written" => Awards(c)
  /\ HoldsUser(c) /\ op[c].kind = "withdraw" =>
       /\ seen[c].balance = balance[op[c].user]
       /\ seen[c].withdrawn = withdrawn[op[c].user]

\* The uncommitted version of the user's row is the one of the atomic operation.
DraftsAreCurrent(c) ==
  /\ HoldsUser(c) /\ op[c].kind = "update" =>
       /\ draft[c].balance = balance[seen[c].user] + op[c].settle[2]
       /\ draft[c].withdrawn = withdrawn[seen[c].user]
  /\ HoldsUser(c) /\ op[c].kind = "addAccrual" =>
       /\ draft[c].balance = balance[op[c].user] + op[c].amount
       /\ draft[c].withdrawn = withdrawn[op[c].user]
  /\ op[c].kind = "withdraw" /\ phase[c] \in {"written", "ready"} =>
       /\ balance[op[c].user] >= op[c].amount
       /\ draft[c].balance = balance[op[c].user] - op[c].amount
       /\ draft[c].withdrawn = withdrawn[op[c].user] + op[c].amount

TxInv ==
  /\ TxTypeOK
  /\ \A c \in Calls : LocksAreHeld(c) /\ ReadsAreCurrent(c) /\ DraftsAreCurrent(c)

-----------------------------------------------------------------------------
\* The arguments of a call are of the types of its method's parameters.
LEMMA Arguments ==
  ASSUME op \in [Calls -> Operations], NEW c \in Calls
  PROVE  /\ op[c].kind = "create" => op[c].user \in Users /\ op[c].order \in Orders
         /\ op[c].kind = "update" =>
              /\ op[c].order \in Orders
              /\ op[c].settle[1] \in Statuses
              /\ op[c].settle[2] \in Nat
         /\ op[c].kind \in {"withdraw", "addAccrual"} =>
              op[c].user \in Users /\ op[c].amount \in Amounts /\ op[c].amount \in Nat
<1>1. op[c] \in Operations
  OBVIOUS
<1>2. CASE op[c] \in [kind : {"create"}, user : Users, order : Orders]
  BY <1>2
<1>3. CASE op[c] \in [kind : {"update"}, order : Orders, settle : Settlements]
  <2>1. op[c].kind = "update" /\ op[c].order \in Orders /\ op[c].settle \in Settlements
    BY <1>3
  <2>2. op[c].settle[1] \in Statuses /\ op[c].settle[2] \in Nat
    BY <2>1, SettlementParts
  <2> QED
    BY <2>1, <2>2
<1>4. CASE op[c] \in [kind : {"withdraw"}, user : Users, amount : Amounts]
  BY <1>4
<1>5. CASE op[c] \in [kind : {"addAccrual"}, user : Users, amount : Amounts]
  BY <1>5
<1> QED
  BY <1>1, <1>2, <1>3, <1>4, <1>5 DEF Operations

LEMMA InitInv == TxInit => TxInv
<1> SUFFICES ASSUME TxInit PROVE TxInv
  OBVIOUS
<1>1. TxTypeOK
  <2>1. RepoTypeOK
    BY RepoInitType DEF TxInit
  <2>2. /\ op \in [Calls -> Operations]
        /\ phase \in [Calls -> Phases]
        /\ orderLock \in [Orders -> Calls \cup {NoCall}]
        /\ userLock \in [Users -> Calls \cup {NoCall}]
        /\ answer \in [Calls -> Answers]
    BY DEF TxInit, Phases, Answers
  <2>3. /\ seen \in [Calls -> [user : Users \cup {NoUser}, status : Statuses,
                             balance : Nat, withdrawn : Nat]]
        /\ draft \in [Calls -> [balance : Nat, withdrawn : Nat]]
    BY DEF TxInit, Statuses
  <2> QED
    BY <2>1, <2>2, <2>3 DEF TxTypeOK
<1>2. \A c \in Calls : phase[c] = "idle"
  BY DEF TxInit
<1> QED
  BY <1>1, <1>2 DEF TxInv, LocksAreHeld, ReadsAreCurrent, DraftsAreCurrent, HoldsOrder, HoldsUser, Is

\* The end of a transaction is well typed.
LEMMA FinishType ==
  ASSUME TxTypeOK, NEW c \in Calls, NEW result \in Answers, Finish(c, result), RepoTypeOK'
  PROVE  TxTypeOK'
<1>1. orderLock' \in [Orders -> Calls \cup {NoCall}] /\ userLock' \in [Users -> Calls \cup {NoCall}]
  BY DEF Finish, Unheld, TxTypeOK
<1>2. phase' \in [Calls -> Phases] /\ answer' \in [Calls -> Answers]
  BY DEF Finish, Advance, TxTypeOK, Phases, Answers
<1> QED
  BY <1>1, <1>2 DEF Finish, TxTypeOK

\* The user whose row a call holds exists.
LEMMA TargetIsUser ==
  ASSUME TxInv, NEW c \in Calls, HoldsUser(c)
  PROVE  Target(c) \in Users
<1>1. CASE op[c].kind = "update"
  <2>1. HoldsOrder(c)
    BY <1>1 DEF HoldsUser, HoldsOrder, Is
  <2>2. seen[c].user = owner[op[c].order] /\ seen[c].user # NoUser
    BY <1>1, <2>1 DEF TxInv, ReadsAreCurrent
  <2> QED
    BY <1>1, <2>2, Arguments DEF TxInv, TxTypeOK, RepoTypeOK, Target
<1>2. CASE op[c].kind # "update"
  BY <1>2, Arguments DEF TxInv, TxTypeOK, HoldsUser, Is, Target
<1> QED
  BY <1>1, <1>2

\* Two-phase locking: a step of another call neither takes a row a call holds
\* nor changes it, so the call's own view of the database stays right.
LEMMA OthersKeep ==
  ASSUME TxInv, NEW c \in Calls, op' = op,
         phase'[c] = phase[c], seen'[c] = seen[c], draft'[c] = draft[c],
         \A o \in Orders : orderLock[o] = c =>
           orderLock'[o] = c /\ owner'[o] = owner[o] /\ status'[o] = status[o],
         \A u \in Users : userLock[u] = c =>
           userLock'[u] = c /\ balance'[u] = balance[u] /\ withdrawn'[u] = withdrawn[u]
  PROVE  LocksAreHeld(c)' /\ ReadsAreCurrent(c)' /\ DraftsAreCurrent(c)'
<1>1. (HoldsOrder(c)' <=> HoldsOrder(c)) /\ (HoldsUser(c)' <=> HoldsUser(c)) /\ Target(c)' = Target(c)
  BY DEF HoldsOrder, HoldsUser, Is, Awards, AddsAward, Target
<1>2. HoldsOrder(c) => op[c].order \in Orders /\ orderLock[op[c].order] = c
  BY Arguments DEF TxInv, TxTypeOK, HoldsOrder, Is, LocksAreHeld
<1>3. HoldsUser(c) => Target(c) \in Users /\ userLock[Target(c)] = c
  BY TargetIsUser DEF TxInv, LocksAreHeld
<1>4. LocksAreHeld(c)'
  BY <1>1, <1>2, <1>3 DEF LocksAreHeld
<1>5. ReadsAreCurrent(c)'
  BY <1>1, <1>2, <1>3 DEF TxInv, ReadsAreCurrent, HoldsOrder, HoldsUser, Is, Target, Awards, AddsAward
<1>6. DraftsAreCurrent(c)'
  BY <1>1, <1>2, <1>3 DEF TxInv, DraftsAreCurrent, HoldsUser, Is, Target
<1> QED
  BY <1>4, <1>5, <1>6

\* A call that has ended holds nothing; the others hold what they held.
LEMMA FinishInv ==
  ASSUME TxInv, TxTypeOK', NEW d \in Calls, NEW result, Finish(d, result),
         \A o \in Orders : orderLock[o] # d => owner'[o] = owner[o] /\ status'[o] = status[o],
         \A u \in Users : userLock[u] # d => balance'[u] = balance[u] /\ withdrawn'[u] = withdrawn[u]
  PROVE  TxInv'
<1>1. ASSUME NEW c \in Calls, c # d
      PROVE  LocksAreHeld(c)' /\ ReadsAreCurrent(c)' /\ DraftsAreCurrent(c)'
  <2>1. /\ op' = op /\ phase'[c] = phase[c] /\ seen'[c] = seen[c] /\ draft'[c] = draft[c]
        /\ \A o \in Orders : orderLock[o] = c => orderLock'[o] = c
        /\ \A u \in Users : userLock[u] = c => userLock'[u] = c
    BY <1>1 DEF Finish, Advance, Unheld, TxInv, TxTypeOK
  <2> QED
    BY <1>1, <2>1, OthersKeep
<1>2. LocksAreHeld(d)' /\ ReadsAreCurrent(d)' /\ DraftsAreCurrent(d)'
  <2>1. phase'[d] = "done"
    BY DEF Finish, Advance, TxInv, TxTypeOK
  <2> QED
    BY <2>1 DEF LocksAreHeld, ReadsAreCurrent, DraftsAreCurrent, HoldsOrder, HoldsUser, Is
<1> QED
  BY <1>1, <1>2 DEF TxInv

\* A method that returns early.
LEMMA RollbackInv ==
  ASSUME TxInv, NEW d \in Calls, NEW result \in Answers, Rollback(d, result)
  PROVE  TxInv'
<1>1. TxTypeOK'
  BY FinishType DEF Rollback, TxInv, TxTypeOK, RepoTypeOK, repoVars, orderVars, userVars
<1> QED
  BY <1>1, FinishInv DEF Rollback, repoVars, orderVars, userVars

\* A statement that ends no transaction takes only free rows.
LEMMA StatementInv ==
  ASSUME TxInv, TxTypeOK', NEW d \in Calls, UNCHANGED <<repoVars, op>>,
         \A c \in Calls \ {d} : phase'[c] = phase[c] /\ seen'[c] = seen[c] /\ draft'[c] = draft[c],
         \A o \in Orders : orderLock[o] # NoCall => orderLock'[o] = orderLock[o],
         \A u \in Users : userLock[u] # NoCall => userLock'[u] = userLock[u],
         LocksAreHeld(d)' /\ ReadsAreCurrent(d)' /\ DraftsAreCurrent(d)'
  PROVE  TxInv'
<1>1. ASSUME NEW c \in Calls, c # d
      PROVE  LocksAreHeld(c)' /\ ReadsAreCurrent(c)' /\ DraftsAreCurrent(c)'
  BY <1>1, OthersKeep DEF repoVars, orderVars, userVars
<1> QED
  BY <1>1 DEF TxInv

\* What the locals of a method and its versions of a row are.
Seen == [user : Users \cup {NoUser}, status : Statuses, balance : Nat, withdrawn : Nat]
Draft == [balance : Nat, withdrawn : Nat]

\* A statement that changes nothing committed is well typed if what it reads,
\* writes and locks is.
LEMMA StatementType ==
  ASSUME TxTypeOK, NEW c \in Calls, NEW p \in Phases, Advance(c, p),
         UNCHANGED <<repoVars, op, answer>>,
         seen' \in [Calls -> Seen], draft' \in [Calls -> Draft],
         orderLock' \in [Orders -> Calls \cup {NoCall}],
         userLock' \in [Users -> Calls \cup {NoCall}]
  PROVE  TxTypeOK'
<1>1. RepoTypeOK'
  BY DEF TxTypeOK, RepoTypeOK, repoVars, orderVars, userVars
<1>2. phase' \in [Calls -> Phases]
  BY DEF Advance, TxTypeOK
<1> QED
  BY <1>1, <1>2 DEF TxTypeOK, Seen, Draft

LEMMA WriteUserType ==
  ASSUME TxTypeOK, NEW c \in Calls, NEW b \in Nat, NEW w \in Nat, WriteUser(c, b, w)
  PROVE  draft' \in [Calls -> Draft]
BY DEF WriteUser, TxTypeOK, Draft

LEMMA CreditRowType ==
  ASSUME TxTypeOK, NEW c \in Calls, NEW u \in Users, NEW a \in Nat, CreditRow(c, u, a)
  PROVE  draft' \in [Calls -> Draft] /\ userLock' \in [Users -> Calls \cup {NoCall}]
<1>1. balance[u] + a \in Nat /\ withdrawn[u] \in Nat
  BY DEF TxTypeOK, RepoTypeOK
<1> QED
  BY <1>1, WriteUserType DEF CreditRow, LockUser, TxTypeOK

LEMMA BeginInv == ASSUME TxInv, NEW c \in Calls, Begin(c) PROVE TxInv'
<1>1. TxTypeOK'
  BY DEF Begin, Advance, TxInv, TxTypeOK, RepoTypeOK, Phases, repoVars, orderVars, userVars
<1>2. phase'[c] = "begun"
  BY DEF Begin, Advance, TxInv, TxTypeOK
<1>3. LocksAreHeld(c)' /\ ReadsAreCurrent(c)' /\ DraftsAreCurrent(c)'
  BY <1>2 DEF LocksAreHeld, ReadsAreCurrent, DraftsAreCurrent, HoldsOrder, HoldsUser, Is
<1> QED
  BY <1>1, <1>3, StatementInv DEF Begin, Advance, TxInv, TxTypeOK

LEMMA InsertInv == ASSUME TxInv, NEW c \in Calls, Insert(c) PROVE TxInv'
<1>1. op[c].order \in Orders
  BY Arguments DEF Insert, Is, TxInv, TxTypeOK
<1>2. TxTypeOK'
  BY <1>1 DEF Insert, LockOrder, Advance, TxInv, TxTypeOK, RepoTypeOK, Phases, repoVars, orderVars, userVars
<1>3. phase'[c] = "written" /\ op[c].kind = "create" /\ op' = op
  BY DEF Insert, Is, Advance, TxInv, TxTypeOK
<1>4. orderLock'[op[c].order] = c /\ owner'[op[c].order] = NoUser
  BY <1>1 DEF Insert, LockOrder, TxInv, TxTypeOK, repoVars, orderVars
<1>5. LocksAreHeld(c)' /\ ReadsAreCurrent(c)' /\ DraftsAreCurrent(c)'
  BY <1>3, <1>4 DEF LocksAreHeld, ReadsAreCurrent, DraftsAreCurrent, HoldsOrder, HoldsUser, Is
<1> QED
  BY <1>2, <1>5, StatementInv DEF Insert, LockOrder, Advance, TxInv, TxTypeOK

LEMMA SelectOrderInv == ASSUME TxInv, NEW c \in Calls, SelectOrder(c) PROVE TxInv'
<1> DEFINE o == op[c].order
<1>1. o \in Orders
  BY Arguments DEF SelectOrder, Is, TxInv, TxTypeOK
<1>2. CASE owner[o] = NoUser /\ Rollback(c, "failed")
  BY <1>2, RollbackInv DEF Answers
<1>3. CASE /\ owner[o] # NoUser
           /\ LockOrder(c, o)
           /\ seen' = [seen EXCEPT ![c].user = owner[o], ![c].status = status[o]]
           /\ Advance(c, "locked")
           /\ UNCHANGED <<repoVars, op, draft, userLock, answer>>
  <2>1. TxTypeOK'
    <3>1. owner[o] \in Users \cup {NoUser} /\ status[o] \in Statuses /\ seen \in [Calls -> Seen]
      BY <1>1 DEF TxInv, TxTypeOK, RepoTypeOK, Seen
    <3>2. seen' \in [Calls -> Seen]
      BY <1>3, <3>1 DEF Seen
    <3>3. draft' \in [Calls -> Draft] /\ orderLock' \in [Orders -> Calls \cup {NoCall}]
      BY <1>1, <1>3 DEF LockOrder, TxInv, TxTypeOK, Draft
    <3> QED
      BY <1>3, <3>2, <3>3, StatementType DEF TxInv, TxTypeOK, Phases
  <2>2. phase'[c] = "locked" /\ op[c].kind = "update" /\ op' = op
    BY <1>3 DEF SelectOrder, Is, Advance, TxInv, TxTypeOK
  <2>3. orderLock'[o] = c /\ seen'[c].user = owner[o] /\ seen'[c].status = status[o]
    BY <1>1, <1>3 DEF LockOrder, TxInv, TxTypeOK
  <2>4. owner' = owner /\ status' = status
    BY <1>3 DEF repoVars, orderVars
  <2>5. LocksAreHeld(c)' /\ ReadsAreCurrent(c)' /\ DraftsAreCurrent(c)'
    BY <1>3, <2>2, <2>3, <2>4 DEF LocksAreHeld, ReadsAreCurrent, DraftsAreCurrent, HoldsOrder, HoldsUser, Is
  <2> QED
    BY <1>3, <2>1, <2>5, StatementInv DEF LockOrder, Advance, TxInv, TxTypeOK
<1> QED
  BY <1>2, <1>3 DEF SelectOrder

LEMMA CreditOwnerInv == ASSUME TxInv, NEW c \in Calls, CreditOwner(c) PROVE TxInv'
<1> DEFINE u == seen[c].user
           a == op[c].settle[2]
<1>1. u \in Users /\ a \in Nat
  <2>1. HoldsOrder(c) /\ op[c].kind = "update"
    BY DEF CreditOwner, Is, HoldsOrder
  <2> QED
    BY <2>1, Arguments DEF TxInv, ReadsAreCurrent, TxTypeOK, RepoTypeOK
<1>2. TxTypeOK'
  BY <1>1, CreditRowType, StatementType DEF CreditOwner, TxInv, TxTypeOK, Phases, Seen
<1>3. phase'[c] = "written" /\ op[c].kind = "update" /\ op' = op /\ seen' = seen
  BY DEF CreditOwner, Is, Advance, TxInv, TxTypeOK
<1>4. userLock'[u] = c /\ draft'[c].balance = balance[u] + a /\ draft'[c].withdrawn = withdrawn[u]
  BY <1>1 DEF CreditOwner, CreditRow, WriteUser, LockUser, TxInv, TxTypeOK
<1>5. orderLock' = orderLock /\ UNCHANGED repoVars /\ Awards(c)'
  BY <1>3 DEF CreditOwner, Awards, AddsAward
<1>6. HoldsOrder(c)
  BY DEF CreditOwner, Is, HoldsOrder
<1>7. LocksAreHeld(c)'
  BY <1>3, <1>4, <1>5, <1>6 DEF TxInv, LocksAreHeld, HoldsOrder, HoldsUser, Is, Target
<1>8. ReadsAreCurrent(c)'
  BY <1>3, <1>5, <1>6 DEF TxInv, ReadsAreCurrent, HoldsOrder, HoldsUser, Is, repoVars, orderVars
<1>9. DraftsAreCurrent(c)'
  BY <1>3, <1>4, <1>5 DEF DraftsAreCurrent, HoldsUser, Is, repoVars, userVars
<1> QED
  BY <1>2, <1>7, <1>8, <1>9, StatementInv DEF CreditOwner, CreditRow, WriteUser, LockUser, Advance, TxInv, TxTypeOK

LEMMA UpdateOrderInv == ASSUME TxInv, NEW c \in Calls, UpdateOrder(c) PROVE TxInv'
<1>1. TxTypeOK'
  BY DEF UpdateOrder, Advance, TxInv, TxTypeOK, RepoTypeOK, Phases, repoVars, orderVars, userVars
<1>2. /\ phase'[c] = "ready" /\ op[c].kind = "update"
      /\ \/ phase[c] = "locked" /\ ~Awards(c)
         \/ phase[c] = "written"
  BY DEF UpdateOrder, Is, Advance, TxInv, TxTypeOK
<1>3. UNCHANGED <<repoVars, op, seen, draft, orderLock, userLock>> /\ (Awards(c)' <=> Awards(c))
  BY DEF UpdateOrder, Awards, AddsAward
<1>4. LocksAreHeld(c)'
  BY <1>2, <1>3 DEF TxInv, LocksAreHeld, HoldsOrder, HoldsUser, Is, Target
<1>5. ReadsAreCurrent(c)'
  BY <1>2, <1>3 DEF TxInv, ReadsAreCurrent, HoldsOrder, HoldsUser, Is, repoVars, orderVars
<1>6. DraftsAreCurrent(c)'
  BY <1>2, <1>3 DEF TxInv, DraftsAreCurrent, HoldsUser, Is, repoVars, userVars
<1> QED
  BY <1>1, <1>4, <1>5, <1>6, StatementInv DEF UpdateOrder, Advance, TxInv, TxTypeOK

LEMMA SelectBalanceInv == ASSUME TxInv, NEW c \in Calls, SelectBalance(c) PROVE TxInv'
<1> DEFINE u == op[c].user
<1>1. u \in Users
  BY Arguments DEF SelectBalance, Is, TxInv, TxTypeOK
<1>2. TxTypeOK'
  <2>1. balance[u] \in Nat /\ withdrawn[u] \in Nat /\ seen \in [Calls -> Seen]
    BY <1>1 DEF TxInv, TxTypeOK, RepoTypeOK, Seen
  <2>2. seen' \in [Calls -> Seen]
    BY <2>1 DEF SelectBalance, Seen
  <2>3. draft' \in [Calls -> Draft] /\ userLock' \in [Users -> Calls \cup {NoCall}]
    BY <1>1 DEF SelectBalance, LockUser, TxInv, TxTypeOK, Draft
  <2> QED
    BY <2>2, <2>3, StatementType DEF SelectBalance, TxInv, TxTypeOK, Phases
<1>3. phase'[c] = "locked" /\ op[c].kind = "withdraw" /\ op' = op /\ UNCHANGED repoVars
  BY DEF SelectBalance, Is, Advance, TxInv, TxTypeOK
<1>4. userLock'[u] = c /\ seen'[c].balance = balance[u] /\ seen'[c].withdrawn = withdrawn[u]
  BY <1>1 DEF SelectBalance, LockUser, TxInv, TxTypeOK
<1>5. LocksAreHeld(c)' /\ ReadsAreCurrent(c)' /\ DraftsAreCurrent(c)'
  BY <1>3, <1>4 DEF LocksAreHeld, ReadsAreCurrent, DraftsAreCurrent, HoldsOrder, HoldsUser, Is, Target,
     repoVars, userVars
<1> QED
  BY <1>2, <1>5, StatementInv DEF SelectBalance, LockUser, Advance, TxInv, TxTypeOK

LEMMA DebitInv == ASSUME TxInv, NEW c \in Calls, Debit(c) PROVE TxInv'
<1> DEFINE u == op[c].user
           a == op[c].amount
<1>1. u \in Users /\ a \in Nat /\ op[c].kind = "withdraw" /\ phase[c] = "locked"
  BY Arguments DEF Debit, Is, TxInv, TxTypeOK
<1>2. /\ seen[c].balance = balance[u] /\ seen[c].withdrawn = withdrawn[u]
      /\ balance[u] \in Nat /\ withdrawn[u] \in Nat /\ balance[u] >= a
  BY <1>1 DEF Debit, Insufficient, TxInv, TxTypeOK, RepoTypeOK, ReadsAreCurrent, HoldsUser, Is
<1>3. TxTypeOK'
  <2>1. seen[c].balance - a \in Nat /\ seen[c].withdrawn + a \in Nat
    BY <1>1, <1>2
  <2> QED
    BY <2>1, WriteUserType, StatementType DEF Debit, TxInv, TxTypeOK, Phases, Seen
<1>4. phase'[c] = "written" /\ UNCHANGED <<repoVars, op, seen, orderLock, userLock>>
  BY DEF Debit, Advance, TxInv, TxTypeOK
<1>5. draft'[c].balance = balance[u] - a /\ draft'[c].withdrawn = withdrawn[u] + a
  BY <1>2 DEF Debit, WriteUser, TxInv, TxTypeOK
<1>6. LocksAreHeld(c)'
  BY <1>1, <1>4 DEF TxInv, LocksAreHeld, HoldsOrder, HoldsUser, Is, Target
<1>7. ReadsAreCurrent(c)' /\ DraftsAreCurrent(c)'
  BY <1>1, <1>2, <1>4, <1>5 DEF ReadsAreCurrent, DraftsAreCurrent, HoldsOrder, HoldsUser, Is, repoVars, userVars
<1> QED
  BY <1>3, <1>6, <1>7, StatementInv DEF Debit, WriteUser, Advance, TxInv, TxTypeOK

LEMMA InsertTransactionInv == ASSUME TxInv, NEW c \in Calls, InsertTransaction(c) PROVE TxInv'
<1>1. TxTypeOK'
  BY DEF InsertTransaction, Advance, TxInv, TxTypeOK, RepoTypeOK, Phases, repoVars, orderVars, userVars
<1>2. /\ phase'[c] = "ready" /\ op[c].kind = "withdraw" /\ phase[c] = "written"
      /\ UNCHANGED <<repoVars, op, seen, draft, orderLock, userLock>>
  BY DEF InsertTransaction, Is, Advance, TxInv, TxTypeOK
<1>3. LocksAreHeld(c)'
  BY <1>2 DEF TxInv, LocksAreHeld, HoldsOrder, HoldsUser, Is, Target
<1>4. ReadsAreCurrent(c)' /\ DraftsAreCurrent(c)'
  BY <1>2 DEF TxInv, ReadsAreCurrent, DraftsAreCurrent, HoldsOrder, HoldsUser, Is, repoVars, userVars
<1> QED
  BY <1>1, <1>3, <1>4, StatementInv DEF InsertTransaction, Advance, TxInv, TxTypeOK

LEMMA UpdateBalanceInv == ASSUME TxInv, NEW c \in Calls, UpdateBalance(c) PROVE TxInv'
<1> DEFINE u == op[c].user
           a == op[c].amount
<1>1. u \in Users /\ a \in Nat
  BY Arguments DEF UpdateBalance, Is, TxInv, TxTypeOK
<1>2. TxTypeOK'
  BY <1>1, CreditRowType, StatementType DEF UpdateBalance, TxInv, TxTypeOK, Phases, Seen
<1>3. phase'[c] = "written" /\ op[c].kind = "addAccrual" /\ op' = op /\ UNCHANGED repoVars
  BY DEF UpdateBalance, Is, Advance, TxInv, TxTypeOK
<1>4. userLock'[u] = c /\ draft'[c].balance = balance[u] + a /\ draft'[c].withdrawn = withdrawn[u]
  BY <1>1 DEF UpdateBalance, CreditRow, WriteUser, LockUser, TxInv, TxTypeOK
<1>5. LocksAreHeld(c)' /\ ReadsAreCurrent(c)' /\ DraftsAreCurrent(c)'
  BY <1>3, <1>4 DEF LocksAreHeld, ReadsAreCurrent, DraftsAreCurrent, HoldsOrder, HoldsUser, Is, Target,
     repoVars, userVars
<1> QED
  BY <1>2, <1>5, StatementInv DEF UpdateBalance, CreditRow, WriteUser, LockUser, Advance, TxInv, TxTypeOK

-----------------------------------------------------------------------------
\* The atomic operations keep the database well typed and conserve points.
LEMMA EffectInv ==
  ASSUME RepoTypeOK, op \in [Calls -> Operations], NEW c \in Calls, Effect(op[c])
  PROVE  RepoTypeOK' /\ (Conservation => Conservation') /\ RepoNext
<1>1. CASE op[c].kind = "create" /\ CreateOrder(op[c].user, op[c].order)
  <2>1. op[c].user \in Users /\ op[c].order \in Orders
    BY <1>1, Arguments
  <2> QED
    BY <1>1, <2>1, CreateOrderKeeps DEF RepoNext
<1>2. CASE op[c].kind = "update" /\ UpdateOrderStatus(op[c].order, op[c].settle[1], op[c].settle[2])
  <2>1. /\ op[c].order \in Orders /\ op[c].settle \in Settlements
        /\ op[c].settle[1] \in Statuses /\ op[c].settle[2] \in Nat
    BY <1>2, Arguments DEF Operations
  <2> QED
    BY <1>2, <2>1, UpdateOrderStatusKeeps DEF RepoNext
<1>3. CASE op[c].kind = "withdraw" /\ WithdrawBalance(op[c].user, op[c].amount)
  <2>1. op[c].user \in Users /\ op[c].amount \in Amounts
    BY <1>3, Arguments
  <2> QED
    BY <1>3, <2>1, WithdrawBalanceKeeps DEF RepoNext
<1>4. CASE op[c].kind = "addAccrual" /\ AddAccrual(op[c].user, op[c].amount)
  <2>1. op[c].user \in Users /\ op[c].amount \in Amounts /\ op[c].amount \in Nat
    BY <1>4, Arguments
  <2> QED
    BY <1>4, <2>1, AddAccrualKeeps DEF RepoNext
<1> QED
  BY <1>1, <1>2, <1>3, <1>4 DEF Effect

\* COMMIT installs the effect of the atomic operation, on rows the call holds.
Installs(c) ==
  /\ Effect(op[c])
  /\ \A o \in Orders : orderLock[o] # c => owner'[o] = owner[o] /\ status'[o] = status[o]
  /\ \A u \in Users : userLock[u] # c => balance'[u] = balance[u] /\ withdrawn'[u] = withdrawn[u]

LEMMA CommitOrderInstalls == ASSUME TxInv, NEW c \in Calls, CommitOrder(c) PROVE Installs(c)
<1>1. op[c].order \in Orders /\ op[c].kind = "create" /\ HoldsOrder(c)
  BY Arguments DEF CommitOrder, Is, HoldsOrder, TxInv, TxTypeOK
<1>2. owner[op[c].order] = NoUser /\ orderLock[op[c].order] = c
  BY <1>1 DEF CommitOrder, TxInv, LocksAreHeld, ReadsAreCurrent
<1> QED
  BY <1>1, <1>2 DEF CommitOrder, Installs, Effect, CreateOrder, TxInv, TxTypeOK, RepoTypeOK, userVars

LEMMA CommitUpdateInstalls == ASSUME TxInv, NEW c \in Calls, CommitUpdate(c) PROVE Installs(c)
<1> DEFINE o == op[c].order
           u == seen[c].user
           a == op[c].settle[2]
<1>1. o \in Orders /\ op[c].kind = "update" /\ HoldsOrder(c) /\ a \in Nat
  BY Arguments DEF CommitUpdate, Is, HoldsOrder, TxInv, TxTypeOK
<1>2. /\ orderLock[o] = c
      /\ u = owner[o] /\ u # NoUser /\ u \in Users
      /\ Awards(c) <=> AddsAward(status[o], op[c].settle[1])
  BY <1>1 DEF TxInv, TxTypeOK, RepoTypeOK, LocksAreHeld, ReadsAreCurrent, Awards
<1>3. \A p \in Orders : orderLock[p] # c => owner'[p] = owner[p] /\ status'[p] = status[p]
  BY <1>2 DEF CommitUpdate, TxInv, TxTypeOK, RepoTypeOK
<1>4. CASE Awards(c)
  <2>1. HoldsUser(c) /\ userLock[u] = c
    BY <1>1, <1>4 DEF CommitUpdate, HoldsUser, TxInv, LocksAreHeld, Target
  <2>2. draft[c].balance = balance[u] + a /\ draft[c].withdrawn = withdrawn[u]
    BY <1>1, <2>1 DEF TxInv, DraftsAreCurrent
  <2>3. balance' = [balance EXCEPT ![u] = @ + a] /\ withdrawn' = withdrawn
    <3>1. InstallUser(c, u)
      BY <1>4 DEF CommitUpdate
    <3>2. balance \in [Users -> Nat] /\ withdrawn \in [Users -> Nat]
      BY DEF TxInv, TxTypeOK, RepoTypeOK
    <3> QED
      BY <1>2, <2>2, <3>1, <3>2 DEF InstallUser
  <2>4. AddToBalance(owner[o], a) /\ credits' = [credits EXCEPT ![o] = @ + 1]
    BY <1>2, <1>4, <2>3 DEF CommitUpdate, AddToBalance
  <2>5. Effect(op[c])
    BY <1>1, <1>2, <1>4, <2>4 DEF CommitUpdate, Effect, UpdateOrderStatus
  <2>6. \A v \in Users : userLock[v] # c => balance'[v] = balance[v] /\ withdrawn'[v] = withdrawn[v]
    BY <2>1, <2>3 DEF TxInv, TxTypeOK, RepoTypeOK
  <2> QED
    BY <1>3, <2>5, <2>6 DEF Installs
<1>5. CASE ~Awards(c)
  BY <1>1, <1>2, <1>3, <1>5 DEF CommitUpdate, Installs, Effect, UpdateOrderStatus, userVars
<1> QED
  BY <1>4, <1>5

LEMMA CommitWithdrawalInstalls == ASSUME TxInv, NEW c \in Calls, CommitWithdrawal(c) PROVE Installs(c)
<1> DEFINE u == op[c].user
           a == op[c].amount
<1>1. u \in Users /\ a \in Nat /\ op[c].kind = "withdraw" /\ phase[c] = "ready" /\ HoldsUser(c)
  BY Arguments DEF CommitWithdrawal, Is, HoldsUser, TxInv, TxTypeOK
<1>2. userLock[u] = c
  BY <1>1 DEF TxInv, LocksAreHeld, Target
<1>3. balance[u] >= a /\ draft[c].balance = balance[u] - a /\ draft[c].withdrawn = withdrawn[u] + a
  BY <1>1 DEF TxInv, DraftsAreCurrent
<1>4. /\ balance' = [balance EXCEPT ![u] = @ - a]
      /\ withdrawn' = [withdrawn EXCEPT ![u] = @ + a]
  BY <1>1, <1>3 DEF CommitWithdrawal, InstallUser, TxInv, TxTypeOK, RepoTypeOK
<1>5. Effect(op[c])
  BY <1>1, <1>3, <1>4 DEF CommitWithdrawal, Effect, WithdrawBalance
<1> QED
  BY <1>2, <1>4, <1>5 DEF CommitWithdrawal, Installs, TxInv, TxTypeOK, RepoTypeOK, orderVars

LEMMA CommitAccrualInstalls == ASSUME TxInv, NEW c \in Calls, CommitAccrual(c) PROVE Installs(c)
<1> DEFINE u == op[c].user
           a == op[c].amount
<1>1. u \in Users /\ a \in Nat /\ op[c].kind = "addAccrual" /\ HoldsUser(c)
  BY Arguments DEF CommitAccrual, Is, HoldsUser, TxInv, TxTypeOK
<1>2. userLock[u] = c /\ draft[c].balance = balance[u] + a /\ draft[c].withdrawn = withdrawn[u]
  BY <1>1 DEF TxInv, LocksAreHeld, DraftsAreCurrent, Target
<1>3. balance' = [balance EXCEPT ![u] = @ + a] /\ withdrawn' = withdrawn
  BY <1>1, <1>2 DEF CommitAccrual, InstallUser, TxInv, TxTypeOK, RepoTypeOK
<1>4. Effect(op[c])
  BY <1>1, <1>3 DEF CommitAccrual, Effect, AddAccrual, AddToBalance
<1> QED
  BY <1>2, <1>3, <1>4 DEF CommitAccrual, Installs, TxInv, TxTypeOK, RepoTypeOK, orderVars

Commit(c) == CommitOrder(c) \/ CommitUpdate(c) \/ CommitWithdrawal(c) \/ CommitAccrual(c)

LEMMA CommitInv ==
  ASSUME TxInv, NEW c \in Calls, Commit(c)
  PROVE  TxInv' /\ Effect(op[c]) /\ phase'[c] = "done"
<1>1. Installs(c)
  BY CommitOrderInstalls, CommitUpdateInstalls, CommitWithdrawalInstalls, CommitAccrualInstalls DEF Commit
<1>2. PICK result \in {"ok", "failed"} : Finish(c, result)
  BY DEF Commit, CommitOrder, CommitUpdate, CommitWithdrawal, CommitAccrual, Committed
<1>3. RepoTypeOK'
  BY <1>1, EffectInv DEF Installs, TxInv, TxTypeOK
<1>4. TxTypeOK'
  BY <1>2, <1>3, FinishType DEF TxInv, Answers
<1>5. TxInv'
  BY <1>1, <1>2, <1>4, FinishInv DEF Installs
<1> QED
  BY <1>1, <1>2, <1>5 DEF Installs, Finish, Advance, TxInv, TxTypeOK

-----------------------------------------------------------------------------
(* What a step does, and the theorems that rest on it. *)

\* A method ends without a COMMIT.
Returns(c) ==
  \/ InsertDuplicate(c) \/ RefuseWithdrawal(c) \/ Fail(c)
  \/ Is(c, "update", "begun") /\ Rollback(c, "failed")

\* What a step of the system does to the committed database and the answers.
StepShape ==
  \/ \E c \in Calls : Commit(c)
  \/ \E c \in Calls : Returns(c)
  \/ UNCHANGED <<repoVars, answer>>

LEMMA StepHasShape == [TxNext]_txVars => StepShape
<1>1. ASSUME NEW c \in Calls, Statement(c) PROVE StepShape
  <2>1. CASE Commit(c)
    BY <2>1 DEF StepShape
  <2>2. CASE InsertDuplicate(c) \/ RefuseWithdrawal(c)
    BY <2>2 DEF StepShape, Returns
  <2>3. CASE SelectOrder(c)
    BY <2>3 DEF StepShape, Returns, SelectOrder
  <2>4. CASE Insert(c) \/ CreditOwner(c) \/ UpdateOrder(c) \/ SelectBalance(c) \/ Debit(c)
             \/ InsertTransaction(c) \/ UpdateBalance(c)
    BY <2>4 DEF StepShape, Insert, CreditOwner, UpdateOrder, SelectBalance, Debit, InsertTransaction,
       UpdateBalance
  <2> QED
    BY <1>1, <2>1, <2>2, <2>3, <2>4 DEF Statement, Commit
<1>2. ASSUME NEW c \in Calls, Begin(c) \/ Fail(c) PROVE StepShape
  BY <1>2 DEF StepShape, Begin, Returns
<1>3. CASE UNCHANGED txVars
  BY <1>3 DEF StepShape, txVars, callVars
<1> QED
  BY <1>1, <1>2, <1>3 DEF TxNext, AllDone

LEMMA NextInv == TxInv /\ [TxNext]_txVars => TxInv'
<1> SUFFICES ASSUME TxInv, [TxNext]_txVars PROVE TxInv'
  OBVIOUS
<1>1. ASSUME NEW c \in Calls, Begin(c) PROVE TxInv'
  BY <1>1, BeginInv
<1>2. ASSUME NEW c \in Calls, Statement(c) PROVE TxInv'
  <2>1. CASE Commit(c)
    BY <2>1, CommitInv
  <2>2. CASE InsertDuplicate(c) \/ RefuseWithdrawal(c)
    BY <2>2, RollbackInv DEF InsertDuplicate, RefuseWithdrawal, Answers
  <2>3. CASE Insert(c) \/ SelectOrder(c) \/ CreditOwner(c) \/ UpdateOrder(c)
    BY <2>3, InsertInv, SelectOrderInv, CreditOwnerInv, UpdateOrderInv
  <2>4. CASE SelectBalance(c) \/ Debit(c) \/ InsertTransaction(c) \/ UpdateBalance(c)
    BY <2>4, SelectBalanceInv, DebitInv, InsertTransactionInv, UpdateBalanceInv
  <2> QED
    BY <1>2, <2>1, <2>2, <2>3, <2>4 DEF Statement, Commit
<1>3. ASSUME NEW c \in Calls, Fail(c) PROVE TxInv'
  BY <1>3, RollbackInv DEF Fail, Answers
<1>4. CASE UNCHANGED txVars
  <2>1. TxTypeOK'
    BY <1>4 DEF TxInv, TxTypeOK, RepoTypeOK, txVars, callVars, repoVars, orderVars, userVars
  <2>2. ASSUME NEW c \in Calls PROVE LocksAreHeld(c)' /\ ReadsAreCurrent(c)' /\ DraftsAreCurrent(c)'
    BY <1>4, OthersKeep DEF txVars, callVars, repoVars, orderVars, userVars
  <2> QED
    BY <2>1, <2>2 DEF TxInv
<1> QED
  BY <1>1, <1>2, <1>3, <1>4 DEF TxNext, AllDone

(***************************************************************************)
(* Statement by statement: a call that has read a row under its lock holds *)
(* the lock until it ends, so what it has read is what is stored           *)
(* (UpdateOrderStatus, WithdrawBalance).                                   *)
(***************************************************************************)
THEOREM TxInvariant == TxSpec => []TxInv
<1> QED
  BY InitInv, NextInv, PTL DEF TxSpec

(***************************************************************************)
(* The variables keep their types: in particular no balance and no version *)
(* of a row a withdrawal is about to write is ever negative                *)
(* (WithdrawBalance checks the funds under the row lock).                  *)
(***************************************************************************)
THEOREM TxTypeCorrect == TxSpec => []TxTypeOK
<1>1. TxInv => TxTypeOK
  BY DEF TxInv
<1> QED
  BY <1>1, TxInvariant, PTL

(***************************************************************************)
(* The repository run statement by statement implements the atomic         *)
(* repository: every step changes the committed database as one operation  *)
(* does, or not at all.                                                    *)
(***************************************************************************)
THEOREM TxImplementsRepository == TxSpec => RepoSpec
<1>1. TxInit => RepoInit
  BY DEF TxInit
<1>2. TxInv /\ [TxNext]_txVars => [RepoNext]_repoVars
  <2> SUFFICES ASSUME TxInv, StepShape PROVE [RepoNext]_repoVars
    BY StepHasShape
  <2>1. ASSUME NEW c \in Calls, Commit(c) PROVE RepoNext
    BY <2>1, CommitInv, EffectInv DEF TxInv, TxTypeOK
  <2>2. ASSUME NEW c \in Calls, Returns(c) PROVE UNCHANGED repoVars
    BY <2>2 DEF Returns, InsertDuplicate, RefuseWithdrawal, Fail, Rollback
  <2> QED
    BY <2>1, <2>2 DEF StepShape
<1> QED
  BY <1>1, <1>2, TxInvariant, PTL DEF TxSpec, RepoSpec

(***************************************************************************)
(* No point is created or lost by overlapping credits and withdrawals.     *)
(***************************************************************************)
THEOREM TxConserves == TxSpec => []Conservation
<1>1. TxInit => Conservation
  <2> SUFFICES ASSUME TxInit, NEW u \in Users PROVE balance[u] + withdrawn[u] = earned[u]
    BY DEF Conservation
  <2>1. balance[u] \in Nat /\ withdrawn[u] = 0 /\ earned[u] = balance[u]
    BY DEF TxInit, RepoInit
  <2> QED
    BY <2>1
<1>2. TxInv /\ Conservation /\ [TxNext]_txVars => Conservation'
  <2> SUFFICES ASSUME TxInv, Conservation, StepShape PROVE Conservation'
    BY StepHasShape
  <2>1. ASSUME NEW c \in Calls, Commit(c) PROVE Conservation'
    BY <2>1, CommitInv, EffectInv DEF TxInv, TxTypeOK
  <2>2. CASE UNCHANGED repoVars
    BY <2>2 DEF Conservation, repoVars, userVars
  <2> QED
    BY <2>1, <2>2 DEF StepShape, Returns, InsertDuplicate, RefuseWithdrawal, Fail, Rollback
<1> QED
  BY <1>1, <1>2, TxInvariant, PTL DEF TxSpec

(***************************************************************************)
(* Whatever transactions overlap, the list of withdrawals accounts for     *)
(* every withdrawn point: the transactions implement the atomic repository *)
(* and its invariants are theirs.                                          *)
(***************************************************************************)
THEOREM TxItemizes == TxSpec => []WithdrawnIsItemized
BY TxImplementsRepository, RepoKeepsAccounts, PTL

\* A call has no answer until it is done.
Unanswered == \A c \in Calls : phase[c] # "done" => answer[c] = "none"

LEMMA UnansweredInvariant == TxSpec => []Unanswered
<1>1. TxInit => Unanswered
  BY DEF TxInit, Unanswered
<1>2. TxInv /\ Unanswered /\ [TxNext]_txVars => Unanswered'
  <2> SUFFICES ASSUME TxInv, Unanswered, [TxNext]_txVars PROVE Unanswered'
    OBVIOUS
  <2>1. ASSUME NEW d \in Calls, NEW result, Finish(d, result) PROVE Unanswered'
    BY <2>1 DEF Finish, Advance, Unanswered, TxInv, TxTypeOK
  <2>2. ASSUME NEW d \in Calls, NEW p, Advance(d, p), phase[d] # "done", answer' = answer PROVE Unanswered'
    BY <2>2 DEF Advance, Unanswered, TxInv, TxTypeOK
  <2>3. ASSUME NEW d \in Calls, Statement(d) PROVE Unanswered'
    <3>1. CASE Commit(d)
      BY <3>1, <2>1 DEF Commit, CommitOrder, CommitUpdate, CommitWithdrawal, CommitAccrual, Committed
    <3>2. CASE InsertDuplicate(d) \/ RefuseWithdrawal(d)
      BY <3>2, <2>1 DEF InsertDuplicate, RefuseWithdrawal, Rollback
    <3>3. CASE SelectOrder(d)
      BY <3>3, <2>1, <2>2 DEF SelectOrder, Is, Rollback
    <3>4. CASE Insert(d) \/ CreditOwner(d) \/ UpdateOrder(d)
      BY <3>4, <2>2 DEF Insert, CreditOwner, UpdateOrder, Is
    <3>5. CASE SelectBalance(d) \/ Debit(d) \/ InsertTransaction(d) \/ UpdateBalance(d)
      BY <3>5, <2>2 DEF SelectBalance, Debit, InsertTransaction, UpdateBalance, Is
    <3> QED
      BY <2>3, <3>1, <3>2, <3>3, <3>4, <3>5 DEF Statement, Commit
  <2>4. ASSUME NEW d \in Calls, Begin(d) \/ Fail(d) PROVE Unanswered'
    BY <2>4, <2>1, <2>2 DEF Begin, Fail, Rollback
  <2>5. CASE UNCHANGED txVars
    BY <2>5 DEF Unanswered, txVars, callVars
  <2> QED
    BY <2>3, <2>4, <2>5 DEF TxNext, AllDone
<1> QED
  BY <1>1, <1>2, TxInvariant, PTL DEF TxSpec

(***************************************************************************)
(* A method's answer tells what it did to the database.                    *)
(***************************************************************************)
THEOREM TxAnswersTellTheEffect == TxSpec => AnswersTellTheEffect
<1> DEFINE Tells(c) ==
      CASE answer'[c] = "ok" -> Effect(op[c])
        [] answer'[c] \in {"exists", "insufficient"} -> Refused(op[c]) /\ UNCHANGED repoVars
        [] OTHER -> Effect(op[c]) \/ UNCHANGED repoVars
           Told == /\ \A c \in Calls : answer'[c] # answer[c] => Tells(c)
                   /\ answer' = answer => UNCHANGED repoVars
<1>1. TxInv /\ Unanswered /\ [TxNext]_txVars => Told
  <2> SUFFICES ASSUME TxInv, Unanswered, StepShape PROVE Told
    BY StepHasShape
  <2>1. ASSUME NEW d \in Calls, NEW result \in Answers \ {"none"}, Finish(d, result),
               phase[d] # "done", Tells(d)
        PROVE  Told
    <3>1. answer' # answer /\ \A c \in Calls : answer'[c] # answer[c] => c = d
      BY <2>1 DEF Finish, Unanswered, TxInv, TxTypeOK
    <3> QED
      BY <2>1, <3>1
  <2>2. ASSUME NEW d \in Calls, Commit(d) PROVE Told
    <3>1. Effect(op[d]) /\ phase[d] # "done"
      BY <2>2, CommitInv DEF Commit, CommitOrder, CommitUpdate, CommitWithdrawal, CommitAccrual, Is
    <3>2. PICK result \in {"ok", "failed"} : Finish(d, result)
      BY <2>2 DEF Commit, CommitOrder, CommitUpdate, CommitWithdrawal, CommitAccrual, Committed
    <3>3. answer'[d] = result
      BY <3>2 DEF Finish, TxInv, TxTypeOK
    <3>4. Tells(d)
      BY <3>1, <3>3
    <3> QED
      BY <2>1, <3>1, <3>2, <3>4 DEF Answers
  <2>3. ASSUME NEW d \in Calls, InsertDuplicate(d) PROVE Told
    <3>1. Finish(d, "exists") /\ UNCHANGED repoVars /\ Refused(op[d]) /\ phase[d] # "done"
      BY <2>3 DEF InsertDuplicate, Rollback, Refused, Is
    <3>2. answer'[d] = "exists"
      BY <3>1 DEF Finish, TxInv, TxTypeOK
    <3> QED
      BY <2>1, <3>1, <3>2 DEF Answers
  <2>4. ASSUME NEW d \in Calls, RefuseWithdrawal(d) PROVE Told
    <3>1. Finish(d, "insufficient") /\ UNCHANGED repoVars /\ Is(d, "withdraw", "locked") /\ Insufficient(d)
      BY <2>4 DEF RefuseWithdrawal, Rollback
    <3>2. answer'[d] = "insufficient" /\ phase[d] # "done"
      BY <3>1 DEF Finish, Is, TxInv, TxTypeOK
    <3>3. Refused(op[d])
      BY <3>1 DEF Refused, Insufficient, TxInv, ReadsAreCurrent, HoldsUser, Is
    <3> QED
      BY <2>1, <3>1, <3>2, <3>3 DEF Answers
  <2>5. ASSUME NEW d \in Calls, phase[d] # "done", Rollback(d, "failed") PROVE Told
    <3>1. Finish(d, "failed") /\ UNCHANGED repoVars /\ answer'[d] = "failed"
      BY <2>5 DEF Rollback, Finish, TxInv, TxTypeOK
    <3> QED
      BY <2>1, <2>5, <3>1 DEF Answers
  <2>6. ASSUME NEW d \in Calls, Returns(d) PROVE Told
    BY <2>6, <2>3, <2>4, <2>5 DEF Returns, Fail, Is
  <2>7. CASE UNCHANGED <<repoVars, answer>>
    BY <2>7
  <2> QED
    BY <2>2, <2>6, <2>7 DEF StepShape
<1>2. TxInv /\ Unanswered /\ [TxNext]_txVars => [Told]_txVars
  BY <1>1
<1> QED
  BY <1>2, TxInvariant, UnansweredInvariant, PTL DEF TxSpec, AnswersTellTheEffect

-----------------------------------------------------------------------------
(* No circular wait.  The converse of LocksAreHeld: a lock belongs to a call *)
(* that has a use for it.  A call that holds a user's row waits for nothing, *)
(* and one that holds an order's row waits for a user's row at most.         *)

LocksAreUsed ==
  /\ \A o \in Orders : orderLock[o] # NoCall => HoldsOrder(orderLock[o])
  /\ \A u \in Users : userLock[u] # NoCall => HoldsUser(userLock[u])

\* A step of call d takes or releases locks for d only.
LEMMA OthersUse ==
  ASSUME TxInv, LocksAreUsed, NEW d \in Calls, op' = op,
         \A c \in Calls \ {d} : phase'[c] = phase[c] /\ seen'[c] = seen[c],
         \A o \in Orders : orderLock'[o] \in {orderLock[o], NoCall, d},
         \A u \in Users : userLock'[u] \in {userLock[u], NoCall, d},
         (\E o \in Orders : orderLock'[o] = d) => HoldsOrder(d)',
         (\E u \in Users : userLock'[u] = d) => HoldsUser(d)'
  PROVE  LocksAreUsed'
<1>1. \A c \in Calls \ {d} : (HoldsOrder(c) => HoldsOrder(c)') /\ (HoldsUser(c) => HoldsUser(c)')
  BY DEF HoldsOrder, HoldsUser, Is, Awards, AddsAward
<1>2. /\ \A o \in Orders : orderLock[o] \in Calls \cup {NoCall}
      /\ \A u \in Users : userLock[u] \in Calls \cup {NoCall}
  BY DEF TxInv, TxTypeOK
<1>3. ASSUME NEW o \in Orders, orderLock'[o] # NoCall PROVE HoldsOrder(orderLock[o])'
  BY <1>1, <1>2, <1>3 DEF LocksAreUsed
<1>4. ASSUME NEW u \in Users, userLock'[u] # NoCall PROVE HoldsUser(userLock[u])'
  BY <1>1, <1>2, <1>4 DEF LocksAreUsed
<1> QED
  BY <1>3, <1>4 DEF LocksAreUsed

\* A call that has ended has no lock.
LEMMA FinishUses ==
  ASSUME TxInv, LocksAreUsed, NEW d \in Calls, NEW result, Finish(d, result)
  PROVE  LocksAreUsed'
<1>1. /\ \A o \in Orders : orderLock'[o] # d /\ orderLock'[o] \in {orderLock[o], NoCall}
      /\ \A u \in Users : userLock'[u] # d /\ userLock'[u] \in {userLock[u], NoCall}
  BY DEF Finish, Unheld, TxInv, TxTypeOK
<1>2. op' = op /\ \A c \in Calls \ {d} : phase'[c] = phase[c] /\ seen'[c] = seen[c]
  BY DEF Finish, Advance, TxInv, TxTypeOK
<1> QED
  BY <1>1, <1>2, OthersUse

\* After a statement that ends no transaction the call has a use for each of its
\* locks, or has none.
LEMMA TakesUse ==
  ASSUME TxInv, LocksAreUsed, NEW d \in Calls, UNCHANGED op,
         \A c \in Calls \ {d} : phase'[c] = phase[c] /\ seen'[c] = seen[c],
         \A o \in Orders : orderLock'[o] \in {orderLock[o], d},
         \A u \in Users : userLock'[u] \in {userLock[u], d},
         HoldsOrder(d)' \/ (orderLock' = orderLock /\ ~HoldsOrder(d)),
         HoldsUser(d)' \/ (userLock' = userLock /\ ~HoldsUser(d))
  PROVE  LocksAreUsed'
<1>1. (\E o \in Orders : orderLock'[o] = d) => HoldsOrder(d)'
  BY DEF LocksAreUsed
<1>2. (\E u \in Users : userLock'[u] = d) => HoldsUser(d)'
  BY DEF LocksAreUsed
<1> QED
  BY <1>1, <1>2, OthersUse

LEMMA NextUses == TxInv /\ LocksAreUsed /\ [TxNext]_txVars => LocksAreUsed'
<1> SUFFICES ASSUME TxInv, LocksAreUsed, [TxNext]_txVars PROVE LocksAreUsed'
  OBVIOUS
<1>1. ASSUME NEW d \in Calls, Begin(d) PROVE LocksAreUsed'
  <2>1. phase[d] = "idle" /\ UNCHANGED <<op, seen, orderLock, userLock>>
        /\ \A c \in Calls \ {d} : phase'[c] = phase[c]
    BY <1>1 DEF Begin, Advance, TxInv, TxTypeOK
  <2>2. ~HoldsOrder(d) /\ ~HoldsUser(d)
    BY <2>1 DEF HoldsOrder, HoldsUser, Is
  <2> QED
    BY <2>1, <2>2, TakesUse
<1>2. ASSUME NEW d \in Calls, Statement(d) PROVE LocksAreUsed'
  <2>1. CASE Commit(d)
    BY <2>1, FinishUses DEF Commit, CommitOrder, CommitUpdate, CommitWithdrawal, CommitAccrual, Committed
  <2>2. CASE InsertDuplicate(d) \/ RefuseWithdrawal(d)
    BY <2>2, FinishUses DEF InsertDuplicate, RefuseWithdrawal, Rollback
  <2>3. CASE Insert(d)
    <3>1. /\ op' = op /\ seen' = seen /\ userLock' = userLock /\ op[d].kind = "create" /\ phase[d] = "begun"
          /\ phase'[d] = "written" /\ \A c \in Calls \ {d} : phase'[c] = phase[c]
          /\ \A o \in Orders : orderLock'[o] \in {orderLock[o], d}
      BY <2>3 DEF Insert, Is, LockOrder, Advance, TxInv, TxTypeOK
    <3>2. HoldsOrder(d)' /\ ~HoldsUser(d)
      BY <3>1 DEF HoldsOrder, HoldsUser, Is
    <3> QED
      BY <3>1, <3>2, TakesUse
  <2>4. CASE SelectOrder(d)
    <3>1. CASE Rollback(d, "failed")
      BY <3>1, FinishUses DEF Rollback
    <3>2. CASE ~Rollback(d, "failed")
      <4>1. /\ op' = op /\ userLock' = userLock /\ op[d].kind = "update" /\ phase[d] = "begun"
            /\ phase'[d] = "locked" /\ \A c \in Calls \ {d} : phase'[c] = phase[c] /\ seen'[c] = seen[c]
            /\ \A o \in Orders : orderLock'[o] \in {orderLock[o], d}
        BY <2>4, <3>2 DEF SelectOrder, Is, LockOrder, Advance, TxInv, TxTypeOK
      <4>2. HoldsOrder(d)' /\ ~HoldsUser(d)
        BY <4>1 DEF HoldsOrder, HoldsUser, Is
      <4> QED
        BY <4>1, <4>2, TakesUse
    <3> QED
      BY <3>1, <3>2
  <2>5. CASE CreditOwner(d)
    <3>1. /\ op' = op /\ seen' = seen /\ orderLock' = orderLock /\ op[d].kind = "update" /\ phase[d] = "locked"
          /\ phase'[d] = "written" /\ \A c \in Calls \ {d} : phase'[c] = phase[c]
          /\ \A u \in Users : userLock'[u] \in {userLock[u], d}
      BY <2>5 DEF CreditOwner, CreditRow, Is, LockUser, Advance, TxInv, TxTypeOK
    <3>2. HoldsOrder(d)' /\ HoldsUser(d)'
      BY <3>1 DEF HoldsOrder, HoldsUser, Is
    <3> QED
      BY <3>1, <3>2, TakesUse
  <2>6. CASE UpdateOrder(d)
    <3>1. /\ UNCHANGED <<op, seen, orderLock, userLock>> /\ op[d].kind = "update" /\ phase'[d] = "ready"
          /\ \A c \in Calls \ {d} : phase'[c] = phase[c]
          /\ (phase[d] = "locked" \/ phase[d] = "written")
      BY <2>6 DEF UpdateOrder, Is, Advance, TxInv, TxTypeOK
    <3>2. phase[d] = "written" => Awards(d)'
      BY <3>1 DEF TxInv, ReadsAreCurrent, HoldsOrder, Awards, AddsAward
    <3>3. HoldsOrder(d)' /\ (HoldsUser(d)' \/ ~HoldsUser(d))
      BY <3>1, <3>2 DEF HoldsOrder, HoldsUser, Is
    <3> QED
      BY <3>1, <3>3, TakesUse
  <2>7. CASE SelectBalance(d)
    <3>1. /\ op' = op /\ orderLock' = orderLock /\ op[d].kind = "withdraw" /\ phase'[d] = "locked"
          /\ \A c \in Calls \ {d} : phase'[c] = phase[c] /\ seen'[c] = seen[c]
          /\ \A u \in Users : userLock'[u] \in {userLock[u], d}
      BY <2>7 DEF SelectBalance, Is, LockUser, Advance, TxInv, TxTypeOK
    <3>2. HoldsUser(d)' /\ ~HoldsOrder(d)
      BY <3>1 DEF HoldsOrder, HoldsUser, Is
    <3> QED
      BY <3>1, <3>2, TakesUse
  <2>8. CASE Debit(d) \/ InsertTransaction(d)
    <3>1. /\ UNCHANGED <<op, seen, orderLock, userLock>> /\ op[d].kind = "withdraw"
          /\ phase'[d] \in {"written", "ready"} /\ \A c \in Calls \ {d} : phase'[c] = phase[c]
      BY <2>8 DEF Debit, InsertTransaction, Is, Advance, TxInv, TxTypeOK
    <3>2. HoldsUser(d)' /\ ~HoldsOrder(d)
      BY <3>1 DEF HoldsOrder, HoldsUser, Is
    <3> QED
      BY <3>1, <3>2, TakesUse
  <2>9. CASE UpdateBalance(d)
    <3>1. /\ op' = op /\ seen' = seen /\ orderLock' = orderLock /\ op[d].kind = "addAccrual"
          /\ phase'[d] = "written" /\ \A c \in Calls \ {d} : phase'[c] = phase[c]
          /\ \A u \in Users : userLock'[u] \in {userLock[u], d}
      BY <2>9 DEF UpdateBalance, CreditRow, Is, LockUser, Advance, TxInv, TxTypeOK
    <3>2. HoldsUser(d)' /\ ~HoldsOrder(d)
      BY <3>1 DEF HoldsOrder, HoldsUser, Is
    <3> QED
      BY <3>1, <3>2, TakesUse
  <2> QED
    BY <1>2, <2>1, <2>2, <2>3, <2>4, <2>5, <2>6, <2>7, <2>8, <2>9 DEF Statement, Commit
<1>3. ASSUME NEW d \in Calls, Fail(d) PROVE LocksAreUsed'
  BY <1>3, FinishUses DEF Fail, Rollback
<1>4. CASE UNCHANGED txVars
  BY <1>4 DEF LocksAreUsed, HoldsOrder, HoldsUser, Is, Awards, AddsAward, txVars, callVars
<1> QED
  BY <1>1, <1>2, <1>3, <1>4 DEF TxNext, AllDone

\* Whoever holds a user's row can go on.
LEMMA UserHoldersMove ==
  ASSUME TxInv, LocksAreUsed, NEW u \in Users, userLock[u] # NoCall
  PROVE  \E c \in Calls : Active(c) /\ ~Waits(c)
<1> DEFINE d == userLock[u]
<1>1. d \in Calls /\ HoldsUser(d)
  BY DEF LocksAreUsed, TxInv, TxTypeOK
<1>2. Active(d) /\ ~Waits(d)
  BY <1>1 DEF HoldsUser, Active, Waits, Is
<1> QED
  BY <1>1, <1>2

\* Whoever holds an order's row can go on, or waits for a user's row.
LEMMA OrderHoldersMove ==
  ASSUME TxInv, LocksAreUsed, NEW o \in Orders, orderLock[o] # NoCall
  PROVE  \E c \in Calls : Active(c) /\ ~Waits(c)
<1> DEFINE d == orderLock[o]
<1>1. d \in Calls /\ HoldsOrder(d)
  BY DEF LocksAreUsed, TxInv, TxTypeOK
<1>2. CASE Is(d, "create", "written")
  <2>1. op[d].user \in Users
    BY <1>1, <1>2, Arguments DEF TxInv, TxTypeOK, Is
  <2>2. CASE HeldForUpdate(op[d].user)
    BY <2>1, <2>2, UserHoldersMove DEF HeldForUpdate
  <2>3. CASE ~HeldForUpdate(op[d].user)
    BY <1>1, <1>2, <2>3 DEF Active, Waits, Is
  <2> QED
    BY <2>2, <2>3
<1>3. CASE op[d].kind = "update" /\ phase[d] \in {"locked", "written", "ready"}
  <2>1. seen[d].user \in Users
    <3>1. seen[d].user = owner[op[d].order] /\ seen[d].user # NoUser /\ op[d].order \in Orders
      BY <1>1, <1>3, Arguments DEF TxInv, TxTypeOK, ReadsAreCurrent
    <3> QED
      BY <3>1 DEF TxInv, TxTypeOK, RepoTypeOK
  <2>2. CASE userLock[seen[d].user] # NoCall
    BY <2>1, <2>2, UserHoldersMove
  <2>3. CASE userLock[seen[d].user] = NoCall
    BY <1>1, <1>3, <2>3 DEF Active, Waits, Is
  <2> QED
    BY <2>2, <2>3
<1> QED
  BY <1>1, <1>2, <1>3 DEF HoldsOrder

(***************************************************************************)
(* The transactions of any number of calls never wait in a circle, and no  *)
(* call waits for one that has returned.                                   *)
(***************************************************************************)
THEOREM TxNeverWaitsInCircle == TxSpec => []NoCircularWait
<1>1. TxInit => LocksAreUsed
  BY DEF TxInit, LocksAreUsed
<1>2. TxInv /\ LocksAreUsed => NoCircularWait
  <2> SUFFICES ASSUME TxInv, LocksAreUsed, NEW c \in Calls, Active(c)
               PROVE  \E d \in Calls : Active(d) /\ ~Waits(d)
    BY DEF NoCircularWait
  <2>1. CASE \E o \in Orders : orderLock[o] # NoCall
    BY <2>1, OrderHoldersMove
  <2>2. CASE \E u \in Users : userLock[u] # NoCall
    BY <2>2, UserHoldersMove
  <2>3. CASE (\A o \in Orders : orderLock[o] = NoCall) /\ (\A u \in Users : userLock[u] = NoCall)
    <3>1. ~HoldsOrder(c)
      BY <2>3, Arguments DEF TxInv, TxTypeOK, LocksAreHeld, HoldsOrder, Is
    <3>2. ~Waits(c)
      BY <2>3, <3>1, Arguments DEF TxInv, TxTypeOK, Waits, HoldsOrder, Is
    <3> QED
      BY <3>2
  <2> QED
    BY <2>1, <2>2, <2>3
<1> QED
  BY <1>1, <1>2, NextUses, TxInvariant, PTL DEF TxSpec
=============================================================================
