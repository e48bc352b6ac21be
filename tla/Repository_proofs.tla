---------------------------- MODULE Repository_proofs ----------------------------
(***************************************************************************)
(* What each atomic operation of the repository preserves, for the modules *)
(* that are built on it: the types of the rows, and the points.            *)
(***************************************************************************)
EXTENDS Repository, Sums_proofs

USE AmountsAssumption, RepositoryAssumption

LEMMA RepoInitType == ASSUME RepoInit PROVE RepoTypeOK
<1>1. balance \in [Users -> Nat] /\ earned \in [Users -> Nat]
  BY DEF RepoInit
<1>2. \A u \in Users : transactions[u] \in Seq(Amounts)
  BY DEF RepoInit
<1> QED
  BY <1>1, <1>2 DEF RepoInit, RepoTypeOK, Statuses

LEMMA RepoUnchangedType == ASSUME RepoTypeOK, UNCHANGED repoVars PROVE RepoTypeOK'
BY DEF RepoTypeOK, repoVars, orderVars, userVars

LEMMA CreateOrderKeeps ==
  ASSUME RepoTypeOK, NEW u \in Users, NEW o \in Orders, CreateOrder(u, o)
  PROVE  RepoTypeOK' /\ (Conservation => Conservation')
BY DEF CreateOrder, RepoTypeOK, Conservation, userVars, Statuses

\* What AddToBalance does to the rows of users.
LEMMA AddToBalanceKeeps ==
  ASSUME RepoTypeOK, NEW u \in Users, NEW a \in Nat, AddToBalance(u, a)
  PROVE  /\ balance' \in [Users -> Nat] /\ earned' \in [Users -> Nat]
         /\ UNCHANGED <<withdrawn, transactions>>
         /\ Conservation => Conservation'
<1>1. balance[u] + a \in Nat /\ earned[u] + a \in Nat
  BY DEF RepoTypeOK
<1>2. balance' \in [Users -> Nat]
  BY <1>1 DEF AddToBalance, RepoTypeOK
<1>3. earned' \in [Users -> Nat]
  BY <1>1 DEF AddToBalance, RepoTypeOK
<1>4. Conservation => Conservation'
  BY DEF AddToBalance, RepoTypeOK, Conservation
<1> QED
  BY <1>2, <1>3, <1>4 DEF AddToBalance

LEMMA UpdateOrderStatusKeeps ==
  ASSUME RepoTypeOK, NEW o \in Orders, NEW s \in Statuses, NEW a \in Nat, UpdateOrderStatus(o, s, a)
  PROVE  RepoTypeOK' /\ (Conservation => Conservation')
<1>1. owner[o] \in Users
  BY DEF UpdateOrderStatus, RepoTypeOK
<1>2. /\ owner' \in [Orders -> Users \cup {NoUser}]
      /\ status' \in [Orders -> Statuses]
      /\ accrual' \in [Orders -> Nat]
  BY DEF UpdateOrderStatus, RepoTypeOK
<1>3. CASE AddToBalance(owner[o], a) /\ credits' = [credits EXCEPT ![o] = @ + 1]
  <2>1. credits' \in [Orders -> Nat]
    BY <1>3 DEF RepoTypeOK
  <2> QED
    BY <1>1, <1>2, <1>3, <2>1, AddToBalanceKeeps DEF RepoTypeOK
<1>4. CASE UNCHANGED <<userVars, credits>>
  BY <1>2, <1>4 DEF RepoTypeOK, Conservation, userVars
<1> QED
  BY <1>3, <1>4 DEF UpdateOrderStatus

LEMMA WithdrawBalanceKeeps ==
  ASSUME RepoTypeOK, NEW u \in Users, NEW a \in Amounts, WithdrawBalance(u, a)
  PROVE  RepoTypeOK' /\ (Conservation => Conservation')
<1>1. /\ balance' \in [Users -> Nat] /\ withdrawn' \in [Users -> Nat]
      /\ Conservation => Conservation'
  BY DEF WithdrawBalance, RepoTypeOK, Conservation
<1>2. transactions' \in [Users -> Seq(Amounts)]
  BY DEF WithdrawBalance, RepoTypeOK
<1> QED
  BY <1>1, <1>2 DEF WithdrawBalance, RepoTypeOK, orderVars

LEMMA AddAccrualKeeps ==
  ASSUME RepoTypeOK, NEW u \in Users, NEW a \in Nat, AddAccrual(u, a)
  PROVE  RepoTypeOK' /\ (Conservation => Conservation')
BY AddToBalanceKeeps DEF AddAccrual, RepoTypeOK, orderVars

\* A settlement is a status and an amount of cents.
LEMMA SettlementParts ==
  ASSUME NEW s \in Settlements
  PROVE  s[1] \in Statuses /\ s[2] \in Nat
<1>1. CASE s \in {"PROCESSING", "INVALID"} \X {0}
  BY <1>1 DEF Statuses
<1>2. CASE s \in {"PROCESSED"} \X Amounts
  BY <1>2 DEF Statuses
<1> QED
  BY <1>1, <1>2 DEF Settlements

-----------------------------------------------------------------------------
(* The list of withdrawals.  Only WithdrawBalance writes it, and the column *)
(* users.withdrawn with it.                                                 *)

LEMMA RepoInitItemized == ASSUME RepoInit PROVE WithdrawnIsItemized
BY SumOfEmptySequence DEF RepoInit, WithdrawnIsItemized

LEMMA UnchangedItemized ==
  ASSUME WithdrawnIsItemized, UNCHANGED <<withdrawn, transactions>>
  PROVE  WithdrawnIsItemized'
BY DEF WithdrawnIsItemized

LEMMA SeqOfAmounts == ASSUME NEW s \in Seq(Amounts) PROVE s \in Seq(Nat)
<1>1. Len(s) \in Nat /\ s \in [1..Len(s) -> Amounts]
  OBVIOUS
<1>2. s \in [1..Len(s) -> Nat]
  BY <1>1
<1> QED
  BY <1>1, <1>2

LEMMA WithdrawBalanceItemizes ==
  ASSUME RepoTypeOK, WithdrawnIsItemized, NEW u \in Users, NEW a \in Amounts, WithdrawBalance(u, a)
  PROVE  WithdrawnIsItemized'
<1> SUFFICES ASSUME NEW v \in Users PROVE SumFunction(transactions'[v]) = withdrawn'[v]
  BY DEF WithdrawnIsItemized
<1>1. CASE v = u
  <2>1. transactions[u] \in Seq(Nat) /\ a \in Nat
    BY SeqOfAmounts DEF RepoTypeOK
  <2>2. SumFunction(Append(transactions[u], a)) = SumFunction(transactions[u]) + a
    BY <2>1, SumOfAppend
  <2>3. transactions'[u] = Append(transactions[u], a) /\ withdrawn'[u] = withdrawn[u] + a
    BY DEF WithdrawBalance, RepoTypeOK
  <2> QED
    BY <1>1, <2>2, <2>3 DEF WithdrawnIsItemized
<1>2. CASE v # u
  BY <1>2 DEF WithdrawBalance, RepoTypeOK, WithdrawnIsItemized
<1> QED
  BY <1>1, <1>2

(***************************************************************************)
(* What every module built on the atomic repository may rely on: the rows  *)
(* keep their types, no point is created or lost, and the list of          *)
(* withdrawals accounts for every withdrawn point.                         *)
(***************************************************************************)
THEOREM RepoKeepsAccounts == RepoSpec => [](RepoTypeOK /\ Conservation /\ WithdrawnIsItemized)
<1> DEFINE Books == RepoTypeOK /\ Conservation /\ WithdrawnIsItemized
<1>1. RepoInit => Books
  <2> SUFFICES ASSUME RepoInit PROVE Books
    OBVIOUS
  <2>1. \A u \in Users : balance[u] \in Nat /\ withdrawn[u] = 0 /\ earned[u] = balance[u]
    BY DEF RepoInit
  <2> QED
    BY <2>1, RepoInitType, RepoInitItemized DEF Conservation
<1>2. Books /\ [RepoNext]_repoVars => Books'
  <2> SUFFICES ASSUME Books, [RepoNext]_repoVars PROVE Books'
    OBVIOUS
  <2>1. ASSUME NEW u \in Users, NEW o \in Orders, CreateOrder(u, o) PROVE Books'
    BY <2>1, CreateOrderKeeps, UnchangedItemized DEF CreateOrder, userVars
  <2>2. ASSUME NEW o \in Orders, NEW s \in Settlements, UpdateOrderStatus(o, s[1], s[2]) PROVE Books'
    <3>1. UNCHANGED <<withdrawn, transactions>>
      BY <2>2 DEF UpdateOrderStatus, AddToBalance, userVars
    <3> QED
      BY <2>2, <3>1, SettlementParts, UpdateOrderStatusKeeps, UnchangedItemized
  <2>3. ASSUME NEW u \in Users, NEW a \in Amounts, WithdrawBalance(u, a) PROVE Books'
    BY <2>3, WithdrawBalanceKeeps, WithdrawBalanceItemizes
  <2>4. ASSUME NEW u \in Users, NEW a \in Amounts, AddAccrual(u, a) PROVE Books'
    BY <2>4, AddAccrualKeeps, UnchangedItemized DEF AddAccrual, AddToBalance
  <2>5. CASE UNCHANGED repoVars
    BY <2>5, RepoUnchangedType, UnchangedItemized DEF Conservation, repoVars, userVars
  <2> QED
    BY <2>1, <2>2, <2>3, <2>4, <2>5 DEF RepoNext
<1> QED
  BY <1>1, <1>2, PTL DEF RepoSpec

\* What a user has earned, and of it what the user has spent, never shrinks.
LEMMA RepoGrows ==
  ASSUME RepoTypeOK, [RepoNext]_repoVars, NEW v \in Users
  PROVE  /\ balance'[v] + withdrawn'[v] >= balance[v] + withdrawn[v]
         /\ withdrawn'[v] >= withdrawn[v]
<1>1. balance[v] \in Nat /\ withdrawn[v] \in Nat
  BY DEF RepoTypeOK
<1>2. CASE UNCHANGED <<balance, withdrawn>>
  BY <1>1, <1>2
<1>3. ASSUME NEW u \in Users, NEW a \in Nat, AddToBalance(u, a)
      PROVE  /\ balance'[v] + withdrawn'[v] >= balance[v] + withdrawn[v]
             /\ withdrawn'[v] >= withdrawn[v]
  BY <1>1, <1>3 DEF AddToBalance, RepoTypeOK
<1>4. ASSUME NEW u \in Users, NEW a \in Amounts, WithdrawBalance(u, a)
      PROVE  /\ balance'[v] + withdrawn'[v] >= balance[v] + withdrawn[v]
             /\ withdrawn'[v] >= withdrawn[v]
  BY <1>1, <1>4 DEF WithdrawBalance, RepoTypeOK
<1>5. ASSUME NEW o \in Orders, NEW s \in Settlements, UpdateOrderStatus(o, s[1], s[2])
      PROVE  UNCHANGED <<balance, withdrawn>> \/ \E u \in Users : AddToBalance(u, s[2])
  BY <1>5 DEF UpdateOrderStatus, RepoTypeOK, userVars
<1>6. CASE \E u \in Users, a \in Amounts : AddAccrual(u, a)
  BY <1>3, <1>6 DEF AddAccrual
<1>7. CASE \E o \in Orders, s \in Settlements : UpdateOrderStatus(o, s[1], s[2])
  BY <1>2, <1>3, <1>5, <1>7, SettlementParts
<1>8. CASE \E u \in Users, o \in Orders : CreateOrder(u, o)
  BY <1>2, <1>8 DEF CreateOrder, userVars
<1>9. CASE UNCHANGED repoVars
  BY <1>2, <1>9 DEF repoVars, userVars
<1> QED
  BY <1>4, <1>6, <1>7, <1>8, <1>9 DEF RepoNext
=============================================================================
