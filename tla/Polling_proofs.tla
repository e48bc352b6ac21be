----------------------------- MODULE Polling_proofs -----------------------------
(***************************************************************************)
(* Proofs about WorkerPool and Polling for any users, orders, awards,      *)
(* delays, capacity and any finite number of workers.                      *)
(*                                                                         *)
(* The pool: the key is what is still in flight.  An order that was        *)
(* credited can be credited again only after a worker that was told "still *)
(* in progress" before the calculation was concluded stores that answer;   *)
(* there is one such answer per worker, and no new one.                    *)
(*                                                                         *)
(* The pool with its HTTP exchanges implements the pool that asks in one   *)
(* step, and a pause of the puller bounds the requests that still leave.   *)
(***************************************************************************)
EXTENDS Polling, Repository_proofs, SequenceTheorems

USE AmountsAssumption, RepositoryAssumption, WorkerPoolAssumption

-----------------------------------------------------------------------------
(* The pool                                                                 *)

\* The workers about to store "still in progress" for an order.
Late(o) == {w \in Workers : workerAt[w] = "update" /\ holding[w] = o /\ reply[w][1] = "PROCESSING"}

\* What a worker is about to store is what the accrual service concluded, or
\* that it had not concluded.
RepliesAreTrue ==
  \A w \in Workers : workerAt[w] = "update" =>
    /\ holding[w] \in Orders
    /\ reply[w] \in {<<"PROCESSING", 0>>, <<"INVALID", 0>>, <<"PROCESSED", award[holding[w]]>>}
    /\ reply[w][1] = "INVALID" => calc[holding[w]] = "INVALID"
    /\ reply[w][1] = "PROCESSED" => calc[holding[w]] = "PROCESSED"

\* What a worker holds when it is not idle.
WorkersHold ==
  \A w \in Workers :
    /\ workerAt[w] \in {"call", "signal", "update"} => holding[w] \in Orders
    /\ workerAt[w] = "signal" => reply[w] \in {"RETRY"} \X Delays

AwardsAreAmounts == \A o \in Orders : calc[o] = "PROCESSED" => award[o] \in Amounts

UnownedIsNew == \A o \in Orders : owner[o] = NoUser => status[o] = "NEW" /\ accrual[o] = 0

\* Every late answer may cost one more credit.
CreditInv(o) ==
  /\ status[o] = "PROCESSED" =>
       credits[o] >= 1 /\ credits[o] + Cardinality(Late(o)) <= Cardinality(Workers)
  /\ status[o] # "PROCESSED" =>
       credits[o] = 0 \/ credits[o] + Cardinality(Late(o)) + 1 <= Cardinality(Workers)

PoolInv ==
  /\ PoolTypeOK
  /\ WorkersHold
  /\ RepliesAreTrue
  /\ AwardsAreAmounts
  /\ UnownedIsNew
  /\ SettledAsCalculated
  /\ \A o \in Orders : CreditInv(o)

-----------------------------------------------------------------------------
LEMMA LateIsFinite ==
  ASSUME NEW o
  PROVE  /\ IsFiniteSet(Late(o))
         /\ Cardinality(Late(o)) \in Nat
         /\ Cardinality(Late(o)) <= Cardinality(Workers)
         /\ Cardinality(Workers) \in Nat
         /\ \A w \in Workers \ Late(o) : Cardinality(Late(o)) + 1 <= Cardinality(Workers)
<1>1. Late(o) \subseteq Workers
  BY DEF Late
<1>2. IsFiniteSet(Late(o)) /\ Cardinality(Late(o)) <= Cardinality(Workers)
  BY <1>1, FS_Subset
<1>3. Cardinality(Late(o)) \in Nat /\ Cardinality(Workers) \in Nat
  BY <1>2, FS_CardinalityType
<1>4. ASSUME NEW w \in Workers \ Late(o)
      PROVE  Cardinality(Late(o)) + 1 <= Cardinality(Workers)
  <2>1. Late(o) \cup {w} \subseteq Workers
    BY <1>1, <1>4
  <2>2. Cardinality(Late(o) \cup {w}) = Cardinality(Late(o)) + 1
    BY <1>2, <1>4, FS_AddElement
  <2> QED
    BY <2>1, <2>2, FS_Subset
<1> QED
  BY <1>2, <1>3, <1>4

LEMMA InitInv == Init => PoolInv
<1> SUFFICES ASSUME Init PROVE PoolInv
  OBVIOUS
<1>1. PoolTypeOK
  <2>1. RepoTypeOK
    BY RepoInitType DEF Init
  <2>2. jobs \in Seq(Orders) /\ Len(jobs) <= JobsCapacity
    <3>1. JobsCapacity \in Nat
      BY FS_CardinalityType DEF JobsCapacity
    <3> QED
      BY <3>1, EmptySeq DEF Init
  <2>3. rateLimit \in Seq(Delays) /\ Len(rateLimit) <= RateLimitCapacity
    <3>1. RateLimitCapacity \in Nat
      BY FS_CardinalityType DEF RateLimitCapacity
    <3> QED
      BY <3>1, EmptySeq DEF Init
  <2>4. calc \in [Orders -> Calculations] /\ award \in [Orders -> Nat]
    BY DEF Init, CalcInit, Calculations
  <2>5. reply \in [Workers -> Replies]
    BY DEF Init, Replies
  <2>6. /\ workerAt \in [Workers -> {"select", "call", "signal", "update", "done"}]
        /\ holding \in [Workers -> Orders \cup {NoOrder}]
    BY DEF Init
  <2>7. /\ ctxDone \in BOOLEAN
        /\ pullerAt \in {"select", "wait", "list", "queue", "done"}
        /\ listing \in {"NEW", "PROCESSING"}
        /\ batch \subseteq Orders
    BY DEF Init
  <2>8. stops \in 0..MaxStops
    BY DEF Init
  <2> QED
    BY <2>1, <2>2, <2>3, <2>4, <2>5, <2>6, <2>7, <2>8 DEF PoolTypeOK
<1>2. RepliesAreTrue /\ WorkersHold /\ AwardsAreAmounts /\ UnownedIsNew /\ SettledAsCalculated
  BY DEF Init, RepoInit, CalcInit, RepliesAreTrue, WorkersHold, AwardsAreAmounts, UnownedIsNew, SettledAsCalculated
<1>3. \A o \in Orders : CreditInv(o)
  BY DEF Init, RepoInit, CreditInv
<1> QED
  BY <1>1, <1>2, <1>3 DEF PoolInv

\* A step that touches neither database nor the accrual service and adds no
\* answer: every step of the puller, and the steps of a worker around its call.
LEMMA NoNewAnswer ==
  ASSUME PoolInv, PoolTypeOK', UNCHANGED <<repoVars, calcVars>>,
         WorkersHold',
         \A w \in Workers : workerAt'[w] = "update" =>
           workerAt[w] = "update" /\ holding'[w] = holding[w] /\ reply'[w] = reply[w]
  PROVE  PoolInv'
<1>1. UNCHANGED <<owner, status, accrual, credits, calc, award>>
  BY DEF repoVars, orderVars, calcVars
<1>2. RepliesAreTrue'
  BY <1>1 DEF PoolInv, RepliesAreTrue
<1>3. UnownedIsNew' /\ SettledAsCalculated' /\ AwardsAreAmounts'
  BY <1>1 DEF PoolInv, UnownedIsNew, SettledAsCalculated, AwardsAreAmounts
<1>4. ASSUME NEW o \in Orders PROVE CreditInv(o)'
  <2>1. Late(o)' \subseteq Late(o)
    BY DEF Late
  <2>2. Cardinality(Late(o)') <= Cardinality(Late(o)) /\ Cardinality(Late(o)') \in Nat
    BY <2>1, LateIsFinite, FS_Subset, FS_CardinalityType
  <2>3. credits[o] \in Nat
    BY DEF PoolInv, PoolTypeOK, RepoTypeOK
  <2> QED
    BY <1>1, <2>2, <2>3, LateIsFinite DEF PoolInv, CreditInv
<1> QED
  BY <1>2, <1>3, <1>4 DEF PoolInv

\* The database and the accrual service keep their types if they are untouched.
LEMMA OutsideType ==
  ASSUME PoolTypeOK, UNCHANGED <<repoVars, calcVars>>
  PROVE  RepoTypeOK' /\ calc' \in [Orders -> Calculations] /\ award' \in [Orders -> Nat]
BY DEF PoolTypeOK, RepoTypeOK, repoVars, orderVars, userVars, calcVars

LEMMA PullerType ==
  ASSUME PoolTypeOK, PullerStep
  PROVE  PoolTypeOK' /\ UNCHANGED <<repoVars, calcVars, ctxDone, workerVars, stops>>
<1>1. UNCHANGED <<repoVars, calcVars, ctxDone, workerVars, stops>>
  BY DEF PullerStep, PullerStops, ReceiveRateLimit, WaitIsOver, Tick, ListOrders, ListingFails,
     QueueingStops, ListIsQueued, QueueOrder, PullerTo
<1>2. /\ pullerAt' \in {"select", "wait", "list", "queue", "done"}
      /\ listing' \in {"NEW", "PROCESSING"}
      /\ batch' \subseteq Orders
  BY DEF PullerStep, PullerStops, ReceiveRateLimit, WaitIsOver, Tick, ListOrders, ListingFails,
     QueueingStops, ListIsQueued, QueueOrder, PullerTo, PoolTypeOK
<1>3. jobs' \in Seq(Orders) /\ Len(jobs') <= JobsCapacity
  <2>1. CASE \E o \in Orders : QueueOrder(o)
    <3> PICK o \in Orders : QueueOrder(o)
      BY <2>1
    <3>1. JobsCapacity \in Nat /\ Len(jobs) \in Nat
      BY FS_CardinalityType, LenProperties DEF JobsCapacity, PoolTypeOK
    <3> QED
      BY <3>1, AppendProperties DEF QueueOrder, PoolTypeOK
  <2>2. CASE jobs' = jobs
    BY <2>2 DEF PoolTypeOK
  <2> QED
    BY <2>1, <2>2 DEF PullerStep, PullerStops, ReceiveRateLimit, WaitIsOver, Tick, ListOrders, ListingFails,
       QueueingStops, ListIsQueued
<1>4. rateLimit' \in Seq(Delays) /\ Len(rateLimit') <= RateLimitCapacity
  <2>1. CASE ReceiveRateLimit
    <3>1. RateLimitCapacity \in Nat /\ Len(rateLimit) \in Nat
      BY FS_CardinalityType, LenProperties DEF RateLimitCapacity, PoolTypeOK
    <3> QED
      BY <2>1, <3>1, HeadTailProperties DEF ReceiveRateLimit, PoolTypeOK
  <2>2. CASE rateLimit' = rateLimit
    BY <2>2 DEF PoolTypeOK
  <2> QED
    BY <2>1, <2>2 DEF PullerStep, PullerStops, WaitIsOver, Tick, ListOrders, ListingFails,
       QueueingStops, ListIsQueued, QueueOrder
<1>5. PoolTypeOK'
  BY <1>1, <1>2, <1>3, <1>4, OutsideType DEF PoolTypeOK, workerVars
<1> QED
  BY <1>1, <1>5

LEMMA PullerInv == ASSUME PoolInv, PullerStep PROVE PoolInv'
<1>1. PoolTypeOK' /\ UNCHANGED <<repoVars, calcVars, ctxDone, workerVars, stops>>
  BY PullerType DEF PoolInv
<1>2. WorkersHold'
  BY <1>1 DEF PoolInv, WorkersHold, workerVars
<1> QED
  BY <1>1, <1>2, NoNewAnswer DEF workerVars

\* A worker goes on, and the rest of the pool keeps its types.
LEMMA WorkerToType ==
  ASSUME PoolTypeOK, NEW w \in Workers, NEW p \in {"select", "call", "signal", "update", "done"},
         NEW o \in Orders \cup {NoOrder}, NEW r \in Replies, WorkerTo(w, p, o, r),
         RepoTypeOK', jobs' \in Seq(Orders), Len(jobs') <= JobsCapacity,
         rateLimit' \in Seq(Delays), Len(rateLimit') <= RateLimitCapacity
  PROVE  /\ PoolTypeOK'
         /\ workerAt'[w] = p /\ holding'[w] = o /\ reply'[w] = r
         /\ \A v \in Workers \ {w} :
              workerAt'[v] = workerAt[v] /\ holding'[v] = holding[v] /\ reply'[v] = reply[v]
<1>1. UNCHANGED <<calc, award, ctxDone, pullerAt, listing, batch, stops>>
  BY DEF WorkerTo, calcVars, pullerVars
<1>2. /\ workerAt' \in [Workers -> {"select", "call", "signal", "update", "done"}]
      /\ holding' \in [Workers -> Orders \cup {NoOrder}]
      /\ reply' \in [Workers -> Replies]
  BY DEF WorkerTo, PoolTypeOK
<1>3. PoolTypeOK'
  BY <1>1, <1>2 DEF PoolTypeOK
<1> QED
  BY <1>3 DEF WorkerTo, PoolTypeOK

LEMMA NoReplyType == NoReply \in Replies
BY DEF Replies

LEMMA TakeJobType ==
  ASSUME PoolTypeOK, NEW w \in Workers, TakeJob(w)
  PROVE  /\ PoolTypeOK' /\ workerAt'[w] = "call" /\ holding'[w] \in Orders
         /\ UNCHANGED <<repoVars, calcVars, rateLimit>>
         /\ \A v \in Workers \ {w} :
              workerAt'[v] = workerAt[v] /\ holding'[v] = holding[v] /\ reply'[v] = reply[v]
<1>1. UNCHANGED <<repoVars, calcVars, rateLimit>>
  BY DEF TakeJob, WorkerTo
<1>2. /\ Head(jobs) \in Orders /\ jobs' \in Seq(Orders) /\ Len(jobs') <= JobsCapacity
      /\ WorkerTo(w, "call", Head(jobs), NoReply)
  <2>1. JobsCapacity \in Nat /\ Len(jobs) \in Nat
    BY FS_CardinalityType, LenProperties DEF JobsCapacity, PoolTypeOK
  <2> QED
    BY <2>1, HeadTailProperties DEF TakeJob, PoolTypeOK
<1>3. RepoTypeOK'
  BY <1>1, OutsideType
<1>4. rateLimit' \in Seq(Delays) /\ Len(rateLimit') <= RateLimitCapacity
  BY <1>1 DEF PoolTypeOK
<1>5. /\ PoolTypeOK' /\ workerAt'[w] = "call" /\ holding'[w] \in Orders
      /\ \A v \in Workers \ {w} :
           workerAt'[v] = workerAt[v] /\ holding'[v] = holding[v] /\ reply'[v] = reply[v]
  BY <1>2, <1>3, <1>4, WorkerToType, NoReplyType
<1> QED
  BY <1>1, <1>5

LEMMA TakeJobInv == ASSUME PoolInv, NEW w \in Workers, TakeJob(w) PROVE PoolInv'
<1>1. /\ PoolTypeOK' /\ workerAt'[w] = "call" /\ holding'[w] \in Orders
      /\ UNCHANGED <<repoVars, calcVars, rateLimit>>
      /\ \A v \in Workers \ {w} :
           workerAt'[v] = workerAt[v] /\ holding'[v] = holding[v] /\ reply'[v] = reply[v]
  BY TakeJobType DEF PoolInv
<1>2. WorkersHold'
  BY <1>1 DEF PoolInv, WorkersHold
<1> QED
  BY <1>1, <1>2, NoNewAnswer

\* A worker that neither takes a job nor brings or stores an answer.
LEMMA AroundTheCallType ==
  ASSUME PoolTypeOK, WorkersHold, NEW w \in Workers,
         WorkerStops(w) \/ TooManyRequests(w) \/ CallFails(w) \/ SignalRateLimit(w) \/ StoringFails(w)
  PROVE  /\ PoolTypeOK' /\ WorkersHold'
         /\ workerAt'[w] \in {"select", "signal", "done"}
         /\ UNCHANGED <<repoVars, calcVars, jobs>>
         /\ \A v \in Workers \ {w} :
              workerAt'[v] = workerAt[v] /\ holding'[v] = holding[v] /\ reply'[v] = reply[v]
<1>1. UNCHANGED <<repoVars, calcVars, jobs>>
  BY DEF WorkerStops, TooManyRequests, CallFails, SignalRateLimit, StoringFails, Idle, WorkerTo
<1>2. rateLimit' \in Seq(Delays) /\ Len(rateLimit') <= RateLimitCapacity
  <2>1. CASE rateLimit' = rateLimit
    BY <2>1 DEF PoolTypeOK
  <2>2. CASE /\ workerAt[w] = "signal"
             /\ Len(rateLimit) < RateLimitCapacity
             /\ rateLimit' = Append(rateLimit, reply[w][2])
    <3>1. reply[w][2] \in Delays
      BY <2>2 DEF WorkersHold
    <3>2. RateLimitCapacity \in Nat /\ Len(rateLimit) \in Nat
      BY FS_CardinalityType, LenProperties DEF RateLimitCapacity, PoolTypeOK
    <3> QED
      BY <2>2, <3>1, <3>2, AppendProperties DEF PoolTypeOK
  <2> QED
    BY <2>1, <2>2 DEF WorkerStops, TooManyRequests, CallFails, SignalRateLimit, StoringFails
<1>3. \E p \in {"select", "signal", "done"}, o \in Orders \cup {NoOrder}, r \in Replies :
        /\ WorkerTo(w, p, o, r)
        /\ p = "signal" => o \in Orders /\ r \in {"RETRY"} \X Delays
  <2>1. CASE TooManyRequests(w)
    <3>1. PICK d \in Delays : WorkerTo(w, "signal", holding[w], <<"RETRY", d>>)
      BY <2>1 DEF TooManyRequests
    <3>2. <<"RETRY", d>> \in Replies /\ holding[w] \in Orders
      BY <2>1 DEF TooManyRequests, Replies, WorkersHold
    <3> QED
      BY <3>1, <3>2
  <2>2. CASE WorkerStops(w) \/ CallFails(w) \/ SignalRateLimit(w) \/ StoringFails(w)
    BY <2>2, NoReplyType DEF WorkerStops, CallFails, SignalRateLimit, StoringFails, Idle
  <2> QED
    BY <2>1, <2>2
<1>4. PICK p \in {"select", "signal", "done"}, o \in Orders \cup {NoOrder}, r \in Replies :
        /\ WorkerTo(w, p, o, r)
        /\ p = "signal" => o \in Orders /\ r \in {"RETRY"} \X Delays
  BY <1>3
<1>5. RepoTypeOK' /\ jobs' \in Seq(Orders) /\ Len(jobs') <= JobsCapacity
  BY <1>1, OutsideType DEF PoolTypeOK
<1>6. /\ PoolTypeOK' /\ workerAt'[w] = p /\ holding'[w] = o /\ reply'[w] = r
      /\ \A v \in Workers \ {w} :
           workerAt'[v] = workerAt[v] /\ holding'[v] = holding[v] /\ reply'[v] = reply[v]
  BY <1>2, <1>4, <1>5, WorkerToType
<1>7. WorkersHold'
  BY <1>4, <1>6 DEF WorkersHold
<1> QED
  BY <1>1, <1>6, <1>7

LEMMA AroundTheCallInv ==
  ASSUME PoolInv, NEW w \in Workers,
         WorkerStops(w) \/ TooManyRequests(w) \/ CallFails(w) \/ SignalRateLimit(w) \/ StoringFails(w)
  PROVE  PoolInv'
<1>1. /\ PoolTypeOK' /\ WorkersHold'
      /\ workerAt'[w] \in {"select", "signal", "done"}
      /\ UNCHANGED <<repoVars, calcVars, jobs>>
      /\ \A v \in Workers \ {w} :
           workerAt'[v] = workerAt[v] /\ holding'[v] = holding[v] /\ reply'[v] = reply[v]
  BY AroundTheCallType DEF PoolInv
<1> QED
  BY <1>1, NoNewAnswer

\* GetOrder: a late answer is possible only while nothing has been credited.
LEMMA GetOrderInv == ASSUME PoolInv, NEW w \in Workers, GetOrder(w) PROVE PoolInv'
<1> USE DEF PoolInv
<1> DEFINE h == holding[w]
           r == MapStatus(calc[h], award[h])
<1>1. UNCHANGED <<repoVars, calcVars, jobs, rateLimit>> /\ WorkerTo(w, "update", h, r)
  BY DEF GetOrder, WorkerTo
<1>2. h \in Orders
  BY DEF GetOrder, WorkersHold
<1>3. /\ r \in {<<"PROCESSING", 0>>, <<"INVALID", 0>>, <<"PROCESSED", award[h]>>}
      /\ r[1] = "INVALID" => calc[h] = "INVALID"
      /\ r[1] = "PROCESSED" => calc[h] = "PROCESSED"
      /\ r[1] = "PROCESSING" => calc[h] # "PROCESSED"
  BY <1>2 DEF GetOrder, MapStatus, PoolTypeOK, Calculations, Concluded
<1>4. r \in Replies
  BY <1>2, <1>3 DEF AwardsAreAmounts, Replies, Settlements
<1>5. RepoTypeOK' /\ jobs' \in Seq(Orders) /\ Len(jobs') <= JobsCapacity
      /\ rateLimit' \in Seq(Delays) /\ Len(rateLimit') <= RateLimitCapacity
  BY <1>1, OutsideType DEF PoolTypeOK
<1>6. /\ PoolTypeOK' /\ workerAt'[w] = "update" /\ holding'[w] = h /\ reply'[w] = r
      /\ \A v \in Workers \ {w} :
           workerAt'[v] = workerAt[v] /\ holding'[v] = holding[v] /\ reply'[v] = reply[v]
  BY <1>1, <1>2, <1>4, <1>5, WorkerToType
<1>7. UNCHANGED <<owner, status, accrual, credits, calc, award>>
  BY <1>1 DEF repoVars, orderVars, calcVars
<1>8. WorkersHold' /\ RepliesAreTrue' /\ UnownedIsNew' /\ SettledAsCalculated' /\ AwardsAreAmounts'
  <2>1. WorkersHold'
    BY <1>2, <1>6 DEF WorkersHold
  <2>2. RepliesAreTrue'
    BY <1>2, <1>3, <1>6, <1>7 DEF RepliesAreTrue
  <2> QED
    BY <1>7, <2>1, <2>2 DEF UnownedIsNew, SettledAsCalculated, AwardsAreAmounts
<1>9. ASSUME NEW o \in Orders PROVE CreditInv(o)'
  <2>1. credits[o] \in Nat
    BY DEF PoolTypeOK, RepoTypeOK
  <2>2. CASE o = h /\ r[1] = "PROCESSING"
    BY <1>3, <1>7, <2>1, <2>2 DEF SettledAsCalculated, CreditInv
  <2>3. CASE ~(o = h /\ r[1] = "PROCESSING")
    <3>1. Late(o)' \subseteq Late(o)
      BY <1>6, <2>3 DEF Late
    <3>2. Cardinality(Late(o)') <= Cardinality(Late(o)) /\ Cardinality(Late(o)') \in Nat
      BY <3>1, LateIsFinite, FS_Subset, FS_CardinalityType
    <3> QED
      BY <1>7, <2>1, <3>2, LateIsFinite DEF CreditInv
  <2> QED
    BY <2>2, <2>3
<1> QED
  BY <1>6, <1>8, <1>9

LEMMA StoreReplyType ==
  ASSUME PoolTypeOK, NEW w \in Workers, StoreReply(w),
         holding[w] \in Orders, reply[w][1] \in Statuses, reply[w][2] \in Nat
  PROVE  /\ PoolTypeOK' /\ workerAt'[w] = "select"
         /\ UNCHANGED <<calcVars, jobs, rateLimit>>
         /\ \A v \in Workers \ {w} :
              workerAt'[v] = workerAt[v] /\ holding'[v] = holding[v] /\ reply'[v] = reply[v]
<1>1. /\ UpdateOrderStatus(holding[w], reply[w][1], reply[w][2])
      /\ WorkerTo(w, "select", NoOrder, NoReply)
      /\ UNCHANGED <<calcVars, jobs, rateLimit>>
  BY DEF StoreReply, Idle, WorkerTo
<1>2. RepoTypeOK'
  BY <1>1, UpdateOrderStatusKeeps DEF PoolTypeOK
<1>3. jobs' \in Seq(Orders) /\ Len(jobs') <= JobsCapacity /\ rateLimit' \in Seq(Delays) /\ Len(rateLimit') <= RateLimitCapacity
  BY <1>1 DEF PoolTypeOK
<1> QED
  BY <1>1, <1>2, <1>3, WorkerToType, NoReplyType

\* StoreReply: a late answer is used up when it undoes PROCESSED, and a credit
\* is made by a worker whose answer was not late.
LEMMA StoreReplyInv == ASSUME PoolInv, NEW w \in Workers, StoreReply(w) PROVE PoolInv'
<1> USE DEF PoolInv
<1> DEFINE h == holding[w]
           s == reply[w][1]
           a == reply[w][2]
<1>1. /\ h \in Orders
      /\ s \in {"PROCESSING", "INVALID", "PROCESSED"} /\ a \in Nat
      /\ s = "INVALID" => calc[h] = "INVALID" /\ a = 0
      /\ s = "PROCESSED" => calc[h] = "PROCESSED" /\ a = award[h]
      /\ s = "PROCESSING" => a = 0
  BY DEF StoreReply, RepliesAreTrue, PoolTypeOK
<1>2. /\ UpdateOrderStatus(h, s, a) /\ WorkerTo(w, "select", NoOrder, NoReply)
      /\ UNCHANGED <<calcVars, jobs, rateLimit>> /\ workerAt[w] = "update"
  BY DEF StoreReply, Idle, WorkerTo
<1>3. /\ owner[h] # NoUser /\ owner[h] \in Users
      /\ owner' = owner /\ calc' = calc /\ award' = award
      /\ status' = [status EXCEPT ![h] = s] /\ accrual' = [accrual EXCEPT ![h] = a]
      /\ AddsAward(status[h], s) => credits' = [credits EXCEPT ![h] = @ + 1] /\ AddToBalance(owner[h], a)
      /\ ~AddsAward(status[h], s) => UNCHANGED <<userVars, credits>>
  BY <1>1, <1>2 DEF UpdateOrderStatus, calcVars, PoolTypeOK, RepoTypeOK
<1>4. h \in Orders /\ s \in Statuses /\ a \in Nat
  BY <1>1 DEF Statuses
<1>6. /\ PoolTypeOK' /\ workerAt'[w] = "select"
      /\ \A v \in Workers \ {w} :
           workerAt'[v] = workerAt[v] /\ holding'[v] = holding[v] /\ reply'[v] = reply[v]
  BY <1>4, StoreReplyType
<1>7. WorkersHold' /\ RepliesAreTrue'
  BY <1>3, <1>6 DEF WorkersHold, RepliesAreTrue
<1>8. UnownedIsNew' /\ AwardsAreAmounts'
  BY <1>1, <1>3 DEF UnownedIsNew, AwardsAreAmounts, PoolTypeOK, RepoTypeOK
<1>9. SettledAsCalculated'
  BY <1>1, <1>3 DEF SettledAsCalculated, PoolTypeOK, RepoTypeOK, AddsAward
<1>10. ASSUME NEW o \in Orders PROVE CreditInv(o)'
  <2>1. Late(o)' \subseteq Late(o) /\ w \notin Late(o)'
    BY <1>6 DEF Late
  <2>2. Cardinality(Late(o)') <= Cardinality(Late(o)) /\ Cardinality(Late(o)') \in Nat
    BY <2>1, LateIsFinite, FS_Subset, FS_CardinalityType
  <2>3. credits[o] \in Nat
    BY DEF PoolTypeOK, RepoTypeOK
  <2>4. CASE o # h
    <3>1. status'[o] = status[o] /\ credits'[o] = credits[o]
      BY <1>1, <1>3, <2>4 DEF PoolTypeOK, RepoTypeOK
    <3> QED
      BY <2>2, <2>3, <3>1, LateIsFinite DEF CreditInv
  <2>5. CASE o = h /\ s = "PROCESSED" /\ status[h] # "PROCESSED"
    <3>1. status'[o] = "PROCESSED" /\ credits'[o] = credits[o] + 1
      BY <1>1, <1>3, <2>5 DEF AddsAward, PoolTypeOK, RepoTypeOK
    <3>2. w \notin Late(o)
      BY <2>5 DEF Late
    <3>3. Cardinality(Late(o)) + 1 <= Cardinality(Workers)
      BY <3>2, LateIsFinite
    <3> QED
      BY <2>2, <2>3, <2>5, <3>1, <3>3, LateIsFinite DEF CreditInv
  <2>6. CASE o = h /\ s = "PROCESSED" /\ status[h] = "PROCESSED"
    <3>1. status'[o] = "PROCESSED" /\ credits'[o] = credits[o]
      BY <1>1, <1>3, <2>6 DEF AddsAward, PoolTypeOK, RepoTypeOK
    <3> QED
      BY <2>2, <2>3, <2>6, <3>1, LateIsFinite DEF CreditInv
  <2>7. CASE o = h /\ s = "INVALID"
    <3>1. status'[o] = "INVALID" /\ credits'[o] = credits[o]
      BY <1>1, <1>3, <2>7 DEF AddsAward, PoolTypeOK, RepoTypeOK
    <3>2. credits[o] = 0
      BY <1>1, <2>3, <2>7 DEF SettledAsCalculated
    <3> QED
      BY <3>1, <3>2 DEF CreditInv
  <2>8. CASE o = h /\ s = "PROCESSING"
    <3>1. status'[o] = "PROCESSING" /\ credits'[o] = credits[o]
      BY <1>1, <1>3, <2>8 DEF AddsAward, PoolTypeOK, RepoTypeOK
    <3>2. w \in Late(o)
      BY <1>2, <2>8 DEF Late
    <3>3. Late(o)' \subseteq Late(o) \ {w}
      BY <2>1
    <3>4. Cardinality(Late(o) \ {w}) = Cardinality(Late(o)) - 1 /\ IsFiniteSet(Late(o) \ {w})
      BY <3>2, LateIsFinite, FS_RemoveElement
    <3>5. Cardinality(Late(o)') <= Cardinality(Late(o)) - 1
      BY <3>3, <3>4, FS_Subset
    <3> QED
      BY <2>2, <2>3, <3>1, <3>5, LateIsFinite DEF CreditInv
  <2> QED
    BY <1>1, <2>4, <2>5, <2>6, <2>7, <2>8
<1> QED
  BY <1>6, <1>7, <1>8, <1>9, <1>10

LEMMA UploadType ==
  ASSUME PoolTypeOK, NEW u \in Users, NEW o \in Orders, Upload(u, o)
  PROVE  PoolTypeOK' /\ UNCHANGED <<calcVars, poolVars, stops>>
<1>1. UNCHANGED <<calcVars, poolVars, stops>> /\ CreateOrder(u, o)
  BY DEF Upload
<1>2. RepoTypeOK'
  BY <1>1, CreateOrderKeeps DEF PoolTypeOK
<1> QED
  BY <1>1, <1>2 DEF PoolTypeOK, calcVars, poolVars, pullerVars, workerVars

LEMMA UploadInv == ASSUME PoolInv, NEW u \in Users, NEW o \in Orders, Upload(u, o) PROVE PoolInv'
<1> USE DEF PoolInv
<1>1. /\ UNCHANGED <<calcVars, poolVars, stops, userVars, credits>>
      /\ owner[o] = NoUser /\ owner' = [owner EXCEPT ![o] = u]
      /\ status' = [status EXCEPT ![o] = "NEW"] /\ accrual' = [accrual EXCEPT ![o] = 0]
  BY DEF Upload, CreateOrder
<1>2. status' = status /\ accrual' = accrual
  BY <1>1 DEF UnownedIsNew, PoolTypeOK, RepoTypeOK
<1>3. PoolTypeOK'
  BY UploadType
<1>4. WorkersHold' /\ RepliesAreTrue' /\ AwardsAreAmounts' /\ SettledAsCalculated'
  BY <1>1, <1>2 DEF WorkersHold, RepliesAreTrue, AwardsAreAmounts, SettledAsCalculated, calcVars,
     poolVars, workerVars
<1>5. UnownedIsNew'
  BY <1>1, <1>2 DEF UnownedIsNew, PoolTypeOK, RepoTypeOK
<1>6. \A p \in Orders : CreditInv(p)'
  BY <1>1, <1>2 DEF CreditInv, Late, poolVars, workerVars
<1> QED
  BY <1>3, <1>4, <1>5, <1>6

\* The accrual service works on one order, which it had not concluded.
LEMMA AccrualType ==
  ASSUME PoolTypeOK, NEW o \in Orders, AccrualStep(o)
  PROVE  /\ PoolTypeOK' /\ UNCHANGED <<repoVars, poolVars, stops>>
         /\ calc[o] \notin Concluded /\ calc'[o] # "UNREGISTERED"
         /\ \A p \in Orders \ {o} : calc'[p] = calc[p] /\ award'[p] = award[p]
         /\ IF calc'[o] = "PROCESSED" THEN award'[o] \in Amounts ELSE award'[o] = award[o]
<1>1. UNCHANGED <<repoVars, poolVars, stops>>
  BY DEF AccrualStep
<1>2. /\ calc[o] \notin Concluded /\ calc'[o] # "UNREGISTERED"
      /\ calc' \in [Orders -> Calculations] /\ award' \in [Orders -> Nat]
      /\ \A p \in Orders \ {o} : calc'[p] = calc[p] /\ award'[p] = award[p]
      /\ IF calc'[o] = "PROCESSED" THEN award'[o] \in Amounts ELSE award'[o] = award[o]
  <2>1. CASE \E a \in Amounts : SetProcessed(o, a)
    BY <2>1 DEF SetProcessed, Concluded, Calculations, PoolTypeOK
  <2>2. CASE RegisterOrder(o) \/ SetProcessing(o) \/ SetInvalid(o)
    BY <2>2 DEF RegisterOrder, SetProcessing, SetInvalid, Concluded, Calculations, PoolTypeOK
  <2> QED
    BY <2>1, <2>2 DEF AccrualStep, Calculate
<1>3. PoolTypeOK'
  BY <1>1, <1>2 DEF PoolTypeOK, RepoTypeOK, repoVars, orderVars, userVars, poolVars, pullerVars, workerVars
<1> QED
  BY <1>1, <1>2, <1>3

LEMMA AccrualInv == ASSUME PoolInv, NEW o \in Orders, AccrualStep(o) PROVE PoolInv'
<1> USE DEF PoolInv
<1>1. UNCHANGED <<repoVars, poolVars, stops>>
  BY DEF AccrualStep
<1>2. /\ calc[o] \notin Concluded
      /\ \A p \in Orders \ {o} : calc'[p] = calc[p] /\ award'[p] = award[p]
      /\ calc'[o] = "PROCESSED" => award'[o] \in Amounts
  BY AccrualType
<1>3. PoolTypeOK'
  BY AccrualType
<1>4. UNCHANGED <<owner, status, accrual, credits, workerAt, holding, reply>>
  BY <1>1 DEF repoVars, orderVars, poolVars, workerVars
<1>5. WorkersHold' /\ UnownedIsNew' /\ AwardsAreAmounts'
  BY <1>2, <1>4 DEF WorkersHold, UnownedIsNew, AwardsAreAmounts
<1>6. RepliesAreTrue'
  <2> SUFFICES ASSUME NEW w \in Workers, workerAt[w] = "update"
               PROVE  /\ holding[w] \in Orders
                      /\ reply[w] \in {<<"PROCESSING", 0>>, <<"INVALID", 0>>, <<"PROCESSED", award'[holding[w]]>>}
                      /\ reply[w][1] = "INVALID" => calc'[holding[w]] = "INVALID"
                      /\ reply[w][1] = "PROCESSED" => calc'[holding[w]] = "PROCESSED"
    BY <1>4 DEF RepliesAreTrue
  <2>1. CASE holding[w] # o
    BY <1>2, <2>1 DEF RepliesAreTrue
  <2>2. CASE holding[w] = o
    BY <1>2, <2>2 DEF RepliesAreTrue, Concluded
  <2> QED
    BY <2>1, <2>2
<1>7. SettledAsCalculated'
  BY <1>2, <1>4 DEF SettledAsCalculated, Concluded
<1>8. \A p \in Orders : CreditInv(p)'
  BY <1>4 DEF CreditInv, Late
<1> QED
  BY <1>3, <1>5, <1>6, <1>7, <1>8

LEMMA StopType ==
  ASSUME PoolTypeOK, WorkersHold, Cancel \/ Restart \/ UNCHANGED vars
  PROVE  /\ PoolTypeOK' /\ WorkersHold' /\ UNCHANGED <<repoVars, calcVars>>
         /\ \A w \in Workers : workerAt'[w] = "update" =>
              workerAt[w] = "update" /\ holding'[w] = holding[w] /\ reply'[w] = reply[w]
<1>1. UNCHANGED <<repoVars, calcVars>>
  BY DEF Cancel, Restart, vars
<1>2. PoolTypeOK' /\ WorkersHold'
      /\ \A w \in Workers : workerAt'[w] = "update" =>
           workerAt[w] = "update" /\ holding'[w] = holding[w] /\ reply'[w] = reply[w]
  <2>1. CASE Cancel
    <3>1. stops' \in 0..MaxStops /\ ctxDone' \in BOOLEAN
      BY <2>1 DEF Cancel, PoolTypeOK
    <3> QED
      BY <1>1, <2>1, <3>1, OutsideType DEF Cancel, PoolTypeOK, WorkersHold, pullerVars, workerVars
  <2>2. CASE Restart
    <3>1. stops' \in 0..MaxStops
      BY <2>2 DEF Restart, PoolTypeOK
    <3>2. /\ workerAt' \in [Workers -> {"select", "call", "signal", "update", "done"}]
          /\ holding' \in [Workers -> Orders \cup {NoOrder}]
          /\ reply' \in [Workers -> Replies]
          /\ \A w \in Workers : workerAt'[w] = "select"
      BY <2>2, NoReplyType DEF Restart
    <3>3. JobsCapacity \in Nat /\ RateLimitCapacity \in Nat
      BY FS_CardinalityType DEF JobsCapacity, RateLimitCapacity
    <3>4. /\ jobs' \in Seq(Orders) /\ Len(jobs') <= JobsCapacity
          /\ rateLimit' \in Seq(Delays) /\ Len(rateLimit') <= RateLimitCapacity
      BY <2>2, <3>3, EmptySeq DEF Restart
    <3>5. ctxDone' \in BOOLEAN /\ pullerAt' = "select" /\ listing' = "NEW" /\ batch' \subseteq Orders
      BY <2>2 DEF Restart
    <3>6. PoolTypeOK'
      BY <1>1, <3>1, <3>2, <3>4, <3>5, OutsideType DEF PoolTypeOK
    <3> QED
      BY <3>2, <3>6 DEF WorkersHold
  <2>3. CASE UNCHANGED vars
    BY <1>1, <2>3, OutsideType DEF vars, poolVars, pullerVars, workerVars, PoolTypeOK, WorkersHold
  <2> QED
    BY <2>1, <2>2, <2>3
<1> QED
  BY <1>1, <1>2

LEMMA StopInv == ASSUME PoolInv, Cancel \/ Restart \/ UNCHANGED vars PROVE PoolInv'
BY StopType, NoNewAnswer DEF PoolInv

(***************************************************************************)
(* The invariant of the pool: what a worker is about to store (handleOrder *)
(* between GetOrder and UpdateOrderStatus) is an answer the accrual        *)
(* service gave, an order is settled as it was calculated, and its credits *)
(* and the late answers that may still reopen it are together at most as   *)
(* many as there are workers.                                              *)
(***************************************************************************)
THEOREM PoolInvariant == Spec => []PoolInv
<1>1. PoolInv /\ [Next]_vars => PoolInv'
  <2> SUFFICES ASSUME PoolInv, [Next]_vars PROVE PoolInv'
    OBVIOUS
  <2>1. ASSUME NEW w \in Workers, WorkerStep(w) PROVE PoolInv'
    BY <2>1, TakeJobInv, AroundTheCallInv, GetOrderInv, StoreReplyInv DEF WorkerStep
  <2> QED
    BY <2>1, PullerInv, UploadInv, AccrualInv, StopInv DEF Next
<1> QED
  BY <1>1, InitInv, PTL DEF Spec

(***************************************************************************)
(* The variables of the pool keep their types; in particular neither       *)
(* channel ever holds more than NewWorkerPool gave it room for.            *)
(***************************************************************************)
THEOREM PoolTypeCorrect == Spec => []PoolTypeOK
<1>1. PoolInv => PoolTypeOK
  BY DEF PoolInv
<1> QED
  BY <1>1, PoolInvariant, PTL

(***************************************************************************)
(* The pool settles an order the way the accrual service concluded.        *)
(***************************************************************************)
THEOREM PoolSettlesAsCalculated == Spec => []SettledAsCalculated
<1>1. PoolInv => SettledAsCalculated
  BY DEF PoolInv
<1> QED
  BY <1>1, PoolInvariant, PTL

(***************************************************************************)
(* An order is credited at most once per worker, and at least once when it *)
(* is PROCESSED.                                                           *)
(***************************************************************************)
THEOREM PoolBoundsCredits == Spec => []CreditsBounded
<1>1. PoolInv => CreditsBounded
  <2> SUFFICES ASSUME PoolInv, NEW o \in Orders
               PROVE  /\ credits[o] <= Cardinality(Workers)
                      /\ status[o] = "PROCESSED" => credits[o] >= 1
    BY DEF CreditsBounded
  <2>1. credits[o] \in Nat /\ CreditInv(o)
    BY DEF PoolInv, PoolTypeOK, RepoTypeOK
  <2> QED
    BY <2>1, LateIsFinite DEF CreditInv
<1> QED
  BY <1>1, PoolInvariant, PTL

-----------------------------------------------------------------------------
(* The database under the pool sees operations of the repository only.      *)

LEMMA StoreReplyUsesRepository ==
  ASSUME NEW w \in Workers, StoreReply(w), holding[w] \in Orders, reply[w] \in Settlements
  PROVE  RepoNext
BY DEF StoreReply, RepoNext

LEMMA UploadUsesRepository == ASSUME NEW u \in Users, NEW o \in Orders, Upload(u, o) PROVE RepoNext
BY DEF Upload, RepoNext

\* Every other step of the pool leaves the database alone.
LEMMA OthersSpareRepository ==
  ASSUME \/ PullerStep \/ (\E o \in Orders : AccrualStep(o)) \/ Cancel \/ Restart \/ UNCHANGED vars
         \/ \E w \in Workers : WorkerStep(w) /\ ~StoreReply(w)
  PROVE  UNCHANGED repoVars
<1>1. PullerStep => UNCHANGED repoVars
  BY DEF PullerStep, PullerStops, ReceiveRateLimit, WaitIsOver, Tick, ListOrders, ListingFails,
     QueueingStops, ListIsQueued, QueueOrder, PullerTo
<1>2. ASSUME NEW w \in Workers, WorkerStep(w), ~StoreReply(w) PROVE UNCHANGED repoVars
  BY <1>2 DEF WorkerStep, TakeJob, WorkerStops, GetOrder, TooManyRequests, CallFails,
     SignalRateLimit, StoringFails
<1>3. (\E o \in Orders : AccrualStep(o)) \/ Cancel \/ Restart \/ UNCHANGED vars => UNCHANGED repoVars
  BY DEF AccrualStep, Cancel, Restart, vars
<1> QED
  BY <1>1, <1>2, <1>3

LEMMA PoolStepUsesRepository == ASSUME PoolInv, [Next]_vars PROVE [RepoNext]_repoVars
<1>1. ASSUME NEW w \in Workers, StoreReply(w) PROVE RepoNext
  <2>1. /\ holding[w] \in Orders
        /\ reply[w] \in {<<"PROCESSING", 0>>, <<"INVALID", 0>>, <<"PROCESSED", award[holding[w]]>>}
        /\ reply[w][1] = "PROCESSED" => calc[holding[w]] = "PROCESSED"
    BY <1>1 DEF StoreReply, PoolInv, RepliesAreTrue
  <2>2. reply[w] = <<"PROCESSED", award[holding[w]]>> => award[holding[w]] \in Amounts
    BY <2>1 DEF PoolInv, AwardsAreAmounts
  <2>3. reply[w] \in Settlements
    BY <2>1, <2>2 DEF Settlements
  <2> QED
    BY <1>1, <2>1, <2>3, StoreReplyUsesRepository
<1> QED
  BY <1>1, UploadUsesRepository, OthersSpareRepository DEF Next

(***************************************************************************)
(* Workers, restarts and lost answers reach the database through the       *)
(* repository's operations only (UpdateOrderStatus with a status mapStatus *)
(* can return), so whatever they do to an order, no point is created or    *)
(* lost in its owner's account.                                            *)
(***************************************************************************)
THEOREM PoolConserves == Spec => [](Conservation /\ WithdrawnIsItemized)
<1>1. Init => RepoInit
  BY DEF Init
<1>2. Spec => RepoSpec
  BY <1>1, PoolStepUsesRepository, PoolInvariant, PTL DEF Spec, RepoSpec
<1> QED
  BY <1>2, RepoKeepsAccounts, PTL

-----------------------------------------------------------------------------
(* The pool with its exchanges                                              *)

RepliesAreSettlements ==
  \A w \in Workers : workerAt[w] = "update" => reply[w] \in Settlements

AwardsAreCalculated ==
  \A o \in Orders :
    IF calc[o] = "PROCESSED" THEN award[o] \in Amounts ELSE award[o] = 0

\* A request is under way for a worker that waits for it only, and an order
\* that was found does not disappear.
ExchangesFit ==
  \A w \in Workers :
    /\ Phase(w) # "none" => workerAt[w] = "call"
    /\ Phase(w) = "exists" => calc[holding[w]] # "UNREGISTERED"

PollingInv ==
  /\ PollingTypeOK
  /\ WorkersHold
  /\ RepliesAreSettlements
  /\ AwardsAreCalculated
  /\ ExchangesFit

-----------------------------------------------------------------------------
\* What an exchange may hold.
LEMMA ExchangeShape ==
  ASSUME NEW e \in Exchanges
  PROVE  /\ e[1] \in {"none", "sent", "exists", "refused", "200", "429"}
         /\ e[1] = "none" => e = NoExchange
         /\ e[1] = "200" => MapStatus(e[2], e[3]) \in Settlements
         /\ e[1] = "429" => e[3] \in Delays
<1>1. CASE e \in {Exchange(p) : p \in {"none", "sent", "exists", "refused"}}
  BY <1>1 DEF Exchange, NoExchange
<1>2. CASE e \in {"200"} \X {"REGISTERED", "PROCESSING", "INVALID"} \X {0}
  BY <1>2 DEF MapStatus, Settlements
<1>3. CASE e \in {"200"} \X {"PROCESSED"} \X Amounts
  BY <1>3 DEF MapStatus, Settlements
<1>4. CASE e \in {"429"} \X {"UNREGISTERED"} \X Delays
  BY <1>4
<1> QED
  BY <1>1, <1>2, <1>3, <1>4 DEF Exchanges

LEMMA PhasesAreExchanges ==
  /\ NoExchange \in Exchanges /\ NoExchange[1] = "none"
  /\ \A p \in {"none", "sent", "exists", "refused"} :
       Exchange(p) \in Exchanges /\ Exchange(p)[1] = p
BY DEF Exchanges, Exchange, NoExchange

\* A status that was read is what the accrual service has stored.
LEMMA AnswerIsExchange ==
  ASSUME PollingInv, NEW o \in Orders, calc[o] # "UNREGISTERED"
  PROVE  <<"200", calc[o], award[o]>> \in Exchanges
<1>1. calc[o] \in {"REGISTERED", "PROCESSING", "INVALID", "PROCESSED"}
  BY DEF PollingInv, PollingTypeOK, PoolTypeOK, Calculations, Concluded
<1>2. IF calc[o] = "PROCESSED" THEN award[o] \in Amounts ELSE award[o] = 0
  BY DEF PollingInv, AwardsAreCalculated
<1> QED
  BY <1>1, <1>2 DEF Exchanges

LEMMA PollingInitInv == PollingInit => PollingInv
<1> SUFFICES ASSUME PollingInit PROVE PollingInv
  OBVIOUS
<1>1. PoolTypeOK /\ WorkersHold
  BY InitInv DEF PollingInit, PoolInv
<1>2. exchange \in [Workers -> Exchanges] /\ asked \in Nat
  BY PhasesAreExchanges DEF PollingInit
<1>3. RepliesAreSettlements /\ AwardsAreCalculated
  BY DEF PollingInit, Init, CalcInit, RepliesAreSettlements, AwardsAreCalculated
<1>4. ExchangesFit
  BY PhasesAreExchanges DEF PollingInit, ExchangesFit, Phase
<1> QED
  BY <1>1, <1>2, <1>3, <1>4 DEF PollingInv, PollingTypeOK

-----------------------------------------------------------------------------
(* The invariant, step by step. *)

LEMMA RequestInv == ASSUME PollingInv, NEW w \in Workers, Request(w) PROVE PollingInv'
<1>1. PoolTypeOK' /\ WorkersHold' /\ RepliesAreSettlements' /\ AwardsAreCalculated'
  BY OutsideType DEF Request, PollingInv, PollingTypeOK, PoolTypeOK, WorkersHold, RepliesAreSettlements,
     AwardsAreCalculated, vars, poolVars, pullerVars, workerVars, calcVars
<1>2. exchange' \in [Workers -> Exchanges] /\ asked' \in Nat
  BY PhasesAreExchanges DEF Request, ExchangeTo, PollingInv, PollingTypeOK
<1>3. ExchangesFit'
  BY PhasesAreExchanges DEF Request, ExchangeTo, PollingInv, PollingTypeOK, ExchangesFit, Phase, vars,
     poolVars, workerVars, calcVars
<1> QED
  BY <1>1, <1>2, <1>3 DEF PollingInv, PollingTypeOK

\* The accrual service goes on with a request.
LEMMA ServesInv ==
  ASSUME PollingInv, NEW w \in Workers, NEW e \in Exchanges, Serves(w, e), Phase(w) # "none",
         e[1] = "exists" => calc[holding[w]] # "UNREGISTERED"
  PROVE  PollingInv'
<1>1. PoolTypeOK' /\ WorkersHold' /\ RepliesAreSettlements' /\ AwardsAreCalculated'
  BY OutsideType DEF Serves, PollingInv, PollingTypeOK, PoolTypeOK, WorkersHold, RepliesAreSettlements,
     AwardsAreCalculated, vars, poolVars, pullerVars, workerVars, calcVars
<1>2. exchange' \in [Workers -> Exchanges] /\ asked' \in Nat
  BY DEF Serves, ExchangeTo, PollingInv, PollingTypeOK
<1>3. ExchangesFit'
  BY DEF Serves, ExchangeTo, PollingInv, PollingTypeOK, ExchangesFit, Phase, vars, poolVars,
     workerVars, calcVars
<1> QED
  BY <1>1, <1>2, <1>3 DEF PollingInv, PollingTypeOK

LEMMA ServerStepInv == ASSUME PollingInv, NEW w \in Workers, ServerStep(w) PROVE PollingInv'
<1>1. holding[w] \in Orders /\ Phase(w) # "none"
  BY DEF PollingInv, ExchangesFit, WorkersHold, ServerStep, OrderExists, OrderNotFound, GetByNumber,
     ServiceFails, Throttle
<1>2. CASE OrderExists(w)
  BY <1>1, <1>2, PhasesAreExchanges, ServesInv DEF OrderExists
<1>3. CASE OrderNotFound(w) \/ ServiceFails(w)
  BY <1>1, <1>3, PhasesAreExchanges, ServesInv DEF OrderNotFound, ServiceFails
<1>4. CASE GetByNumber(w)
  <2>1. calc[holding[w]] # "UNREGISTERED"
    BY <1>4 DEF GetByNumber, PollingInv, ExchangesFit
  <2>2. <<"200", calc[holding[w]], award[holding[w]]>> \in Exchanges
    BY <1>1, <2>1, AnswerIsExchange
  <2> QED
    BY <1>1, <1>4, <2>2, ServesInv DEF GetByNumber
<1>5. CASE Throttle(w)
  <2>1. PICK d \in Delays : Serves(w, <<"429", "UNREGISTERED", d>>)
    BY <1>5 DEF Throttle
  <2>2. <<"429", "UNREGISTERED", d>> \in Exchanges
    BY DEF Exchanges
  <2> QED
    BY <1>1, <2>1, <2>2, ServesInv
<1> QED
  BY <1>2, <1>3, <1>4, <1>5 DEF ServerStep

\* A request ends, and its worker goes on.
LEMMA ReceivesInv ==
  ASSUME PollingInv, NEW w \in Workers, NEW p \in {"select", "update", "signal"},
         NEW o \in Orders \cup {NoOrder}, NEW r \in Replies, Receives(w, p, o, r),
         p = "update" => o \in Orders /\ r \in Settlements,
         p = "signal" => o \in Orders /\ r \in {"RETRY"} \X Delays
  PROVE  PollingInv'
<1>1. /\ WorkerTo(w, p, o, r) /\ UNCHANGED <<repoVars, calcVars, jobs, rateLimit, asked>>
      /\ exchange' = [exchange EXCEPT ![w] = NoExchange]
  BY DEF Receives, ExchangeTo, WorkerTo
<1>2. RepoTypeOK' /\ jobs' \in Seq(Orders) /\ Len(jobs') <= JobsCapacity
      /\ rateLimit' \in Seq(Delays) /\ Len(rateLimit') <= RateLimitCapacity
  BY <1>1, OutsideType DEF PollingInv, PollingTypeOK, PoolTypeOK
<1>3. /\ PoolTypeOK' /\ workerAt'[w] = p /\ holding'[w] = o /\ reply'[w] = r
      /\ \A v \in Workers \ {w} :
           workerAt'[v] = workerAt[v] /\ holding'[v] = holding[v] /\ reply'[v] = reply[v]
  <2>1. PoolTypeOK /\ p \in {"select", "call", "signal", "update", "done"}
    BY DEF PollingInv, PollingTypeOK
  <2> QED
    BY <1>1, <1>2, <2>1, WorkerToType
<1>4. exchange' \in [Workers -> Exchanges] /\ asked' \in Nat
  BY <1>1, PhasesAreExchanges DEF PollingInv, PollingTypeOK
<1>5. WorkersHold' /\ RepliesAreSettlements'
  BY <1>3 DEF PollingInv, WorkersHold, RepliesAreSettlements
<1>6. AwardsAreCalculated'
  BY <1>1 DEF PollingInv, AwardsAreCalculated, calcVars
<1>7. ExchangesFit'
  BY <1>1, <1>3, <1>4, PhasesAreExchanges DEF PollingInv, PollingTypeOK, ExchangesFit, Phase, calcVars
<1> QED
  BY <1>3, <1>4, <1>5, <1>6, <1>7 DEF PollingInv, PollingTypeOK

LEMMA ClientStepInv == ASSUME PollingInv, NEW w \in Workers, ClientStep(w) PROVE PollingInv'
<1>1. exchange[w] \in Exchanges /\ NoReply \in Replies
  BY NoReplyType DEF PollingInv, PollingTypeOK
<1>2. CASE ReceiveOrder(w)
  <2> DEFINE r == MapStatus(exchange[w][2], exchange[w][3])
  <2>1. r \in Settlements /\ holding[w] \in Orders
    BY <1>1, <1>2, ExchangeShape DEF ReceiveOrder, Phase, PollingInv, ExchangesFit, WorkersHold
  <2>2. r \in Replies
    BY <2>1 DEF Replies
  <2>3. Receives(w, "update", holding[w], r)
    BY <1>2 DEF ReceiveOrder
  <2> QED
    BY <2>1, <2>2, <2>3, ReceivesInv
<1>3. CASE ReceiveTooManyRequests(w)
  <2>1. exchange[w][3] \in Delays /\ holding[w] \in Orders
    BY <1>1, <1>3, ExchangeShape DEF ReceiveTooManyRequests, Phase, PollingInv, ExchangesFit, WorkersHold
  <2>2. <<"RETRY", exchange[w][3]>> \in Replies
    BY <2>1 DEF Replies
  <2>3. Receives(w, "signal", holding[w], <<"RETRY", exchange[w][3]>>)
    BY <1>3 DEF ReceiveTooManyRequests
  <2> QED
    BY <2>1, <2>2, <2>3, ReceivesInv
<1>4. CASE ReceiveRefusal(w) \/ RequestFails(w)
  BY <1>1, <1>4, ReceivesInv DEF ReceiveRefusal, RequestFails
<1> QED
  BY <1>2, <1>3, <1>4, RequestInv DEF ClientStep

\* A step of a worker that has no request under way.
LEMMA OffLineKeeps ==
  ASSUME PollingInv, NEW w \in Workers, PoolTypeOK', WorkersHold', workerAt[w] # "call",
         UNCHANGED <<calcVars, exchange, asked>>,
         workerAt'[w] # "update",
         \A v \in Workers \ {w} :
           workerAt'[v] = workerAt[v] /\ holding'[v] = holding[v] /\ reply'[v] = reply[v]
  PROVE  PollingInv'
<1>1. PollingTypeOK'
  BY DEF PollingInv, PollingTypeOK
<1>2. RepliesAreSettlements' /\ AwardsAreCalculated'
  BY DEF PollingInv, RepliesAreSettlements, AwardsAreCalculated, calcVars
<1>3. Phase(w) = "none"
  BY DEF PollingInv, ExchangesFit
<1>4. ExchangesFit'
  BY <1>3 DEF PollingInv, ExchangesFit, Phase, calcVars
<1> QED
  BY <1>1, <1>2, <1>4 DEF PollingInv

LEMMA OffLineInv == ASSUME PollingInv, NEW w \in Workers, OffLine(w) PROVE PollingInv'
<1>1. PoolTypeOK /\ WorkersHold /\ UNCHANGED <<exchange, asked>>
  BY DEF PollingInv, PollingTypeOK, OffLine
<1>2. CASE TakeJob(w)
  <2>1. /\ PoolTypeOK' /\ workerAt'[w] = "call" /\ holding'[w] \in Orders
        /\ UNCHANGED <<repoVars, calcVars, rateLimit>>
        /\ \A v \in Workers \ {w} :
             workerAt'[v] = workerAt[v] /\ holding'[v] = holding[v] /\ reply'[v] = reply[v]
    BY <1>1, <1>2, TakeJobType
  <2>2. WorkersHold'
    BY <1>1, <2>1 DEF WorkersHold
  <2> QED
    BY <1>1, <1>2, <2>1, <2>2, OffLineKeeps DEF TakeJob
<1>3. CASE WorkerStops(w) \/ SignalRateLimit(w) \/ StoringFails(w)
  <2>1. /\ PoolTypeOK' /\ WorkersHold'
        /\ workerAt'[w] \in {"select", "signal", "done"}
        /\ UNCHANGED <<repoVars, calcVars, jobs>>
        /\ \A v \in Workers \ {w} :
             workerAt'[v] = workerAt[v] /\ holding'[v] = holding[v] /\ reply'[v] = reply[v]
    BY <1>1, <1>3, AroundTheCallType
  <2>2. workerAt[w] # "call"
    BY <1>3 DEF WorkerStops, SignalRateLimit, StoringFails
  <2> QED
    BY <1>1, <2>1, <2>2, OffLineKeeps
<1>4. CASE StoreReply(w)
  <2>1. workerAt[w] = "update" /\ holding[w] \in Orders /\ reply[w] \in Settlements
    BY <1>4 DEF StoreReply, PollingInv, WorkersHold, RepliesAreSettlements
  <2>2. reply[w][1] \in Statuses /\ reply[w][2] \in Nat
    BY <2>1, SettlementParts
  <2>3. /\ PoolTypeOK' /\ workerAt'[w] = "select"
        /\ UNCHANGED <<calcVars, jobs, rateLimit>>
        /\ \A v \in Workers \ {w} :
             workerAt'[v] = workerAt[v] /\ holding'[v] = holding[v] /\ reply'[v] = reply[v]
    BY <1>1, <1>4, <2>1, <2>2, StoreReplyType
  <2>4. WorkersHold'
    BY <1>1, <2>3 DEF WorkersHold
  <2> QED
    BY <1>1, <2>1, <2>3, <2>4, OffLineKeeps
<1> QED
  BY <1>2, <1>3, <1>4 DEF OffLine

LEMMA PullsInv == ASSUME PollingInv, Pulls PROVE PollingInv'
<1>1. /\ PoolTypeOK' /\ UNCHANGED <<calcVars, workerVars, exchange>> /\ asked' = 0
  BY PullerType DEF PollingInv, PollingTypeOK, Pulls
<1> QED
  BY <1>1 DEF PollingInv, PollingTypeOK, WorkersHold, RepliesAreSettlements, AwardsAreCalculated,
     ExchangesFit, Phase, workerVars, calcVars

LEMMA AroundInv == ASSUME PollingInv, Around PROVE PollingInv'
<1>1. PoolTypeOK /\ WorkersHold /\ UNCHANGED <<exchange, asked>>
  BY DEF PollingInv, PollingTypeOK, Around
<1>2. CASE \E u \in Users, o \in Orders : Upload(u, o)
  <2>1. PoolTypeOK' /\ UNCHANGED <<calcVars, poolVars>>
    BY <1>1, <1>2, UploadType
  <2> QED
    BY <1>1, <2>1 DEF PollingInv, PollingTypeOK, WorkersHold, RepliesAreSettlements,
       AwardsAreCalculated, ExchangesFit, Phase, poolVars, workerVars, calcVars
<1>3. CASE \E o \in Orders : AccrualStep(o)
  <2> PICK o \in Orders : AccrualStep(o)
    BY <1>3
  <2>1. /\ PoolTypeOK' /\ UNCHANGED <<repoVars, poolVars, stops>>
        /\ calc[o] \notin Concluded /\ calc'[o] # "UNREGISTERED"
        /\ \A p \in Orders \ {o} : calc'[p] = calc[p] /\ award'[p] = award[p]
        /\ IF calc'[o] = "PROCESSED" THEN award'[o] \in Amounts ELSE award'[o] = award[o]
    BY <1>1, AccrualType
  <2>2. AwardsAreCalculated'
    BY <2>1 DEF PollingInv, AwardsAreCalculated, Concluded
  <2>3. WorkersHold' /\ RepliesAreSettlements'
    BY <2>1 DEF PollingInv, WorkersHold, RepliesAreSettlements, poolVars, workerVars
  <2>4. ExchangesFit'
    BY <1>1, <2>1 DEF PollingInv, ExchangesFit, Phase, WorkersHold, poolVars, workerVars
  <2> QED
    BY <1>1, <2>1, <2>2, <2>3, <2>4 DEF PollingInv, PollingTypeOK
<1>4. CASE Cancel
  <2>1. /\ PoolTypeOK' /\ WorkersHold' /\ UNCHANGED <<repoVars, calcVars, workerVars>>
    BY <1>1, <1>4, StopType DEF Cancel
  <2> QED
    BY <1>1, <2>1 DEF PollingInv, PollingTypeOK, RepliesAreSettlements, AwardsAreCalculated,
       ExchangesFit, Phase, workerVars, calcVars
<1> QED
  BY <1>2, <1>3, <1>4 DEF Around

LEMMA PollingRestartInv == ASSUME PollingInv, PollingRestart PROVE PollingInv'
<1>1. PoolTypeOK' /\ WorkersHold' /\ UNCHANGED calcVars
      /\ \A w \in Workers : workerAt'[w] = "select" /\ exchange'[w] = NoExchange
  BY StopType DEF PollingInv, PollingTypeOK, PollingRestart, Restart
<1>2. exchange' \in [Workers -> Exchanges] /\ asked' \in Nat
  BY PhasesAreExchanges DEF PollingRestart
<1>3. ExchangesFit' /\ RepliesAreSettlements' /\ AwardsAreCalculated'
  BY <1>1, PhasesAreExchanges DEF PollingInv, ExchangesFit, Phase, RepliesAreSettlements,
     AwardsAreCalculated, calcVars
<1> QED
  BY <1>1, <1>2, <1>3 DEF PollingInv, PollingTypeOK

LEMMA PollingStutterInv == ASSUME PollingInv, UNCHANGED pollingVars PROVE PollingInv'
<1>1. PoolTypeOK' /\ WorkersHold'
  BY StopType DEF PollingInv, PollingTypeOK, pollingVars
<1> QED
  BY <1>1 DEF PollingInv, PollingTypeOK, RepliesAreSettlements, AwardsAreCalculated, ExchangesFit,
     Phase, pollingVars, vars, poolVars, workerVars, calcVars

LEMMA PollingStepInv == ASSUME PollingInv, [PollingNext]_pollingVars PROVE PollingInv'
BY RequestInv, ServerStepInv, ClientStepInv, OffLineInv, PullsInv, AroundInv, PollingRestartInv,
   PollingStutterInv DEF PollingNext

(***************************************************************************)
(* The invariant of the pool with its exchanges: a request is under way    *)
(* only for a worker that waits for it, an order that IsOrderExists found  *)
(* is still there for GetByNumber, an award is there exactly for a         *)
(* processed order, and what a worker is about to store is something it    *)
(* may ask of UpdateOrderStatus.                                           *)
(***************************************************************************)
THEOREM PollingInvariant == PollingSpec => []PollingInv
BY PollingInitInv, PollingStepInv, PTL DEF PollingSpec

(***************************************************************************)
(* The variables keep their types: what a worker reads of an order is      *)
(* always the stored status of one that the accrual service knows.         *)
(***************************************************************************)
THEOREM PollingTypeCorrect == PollingSpec => []PollingTypeOK
<1>1. PollingInv => PollingTypeOK
  BY DEF PollingInv
<1> QED
  BY <1>1, PollingInvariant, PTL

-----------------------------------------------------------------------------
(* The refinement.  PoolAt and PoolReply are the pool that asks in one step. *)

LEMMA PoolFunctions ==
  ASSUME PollingInv
  PROVE  /\ workerAt = [w \in Workers |-> workerAt[w]] /\ holding = [w \in Workers |-> holding[w]]
         /\ reply = [w \in Workers |-> reply[w]] /\ exchange = [w \in Workers |-> exchange[w]]
BY DEF PollingInv, PollingTypeOK, PoolTypeOK

\* The instance counts the workers as this module does.
LEMMA SameCapacities ==
  Pool!JobsCapacity = JobsCapacity /\ Pool!RateLimitCapacity = RateLimitCapacity
<1>1. Pool!Cardinality(Workers) = Cardinality(Workers)
  BY DEF Cardinality, Pool!Cardinality
<1> QED
  BY <1>1 DEF JobsCapacity, Pool!JobsCapacity, RateLimitCapacity, Pool!RateLimitCapacity

\* The steps that leave the workers and their requests alone.
LEMMA SameWorkers ==
  ASSUME UNCHANGED <<workerAt, reply, exchange>>
  PROVE  UNCHANGED <<PoolAt, PoolReply>>
BY DEF PoolAt, PoolReply, Read, Phase

\* A worker that goes on while its request, if there was one, is over.
LEMMA WorkerMaps ==
  ASSUME PollingInv, NEW w \in Workers, NEW p, NEW o, NEW r, WorkerTo(w, p, o, r),
         exchange' = [exchange EXCEPT ![w] = NoExchange]
  PROVE  Pool!WorkerTo(w, p, o, r)
<1>1. ~Read(w)' /\ \A v \in Workers \ {w} : exchange'[v] = exchange[v]
  BY PoolFunctions, PhasesAreExchanges DEF Read, Phase
<1>2. PoolAt' = [PoolAt EXCEPT ![w] = p]
  BY <1>1, PoolFunctions DEF PoolAt, WorkerTo, Read, Phase
<1>3. PoolReply' = [PoolReply EXCEPT ![w] = r]
  BY <1>1, PoolFunctions DEF PoolReply, WorkerTo, Read, Phase
<1> QED
  BY <1>2, <1>3 DEF WorkerTo, Pool!WorkerTo, calcVars, Pool!calcVars, pullerVars, Pool!pullerVars

\* Where the pool that asks in one step finds a worker.
LEMMA PoolAtWorker ==
  ASSUME PollingInv, NEW w \in Workers
  PROVE  /\ PoolAt[w] = IF Read(w) THEN "update" ELSE workerAt[w]
         /\ PoolReply[w] = IF Read(w) THEN MapStatus(exchange[w][2], exchange[w][3]) ELSE reply[w]
         /\ workerAt[w] # "call" => ~Read(w) /\ exchange[w] = NoExchange
BY ExchangeShape DEF PoolAt, PoolReply, Read, Phase, PollingInv, PollingTypeOK, ExchangesFit

LEMMA OffLineMaps == ASSUME PollingInv, NEW w \in Workers, OffLine(w) PROVE Pool!WorkerStep(w)
<1>1. exchange' = exchange /\ workerAt[w] # "call"
  BY DEF OffLine, TakeJob, WorkerStops, SignalRateLimit, StoreReply, StoringFails
<1>2. /\ PoolAt[w] = workerAt[w] /\ PoolReply[w] = reply[w]
      /\ exchange' = [exchange EXCEPT ![w] = NoExchange]
  BY <1>1, PoolAtWorker, PoolFunctions
<1>3. ASSUME NEW p, NEW o, NEW r, WorkerTo(w, p, o, r) PROVE Pool!WorkerTo(w, p, o, r)
  BY <1>2, <1>3, WorkerMaps
<1>4. CASE TakeJob(w)
  BY <1>2, <1>3, <1>4 DEF TakeJob, Pool!TakeJob, Pool!WorkerStep, NoReply, Pool!NoReply,
     repoVars, Pool!repoVars, orderVars, Pool!orderVars, userVars, Pool!userVars
<1>5. CASE WorkerStops(w)
  BY <1>2, <1>3, <1>5 DEF WorkerStops, Pool!WorkerStops, Pool!WorkerStep, NoReply, Pool!NoReply,
     repoVars, Pool!repoVars, orderVars, Pool!orderVars, userVars, Pool!userVars
<1>6. CASE SignalRateLimit(w)
  BY <1>2, <1>3, <1>6, SameCapacities DEF SignalRateLimit, Pool!SignalRateLimit, Pool!WorkerStep,
     Idle, Pool!Idle, NoReply, Pool!NoReply, repoVars, Pool!repoVars, orderVars, Pool!orderVars, userVars, Pool!userVars
<1>7. CASE StoreReply(w)
  <2>1. Pool!UpdateOrderStatus(holding[w], PoolReply[w][1], PoolReply[w][2])
    <3>1. UpdateOrderStatus(holding[w], PoolReply[w][1], PoolReply[w][2])
      BY <1>2, <1>7 DEF StoreReply
    <3> QED
      BY <3>1 DEF UpdateOrderStatus, Pool!UpdateOrderStatus, AddsAward, Pool!AddsAward,
         AddToBalance, Pool!AddToBalance, userVars, Pool!userVars
  <2>2. Pool!Idle(w) /\ PoolAt[w] = "update" /\ UNCHANGED <<jobs, rateLimit>>
    BY <1>2, <1>3, <1>7 DEF StoreReply, Idle, Pool!Idle, NoReply, Pool!NoReply
  <2> QED
    BY <2>1, <2>2 DEF Pool!StoreReply, Pool!WorkerStep
<1>8. CASE StoringFails(w)
  BY <1>2, <1>3, <1>8 DEF StoringFails, Pool!StoringFails, Pool!WorkerStep, Idle, Pool!Idle, NoReply,
     Pool!NoReply, repoVars, Pool!repoVars, orderVars, Pool!orderVars, userVars, Pool!userVars
<1> QED
  BY <1>4, <1>5, <1>6, <1>7, <1>8 DEF OffLine

\* The request and its way to the service are not seen by the pool, and neither
\* is an order on its way back.
LEMMA UnseenSteps ==
  ASSUME PollingInv, NEW w \in Workers,
         \/ Request(w)
         \/ ReceiveOrder(w)
         \/ OrderExists(w) \/ OrderNotFound(w) \/ ServiceFails(w) \/ Throttle(w)
  PROVE  UNCHANGED Pool!vars
<1>1. UNCHANGED <<repoVars, calcVars, ctxDone, pullerVars, jobs, rateLimit, holding, stops>>
  <2>1. CASE ReceiveOrder(w)
    BY <2>1, PoolFunctions DEF ReceiveOrder, Receives, WorkerTo
  <2> QED
    BY <2>1 DEF Request, OrderExists, OrderNotFound, ServiceFails, Throttle, Serves, vars, poolVars,
       workerVars
<1>2. PoolAt' = PoolAt /\ PoolReply' = PoolReply
  <2>1. CASE ReceiveOrder(w)
    <3>1. /\ Read(w) /\ WorkerTo(w, "update", holding[w], MapStatus(exchange[w][2], exchange[w][3]))
          /\ exchange' = [exchange EXCEPT ![w] = NoExchange]
      BY <2>1 DEF ReceiveOrder, Receives, ExchangeTo, Read
    <3> QED
      BY <3>1, PoolFunctions, PhasesAreExchanges DEF WorkerTo, PoolAt, PoolReply, Read, Phase
  <2>2. CASE ~ReceiveOrder(w)
    <3>1. PICK e \in Exchanges : /\ exchange' = [exchange EXCEPT ![w] = e]
                                 /\ e[1] # "200" /\ ~Read(w) /\ UNCHANGED <<workerAt, reply>>
      <4>1. CASE Throttle(w)
        <5>1. PICK d \in Delays : Serves(w, <<"429", "UNREGISTERED", d>>)
          BY <4>1 DEF Throttle
        <5>2. <<"429", "UNREGISTERED", d>> \in Exchanges
          BY DEF Exchanges
        <5> QED
          BY <4>1, <5>1, <5>2 DEF Throttle, Serves, ExchangeTo, Read, vars, poolVars, workerVars
      <4>2. CASE Request(w)
        BY <4>2, PhasesAreExchanges DEF Request, ExchangeTo, Read, Phase, vars, poolVars, workerVars
      <4>3. CASE OrderExists(w) \/ OrderNotFound(w) \/ ServiceFails(w)
        BY <4>3, PhasesAreExchanges DEF OrderExists, OrderNotFound, ServiceFails, Serves,
           ExchangeTo, Read, vars, poolVars, workerVars
      <4> QED
        BY <2>2, <4>1, <4>2, <4>3
    <3> QED
      BY <3>1, PoolFunctions DEF PoolAt, PoolReply, Read, Phase
  <2> QED
    BY <2>1, <2>2
<1> QED
  BY <1>1, <1>2 DEF Pool!vars, Pool!repoVars, Pool!orderVars, Pool!userVars, Pool!calcVars,
     Pool!poolVars, Pool!pullerVars, Pool!workerVars, repoVars, orderVars, userVars, calcVars,
     pullerVars

\* The read of the accrual service is the moment at which the pool asks.
LEMMA ReadMaps == ASSUME PollingInv, NEW w \in Workers, GetByNumber(w) PROVE Pool!GetOrder(w)
<1> DEFINE h == holding[w]
           e == <<"200", calc[h], award[h]>>
<1>1. /\ Phase(w) = "exists" /\ exchange' = [exchange EXCEPT ![w] = e] /\ UNCHANGED vars
      /\ workerAt[w] = "call" /\ calc[h] # "UNREGISTERED" /\ ~Read(w)
  BY DEF GetByNumber, Serves, ExchangeTo, PollingInv, ExchangesFit, Read
<1>2. Read(w)' /\ exchange'[w] = e /\ \A v \in Workers \ {w} : exchange'[v] = exchange[v]
  BY <1>1, PoolFunctions DEF Read, Phase
<1>3. UNCHANGED <<repoVars, calcVars, ctxDone, pullerVars, jobs, rateLimit, workerAt, holding, reply, stops>>
  BY <1>1 DEF vars, poolVars, workerVars
<1>4. PoolAt' = [PoolAt EXCEPT ![w] = "update"]
  BY <1>2, <1>3 DEF PoolAt, Read, Phase
<1>5. PoolReply' = [PoolReply EXCEPT ![w] = MapStatus(calc[h], award[h])]
  <2>1. exchange'[w][2] = calc[h] /\ exchange'[w][3] = award[h]
    BY <1>2
  <2>2. PoolReply'[w] = MapStatus(calc[h], award[h])
    BY <1>2, <2>1 DEF PoolReply
  <2>3. \A v \in Workers \ {w} : PoolReply'[v] = PoolReply[v]
    BY <1>2, <1>3 DEF PoolReply, Read, Phase
  <2> QED
    BY <2>2, <2>3 DEF PoolReply
<1>6. holding' = [holding EXCEPT ![w] = h]
  BY <1>3, PoolFunctions
<1>7. PoolAt[w] = "call" /\ Pool!MapStatus(calc[h], award[h]) = MapStatus(calc[h], award[h])
  BY <1>1, PoolAtWorker DEF MapStatus, Pool!MapStatus
<1> QED
  BY <1>1, <1>3, <1>4, <1>5, <1>6, <1>7 DEF Pool!GetOrder, Pool!WorkerTo, Pool!calcVars,
     Pool!pullerVars, Pool!repoVars, Pool!orderVars, Pool!userVars, calcVars, pullerVars, repoVars,
     orderVars, userVars

\* Before the read the pool is told of a refusal or a failure; after it, giving
\* the request up is failing to store the reply.
LEMMA EndsMap ==
  ASSUME PollingInv, NEW w \in Workers,
         ReceiveTooManyRequests(w) \/ ReceiveRefusal(w) \/ RequestFails(w)
  PROVE  Pool!WorkerStep(w)
<1>1. /\ exchange' = [exchange EXCEPT ![w] = NoExchange] /\ workerAt[w] = "call"
      /\ UNCHANGED <<repoVars, jobs, rateLimit>>
  BY DEF ReceiveTooManyRequests, ReceiveRefusal, RequestFails, Receives, ExchangeTo, PollingInv, ExchangesFit
<1>2. ASSUME NEW p, NEW o, NEW r, WorkerTo(w, p, o, r) PROVE Pool!WorkerTo(w, p, o, r)
  BY <1>1, <1>2, WorkerMaps
<1>3. UNCHANGED Pool!repoVars
  BY <1>1 DEF Pool!repoVars, Pool!orderVars, Pool!userVars, repoVars, orderVars, userVars
<1>4. PoolAt[w] = IF Read(w) THEN "update" ELSE "call"
  BY <1>1, PoolAtWorker
<1>5. CASE ReceiveTooManyRequests(w)
  <2>1. ~Read(w) /\ exchange[w][3] \in Delays
    BY <1>5, ExchangeShape DEF ReceiveTooManyRequests, Read, Phase, PollingInv, PollingTypeOK
  <2>2. Pool!WorkerTo(w, "signal", holding[w], <<"RETRY", exchange[w][3]>>)
    BY <1>2, <1>5 DEF ReceiveTooManyRequests, Receives
  <2> QED
    BY <1>1, <1>3, <1>4, <2>1, <2>2 DEF Pool!TooManyRequests, Pool!WorkerStep
<1>6. CASE ReceiveRefusal(w) \/ RequestFails(w)
  <2>1. Pool!Idle(w)
    BY <1>2, <1>6 DEF ReceiveRefusal, RequestFails, Receives, Pool!Idle, NoReply, Pool!NoReply
  <2> QED
    BY <1>1, <1>3, <1>4, <2>1 DEF Pool!CallFails, Pool!StoringFails, Pool!WorkerStep
<1> QED
  BY <1>5, <1>6

LEMMA PullsMap == ASSUME Pulls PROVE Pool!PullerStep
<1>1. UNCHANGED <<PoolAt, PoolReply>> /\ UNCHANGED <<repoVars, calcVars, ctxDone, workerVars, stops>>
  BY SameWorkers DEF Pulls, PullerStep, PullerStops, ReceiveRateLimit, WaitIsOver, Tick, ListOrders,
     ListingFails, QueueingStops, ListIsQueued, QueueOrder, PullerTo, workerVars
<1>2. ASSUME NEW p, pullerAt' = p PROVE Pool!PullerTo(p)
  BY <1>1, <1>2 DEF Pool!PullerTo, Pool!repoVars, Pool!orderVars, Pool!userVars, Pool!calcVars,
     Pool!workerVars, repoVars, orderVars, userVars, calcVars, workerVars
<1>3. CASE PullerStops \/ ReceiveRateLimit \/ WaitIsOver \/ Tick
  BY <1>2, <1>3 DEF Pool!PullerStep, PullerTo, PullerStops, ReceiveRateLimit, WaitIsOver, Tick,
     Pool!PullerStops, Pool!ReceiveRateLimit, Pool!WaitIsOver, Pool!Tick
<1>4. CASE ListOrders \/ ListingFails \/ QueueingStops \/ ListIsQueued
  BY <1>2, <1>4 DEF Pool!PullerStep, PullerTo, ListOrders, ListingFails, QueueingStops, ListIsQueued,
     Pool!ListOrders, Pool!ListingFails, Pool!QueueingStops, Pool!ListIsQueued
<1>5. CASE \E o \in Orders : QueueOrder(o)
  BY <1>2, <1>5, SameCapacities DEF Pool!PullerStep, PullerTo, QueueOrder, Pool!QueueOrder
<1> QED
  BY <1>3, <1>4, <1>5 DEF Pulls, PullerStep

LEMMA AroundMaps ==
  ASSUME Around
  PROVE  \/ \E u \in Users, o \in Orders : Pool!Upload(u, o)
         \/ \E o \in Orders : Pool!AccrualStep(o)
         \/ Pool!Cancel
<1>1. workerVars' = workerVars /\ exchange' = exchange
  BY DEF Around, Upload, AccrualStep, Cancel, poolVars
<1>2. UNCHANGED <<PoolAt, PoolReply, holding>>
  BY <1>1, SameWorkers DEF workerVars
<1>3. CASE \E u \in Users, o \in Orders : Upload(u, o)
  BY <1>2, <1>3 DEF Upload, Pool!Upload, CreateOrder, Pool!CreateOrder, userVars, Pool!userVars,
     calcVars, Pool!calcVars, poolVars, Pool!poolVars, pullerVars, Pool!pullerVars, Pool!workerVars
<1>4. CASE \E o \in Orders : AccrualStep(o)
  <2> PICK o \in Orders : AccrualStep(o)
    BY <1>4
  <2>1. Pool!Calculate(o)
    BY DEF AccrualStep, Calculate, Pool!Calculate, RegisterOrder, Pool!RegisterOrder, SetProcessing,
       Pool!SetProcessing, SetInvalid, Pool!SetInvalid, SetProcessed, Pool!SetProcessed
  <2> QED
    BY <1>2, <2>1 DEF AccrualStep, Pool!AccrualStep, repoVars, Pool!repoVars, orderVars,
       Pool!orderVars, userVars, Pool!userVars, poolVars, Pool!poolVars, pullerVars,
       Pool!pullerVars, Pool!workerVars
<1>5. CASE Cancel
  BY <1>2, <1>5 DEF Cancel, Pool!Cancel, repoVars, Pool!repoVars, orderVars, Pool!orderVars,
     userVars, Pool!userVars, calcVars, Pool!calcVars, pullerVars, Pool!pullerVars, Pool!workerVars
<1> QED
  BY <1>3, <1>4, <1>5 DEF Around

LEMMA RestartMaps == ASSUME PollingInv, PollingRestart PROVE Pool!Restart
<1>1. /\ PoolAt' = [w \in Workers |-> "select"]
      /\ PoolReply' = [w \in Workers |-> Pool!NoReply]
  BY PhasesAreExchanges DEF PollingRestart, Restart, PoolAt, PoolReply, Read, Phase, NoReply, Pool!NoReply
<1>2. AllStopped <=> Pool!AllStopped
  BY PoolAtWorker DEF AllStopped, Pool!AllStopped
<1> QED
  BY <1>1, <1>2 DEF PollingRestart, Restart, Pool!Restart, repoVars, Pool!repoVars, orderVars,
     Pool!orderVars, userVars, Pool!userVars, calcVars, Pool!calcVars

LEMMA InitMaps == ASSUME PollingInit PROVE Pool!Init
<1>1. /\ PoolAt = [w \in Workers |-> "select"]
      /\ PoolReply = [w \in Workers |-> Pool!NoReply]
  BY PhasesAreExchanges DEF PollingInit, Init, PoolAt, PoolReply, Read, Phase, NoReply, Pool!NoReply
<1>2. Pool!RepoInit /\ Pool!CalcInit
  BY DEF PollingInit, Init, RepoInit, Pool!RepoInit, CalcInit, Pool!CalcInit
<1> QED
  BY <1>1, <1>2 DEF PollingInit, Init, Pool!Init

LEMMA PollingStepMaps == ASSUME PollingInv, [PollingNext]_pollingVars PROVE [Pool!Next]_(Pool!vars)
<1>1. CASE Pulls
  BY <1>1, PullsMap DEF Pool!Next
<1>2. ASSUME NEW w \in Workers, ClientStep(w) \/ OffLine(w) \/ ServerStep(w)
      PROVE  [Pool!Next]_(Pool!vars)
  BY <1>2, OffLineMaps, UnseenSteps, ReadMaps, EndsMap DEF ClientStep, ServerStep, Pool!Next,
     Pool!WorkerStep
<1>3. CASE Around
  BY <1>3, AroundMaps DEF Pool!Next
<1>4. CASE PollingRestart
  BY <1>4, RestartMaps DEF Pool!Next
<1>5. CASE UNCHANGED pollingVars
  <2>1. UNCHANGED <<PoolAt, PoolReply>>
    BY <1>5, SameWorkers DEF pollingVars, vars, poolVars, workerVars
  <2> QED
    BY <1>5, <2>1 DEF pollingVars, vars, poolVars, pullerVars, workerVars, calcVars, repoVars,
       orderVars, userVars, Pool!vars, Pool!poolVars, Pool!pullerVars, Pool!workerVars,
       Pool!calcVars, Pool!repoVars, Pool!orderVars, Pool!userVars
<1> QED
  BY <1>1, <1>2, <1>3, <1>4, <1>5 DEF PollingNext

(***************************************************************************)
(* The pool with its HTTP exchanges implements the pool that asks in one   *)
(* step, so what is proved of the latter (settled as calculated, credited  *)
(* at most once per worker) is true with requests that are slow, lost or   *)
(* given up.                                                               *)
(***************************************************************************)
THEOREM PollingImplementsPool == PollingSpec => PollingRefinesPool
<1>1. PollingInit => Pool!Init
  BY InitMaps
<1>2. PollingInv /\ [PollingNext]_pollingVars => [Pool!Next]_(Pool!vars)
  BY PollingStepMaps
<1> QED
  BY <1>1, <1>2, PollingInvariant, PTL DEF PollingSpec, PollingRefinesPool, Pool!Spec
(***************************************************************************)
(* The same with every step of the exchanges: requests that are slow, lost *)
(* or given up between the pool and the accrual service create no points   *)
(* and lose none.                                                          *)
(***************************************************************************)
THEOREM PollingConserves == PollingSpec => [](Conservation /\ WithdrawnIsItemized)
<1>1. PollingInit => RepoInit
  BY DEF PollingInit, Init
<1>2. ASSUME PollingInv, [PollingNext]_pollingVars PROVE [RepoNext]_repoVars
  <2>1. ASSUME NEW w \in Workers, OffLine(w) PROVE [RepoNext]_repoVars
    <3>1. StoreReply(w) => holding[w] \in Orders /\ reply[w] \in Settlements
      BY <1>2 DEF StoreReply, PollingInv, WorkersHold, RepliesAreSettlements
    <3>2. WorkerStep(w)
      BY <2>1 DEF OffLine, WorkerStep
    <3> QED
      BY <3>1, <3>2, StoreReplyUsesRepository, OthersSpareRepository
  <2>2. ASSUME NEW w \in Workers, ClientStep(w) \/ ServerStep(w) PROVE UNCHANGED repoVars
    BY <2>2 DEF ClientStep, Request, ReceiveOrder, ReceiveTooManyRequests, ReceiveRefusal, RequestFails,
       Receives, ServerStep, OrderExists, OrderNotFound, GetByNumber, ServiceFails, Throttle, Serves, vars
  <2>3. Pulls \/ Around \/ PollingRestart \/ UNCHANGED pollingVars => [RepoNext]_repoVars
    BY UploadUsesRepository, OthersSpareRepository DEF Pulls, Around, PollingRestart, pollingVars
  <2> QED
    BY <1>2, <2>1, <2>2, <2>3 DEF PollingNext
<1>3. PollingSpec => RepoSpec
  BY <1>1, <1>2, PollingInvariant, PTL DEF PollingSpec, RepoSpec
<1> QED
  BY <1>3, RepoKeepsAccounts, PTL

-----------------------------------------------------------------------------
(* The credits, with exchanges.  The argument is the pool's, told of the    *)
(* pool that PollingImplementsPool finds here: an answer is late from the   *)
(* read of the accrual service on, on its way back too.                     *)

Overtaken(o) == {w \in Workers : PoolAt[w] = "update" /\ holding[w] = o /\ PoolReply[w][1] = "PROCESSING"}

AnswersAreTrue ==
  \A w \in Workers : PoolAt[w] = "update" =>
    /\ holding[w] \in Orders
    /\ PoolReply[w] \in {<<"PROCESSING", 0>>, <<"INVALID", 0>>, <<"PROCESSED", award[holding[w]]>>}
    /\ PoolReply[w][1] = "INVALID" => calc[holding[w]] = "INVALID"
    /\ PoolReply[w][1] = "PROCESSED" => calc[holding[w]] = "PROCESSED"

CreditsFit(o) ==
  /\ status[o] = "PROCESSED" =>
       credits[o] >= 1 /\ credits[o] + Cardinality(Overtaken(o)) <= Cardinality(Workers)
  /\ status[o] # "PROCESSED" =>
       credits[o] = 0 \/ credits[o] + Cardinality(Overtaken(o)) + 1 <= Cardinality(Workers)

CreditedInv ==
  /\ AnswersAreTrue
  /\ UnownedIsNew
  /\ SettledAsCalculated
  /\ \A o \in Orders : CreditsFit(o)

LEMMA OvertakenIsFinite ==
  ASSUME NEW o
  PROVE  /\ Overtaken(o) \subseteq Workers /\ IsFiniteSet(Overtaken(o))
         /\ Cardinality(Overtaken(o)) \in Nat /\ Cardinality(Workers) \in Nat
         /\ Cardinality(Overtaken(o)) <= Cardinality(Workers)
<1>1. Overtaken(o) \subseteq Workers
  BY DEF Overtaken
<1> QED
  BY <1>1, FS_Subset, FS_CardinalityType

\* Of fewer late answers there are fewer, by one at least when one is gone.
LEMMA FewerOvertaken ==
  ASSUME NEW o, NEW S \in SUBSET Overtaken(o)
  PROVE  /\ Cardinality(S) \in Nat /\ Cardinality(S) <= Cardinality(Overtaken(o))
         /\ \A w \in Overtaken(o) \ S : Cardinality(S) + 1 <= Cardinality(Overtaken(o))
         /\ \A w \in Workers \ Overtaken(o) : Cardinality(S) + 1 <= Cardinality(Workers)
<1>1. IsFiniteSet(Overtaken(o)) /\ Overtaken(o) \subseteq Workers
  BY OvertakenIsFinite
<1>2. IsFiniteSet(S) /\ Cardinality(S) <= Cardinality(Overtaken(o)) /\ Cardinality(S) \in Nat
  BY <1>1, FS_Subset, FS_CardinalityType
<1>3. ASSUME NEW w, w \notin S PROVE IsFiniteSet(S \cup {w}) /\ Cardinality(S \cup {w}) = Cardinality(S) + 1
  BY <1>2, <1>3, FS_AddElement
<1>4. ASSUME NEW w \in Overtaken(o) \ S PROVE Cardinality(S) + 1 <= Cardinality(Overtaken(o))
  <2>1. S \cup {w} \subseteq Overtaken(o)
    BY <1>4
  <2>2. Cardinality(S \cup {w}) <= Cardinality(Overtaken(o))
    BY <1>1, <2>1, FS_Subset
  <2> QED
    BY <1>3, <1>4, <2>2
<1>5. ASSUME NEW w \in Workers \ Overtaken(o) PROVE Cardinality(S) + 1 <= Cardinality(Workers)
  <2>1. S \cup {w} \subseteq Workers /\ w \notin S
    BY <1>1, <1>5
  <2>2. Cardinality(S \cup {w}) <= Cardinality(Workers)
    BY <2>1, FS_Subset
  <2> QED
    BY <1>3, <2>1, <2>2
<1> QED
  BY <1>2, <1>4, <1>5

LEMMA CreditedTypes ==
  ASSUME PollingInv
  PROVE  /\ credits \in [Orders -> Nat] /\ status \in [Orders -> Statuses] /\ accrual \in [Orders -> Nat]
         /\ owner \in [Orders -> Users \cup {NoUser}]
         /\ calc \in [Orders -> Calculations] /\ award \in [Orders -> Nat]
BY DEF PollingInv, PollingTypeOK, PoolTypeOK, RepoTypeOK

LEMMA CreditedInit == ASSUME PollingInit PROVE CreditedInv
<1>1. PoolAt = [w \in Workers |-> "select"]
  BY PhasesAreExchanges DEF PollingInit, Init, PoolAt, Read, Phase
<1>2. UnownedIsNew /\ SettledAsCalculated
  BY InitInv DEF PollingInit, PoolInv
<1>3. AnswersAreTrue
  BY <1>1 DEF AnswersAreTrue
<1>4. \A o \in Orders : CreditsFit(o)
  BY DEF PollingInit, Init, RepoInit, CreditsFit
<1> QED
  BY <1>2, <1>3, <1>4 DEF CreditedInv

\* A step in which no worker is told anything and the database is left alone.
LEMMA NothingTold ==
  ASSUME PollingInv, CreditedInv, UNCHANGED <<owner, status, accrual, credits, calc, award>>,
         \A w \in Workers : PoolAt'[w] = "update" =>
           PoolAt[w] = "update" /\ holding'[w] = holding[w] /\ PoolReply'[w] = PoolReply[w]
  PROVE  CreditedInv'
<1>1. AnswersAreTrue'
  BY DEF CreditedInv, AnswersAreTrue
<1>2. UnownedIsNew' /\ SettledAsCalculated'
  BY DEF CreditedInv, UnownedIsNew, SettledAsCalculated
<1>3. ASSUME NEW o \in Orders PROVE CreditsFit(o)'
  <2>1. Overtaken(o)' \subseteq Overtaken(o)
    BY DEF Overtaken
  <2>2. Cardinality(Overtaken(o)') \in Nat /\ Cardinality(Overtaken(o)') <= Cardinality(Overtaken(o))
    BY <2>1, FewerOvertaken
  <2>3. credits[o] \in Nat /\ CreditsFit(o)
    BY CreditedTypes DEF CreditedInv
  <2> QED
    BY <2>2, <2>3, OvertakenIsFinite DEF CreditsFit
<1> QED
  BY <1>1, <1>2, <1>3 DEF CreditedInv

\* What a step of worker w does to the workers.
LEMMA PoolWorkerTo ==
  ASSUME PollingInv, NEW w \in Workers, NEW p, NEW o, NEW r, Pool!WorkerTo(w, p, o, r)
  PROVE  /\ PoolAt'[w] = p /\ holding'[w] = o /\ PoolReply'[w] = r
         /\ UNCHANGED <<calc, award>>
         /\ \A v \in Workers \ {w} :
              PoolAt'[v] = PoolAt[v] /\ holding'[v] = holding[v] /\ PoolReply'[v] = PoolReply[v]
<1>1. /\ PoolAt' = [PoolAt EXCEPT ![w] = p] /\ holding' = [holding EXCEPT ![w] = o]
      /\ PoolReply' = [PoolReply EXCEPT ![w] = r] /\ UNCHANGED <<calc, award>>
  BY DEF Pool!WorkerTo, Pool!calcVars
<1>2. /\ PoolAt = [v \in Workers |-> PoolAt[v]] /\ PoolReply = [v \in Workers |-> PoolReply[v]]
      /\ holding = [v \in Workers |-> holding[v]]
  BY PoolFunctions DEF PoolAt, PoolReply
<1> QED
  BY <1>1, <1>2

\* The read: "still in progress" is told only while nothing has been credited.
LEMMA ReadCredited ==
  ASSUME PollingInv, CreditedInv, NEW w \in Workers, holding[w] \in Orders, Pool!GetOrder(w)
  PROVE  CreditedInv'
<1> DEFINE h == holding[w]
           r == MapStatus(calc[h], award[h])
<1>1. /\ Pool!WorkerTo(w, "update", h, r) /\ calc[h] # "UNREGISTERED"
      /\ UNCHANGED <<owner, status, accrual, credits>>
  BY DEF Pool!GetOrder, Pool!repoVars, Pool!orderVars, MapStatus, Pool!MapStatus
<1>2. /\ r \in {<<"PROCESSING", 0>>, <<"INVALID", 0>>, <<"PROCESSED", award[h]>>}
      /\ r[1] = "INVALID" => calc[h] = "INVALID"
      /\ r[1] = "PROCESSED" => calc[h] = "PROCESSED"
      /\ r[1] = "PROCESSING" => calc[h] # "PROCESSED"
  BY <1>1, CreditedTypes DEF MapStatus, Calculations, Concluded
<1>3. /\ PoolAt'[w] = "update" /\ holding'[w] = h /\ PoolReply'[w] = r /\ UNCHANGED <<calc, award>>
      /\ \A v \in Workers \ {w} :
           PoolAt'[v] = PoolAt[v] /\ holding'[v] = holding[v] /\ PoolReply'[v] = PoolReply[v]
  BY <1>1, PoolWorkerTo
<1> HIDE DEF r
<1>4. AnswersAreTrue'
  BY <1>2, <1>3 DEF CreditedInv, AnswersAreTrue
<1>5. UnownedIsNew' /\ SettledAsCalculated'
  BY <1>1, <1>3 DEF CreditedInv, UnownedIsNew, SettledAsCalculated
<1>6. ASSUME NEW o \in Orders PROVE CreditsFit(o)'
  <2>1. credits[o] \in Nat /\ CreditsFit(o)
    BY CreditedTypes DEF CreditedInv
  <2>2. CASE o = h /\ r[1] = "PROCESSING"
    <3>1. status[o] # "PROCESSED" /\ credits[o] = 0
      BY <1>2, <2>1, <2>2 DEF CreditedInv, SettledAsCalculated
    <3> QED
      BY <1>1, <3>1 DEF CreditsFit
  <2>3. CASE ~(o = h /\ r[1] = "PROCESSING")
    <3>1. Overtaken(o)' \subseteq Overtaken(o)
      BY <1>3, <2>3 DEF Overtaken
    <3>2. Cardinality(Overtaken(o)') \in Nat /\ Cardinality(Overtaken(o)') <= Cardinality(Overtaken(o))
      BY <3>1, FewerOvertaken
    <3> QED
      BY <1>1, <2>1, <3>2, OvertakenIsFinite DEF CreditsFit
  <2> QED
    BY <2>2, <2>3
<1> QED
  BY <1>4, <1>5, <1>6 DEF CreditedInv

\* A late answer that undoes PROCESSED is used up, and a credit is made by a
\* worker whose answer was not late.
LEMMA StoreCredited ==
  ASSUME PollingInv, CreditedInv, NEW w \in Workers, Pool!StoreReply(w)
  PROVE  CreditedInv'
<1> DEFINE h == holding[w]
           s == PoolReply[w][1]
           a == PoolReply[w][2]
<1>1. /\ PoolAt[w] = "update" /\ h \in Orders
      /\ PoolReply[w] \in {<<"PROCESSING", 0>>, <<"INVALID", 0>>, <<"PROCESSED", award[h]>>}
      /\ s = "INVALID" => calc[h] = "INVALID"
      /\ s = "PROCESSED" => calc[h] = "PROCESSED"
  BY DEF Pool!StoreReply, CreditedInv, AnswersAreTrue
<1>2. /\ s \in {"PROCESSING", "INVALID", "PROCESSED"}
      /\ s = "PROCESSED" => a = award[h]
      /\ s # "PROCESSED" => a = 0
  BY <1>1
<1>3. /\ owner[h] # NoUser /\ owner' = owner
      /\ status' = [status EXCEPT ![h] = s] /\ accrual' = [accrual EXCEPT ![h] = a]
      /\ status[h] # "PROCESSED" /\ s = "PROCESSED" => credits' = [credits EXCEPT ![h] = @ + 1]
      /\ ~(status[h] # "PROCESSED" /\ s = "PROCESSED") => credits' = credits
  BY DEF Pool!StoreReply, Pool!UpdateOrderStatus, Pool!AddsAward
<1>4. /\ PoolAt'[w] = "select" /\ UNCHANGED <<calc, award>>
      /\ \A v \in Workers \ {w} :
           PoolAt'[v] = PoolAt[v] /\ holding'[v] = holding[v] /\ PoolReply'[v] = PoolReply[v]
  BY PoolWorkerTo DEF Pool!StoreReply, Pool!Idle
<1> HIDE DEF h, s, a
<1>5. AnswersAreTrue'
  BY <1>4 DEF CreditedInv, AnswersAreTrue
<1>6. UnownedIsNew'
  BY <1>1, <1>3, CreditedTypes DEF CreditedInv, UnownedIsNew
<1>7. SettledAsCalculated'
  BY <1>1, <1>2, <1>3, <1>4, CreditedTypes DEF CreditedInv, SettledAsCalculated
<1>8. ASSUME NEW o \in Orders PROVE CreditsFit(o)'
  <2>1. Overtaken(o)' \subseteq Overtaken(o) /\ w \notin Overtaken(o)'
    BY <1>4 DEF Overtaken
  <2>2. /\ Cardinality(Overtaken(o)') \in Nat /\ Cardinality(Overtaken(o)') <= Cardinality(Overtaken(o))
        /\ w \in Overtaken(o) => Cardinality(Overtaken(o)') + 1 <= Cardinality(Overtaken(o))
        /\ w \notin Overtaken(o) => Cardinality(Overtaken(o)') + 1 <= Cardinality(Workers)
    BY <2>1, FewerOvertaken
  <2>3. credits[o] \in Nat /\ CreditsFit(o)
    BY CreditedTypes DEF CreditedInv
  <2>4. CASE o # h
    <3>1. status'[o] = status[o] /\ credits'[o] = credits[o]
      BY <1>1, <1>3, <2>4, CreditedTypes
    <3> QED
      BY <2>2, <2>3, <3>1, OvertakenIsFinite DEF CreditsFit
  <2>5. CASE o = h /\ s = "PROCESSED"
    <3>1. status'[o] = "PROCESSED" /\ w \notin Overtaken(o)
      BY <1>1, <1>3, <2>5, CreditedTypes DEF Overtaken, s
    <3>2. credits'[o] = IF status[o] = "PROCESSED" THEN credits[o] ELSE credits[o] + 1
      BY <1>1, <1>3, <2>5, CreditedTypes
    <3> QED
      BY <2>2, <2>3, <3>1, <3>2, OvertakenIsFinite DEF CreditsFit
  <2>6. CASE o = h /\ s = "INVALID"
    <3>1. status'[o] = "INVALID" /\ credits'[o] = credits[o]
      BY <1>1, <1>3, <2>6, CreditedTypes
    <3>2. credits[o] = 0
      BY <1>1, <2>3, <2>6 DEF CreditedInv, SettledAsCalculated
    <3> QED
      BY <3>1, <3>2 DEF CreditsFit
  <2>7. CASE o = h /\ s = "PROCESSING"
    <3>1. status'[o] = "PROCESSING" /\ credits'[o] = credits[o]
      BY <1>1, <1>3, <2>7, CreditedTypes
    <3>2. w \in Overtaken(o)
      BY <1>1, <2>7 DEF Overtaken, s, h
    <3> QED
      BY <2>2, <2>3, <3>1, <3>2, OvertakenIsFinite DEF CreditsFit
  <2> QED
    BY <1>2, <2>4, <2>5, <2>6, <2>7
<1> QED
  BY <1>5, <1>6, <1>7, <1>8 DEF CreditedInv

LEMMA UploadCredited == ASSUME PollingInv, CreditedInv, NEW u \in Users, NEW o \in Orders, Pool!Upload(u, o) PROVE CreditedInv'
<1>1. /\ owner[o] = NoUser /\ owner' = [owner EXCEPT ![o] = u]
      /\ status' = [status EXCEPT ![o] = "NEW"] /\ accrual' = [accrual EXCEPT ![o] = 0]
      /\ UNCHANGED <<credits, calc, award, PoolAt, holding, PoolReply>>
  BY DEF Pool!Upload, Pool!CreateOrder, Pool!calcVars, Pool!poolVars, Pool!workerVars
<1>2. status' = status /\ accrual' = accrual
  BY <1>1, CreditedTypes DEF CreditedInv, UnownedIsNew
<1>3. AnswersAreTrue' /\ SettledAsCalculated'
  BY <1>1, <1>2 DEF CreditedInv, AnswersAreTrue, SettledAsCalculated
<1>4. UnownedIsNew'
  BY <1>1, <1>2, CreditedTypes DEF CreditedInv, UnownedIsNew
<1>5. \A p \in Orders : CreditsFit(p)'
  BY <1>1, <1>2 DEF CreditedInv, CreditsFit, Overtaken
<1> QED
  BY <1>3, <1>4, <1>5 DEF CreditedInv

LEMMA AccrualCredited == ASSUME PollingInv, CreditedInv, NEW o \in Orders, Pool!AccrualStep(o) PROVE CreditedInv'
<1>1. UNCHANGED <<owner, status, accrual, credits, PoolAt, holding, PoolReply>>
  BY DEF Pool!AccrualStep, Pool!repoVars, Pool!orderVars, Pool!poolVars, Pool!workerVars
<1>2. /\ calc[o] \notin {"PROCESSED", "INVALID"}
      /\ \A p \in Orders \ {o} : calc'[p] = calc[p] /\ award'[p] = award[p]
  BY CreditedTypes DEF Pool!AccrualStep, Pool!Calculate, Pool!RegisterOrder, Pool!SetProcessing,
     Pool!SetInvalid, Pool!SetProcessed
<1>3. AnswersAreTrue'
  <2> SUFFICES ASSUME NEW w \in Workers, PoolAt[w] = "update"
               PROVE  /\ holding[w] \in Orders
                      /\ PoolReply[w] \in {<<"PROCESSING", 0>>, <<"INVALID", 0>>, <<"PROCESSED", award'[holding[w]]>>}
                      /\ PoolReply[w][1] = "INVALID" => calc'[holding[w]] = "INVALID"
                      /\ PoolReply[w][1] = "PROCESSED" => calc'[holding[w]] = "PROCESSED"
    BY <1>1 DEF AnswersAreTrue
  <2>1. CASE holding[w] # o
    BY <1>2, <2>1 DEF CreditedInv, AnswersAreTrue
  <2>2. CASE holding[w] = o
    BY <1>2, <2>2 DEF CreditedInv, AnswersAreTrue
  <2> QED
    BY <2>1, <2>2
<1>4. UnownedIsNew' /\ SettledAsCalculated'
  BY <1>1, <1>2 DEF CreditedInv, UnownedIsNew, SettledAsCalculated
<1>5. \A p \in Orders : CreditsFit(p)'
  BY <1>1 DEF CreditedInv, CreditsFit, Overtaken
<1> QED
  BY <1>3, <1>4, <1>5 DEF CreditedInv

LEMMA CreditedStep ==
  ASSUME PollingInv, CreditedInv, [Pool!Next]_(Pool!vars),
         \A w \in Workers : Pool!GetOrder(w) => holding[w] \in Orders
  PROVE  CreditedInv'
<1>1. CASE Pool!PullerStep
  <2>1. UNCHANGED <<owner, status, accrual, credits, calc, award, PoolAt, holding, PoolReply>>
    BY <1>1 DEF Pool!PullerStep, Pool!PullerStops, Pool!ReceiveRateLimit, Pool!WaitIsOver, Pool!Tick,
       Pool!ListOrders, Pool!ListingFails, Pool!QueueingStops, Pool!ListIsQueued, Pool!QueueOrder,
       Pool!PullerTo, Pool!repoVars, Pool!orderVars, Pool!calcVars, Pool!workerVars
  <2> QED
    BY <2>1, NothingTold
<1>2. ASSUME NEW w \in Workers, Pool!WorkerStep(w), ~Pool!GetOrder(w), ~Pool!StoreReply(w) PROVE CreditedInv'
  <2>1. PICK p \in {"call", "done", "signal", "select"} : \E o, r : Pool!WorkerTo(w, p, o, r)
    BY <1>2 DEF Pool!WorkerStep, Pool!TakeJob, Pool!WorkerStops, Pool!TooManyRequests,
       Pool!CallFails, Pool!SignalRateLimit, Pool!StoringFails, Pool!Idle
  <2>2. PICK o, r : Pool!WorkerTo(w, p, o, r)
    BY <2>1
  <2>3. UNCHANGED <<owner, status, accrual, credits>>
    BY <1>2 DEF Pool!WorkerStep, Pool!TakeJob, Pool!WorkerStops, Pool!TooManyRequests,
       Pool!CallFails, Pool!SignalRateLimit, Pool!StoringFails, Pool!repoVars, Pool!orderVars
  <2>4. /\ PoolAt'[w] # "update" /\ UNCHANGED <<calc, award>>
        /\ \A v \in Workers \ {w} :
             PoolAt'[v] = PoolAt[v] /\ holding'[v] = holding[v] /\ PoolReply'[v] = PoolReply[v]
    BY <2>2, PoolWorkerTo
  <2> QED
    BY <2>3, <2>4, NothingTold
<1>3. CASE Pool!Cancel \/ UNCHANGED Pool!vars
  <2>1. UNCHANGED <<owner, status, accrual, credits, calc, award, PoolAt, holding, PoolReply>>
    BY <1>3 DEF Pool!Cancel, Pool!vars, Pool!repoVars, Pool!orderVars, Pool!calcVars, Pool!poolVars, Pool!workerVars
  <2> QED
    BY <2>1, NothingTold
<1>4. CASE Pool!Restart
  <2>1. /\ UNCHANGED <<owner, status, accrual, credits, calc, award>>
        /\ \A w \in Workers : PoolAt'[w] = "select"
    BY <1>4 DEF Pool!Restart, Pool!repoVars, Pool!orderVars, Pool!calcVars
  <2> QED
    BY <2>1, NothingTold
<1> QED
  BY <1>1, <1>2, <1>3, <1>4, ReadCredited, StoreCredited, UploadCredited, AccrualCredited DEF Pool!Next

(***************************************************************************)
(* With every step of the exchanges: what a worker was told and has not    *)
(* stored yet is true or late, and the credits of an order and the late    *)
(* answers about it are together at most as many as there are workers.     *)
(* The steps of the pool that PollingImplementsPool finds preserve it.     *)
(***************************************************************************)
THEOREM PollingCreditsBounded == PollingSpec => [](CreditsBounded /\ SettledAsCalculated)
<1>1. PollingInit => CreditedInv
  BY CreditedInit
<1>2. ASSUME PollingInv, CreditedInv, [PollingNext]_pollingVars PROVE CreditedInv'
  <2>1. ASSUME NEW w \in Workers, Pool!GetOrder(w) PROVE holding[w] \in Orders
    <3>1. PoolAt[w] = "call"
      BY <2>1 DEF Pool!GetOrder
    <3>2. workerAt[w] = "call"
      BY <3>1, <1>2, PoolAtWorker
    <3> QED
      BY <1>2, <3>2 DEF PollingInv, WorkersHold
  <2> QED
    BY <1>2, <2>1, PollingStepMaps, CreditedStep
<1>3. PollingInv /\ CreditedInv => CreditsBounded /\ SettledAsCalculated
  <2> SUFFICES ASSUME PollingInv, CreditedInv, NEW o \in Orders
               PROVE  /\ credits[o] <= Cardinality(Workers)
                      /\ status[o] = "PROCESSED" => credits[o] >= 1
    BY DEF CreditsBounded, CreditedInv
  <2>1. credits[o] \in Nat /\ CreditsFit(o)
    BY CreditedTypes DEF CreditedInv
  <2> QED
    BY <2>1, OvertakenIsFinite DEF CreditsFit
<1> QED
  BY <1>1, <1>2, <1>3, PollingInvariant, PTL DEF PollingSpec

-----------------------------------------------------------------------------
(* The pause.  What can still be asked while the puller waits: the orders   *)
(* in the jobs channel, and those of the workers that have not asked yet.   *)

Unsent == {w \in Workers : workerAt[w] = "call" /\ exchange[w] = NoExchange}

PauseInv ==
  IF pullerAt = "wait"
  THEN asked + Len(jobs) + Cardinality(Unsent) <= JobsCapacity + Cardinality(Workers)
  ELSE asked = 0

LEMMA UnsentSize ==
  /\ Cardinality(Workers) \in Nat /\ JobsCapacity \in Nat
  /\ IsFiniteSet(Unsent) /\ Cardinality(Unsent) \in Nat
  /\ Cardinality(Unsent) <= Cardinality(Workers)
<1>1. Unsent \subseteq Workers
  BY DEF Unsent
<1>2. IsFiniteSet(Unsent) /\ Cardinality(Unsent) <= Cardinality(Workers)
  BY <1>1, FS_Subset
<1>3. Cardinality(Workers) \in Nat /\ Cardinality(Unsent) \in Nat
  BY <1>2, FS_CardinalityType
<1> QED
  BY <1>2, <1>3 DEF JobsCapacity

\* A step after which no more is left to ask.
LEMMA NothingAdded ==
  ASSUME PollingTypeOK, PollingTypeOK', PauseInv, Unsent' \subseteq Unsent,
         UNCHANGED <<pullerAt, asked, jobs>>
  PROVE  PauseInv'
<1>1. Cardinality(Unsent') <= Cardinality(Unsent) /\ Cardinality(Unsent') \in Nat
  BY UnsentSize, FS_Subset, FS_CardinalityType
<1>2. asked \in Nat /\ Len(jobs) \in Nat
  BY DEF PollingTypeOK, PoolTypeOK
<1> QED
  BY <1>1, <1>2, UnsentSize DEF PauseInv

LEMMA TakeJobPause ==
  ASSUME PollingInv, PollingTypeOK', PauseInv, NEW w \in Workers, OffLine(w), TakeJob(w)
  PROVE  PauseInv'
<1>1. jobs # <<>> /\ jobs' = Tail(jobs) /\ UNCHANGED <<pullerAt, asked, exchange>>
  BY DEF OffLine, TakeJob, WorkerTo, pullerVars
<1>2. workerAt[w] = "select" /\ workerAt' = [workerAt EXCEPT ![w] = "call"]
  BY DEF TakeJob, WorkerTo
<1>3. asked \in Nat /\ jobs \in Seq(Orders) /\ Len(jobs) \in Nat
  BY DEF PollingInv, PollingTypeOK, PoolTypeOK
<1>4. Len(jobs') = Len(jobs) - 1
  BY <1>1, <1>3
<1>5. Unsent' \subseteq Unsent \cup {w} /\ w \notin Unsent
  BY <1>1, <1>2 DEF Unsent
<1>6. Cardinality(Unsent \cup {w}) = Cardinality(Unsent) + 1 /\ IsFiniteSet(Unsent \cup {w})
  BY <1>5, UnsentSize, FS_AddElement
<1>7. Cardinality(Unsent') <= Cardinality(Unsent) + 1 /\ Cardinality(Unsent') \in Nat
  BY <1>5, <1>6, FS_Subset, FS_CardinalityType
<1> QED
  BY <1>1, <1>3, <1>4, <1>7, UnsentSize DEF PauseInv

LEMMA RequestPause ==
  ASSUME PollingInv, PauseInv, NEW w \in Workers, Request(w) PROVE PauseInv'
<1>1. /\ w \in Unsent /\ exchange' = [exchange EXCEPT ![w] = Exchange("sent")]
      /\ asked' = IF pullerAt = "wait" THEN asked + 1 ELSE asked
      /\ UNCHANGED <<pullerAt, jobs, workerAt>>
  BY DEF Request, ExchangeTo, Unsent, vars, poolVars, pullerVars, workerVars
<1>2. Unsent' \subseteq Unsent \ {w}
  BY <1>1, PoolFunctions, PhasesAreExchanges DEF Unsent
<1>3. Cardinality(Unsent \ {w}) = Cardinality(Unsent) - 1 /\ IsFiniteSet(Unsent \ {w})
  BY <1>1, UnsentSize, FS_RemoveElement
<1>4. Cardinality(Unsent') <= Cardinality(Unsent) - 1 /\ Cardinality(Unsent') \in Nat
  BY <1>2, <1>3, FS_Subset, FS_CardinalityType
<1>5. asked \in Nat /\ Len(jobs) \in Nat
  BY DEF PollingInv, PollingTypeOK, PoolTypeOK
<1> QED
  BY <1>1, <1>4, <1>5, UnsentSize DEF PauseInv

LEMMA PauseStep ==
  ASSUME PollingInv, PollingInv', PauseInv, [PollingNext]_pollingVars PROVE PauseInv'
<1>1. PollingTypeOK /\ PollingTypeOK'
  BY DEF PollingInv
<1>2. CASE Pulls
  <2>1. asked' = 0 /\ Len(jobs') <= JobsCapacity /\ Len(jobs') \in Nat
    BY <1>1, <1>2 DEF Pulls, PollingTypeOK, PoolTypeOK, JobsCapacity
  <2>2. Cardinality(Unsent') <= Cardinality(Workers) /\ Cardinality(Unsent') \in Nat
    <3>1. Unsent' \subseteq Workers
      BY DEF Unsent
    <3> QED
      BY <3>1, FS_Subset, FS_CardinalityType
  <2> QED
    BY <2>1, <2>2, UnsentSize DEF PauseInv
<1>3. ASSUME NEW w \in Workers, OffLine(w) PROVE PauseInv'
  <2>1. CASE TakeJob(w)
    BY <1>1, <1>3, <2>1, TakeJobPause
  <2>2. CASE ~TakeJob(w)
    <3>1. /\ UNCHANGED <<pullerAt, asked, jobs, exchange>>
          /\ \E p \in {"select", "done"} : workerAt' = [workerAt EXCEPT ![w] = p]
      BY <1>3, <2>2 DEF OffLine, WorkerStops, SignalRateLimit, StoreReply, StoringFails, Idle,
         WorkerTo, pullerVars
    <3>2. Unsent' \subseteq Unsent
      BY <3>1, PoolFunctions DEF Unsent
    <3> QED
      BY <1>1, <3>1, <3>2, NothingAdded
  <2> QED
    BY <2>1, <2>2
<1>4. ASSUME NEW w \in Workers, ClientStep(w) PROVE PauseInv'
  <2>1. CASE Request(w)
    BY <2>1, RequestPause
  <2>2. CASE ~Request(w)
    <3>1. /\ UNCHANGED <<pullerAt, asked, jobs>>
          /\ exchange' = [exchange EXCEPT ![w] = NoExchange]
          /\ \E p \in {"update", "signal", "select"} : workerAt' = [workerAt EXCEPT ![w] = p]
      BY <1>4, <2>2 DEF ClientStep, ReceiveOrder, ReceiveTooManyRequests, ReceiveRefusal,
         RequestFails, Receives, ExchangeTo, WorkerTo, pullerVars
    <3>2. Unsent' \subseteq Unsent
      BY <3>1, PoolFunctions DEF Unsent
    <3> QED
      BY <1>1, <3>1, <3>2, NothingAdded
  <2> QED
    BY <2>1, <2>2
<1>5. ASSUME NEW w \in Workers, ServerStep(w) PROVE PauseInv'
  <2>1. /\ UNCHANGED <<pullerAt, asked, jobs, workerAt>>
        /\ Phase(w) \in {"sent", "exists"}
        /\ \E e : exchange' = [exchange EXCEPT ![w] = e] /\ e[1] # "none"
    BY <1>5, PhasesAreExchanges DEF ServerStep, OrderExists, OrderNotFound, GetByNumber,
       ServiceFails, Throttle, Serves, ExchangeTo, vars, poolVars, pullerVars, workerVars
  <2>2. Unsent' \subseteq Unsent
    BY <2>1, PoolFunctions, PhasesAreExchanges DEF Unsent
  <2> QED
    BY <1>1, <2>1, <2>2, NothingAdded
<1>6. CASE Around \/ UNCHANGED pollingVars
  <2>1. UNCHANGED <<pullerAt, asked, jobs, workerAt, exchange>>
    BY <1>6 DEF Around, Upload, AccrualStep, Cancel, pollingVars, vars, poolVars, pullerVars, workerVars
  <2> QED
    BY <1>1, <2>1, NothingAdded DEF Unsent
<1>7. CASE PollingRestart
  BY <1>7 DEF PollingRestart, Restart, PauseInv
<1> QED
  BY <1>2, <1>3, <1>4, <1>5, <1>6, <1>7 DEF PollingNext

(***************************************************************************)
(* While the puller waits, however long it was asked to, at most one       *)
(* request for each order of a full jobs channel and one for each worker   *)
(* leave.                                                                  *)
(***************************************************************************)
THEOREM PollingPauseIsBounded == PollingSpec => []PauseIsBounded
<1>1. PollingInit => PauseInv
  BY DEF PollingInit, Init, PauseInv
<1>2. PollingInv /\ PollingInv' /\ PauseInv /\ [PollingNext]_pollingVars => PauseInv'
  BY PauseStep
<1>3. PollingInv /\ PauseInv => PauseIsBounded
  <2>1. ASSUME PollingInv PROVE asked \in Nat /\ Len(jobs) \in Nat
    BY <2>1 DEF PollingInv, PollingTypeOK, PoolTypeOK
  <2> QED
    BY <2>1, UnsentSize DEF PauseInv, PauseIsBounded
<1> QED
  BY <1>1, <1>2, <1>3, PollingInvariant, PTL DEF PollingSpec
=============================================================================
