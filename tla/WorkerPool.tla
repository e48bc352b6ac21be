------------------------------ MODULE WorkerPool ------------------------------
(***************************************************************************)
(* The accrual worker pool of gophermart (service/accrual/poller.go): one  *)
(* puller goroutine lists the unsettled orders every interval and queues   *)
(* them, the workers ask the accrual service about each queued order and   *)
(* store what it answered.                                                 *)
(*                                                                         *)
(* The repository is the atomic one (RepositoryTx implements it), the      *)
(* accrual service is its contract.  Around the pool: users upload orders, *)
(* the process is told to stop (SIGTERM cancels the context), crashes, and *)
(* is started again; the database and the accrual service survive it.      *)
(* Balances are not spent here: withdrawals touch no order.                *)
(***************************************************************************)
EXTENDS Repository, AccrualContract, FiniteSets

CONSTANTS
  Workers,    \* the worker goroutines
  NoOrder,    \* what an idle worker holds
  Delays,     \* Retry-After of a 429 answer: 0 when it is missing or zero
  JobsPerWorker,  \* room in the jobs channel, per worker (2 in the code)
  MaxStops    \* bound of the model: how often the process is stopped

ASSUME WorkerPoolAssumption ==
  /\ IsFiniteSet(Workers)
  /\ NoOrder \notin Orders
  /\ Delays \subseteq Nat
  /\ JobsPerWorker \in Nat \ {0}
  /\ MaxStops \in Nat

VARIABLES
  ctxDone,    \* the context of Run is cancelled
  pullerAt,   \* the statement of the puller
  listing,    \* the status it lists in this tick
  batch,      \* orders it has listed and not queued
  jobs,       \* the jobs channel
  rateLimit,  \* the rateLimitChan channel
  workerAt,   \* the statement of a worker
  holding,    \* the order a worker handles
  reply,      \* what it will store, or the pause it will announce
  stops       \* how often the process was stopped

pullerVars == <<pullerAt, listing, batch>>
workerVars == <<workerAt, holding, reply>>
poolVars == <<ctxDone, pullerVars, jobs, rateLimit, workerVars>>
vars == <<repoVars, calcVars, poolVars, stops>>

JobsCapacity == JobsPerWorker * Cardinality(Workers)
RateLimitCapacity == Cardinality(Workers)

NoReply == <<"NONE", 0>>
Replies == Settlements \cup ({"RETRY"} \X Delays) \cup {NoReply}

Init ==
  /\ RepoInit
  /\ \A o \in Orders : owner[o] = NoUser
  /\ CalcInit
  /\ ctxDone = FALSE
  /\ pullerAt = "select" /\ listing = "NEW" /\ batch = {}
  /\ jobs = <<>>
  /\ rateLimit = <<>>
  /\ workerAt = [w \in Workers |-> "select"]
  /\ holding = [w \in Workers |-> NoOrder]
  /\ reply = [w \in Workers |-> NoReply]
  /\ stops = 0

-----------------------------------------------------------------------------
(* The puller.  A select with several ready cases takes any of them.        *)

PullerTo(p) == pullerAt' = p /\ UNCHANGED <<repoVars, calcVars, ctxDone, workerVars, stops>>

\* Mutant of PullerStops: the select of the loop does not watch the context.
PullerStopsMutant ==
  /\ ctxDone
  /\ pullerAt = "wait"
  /\ PullerTo("done")
  /\ UNCHANGED <<listing, batch, jobs, rateLimit>>

PullerStops ==
  /\ ctxDone
  /\ pullerAt \in {"select", "wait"}
  /\ PullerTo("done")
  /\ UNCHANGED <<listing, batch, jobs, rateLimit>>

\* A positive Retry-After makes the puller wait, and it alone.
ReceiveRateLimit ==
  /\ pullerAt = "select"
  /\ rateLimit # <<>>
  /\ rateLimit' = Tail(rateLimit)
  /\ PullerTo(IF Head(rateLimit) > 0 THEN "wait" ELSE "select")
  /\ UNCHANGED <<listing, batch, jobs>>

WaitIsOver ==
  /\ pullerAt = "wait"
  /\ PullerTo("select")
  /\ UNCHANGED <<listing, batch, jobs, rateLimit>>

Tick ==
  /\ pullerAt = "select"
  /\ PullerTo("list")
  /\ listing' = "NEW"
  /\ UNCHANGED <<batch, jobs, rateLimit>>

\* GetOrdersByStatus; an error counts as an empty list.
ListOrders ==
  /\ pullerAt = "list"
  /\ ~ctxDone
  /\ batch' = {o \in Orders : owner[o] # NoUser /\ status[o] = listing}
  /\ PullerTo("queue")
  /\ UNCHANGED <<listing, jobs, rateLimit>>

ListingFails ==
  /\ pullerAt = "list"
  /\ batch' = {}
  /\ PullerTo("queue")
  /\ UNCHANGED <<listing, jobs, rateLimit>>

\* Mutant of QueueOrder: the channel has no bound.
QueueOrderMutant(o) ==
  /\ pullerAt = "queue"
  /\ o \in batch
  /\ jobs' = Append(jobs, o)
  /\ batch' = batch \ {o}
  /\ PullerTo("queue")
  /\ UNCHANGED <<listing, rateLimit>>

\* The orders of a list are queued in any order here, newest first in the code.
QueueOrder(o) ==
  /\ pullerAt = "queue"
  /\ o \in batch
  /\ Len(jobs) < JobsCapacity
  /\ jobs' = Append(jobs, o)
  /\ batch' = batch \ {o}
  /\ PullerTo("queue")
  /\ UNCHANGED <<listing, rateLimit>>

QueueingStops ==
  /\ ctxDone
  /\ pullerAt = "queue"
  /\ batch # {}
  /\ batch' = {}
  /\ PullerTo("select")
  /\ UNCHANGED <<listing, jobs, rateLimit>>

\* Mutant of ListIsQueued: only NEW orders are listed.
ListIsQueuedMutant ==
  /\ pullerAt = "queue"
  /\ batch = {}
  /\ PullerTo("select")
  /\ UNCHANGED <<listing, batch, jobs, rateLimit>>

ListIsQueued ==
  /\ pullerAt = "queue"
  /\ batch = {}
  /\ \/ listing = "NEW" /\ listing' = "PROCESSING" /\ PullerTo("list")
     \/ listing = "PROCESSING" /\ UNCHANGED listing /\ PullerTo("select")
  /\ UNCHANGED <<batch, jobs, rateLimit>>

-----------------------------------------------------------------------------
(* The workers. *)

WorkerTo(w, p, o, r) ==
  /\ workerAt' = [workerAt EXCEPT ![w] = p]
  /\ holding' = [holding EXCEPT ![w] = o]
  /\ reply' = [reply EXCEPT ![w] = r]
  /\ UNCHANGED <<calcVars, ctxDone, pullerVars, stops>>

Idle(w) == WorkerTo(w, "select", NoOrder, NoReply)

TakeJob(w) ==
  /\ workerAt[w] = "select"
  /\ jobs # <<>>
  /\ jobs' = Tail(jobs)
  /\ WorkerTo(w, "call", Head(jobs), NoReply)
  /\ UNCHANGED <<repoVars, rateLimit>>

\* The context is cancelled, or the puller has closed the channel and it is empty.
WorkerStops(w) ==
  /\ workerAt[w] = "select"
  /\ ctxDone \/ (pullerAt = "done" /\ jobs = <<>>)
  /\ WorkerTo(w, "done", NoOrder, NoReply)
  /\ UNCHANGED <<repoVars, jobs, rateLimit>>

\* Mutant of MapStatus: an invalid order takes the case of a processed one.
MapStatusMutant(s, a) ==
  IF s \in {"REGISTERED", "PROCESSING"} THEN <<"PROCESSING", 0>> ELSE <<"PROCESSED", a>>

\* mapStatus: what to store for an answer of the accrual service.
MapStatus(s, a) ==
  CASE s \in {"REGISTERED", "PROCESSING"} -> <<"PROCESSING", 0>>
    [] s = "INVALID" -> <<"INVALID", 0>>
    [] s = "PROCESSED" -> <<"PROCESSED", a>>

\* GetOrder of the client: the accrual service reads the order now.
GetOrder(w) ==
  /\ workerAt[w] = "call"
  /\ LET o == holding[w]
     IN /\ calc[o] # "UNREGISTERED"
        /\ WorkerTo(w, "update", o, MapStatus(calc[o], award[o]))
  /\ UNCHANGED <<repoVars, jobs, rateLimit>>

TooManyRequests(w) ==
  /\ workerAt[w] = "call"
  /\ \E d \in Delays : WorkerTo(w, "signal", holding[w], <<"RETRY", d>>)
  /\ UNCHANGED <<repoVars, jobs, rateLimit>>

\* Not registered, a timeout, another status or body: the order is dropped
\* until a later tick.
CallFails(w) ==
  /\ workerAt[w] = "call"
  /\ Idle(w)
  /\ UNCHANGED <<repoVars, jobs, rateLimit>>

\* The send never blocks: without room the pause is forgotten.
SignalRateLimit(w) ==
  /\ workerAt[w] = "signal"
  /\ \/ /\ Len(rateLimit) < RateLimitCapacity
        /\ rateLimit' = Append(rateLimit, reply[w][2])
     \/ /\ Len(rateLimit) = RateLimitCapacity \/ ctxDone
        /\ UNCHANGED rateLimit
  /\ Idle(w)
  /\ UNCHANGED <<repoVars, jobs>>

StoreReply(w) ==
  /\ workerAt[w] = "update"
  /\ UpdateOrderStatus(holding[w], reply[w][1], reply[w][2])
  /\ Idle(w)
  /\ UNCHANGED <<jobs, rateLimit>>

StoringFails(w) ==
  /\ workerAt[w] = "update"
  /\ Idle(w)
  /\ UNCHANGED <<repoVars, jobs, rateLimit>>

-----------------------------------------------------------------------------
(* Around the pool. *)

Upload(u, o) == CreateOrder(u, o) /\ UNCHANGED <<calcVars, poolVars, stops>>

AccrualStep(o) == Calculate(o) /\ UNCHANGED <<repoVars, poolVars, stops>>

\* SIGTERM or SIGINT.
Cancel ==
  /\ ~ctxDone
  /\ stops < MaxStops
  /\ ctxDone' = TRUE
  /\ stops' = stops + 1
  /\ UNCHANGED <<repoVars, calcVars, pullerVars, jobs, rateLimit, workerVars>>

\* What poller.Wait in main waits for.
AllStopped == pullerAt = "done" /\ \A w \in Workers : workerAt[w] = "done"

\* The process is started again, after it has stopped or crashed: a new pool
\* (NewWorkerPool and Run) under a new context.
Restart ==
  /\ \/ AllStopped /\ UNCHANGED stops
     \/ ~AllStopped /\ stops < MaxStops /\ stops' = stops + 1
  /\ ctxDone' = FALSE
  /\ pullerAt' = "select" /\ listing' = "NEW" /\ batch' = {}
  /\ jobs' = <<>>
  /\ rateLimit' = <<>>
  /\ workerAt' = [w \in Workers |-> "select"]
  /\ holding' = [w \in Workers |-> NoOrder]
  /\ reply' = [w \in Workers |-> NoReply]
  /\ UNCHANGED <<repoVars, calcVars>>

PullerStep ==
  \/ PullerStops \/ ReceiveRateLimit \/ WaitIsOver \/ Tick
  \/ ListOrders \/ ListingFails \/ QueueingStops \/ ListIsQueued
  \/ \E o \in Orders : QueueOrder(o)

WorkerStep(w) ==
  \/ TakeJob(w) \/ WorkerStops(w)
  \/ GetOrder(w) \/ TooManyRequests(w) \/ CallFails(w) \/ SignalRateLimit(w)
  \/ StoreReply(w) \/ StoringFails(w)

Next ==
  \/ PullerStep
  \/ \E w \in Workers : WorkerStep(w)
  \/ \E u \in Users, o \in Orders : Upload(u, o)
  \/ \E o \in Orders : AccrualStep(o)
  \/ Cancel
  \/ Restart

Spec == Init /\ [][Next]_vars

-----------------------------------------------------------------------------
PoolTypeOK ==
  /\ RepoTypeOK
  /\ calc \in [Orders -> Calculations]
  /\ award \in [Orders -> Nat]
  /\ ctxDone \in BOOLEAN
  /\ pullerAt \in {"select", "wait", "list", "queue", "done"}
  /\ listing \in {"NEW", "PROCESSING"}
  /\ batch \subseteq Orders
  /\ jobs \in Seq(Orders) /\ Len(jobs) <= JobsCapacity
  /\ rateLimit \in Seq(Delays) /\ Len(rateLimit) <= RateLimitCapacity
  /\ workerAt \in [Workers -> {"select", "call", "signal", "update", "done"}]
  /\ holding \in [Workers -> Orders \cup {NoOrder}]
  /\ reply \in [Workers -> Replies]
  /\ stops \in 0..MaxStops

(***************************************************************************)
(* An order is settled the way the accrual service concluded, with the     *)
(* award it calculated, and an account is never credited before that, in   *)
(* whatever order the answers of the service reach the database.           *)
(***************************************************************************)
SettledAsCalculated ==
  \A o \in Orders :
    /\ status[o] = "PROCESSED" => calc[o] = "PROCESSED" /\ accrual[o] = award[o]
    /\ status[o] = "INVALID" => calc[o] = "INVALID"
    /\ status[o] \in {"NEW", "PROCESSING"} => accrual[o] = 0
    /\ credits[o] > 0 => calc[o] = "PROCESSED"

(***************************************************************************)
(* A processed order has been credited, and no order is credited more      *)
(* often than there are workers: a further credit needs a worker that      *)
(* stores a late "still in progress" over PROCESSED, and once the          *)
(* calculation is concluded no worker gets such an answer any more.  The   *)
(* process runs five (DefaultWorkers), so this is as far as the damage of  *)
(* a second credit goes, not that there is none (CreditedOnce).            *)
(***************************************************************************)
CreditsBounded ==
  \A o \in Orders :
    /\ credits[o] <= Cardinality(Workers)
    /\ status[o] = "PROCESSED" => credits[o] >= 1

(***************************************************************************)
(* The award of an order is added to the balance once, as                  *)
(* TestUpdateOrderStatus_AddsAccrualOnce asks of UpdateOrderStatus.        *)
(***************************************************************************)
CreditedOnce == \A o \in Orders : credits[o] <= 1

(***************************************************************************)
(* An uploaded order whose calculation is concluded is settled for good,   *)
(* unless the process is told to stop: no answer, pause, failed request,   *)
(* failed write, full queue or crash leaves it behind for ever.            *)
(***************************************************************************)
Settled(o) == status[o] = calc[o]
OrdersAreSettled ==
  \A o \in Orders :
    (owner[o] # NoUser /\ calc[o] \in Concluded) ~> (ctxDone \/ []Settled(o))

(***************************************************************************)
(* A cancelled pool comes to its end, so poller.Wait returns: neither the  *)
(* puller on a full queue nor a worker on a full rateLimitChan is stuck.   *)
(***************************************************************************)
PoolStops == ctxDone ~> (AllStopped \/ ~ctxDone)
=============================================================================
