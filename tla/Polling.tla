-------------------------------- MODULE Polling --------------------------------
(***************************************************************************)
(* The worker pool with its HTTP exchanges: what WorkerPool takes as one   *)
(* step, a worker that asks the accrual service about an order, is here a  *)
(* request on its way (client.go), a handler of the accrual service that   *)
(* looks the order up twice (handler.go, service/order.go), and an answer  *)
(* on its way back, which the order may overtake.  A request may be given  *)
(* up at any moment, with the handler or the answer under way; the handler *)
(* only reads, so one that nobody waits for is of no consequence.          *)
(***************************************************************************)
EXTENDS WorkerPool

VARIABLES
  exchange,   \* the request of a worker: <<how far it is, status, number>>
  asked       \* history: requests sent since the puller began to wait

pollingVars == <<vars, exchange, asked>>

Exchange(phase) == <<phase, "UNREGISTERED", 0>>
NoExchange == Exchange("none")
Exchanges ==
  {Exchange(p) : p \in {"none", "sent", "exists", "refused"}}
    \cup {"200"} \X {"REGISTERED", "PROCESSING", "INVALID"} \X {0}
    \cup {"200"} \X {"PROCESSED"} \X Amounts
    \cup {"429"} \X {"UNREGISTERED"} \X Delays

Phase(w) == exchange[w][1]

PollingInit ==
  /\ Init
  /\ exchange = [w \in Workers |-> NoExchange]
  /\ asked = 0

ExchangeTo(w, e) == exchange' = [exchange EXCEPT ![w] = e]

-----------------------------------------------------------------------------
(* The client.  GetOrder of client.go sends one request and waits for it.   *)

Request(w) ==
  /\ workerAt[w] = "call"
  /\ exchange[w] = NoExchange
  /\ ExchangeTo(w, Exchange("sent"))
  /\ asked' = IF pullerAt = "wait" THEN asked + 1 ELSE asked
  /\ UNCHANGED vars

Receives(w, p, o, r) ==
  /\ WorkerTo(w, p, o, r)
  /\ ExchangeTo(w, NoExchange)
  /\ UNCHANGED <<repoVars, jobs, rateLimit, asked>>

ReceiveOrder(w) ==
  /\ Phase(w) = "200"
  /\ Receives(w, "update", holding[w], MapStatus(exchange[w][2], exchange[w][3]))

ReceiveTooManyRequests(w) ==
  /\ Phase(w) = "429"
  /\ Receives(w, "signal", holding[w], <<"RETRY", exchange[w][3]>>)

\* Mutant of ReceiveRefusal: an order that is not registered counts as invalid.
ReceiveRefusalMutant(w) ==
  /\ Phase(w) = "refused"
  /\ Receives(w, "update", holding[w], <<"INVALID", 0>>)

\* 204 or 500: the order is dropped until a later tick.
ReceiveRefusal(w) ==
  /\ Phase(w) = "refused"
  /\ Receives(w, "select", NoOrder, NoReply)

\* Mutant of RequestFails: a failed request is sent again at once.
RequestFailsMutant(w) ==
  /\ workerAt[w] = "call"
  /\ Receives(w, "call", holding[w], NoReply)

\* No connection, the timeout of the client, a cancelled context, a body that
\* is not JSON: whatever the service had done for the request is lost.
RequestFails(w) ==
  /\ workerAt[w] = "call"
  /\ Receives(w, "select", NoOrder, NoReply)

-----------------------------------------------------------------------------
(* The accrual service, for the request of worker w.                        *)

Serves(w, e) == ExchangeTo(w, e) /\ UNCHANGED <<vars, asked>>

\* Mutant of OrderExists: the handler does not look whether there is an order.
OrderExistsMutant(w) ==
  /\ Phase(w) = "sent"
  /\ Serves(w, Exchange("exists"))

\* IsOrderExists.
OrderExists(w) ==
  /\ Phase(w) = "sent"
  /\ calc[holding[w]] # "UNREGISTERED"
  /\ Serves(w, Exchange("exists"))

\* 204, which the client treats like a 500: no property tells them apart.
OrderNotFound(w) ==
  /\ Phase(w) = "sent"
  /\ calc[holding[w]] = "UNREGISTERED"
  /\ Serves(w, Exchange("refused"))

\* GetByNumber; the answer holds what is stored at this moment.
GetByNumber(w) ==
  /\ Phase(w) = "exists"
  /\ Serves(w, <<"200", calc[holding[w]], award[holding[w]]>>)

\* 500: one of the two reads fails.
ServiceFails(w) ==
  /\ Phase(w) \in {"sent", "exists"}
  /\ Serves(w, Exchange("refused"))

\* The service of this repository never does; the client expects it of others.
Throttle(w) ==
  /\ Phase(w) = "sent"
  /\ \E d \in Delays : Serves(w, <<"429", "UNREGISTERED", d>>)

-----------------------------------------------------------------------------
ClientStep(w) ==
  \/ Request(w) \/ ReceiveOrder(w) \/ ReceiveTooManyRequests(w)
  \/ ReceiveRefusal(w) \/ RequestFails(w)

\* The steps of a worker that are not part of a request.
OffLine(w) ==
  /\ TakeJob(w) \/ WorkerStops(w) \/ SignalRateLimit(w) \/ StoreReply(w) \/ StoringFails(w)
  /\ UNCHANGED <<exchange, asked>>

ServerStep(w) ==
  \/ OrderExists(w) \/ OrderNotFound(w) \/ GetByNumber(w)
  \/ ServiceFails(w) \/ Throttle(w)

\* A wait of the puller begins or ends with a step of it.
Pulls == PullerStep /\ asked' = 0 /\ UNCHANGED exchange

Around ==
  /\ \/ \E u \in Users, o \in Orders : Upload(u, o)
     \/ \E o \in Orders : AccrualStep(o)
     \/ Cancel
  /\ UNCHANGED <<exchange, asked>>

\* The requests of the old process end with it.
PollingRestart ==
  /\ Restart
  /\ exchange' = [w \in Workers |-> NoExchange]
  /\ asked' = 0

PollingNext ==
  \/ Pulls
  \/ \E w \in Workers : ClientStep(w) \/ OffLine(w) \/ ServerStep(w)
  \/ Around
  \/ PollingRestart

PollingSpec == PollingInit /\ [][PollingNext]_pollingVars

(***************************************************************************)
(* The Go scheduler runs every goroutine; a timer fires, the timeout of a  *)
(* request among them, and a call to the repository ends (NoCircularWait). *)
(* A select takes each of its cases when it is ready often enough (the     *)
(* choice is uniformly random).  A listing, a request about one order and  *)
(* its update that are tried again and again succeed in the end; nothing   *)
(* else is asked of the accrual service.                                   *)
(***************************************************************************)
PollingFairness ==
  /\ WF_pollingVars(Pulls)
  /\ SF_pollingVars(Pulls /\ PullerStops)
  /\ SF_pollingVars(Pulls /\ Tick)
  /\ \A s \in {"NEW", "PROCESSING"} : SF_pollingVars(listing = s /\ Pulls /\ ListOrders)
  /\ \A w \in Workers :
       /\ WF_pollingVars(ClientStep(w) \/ OffLine(w))
       /\ \A o \in Orders :
            /\ SF_pollingVars(holding[w] = o /\ Request(w))
            /\ SF_pollingVars(holding[w] = o /\ OrderExists(w))
            /\ SF_pollingVars(holding[w] = o /\ GetByNumber(w))
            /\ SF_pollingVars(holding[w] = o /\ ReceiveOrder(w))
            /\ SF_pollingVars(holding[w] = o /\ OffLine(w) /\ StoreReply(w))

FairPollingSpec == PollingSpec /\ PollingFairness

-----------------------------------------------------------------------------
PollingTypeOK ==
  /\ PoolTypeOK
  /\ exchange \in [Workers -> Exchanges]
  /\ asked \in Nat

(***************************************************************************)
(* While the puller waits because the accrual service has asked it to, no  *)
(* more requests leave than the jobs channel has room for, and one for     *)
(* each worker that had a job when the wait began: nothing is queued (the  *)
(* pause in runPuller) and no request is repeated by the client.           *)
(***************************************************************************)
PauseIsBounded == asked <= JobsCapacity + Cardinality(Workers)

(***************************************************************************)
(* The pool that asks in one step.  The moment that counts is the read of  *)
(* the accrual service: from then on the worker holds a reply, and giving  *)
(* up the request is failing to store it.                                  *)
(***************************************************************************)
Read(w) == Phase(w) = "200"

PoolAt == [w \in Workers |-> IF Read(w) THEN "update" ELSE workerAt[w]]
PoolReply ==
  [w \in Workers |->
    IF Read(w) THEN MapStatus(exchange[w][2], exchange[w][3]) ELSE reply[w]]

Pool == INSTANCE WorkerPool WITH workerAt <- PoolAt, reply <- PoolReply

(***************************************************************************)
(* Whatever is lost, late or given up between a worker and the handlers of *)
(* the accrual service, the pool with its exchanges does what the pool     *)
(* with atomic questions may do.                                           *)
(***************************************************************************)
PollingRefinesPool == Pool!Spec
=============================================================================
