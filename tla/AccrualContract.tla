---------------------------- MODULE AccrualContract ----------------------------
(***************************************************************************)
(* What the accrual service promises whoever asks it about an order        *)
(* (GET /api/orders/{number}): a calculation only moves forward, and a     *)
(* concluded one never changes (internal/accrual/service/order.go).        *)
(* RegisterOrder stores the order and answers; a goroutine of its own then *)
(* calculates and stores the result.                                       *)
(***************************************************************************)
EXTENDS Domain

VARIABLES
  calc,       \* the stored status, UNREGISTERED while the order is not stored
  award       \* the stored accrual

calcVars == <<calc, award>>

Concluded == {"PROCESSED", "INVALID"}
Calculations == {"UNREGISTERED", "REGISTERED", "PROCESSING"} \cup Concluded

CalcInit ==
  /\ calc = [o \in Orders |-> "UNREGISTERED"]
  /\ award = [o \in Orders |-> 0]

RegisterOrder(o) ==
  /\ calc[o] = "UNREGISTERED"
  /\ calc' = [calc EXCEPT ![o] = "REGISTERED"]
  /\ UNCHANGED award

\* A failed write is ignored, so an order may be concluded without it.
SetProcessing(o) ==
  /\ calc[o] = "REGISTERED"
  /\ calc' = [calc EXCEPT ![o] = "PROCESSING"]
  /\ UNCHANGED award

SetInvalid(o) ==
  /\ calc[o] \in {"REGISTERED", "PROCESSING"}
  /\ calc' = [calc EXCEPT ![o] = "INVALID"]
  /\ UNCHANGED award

SetProcessed(o, a) ==
  /\ calc[o] \in {"REGISTERED", "PROCESSING"}
  /\ calc' = [calc EXCEPT ![o] = "PROCESSED"]
  /\ award' = [award EXCEPT ![o] = a]

Calculate(o) ==
  \/ RegisterOrder(o) \/ SetProcessing(o) \/ SetInvalid(o)
  \/ \E a \in Amounts : SetProcessed(o, a)

CalcSpec == CalcInit /\ [][\E o \in Orders : Calculate(o)]_calcVars
=============================================================================
