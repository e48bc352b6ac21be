---------------------------- MODULE AccrualService ----------------------------
(***************************************************************************)
(* The accrual service statement by statement (internal/accrual): POST     *)
(* /api/orders stores an order and starts a goroutine that calculates its  *)
(* award, POST /api/goods stores a reward rule.  The variables of          *)
(* AccrualContract are the stored orders, so the refinement mapping is the *)
(* identity.                                                               *)
(*                                                                         *)
(* Each statement is a transaction of its own.  It may fail, with or       *)
(* without an effect, and the process may crash, which loses its requests  *)
(* and its goroutines and none of the rows.                                *)
(***************************************************************************)
EXTENDS AccrualContract, Rewards

CONSTANTS
  Posts,        \* requests, each of an order or of a rule
  Baskets,      \* goods of an order, a sequence
  Rules,        \* reward rules: a key (match), a type, a reward
  MaxFailures,  \* bound of the model: how many statements fail
  MaxCrashes    \* bound of the model: how often the process crashes

ASSUME ServiceAssumption ==
  /\ MaxFailures \in Nat /\ MaxCrashes \in Nat
  /\ \A goods \in Baskets : \A R \in SUBSET Rules : \A rows \in RowsOf(R) : ProcessOrder(rows, goods) \subseteq Amounts

VARIABLES
  basket,     \* the goods column of a stored order
  rules,      \* the stored rules
  post,       \* what a request asks for
  at,         \* the next statement of a request
  response,   \* what it was answered
  job,        \* the next statement of the goroutine a request has started
  result,     \* what the goroutine will store
  rulesAt,    \* history: the rules stored when the order was
  failures, crashes

requestVars == <<at, response>>
jobVars == <<job, result>>
serviceVars == <<calcVars, basket, rules, post, requestVars, jobVars, rulesAt, failures, crashes>>

OrderPosts == [kind : {"order"}, order : Orders, goods : Baskets]
RulePosts == [kind : {"rule"}, rule : Rules]

NoResult == <<"NONE", 0>>

ServiceInit ==
  /\ CalcInit
  /\ basket = [o \in Orders |-> <<>>]
  /\ rules = {}
  /\ post \in [Posts -> OrderPosts \cup RulePosts]
  /\ at = [p \in Posts |-> "exists"]
  /\ response = [p \in Posts |-> "none"]
  /\ job = [p \in Posts |-> "none"]
  /\ result = [p \in Posts |-> NoResult]
  /\ rulesAt = [o \in Orders |-> {}]
  /\ failures = 0 /\ crashes = 0

IsAt(p, kind, s) == post[p].kind = kind /\ at[p] = s
Order(p) == post[p].order

Goes(p, s) == at' = [at EXCEPT ![p] = s] /\ UNCHANGED response
Responds(p, a) == at' = [at EXCEPT ![p] = "done"] /\ response' = [response EXCEPT ![p] = a]

\* A statement fails; the request or the goroutine sees an error.
Failure == failures < MaxFailures /\ failures' = failures + 1

Stored(o) == calc[o] # "UNREGISTERED"

-----------------------------------------------------------------------------
(* RegisterOrder *)

OrderExists(p) ==
  /\ IsAt(p, "order", "exists")
  /\ \/ Stored(Order(p)) /\ Responds(p, "conflict")
     \/ ~Stored(Order(p)) /\ Goes(p, "insert")
  /\ UNCHANGED <<calcVars, basket, rules, post, jobVars, rulesAt, failures, crashes>>

\* Mutant of InsertOrder: the number is no primary key.
InsertOrderAnyway(p) ==
  /\ IsAt(p, "order", "insert")
  /\ calc' = [calc EXCEPT ![Order(p)] = "REGISTERED"]
  /\ basket' = [basket EXCEPT ![Order(p)] = post[p].goods]
  /\ rulesAt' = [rulesAt EXCEPT ![Order(p)] = rules]
  /\ UNCHANGED <<award, rules, post, jobVars, crashes>>

\* Mutant of InsertOrder: the status is one of gophermart.
InsertOrderAsNew(p) ==
  /\ IsAt(p, "order", "insert")
  /\ ~Stored(Order(p))
  /\ calc' = [calc EXCEPT ![Order(p)] = "NEW"]
  /\ basket' = [basket EXCEPT ![Order(p)] = post[p].goods]
  /\ rulesAt' = [rulesAt EXCEPT ![Order(p)] = rules]
  /\ UNCHANGED <<award, rules, post, jobVars, crashes>>

\* INSERT INTO accrual.orders, whose primary key is the number.
InsertOrder(p) ==
  /\ IsAt(p, "order", "insert")
  /\ ~Stored(Order(p))
  /\ calc' = [calc EXCEPT ![Order(p)] = "REGISTERED"]
  /\ basket' = [basket EXCEPT ![Order(p)] = post[p].goods]
  /\ rulesAt' = [rulesAt EXCEPT ![Order(p)] = rules]
  /\ UNCHANGED <<award, rules, post, jobVars, crashes>>

CreateOrder(p) == InsertOrder(p) /\ Goes(p, "start") /\ UNCHANGED failures

\* The order is stored, and the goroutine is never started.
CreateUnanswered(p) == InsertOrder(p) /\ Responds(p, "failed") /\ Failure

\* The handler knows the violated key for no more than an error.
CreateDuplicate(p) ==
  /\ IsAt(p, "order", "insert")
  /\ Stored(Order(p))
  /\ Responds(p, "failed")
  /\ UNCHANGED <<calcVars, basket, rules, post, jobVars, rulesAt, failures, crashes>>

StartJob(p) ==
  /\ IsAt(p, "order", "start")
  /\ job' = [job EXCEPT ![p] = "setProcessing"]
  /\ Responds(p, "accepted")
  /\ UNCHANGED <<calcVars, basket, rules, post, result, rulesAt, failures, crashes>>

-----------------------------------------------------------------------------
(* The goroutine of an order. *)

JobGoes(p, s, r) ==
  /\ job' = [job EXCEPT ![p] = s]
  /\ result' = [result EXCEPT ![p] = r]
  /\ UNCHANGED <<basket, rules, post, requestVars, rulesAt, crashes>>

\* Mutant of Save: the accrual is not written.
SaveNullAward(o, s, a) ==
  /\ calc' = [calc EXCEPT ![o] = s]
  /\ award' = [award EXCEPT ![o] = 0]

\* UpdateStatusAndAccrual, whatever is stored; NULL is no award.
Save(o, s, a) ==
  /\ calc' = [calc EXCEPT ![o] = s]
  /\ award' = [award EXCEPT ![o] = a]

JobSetsProcessing(p) ==
  /\ job[p] = "setProcessing"
  /\ Save(Order(p), "PROCESSING", 0)
  /\ JobGoes(p, "calculate", NoResult)
  /\ UNCHANGED failures

\* The error is ignored.
SettingProcessingFails(p) ==
  /\ job[p] = "setProcessing"
  /\ Failure
  /\ JobGoes(p, "calculate", NoResult)
  /\ UNCHANGED calcVars

\* Mutant of JobCalculates: without rules the order is left alone.
JobCalculatesNothing(p) ==
  /\ job[p] = "calculate"
  /\ \/ rules = {} /\ JobGoes(p, "done", NoResult)
     \/ /\ rules # {}
        /\ \E rows \in RowsOf(rules) : \E a \in ProcessOrder(rows, post[p].goods) :
             JobGoes(p, "save", <<"PROCESSED", a>>)
  /\ UNCHANGED <<calcVars, failures>>

\* processOrder: all rules are read, and the award calculated from them.
JobCalculates(p) ==
  /\ job[p] = "calculate"
  /\ \E rows \in RowsOf(rules) : \E a \in ProcessOrder(rows, post[p].goods) :
       JobGoes(p, "save", <<"PROCESSED", a>>)
  /\ UNCHANGED <<calcVars, failures>>

\* The rules cannot be read.
CalculationFails(p) ==
  /\ job[p] = "calculate"
  /\ Failure
  /\ JobGoes(p, "save", <<"INVALID", 0>>)
  /\ UNCHANGED calcVars

JobSaves(p) ==
  /\ job[p] = "save"
  /\ Save(Order(p), result[p][1], result[p][2])
  /\ JobGoes(p, "done", NoResult)
  /\ UNCHANGED failures

\* The error is ignored: the order stays as it is.
SavingFails(p) ==
  /\ job[p] = "save"
  /\ Failure
  /\ JobGoes(p, "done", NoResult)
  /\ UNCHANGED calcVars

-----------------------------------------------------------------------------
(* RegisterReward *)

KeyStored(p) == \E rule \in rules : rule.match = post[p].rule.match

RuleExists(p) ==
  /\ IsAt(p, "rule", "exists")
  /\ \/ KeyStored(p) /\ Responds(p, "conflict")
     \/ ~KeyStored(p) /\ Goes(p, "insert")
  /\ UNCHANGED <<calcVars, basket, rules, post, jobVars, rulesAt, failures, crashes>>

\* Mutant of InsertRule: the key is no primary key.
InsertRuleAnyway(p) ==
  /\ IsAt(p, "rule", "insert")
  /\ rules' = rules \cup {post[p].rule}
  /\ UNCHANGED <<calcVars, basket, post, jobVars, rulesAt, crashes>>

\* INSERT INTO accrual.reward_rules, whose primary key is the key.
InsertRule(p) ==
  /\ IsAt(p, "rule", "insert")
  /\ ~KeyStored(p)
  /\ rules' = rules \cup {post[p].rule}
  /\ UNCHANGED <<calcVars, basket, post, jobVars, rulesAt, crashes>>

CreateRule(p) ==
  /\ InsertRule(p)
  /\ \/ Responds(p, "accepted") /\ UNCHANGED failures
     \/ Responds(p, "failed") /\ Failure

CreateRuleDuplicate(p) ==
  /\ IsAt(p, "rule", "insert")
  /\ KeyStored(p)
  /\ Responds(p, "failed")
  /\ UNCHANGED <<calcVars, basket, rules, post, jobVars, rulesAt, failures, crashes>>

-----------------------------------------------------------------------------
\* A SELECT or an INSERT fails without effect.
StatementFails(p) ==
  /\ at[p] \in {"exists", "insert"}
  /\ Failure
  /\ Responds(p, "failed")
  /\ UNCHANGED <<calcVars, basket, rules, post, jobVars, rulesAt, crashes>>

\* The process crashes and is started again; nothing looks for stored orders
\* that are not concluded.
Crash ==
  /\ crashes < MaxCrashes
  /\ crashes' = crashes + 1
  /\ at' = [p \in Posts |-> IF at[p] = "exists" THEN "exists" ELSE "done"]
  /\ job' = [p \in Posts |-> IF job[p] = "none" THEN "none" ELSE "done"]
  /\ result' = [p \in Posts |-> NoResult]
  /\ UNCHANGED <<calcVars, basket, rules, post, response, rulesAt, failures>>

Quiet ==
  /\ \A p \in Posts : at[p] = "done" /\ job[p] \in {"none", "done"}
  /\ UNCHANGED serviceVars

RequestStep(p) ==
  \/ OrderExists(p) \/ CreateOrder(p) \/ CreateUnanswered(p) \/ CreateDuplicate(p) \/ StartJob(p)
  \/ RuleExists(p) \/ CreateRule(p) \/ CreateRuleDuplicate(p)

JobStep(p) ==
  \/ JobSetsProcessing(p) \/ SettingProcessingFails(p)
  \/ JobCalculates(p) \/ CalculationFails(p)
  \/ JobSaves(p) \/ SavingFails(p)

ServiceNext ==
  \/ \E p \in Posts : RequestStep(p) \/ StatementFails(p) \/ JobStep(p)
  \/ Crash
  \/ Quiet

ServiceSpec == ServiceInit /\ [][ServiceNext]_serviceVars

\* The Go scheduler runs every goroutine, and a statement ends.
FairServiceSpec ==
  ServiceSpec /\ \A p \in Posts : WF_serviceVars(RequestStep(p)) /\ WF_serviceVars(JobStep(p))

-----------------------------------------------------------------------------
ServiceTypeOK ==
  /\ calc \in [Orders -> Calculations]
  /\ award \in [Orders -> Amounts \cup {0}]
  /\ basket \in [Orders -> Baskets \cup {<<>>}]
  /\ rules \subseteq Rules
  /\ post \in [Posts -> OrderPosts \cup RulePosts]
  /\ at \in [Posts -> {"exists", "insert", "start", "done"}]
  /\ response \in [Posts -> {"none", "accepted", "conflict", "failed"}]
  /\ job \in [Posts -> {"none", "setProcessing", "calculate", "save", "done"}]
  /\ result \in [Posts -> ({"PROCESSED"} \X Amounts) \cup {<<"INVALID", 0>>, NoResult}]
  /\ rulesAt \in [Orders -> SUBSET Rules]
  /\ failures \in 0..MaxFailures /\ crashes \in 0..MaxCrashes

(***************************************************************************)
(* The service keeps AccrualContract, on which the worker pool relies: a   *)
(* calculation only moves forward, a concluded one never changes.          *)
(* UpdateStatusAndAccrual checks nothing; one goroutine per stored order,  *)
(* whatever requests overlap, is what makes it so.                         *)
(***************************************************************************)
ServiceKeepsContract == CalcSpec

(***************************************************************************)
(* An award is calculated from the goods that are stored with the order,   *)
(* with every rule that was registered when the order was accepted and     *)
(* with no rule that was not: rules registered during the calculation may  *)
(* or may not count.                                                       *)
(***************************************************************************)
AwardFollowsRules ==
  \A o \in Orders : calc[o] = "PROCESSED" =>
    \E R \in SUBSET rules :
      /\ rulesAt[o] \subseteq R
      /\ \E rows \in RowsOf(R) : award[o] \in ProcessOrder(rows, basket[o])

(***************************************************************************)
(* A number is accepted (202) once and a key (200) once; two rules never   *)
(* share a key, however the checks for existence overlap.                  *)
(***************************************************************************)
RegisteredOnce ==
  /\ \A r, q \in rules : r.match = q.match => r = q
  /\ \A p, q \in Posts :
       response[p] = "accepted" /\ response[q] = "accepted" /\ p # q =>
         \/ post[p].kind # post[q].kind
         \/ post[p].kind = "order" /\ Order(p) # Order(q)
         \/ post[p].kind = "rule" /\ post[p].rule.match # post[q].rule.match

(***************************************************************************)
(* SPECIFICATION.md:464 and :502: an order or a key that is registered     *)
(* already is answered 409.  Without a failed statement no request is      *)
(* answered 500.                                                           *)
(***************************************************************************)
DuplicateIsConflict == \A p \in Posts : response[p] = "failed" => failures > 0

Accepted(o) == \E p \in Posts : post[p].kind = "order" /\ post[p].order = o /\ response[p] = "accepted"

\* A goroutine is calculating the order.
AtWork(o) ==
  \E p \in Posts :
    post[p].kind = "order" /\ Order(p) = o /\ job[p] \in {"setProcessing", "calculate", "save"}

(***************************************************************************)
(* No accepted order is forgotten: it is concluded or its goroutine is at  *)
(* work, however requests for it and for rules overlap.  Only a failed     *)
(* statement (whose error setOrderProcessed and setOrderInvalid ignore) or *)
(* a crash can leave one behind.                                           *)
(***************************************************************************)
NoneIsForgotten ==
  failures = 0 /\ crashes = 0 =>
    \A o \in Orders : Accepted(o) => calc[o] \in Concluded \/ AtWork(o)

(***************************************************************************)
(* An accepted order is concluded in the end (SPECIFICATION.md:462: 202    *)
(* means that it was taken into processing).                               *)
(***************************************************************************)
AcceptedIsConcluded == \A o \in Orders : Accepted(o) ~> calc[o] \in Concluded
=============================================================================
