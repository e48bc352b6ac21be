-------------------------- MODULE AccrualService_proofs --------------------------
(***************************************************************************)
(* The accrual service keeps the contract the worker pool relies on.       *)
(* UpdateStatusAndAccrual overwrites whatever is stored; the invariant     *)
(* says why that is harmless: the primary key leaves at most one request,  *)
(* or the goroutine it started, at work on an order (Alone), and the order *)
(* is not concluded before the goroutine has ended (WorkInProgress).       *)
(*                                                                         *)
(* The last part is about the calculation the goroutine makes, and about   *)
(* the check of an order number, as Calculation states them.               *)
(***************************************************************************)
EXTENDS AccrualService, Calculation, Sums_proofs

\* The request has stored its order, and it or its goroutine goes on with it.
Working(p) == at[p] = "start" \/ job[p] \in {"setProcessing", "calculate", "save"}

WorkInProgress ==
  \A p \in Posts :
    /\ Working(p) => post[p].kind = "order" /\ calc[Order(p)] \in {"REGISTERED", "PROCESSING"}
    /\ at[p] = "start" \/ job[p] = "setProcessing" => calc[Order(p)] = "REGISTERED"
    /\ at[p] # "done" => job[p] = "none"
    /\ job[p] = "save" => result[p] # NoResult

Alone == \A p, q \in Posts : Working(p) /\ Working(q) /\ Order(p) = Order(q) => p = q

NoEarlyAward == \A o \in Orders : calc[o] # "PROCESSED" => award[o] = 0

ServiceInv == ServiceTypeOK /\ WorkInProgress /\ Alone /\ NoEarlyAward

LEMMA PostType ==
  ASSUME ServiceTypeOK, NEW p \in Posts
  PROVE  /\ post[p].kind = "order" => Order(p) \in Orders /\ post[p].goods \in Baskets
         /\ post[p].kind = "rule" => post[p].rule \in Rules
         /\ post[p].kind \in {"order", "rule"}
<1>1. post[p] \in OrderPosts \cup RulePosts
  BY DEF ServiceTypeOK
<1>2. CASE post[p] \in OrderPosts
  BY <1>2 DEF OrderPosts, Order
<1>3. CASE post[p] \in RulePosts
  BY <1>3 DEF RulePosts
<1> QED
  BY <1>1, <1>2, <1>3

LEMMA InitServiceInv == ServiceInit => ServiceInv
<1> SUFFICES ASSUME ServiceInit PROVE ServiceInv
  OBVIOUS
<1>1. ServiceTypeOK
  BY ServiceAssumption DEF ServiceInit, CalcInit, ServiceTypeOK, Calculations, NoResult
<1>2. WorkInProgress /\ Alone /\ NoEarlyAward
  BY DEF ServiceInit, CalcInit, WorkInProgress, Alone, NoEarlyAward, Working
<1> QED
  BY <1>1, <1>2 DEF ServiceInv

-----------------------------------------------------------------------------
(* The steps, by what they do to the orders at work.                        *)

\* A request answers or goes on without touching an order or a goroutine.
LEMMA RequestMovesInv ==
  ASSUME ServiceInv, NEW p \in Posts, at[p] \in {"exists", "insert"},
         NEW s \in {"insert", "done"}, at' = [at EXCEPT ![p] = s],
         response' \in [Posts -> {"none", "accepted", "conflict", "failed"}],
         UNCHANGED <<calcVars, basket, post, jobVars, rulesAt, crashes>>,
         rules' \subseteq Rules, failures' \in 0..MaxFailures
  PROVE  ServiceInv'
<1>1. ServiceTypeOK'
  BY DEF ServiceInv, ServiceTypeOK, calcVars, jobVars
<1>2. \A q \in Posts : Working(q)' <=> Working(q)
  BY DEF ServiceInv, ServiceTypeOK, Working, jobVars
<1>3. WorkInProgress'
  BY <1>2 DEF ServiceInv, ServiceTypeOK, WorkInProgress, Order, calcVars, jobVars, Working
<1>4. Alone' /\ NoEarlyAward'
  BY <1>2 DEF ServiceInv, Alone, NoEarlyAward, Order, calcVars
<1> QED
  BY <1>1, <1>3, <1>4 DEF ServiceInv

\* An order is stored: nobody was at work on it.
LEMMA InsertOrderInv ==
  ASSUME ServiceInv, NEW p \in Posts, InsertOrder(p),
         NEW s \in {"start", "done"}, at' = [at EXCEPT ![p] = s],
         response' \in [Posts -> {"none", "accepted", "conflict", "failed"}],
         failures' \in 0..MaxFailures
  PROVE  ServiceInv'
<1>1. /\ Order(p) \in Orders /\ post[p].goods \in Baskets /\ post[p].kind = "order"
      /\ calc[Order(p)] = "UNREGISTERED" /\ at[p] = "insert"
      /\ calc' = [calc EXCEPT ![Order(p)] = "REGISTERED"] /\ award' = award
      /\ basket' = [basket EXCEPT ![Order(p)] = post[p].goods]
      /\ rulesAt' = [rulesAt EXCEPT ![Order(p)] = rules]
      /\ rules' = rules /\ post' = post /\ job' = job /\ result' = result /\ crashes' = crashes
  BY PostType DEF ServiceInv, InsertOrder, IsAt, Stored, jobVars
<1>2. ServiceTypeOK'
  BY <1>1 DEF ServiceInv, ServiceTypeOK, Calculations
<1>3. \A q \in Posts : Working(q) => Order(q) # Order(p) /\ q # p
  BY <1>1 DEF ServiceInv, WorkInProgress, Working
<1>4. \A q \in Posts : Order(q)' = Order(q) /\ (Working(q)' => Working(q) \/ q = p)
  BY <1>1 DEF Order, Working, ServiceInv, ServiceTypeOK
<1>5. WorkInProgress'
  <2> SUFFICES ASSUME NEW q \in Posts
               PROVE  /\ Working(q)' => post'[q].kind = "order" /\ calc'[Order(q)] \in {"REGISTERED", "PROCESSING"}
                      /\ at'[q] = "start" \/ job'[q] = "setProcessing" => calc'[Order(q)] = "REGISTERED"
                      /\ at'[q] # "done" => job'[q] = "none"
                      /\ job'[q] = "save" => result'[q] # NoResult
    BY <1>4 DEF WorkInProgress
  <2>1. CASE q = p
    BY <1>1, <1>4, <2>1 DEF ServiceInv, ServiceTypeOK, WorkInProgress, Working
  <2>2. CASE q # p
    <3>1. at'[q] = at[q]
      BY <2>2 DEF ServiceInv, ServiceTypeOK
    <3>2. Working(q) => calc'[Order(q)] = calc[Order(q)]
      BY <1>1, <1>3, PostType DEF ServiceInv, ServiceTypeOK, WorkInProgress
    <3> QED
      BY <1>1, <1>4, <2>2, <3>1, <3>2 DEF ServiceInv, WorkInProgress, Working
  <2> QED
    BY <2>1, <2>2
<1>6. Alone'
  BY <1>3, <1>4 DEF ServiceInv, Alone
<1>7. NoEarlyAward'
  BY <1>1 DEF ServiceInv, ServiceTypeOK, NoEarlyAward
<1> QED
  BY <1>2, <1>5, <1>6, <1>7 DEF ServiceInv

\* A goroutine goes on with its order, alone.
LEMMA JobMovesInv ==
  ASSUME ServiceInv, NEW p \in Posts, Working(p), at[p] = "done",
         NEW s \in {"calculate", "save", "done"},
         NEW r \in ({"PROCESSED"} \X Amounts) \cup {<<"INVALID", 0>>, NoResult},
         JobGoes(p, s, r), s = "save" => r # NoResult,
         failures' \in 0..MaxFailures,
         \/ UNCHANGED calcVars
         \/ s = "calculate" /\ Save(Order(p), "PROCESSING", 0)
         \/ s = "done" /\ Save(Order(p), result[p][1], result[p][2]) /\ result[p] # NoResult
  PROVE  ServiceInv'
<1>1. /\ Order(p) \in Orders /\ post[p].kind = "order"
      /\ job' = [job EXCEPT ![p] = s] /\ result' = [result EXCEPT ![p] = r]
      /\ basket' = basket /\ rules' = rules /\ post' = post /\ at' = at /\ response' = response
      /\ rulesAt' = rulesAt /\ crashes' = crashes
  BY PostType DEF ServiceInv, WorkInProgress, JobGoes, requestVars
<1>2. /\ calc' \in [Orders -> Calculations] /\ award' \in [Orders -> Amounts \cup {0}]
      /\ \A o \in Orders \ {Order(p)} : calc'[o] = calc[o] /\ award'[o] = award[o]
      /\ calc'[Order(p)] # "PROCESSED" => award'[Order(p)] = 0
      /\ s # "done" => calc'[Order(p)] \in {"REGISTERED", "PROCESSING"}
  <2>1. CASE UNCHANGED calcVars
    BY <1>1, <2>1 DEF calcVars, ServiceInv, ServiceTypeOK, WorkInProgress, NoEarlyAward
  <2>2. CASE s = "calculate" /\ Save(Order(p), "PROCESSING", 0)
    BY <1>1, <2>2 DEF Save, ServiceInv, ServiceTypeOK, Calculations
  <2>3. CASE s = "done" /\ Save(Order(p), result[p][1], result[p][2]) /\ result[p] # NoResult
    <3>1. \/ result[p][1] = "PROCESSED" /\ result[p][2] \in Amounts
          \/ result[p][1] = "INVALID" /\ result[p][2] = 0
      BY <2>3 DEF ServiceInv, ServiceTypeOK
    <3> QED
      BY <1>1, <2>3, <3>1 DEF Save, ServiceInv, ServiceTypeOK, Calculations, Concluded
  <2> QED
    BY <2>1, <2>2, <2>3
<1>3. ServiceTypeOK'
  BY <1>1, <1>2 DEF ServiceInv, ServiceTypeOK
<1>4. \A q \in Posts : Order(q)' = Order(q) /\ (Working(q)' => Working(q))
  BY <1>1 DEF Order, Working, ServiceInv, ServiceTypeOK
<1>5. \A q \in Posts : q # p /\ Working(q) => Order(q) # Order(p) /\ Order(q) \in Orders
  BY PostType DEF ServiceInv, Alone, WorkInProgress
<1>6. WorkInProgress'
  <2> SUFFICES ASSUME NEW q \in Posts
               PROVE  /\ Working(q)' => post'[q].kind = "order" /\ calc'[Order(q)] \in {"REGISTERED", "PROCESSING"}
                      /\ at'[q] = "start" \/ job'[q] = "setProcessing" => calc'[Order(q)] = "REGISTERED"
                      /\ at'[q] # "done" => job'[q] = "none"
                      /\ job'[q] = "save" => result'[q] # NoResult
    BY <1>4 DEF WorkInProgress
  <2>1. CASE q = p
    <3>1. job'[p] = s /\ result'[p] = r /\ at'[p] = "done"
      BY <1>1 DEF ServiceInv, ServiceTypeOK
    <3> QED
      BY <1>1, <1>2, <2>1, <3>1 DEF Working
  <2>2. CASE q # p
    <3>1. job'[q] = job[q] /\ result'[q] = result[q] /\ at'[q] = at[q]
      BY <1>1, <2>2 DEF ServiceInv, ServiceTypeOK
    <3>2. Working(q) => calc'[Order(q)] = calc[Order(q)]
      BY <1>2, <1>5, <2>2
    <3> QED
      BY <1>1, <1>4, <2>2, <3>1, <3>2 DEF ServiceInv, WorkInProgress, Working
  <2> QED
    BY <2>1, <2>2
<1>7. Alone'
  BY <1>4 DEF ServiceInv, Alone
<1>8. NoEarlyAward'
  BY <1>2 DEF ServiceInv, NoEarlyAward
<1> QED
  BY <1>3, <1>6, <1>7, <1>8 DEF ServiceInv

-----------------------------------------------------------------------------
LEMMA FailureCounts == ServiceTypeOK /\ (Failure \/ UNCHANGED failures) => failures' \in 0..MaxFailures
BY ServiceAssumption DEF ServiceTypeOK, Failure

LEMMA ResponseType == ASSUME ServiceTypeOK, NEW p \in Posts, NEW s,
                             NEW a \in {"accepted", "conflict", "failed"}, Goes(p, s) \/ Responds(p, a)
                      PROVE  response' \in [Posts -> {"none", "accepted", "conflict", "failed"}]
BY DEF ServiceTypeOK, Goes, Responds

LEMMA RequestStepInv ==
  ASSUME ServiceInv, NEW p \in Posts, RequestStep(p) \/ StatementFails(p) PROVE ServiceInv'
<1> USE DEF ServiceInv
<1>1. CASE OrderExists(p) \/ CreateDuplicate(p) \/ RuleExists(p) \/ CreateRuleDuplicate(p) \/ StatementFails(p)
  <2>1. /\ at[p] \in {"exists", "insert"} /\ rules' = rules
        /\ UNCHANGED <<calcVars, basket, post, jobVars, rulesAt, crashes>>
        /\ Failure \/ UNCHANGED failures
        /\ \/ Goes(p, "insert")
           \/ Responds(p, "conflict") \/ Responds(p, "failed")
    BY <1>1 DEF OrderExists, CreateDuplicate, RuleExists, CreateRuleDuplicate, StatementFails, IsAt
  <2>2. response' \in [Posts -> {"none", "accepted", "conflict", "failed"}]
    BY <2>1, ResponseType
  <2>3. PICK s \in {"insert", "done"} : at' = [at EXCEPT ![p] = s]
    BY <2>1 DEF Goes, Responds
  <2>4. failures' \in 0..MaxFailures /\ rules' \subseteq Rules
    BY <2>1, FailureCounts DEF ServiceTypeOK
  <2> QED
    BY <2>1, <2>2, <2>3, <2>4, RequestMovesInv
<1>2. CASE CreateRule(p)
  <2>1. /\ at[p] = "insert" /\ post[p].kind = "rule" /\ rules' = rules \cup {post[p].rule}
        /\ UNCHANGED <<calcVars, basket, post, jobVars, rulesAt, crashes>>
        /\ Failure \/ UNCHANGED failures
        /\ Responds(p, "accepted") \/ Responds(p, "failed")
    BY <1>2 DEF CreateRule, InsertRule, IsAt
  <2>2. response' \in [Posts -> {"none", "accepted", "conflict", "failed"}]
    BY <2>1, ResponseType
  <2>3. at' = [at EXCEPT ![p] = "done"]
    BY <2>1 DEF Responds
  <2>4. failures' \in 0..MaxFailures /\ rules' \subseteq Rules
    BY <2>1, FailureCounts, PostType DEF ServiceTypeOK
  <2> QED
    BY <2>1, <2>2, <2>3, <2>4, RequestMovesInv
<1>3. CASE CreateOrder(p) \/ CreateUnanswered(p)
  <2>1. InsertOrder(p) /\ (Goes(p, "start") \/ Responds(p, "failed")) /\ (Failure \/ UNCHANGED failures)
    BY <1>3 DEF CreateOrder, CreateUnanswered
  <2>2. response' \in [Posts -> {"none", "accepted", "conflict", "failed"}]
    BY <2>1, ResponseType
  <2>3. PICK s \in {"start", "done"} : at' = [at EXCEPT ![p] = s]
    BY <2>1 DEF Goes, Responds
  <2> QED
    BY <2>1, <2>2, <2>3, InsertOrderInv, FailureCounts
<1>4. CASE StartJob(p)
  <2>1. /\ at[p] = "start" /\ post[p].kind = "order" /\ job[p] = "none" /\ calc[Order(p)] = "REGISTERED"
        /\ job' = [job EXCEPT ![p] = "setProcessing"] /\ at' = [at EXCEPT ![p] = "done"]
        /\ response' \in [Posts -> {"none", "accepted", "conflict", "failed"}]
        /\ UNCHANGED <<calcVars, basket, rules, post, result, rulesAt, failures, crashes>>
    BY <1>4, ResponseType DEF StartJob, IsAt, Responds, WorkInProgress
  <2>2. ServiceTypeOK'
    BY <2>1 DEF ServiceTypeOK, calcVars
  <2>3. \A q \in Posts : (Working(q)' <=> Working(q)) /\ Order(q)' = Order(q)
    BY <2>1 DEF ServiceTypeOK, Working, Order
  <2>4. WorkInProgress'
    BY <2>1, <2>3 DEF ServiceTypeOK, WorkInProgress, calcVars, Working, Order
  <2>5. Alone' /\ NoEarlyAward'
    BY <2>1, <2>3 DEF Alone, NoEarlyAward, calcVars
  <2> QED
    BY <2>2, <2>4, <2>5
<1> QED
  BY <1>1, <1>2, <1>3, <1>4 DEF RequestStep

LEMMA JobStepInv == ASSUME ServiceInv, NEW p \in Posts, JobStep(p) PROVE ServiceInv'
<1> USE DEF ServiceInv
<1>1. job[p] \in {"setProcessing", "calculate", "save"} /\ Working(p) /\ at[p] = "done"
  BY DEF JobStep, JobSetsProcessing, SettingProcessingFails, JobCalculates, CalculationFails, JobSaves, SavingFails,
         Working, WorkInProgress, ServiceTypeOK
<1>2. failures' \in 0..MaxFailures
  BY FailureCounts DEF JobStep, JobSetsProcessing, SettingProcessingFails, JobCalculates, CalculationFails, JobSaves, SavingFails
<1>3. CASE JobSetsProcessing(p) \/ SettingProcessingFails(p)
  BY <1>1, <1>2, <1>3, JobMovesInv DEF JobSetsProcessing, SettingProcessingFails, NoResult
<1>4. CASE JobCalculates(p)
  <2>0. PICK rs \in RowsOf(rules) :
          \E a \in ProcessOrder(rs, post[p].goods) : JobGoes(p, "save", <<"PROCESSED", a>>)
    BY <1>4 DEF JobCalculates
  <2>1. PICK a \in ProcessOrder(rs, post[p].goods) : JobGoes(p, "save", <<"PROCESSED", a>>)
    BY <2>0
  <2>2. a \in Amounts
    <3>1. rules \in SUBSET Rules /\ post[p].goods \in Baskets
      BY <1>1, PostType DEF ServiceTypeOK, WorkInProgress
    <3> QED
      BY <2>1, <3>1, ServiceAssumption
  <2>3. UNCHANGED calcVars
    BY <1>4 DEF JobCalculates
  <2>4. <<"PROCESSED", a>> # NoResult /\ <<"PROCESSED", a>> \in {"PROCESSED"} \X Amounts
    BY <2>2 DEF NoResult
  <2> QED
    BY <1>1, <1>2, <2>1, <2>3, <2>4, JobMovesInv
<1>5. CASE CalculationFails(p)
  <2>1. <<"INVALID", 0>> # NoResult
    BY DEF NoResult
  <2> QED
    BY <1>1, <1>2, <1>5, <2>1, JobMovesInv DEF CalculationFails
<1>6. CASE JobSaves(p) \/ SavingFails(p)
  <2>1. result[p] # NoResult
    BY <1>6 DEF JobSaves, SavingFails, WorkInProgress
  <2> QED
    BY <1>1, <1>2, <1>6, <2>1, JobMovesInv DEF JobSaves, SavingFails
<1> QED
  BY <1>3, <1>4, <1>5, <1>6 DEF JobStep

LEMMA CrashInv == ASSUME ServiceInv, Crash PROVE ServiceInv'
<1> USE DEF ServiceInv
<1>1. ServiceTypeOK'
  <2>1. at' \in [Posts -> {"exists", "insert", "start", "done"}] /\ job' \in [Posts -> {"none", "setProcessing", "calculate", "save", "done"}]
    BY DEF Crash, ServiceTypeOK
  <2>2. result' \in [Posts -> ({"PROCESSED"} \X Amounts) \cup {<<"INVALID", 0>>, NoResult}]
    BY DEF Crash
  <2>3. crashes' \in 0..MaxCrashes
    BY ServiceAssumption DEF Crash, ServiceTypeOK
  <2> QED
    BY <2>1, <2>2, <2>3 DEF Crash, ServiceTypeOK, calcVars
<1>2. \A q \in Posts : job'[q] \in {"none", "done"} /\ (at'[q] # "done" => job'[q] = "none")
  BY DEF Crash, WorkInProgress, ServiceTypeOK
<1>3. \A q \in Posts : at[q] = "start" => at'[q] # "start"
  BY DEF Crash, WorkInProgress, ServiceTypeOK
<1> QED
  BY <1>1, <1>2, <1>3 DEF Crash, ServiceInv, WorkInProgress, Working, Alone, NoEarlyAward, calcVars, ServiceTypeOK

LEMMA ServiceStepInv == ServiceInv /\ [ServiceNext]_serviceVars => ServiceInv'
<1> SUFFICES ASSUME ServiceInv, [ServiceNext]_serviceVars PROVE ServiceInv'
  OBVIOUS
<1>1. CASE UNCHANGED serviceVars
  BY <1>1 DEF serviceVars, calcVars, requestVars, jobVars, ServiceInv, ServiceTypeOK, WorkInProgress, Alone,
              NoEarlyAward, Working, Order
<1>2. CASE \E p \in Posts : RequestStep(p) \/ StatementFails(p) \/ JobStep(p)
  BY <1>2, RequestStepInv, JobStepInv
<1>3. CASE Crash
  BY <1>3, CrashInv
<1> QED
  BY <1>1, <1>2, <1>3 DEF ServiceNext, Quiet

(***************************************************************************)
(* The invariant of the service, for any number of requests, orders, rules *)
(* and crashes.                                                            *)
(***************************************************************************)
THEOREM ServiceInvariant == ServiceSpec => []ServiceInv
BY InitServiceInv, ServiceStepInv, PTL DEF ServiceSpec

(***************************************************************************)
(* The service's state keeps its types.                                    *)
(***************************************************************************)
THEOREM ServiceTypeCorrect == ServiceSpec => []ServiceTypeOK
<1>1. ServiceInv => ServiceTypeOK
  BY DEF ServiceInv
<1> QED
  BY <1>1, ServiceInvariant, PTL

-----------------------------------------------------------------------------
(* The refinement: an INSERT registers, a goroutine's UPDATE moves the      *)
(* calculation forward, everything else leaves the orders alone.            *)

LEMMA JobSavesRefines == ASSUME ServiceInv, NEW p \in Posts, JobSaves(p)
                         PROVE  \E o \in Orders : Calculate(o)
<1> DEFINE o == Order(p)
<1>1. /\ o \in Orders /\ calc[o] \in {"REGISTERED", "PROCESSING"} /\ award[o] = 0
      /\ Save(o, result[p][1], result[p][2]) /\ result[p] # NoResult
  BY PostType DEF JobSaves, ServiceInv, WorkInProgress, Working, NoEarlyAward
<1>2. CASE result[p][1] = "PROCESSED" /\ result[p][2] \in Amounts
  BY <1>1, <1>2 DEF Save, Calculate, SetProcessed
<1>3. CASE result[p][1] = "INVALID" /\ result[p][2] = 0
  <2>1. award' = award
    BY <1>1, <1>3 DEF Save, ServiceInv, ServiceTypeOK
  <2> QED
    BY <1>1, <1>3, <2>1 DEF Save, Calculate, SetInvalid
<1> QED
  BY <1>1, <1>2, <1>3 DEF ServiceInv, ServiceTypeOK

LEMMA ServiceStepRefines ==
  ServiceInv /\ [ServiceNext]_serviceVars => [\E o \in Orders : Calculate(o)]_calcVars
<1> SUFFICES ASSUME ServiceInv, [ServiceNext]_serviceVars
             PROVE  (\E o \in Orders : Calculate(o)) \/ UNCHANGED calcVars
  OBVIOUS
<1>1. CASE UNCHANGED serviceVars \/ Crash
  BY <1>1 DEF serviceVars, Crash
<1>2. ASSUME NEW p \in Posts, RequestStep(p) \/ StatementFails(p)
      PROVE  (\E o \in Orders : Calculate(o)) \/ UNCHANGED calcVars
  <2>1. CASE CreateOrder(p) \/ CreateUnanswered(p)
    <3>1. Order(p) \in Orders /\ InsertOrder(p)
      BY <2>1, PostType DEF CreateOrder, CreateUnanswered, InsertOrder, IsAt, ServiceInv
    <3>2. RegisterOrder(Order(p))
      BY <3>1 DEF InsertOrder, RegisterOrder, Stored
    <3> QED
      BY <3>1, <3>2 DEF Calculate
  <2> QED
    BY <1>2, <2>1 DEF RequestStep, StatementFails, OrderExists, CreateDuplicate, StartJob, RuleExists,
                      CreateRule, InsertRule, CreateRuleDuplicate
<1>3. ASSUME NEW p \in Posts, JobStep(p)
      PROVE  (\E o \in Orders : Calculate(o)) \/ UNCHANGED calcVars
  <2>1. CASE JobSetsProcessing(p)
    <3>1. Order(p) \in Orders /\ calc[Order(p)] = "REGISTERED" /\ award[Order(p)] = 0
      BY <2>1, PostType DEF JobSetsProcessing, ServiceInv, WorkInProgress, Working, NoEarlyAward
    <3>2. Save(Order(p), "PROCESSING", 0)
      BY <2>1 DEF JobSetsProcessing
    <3>3. award' = award
      BY <3>1, <3>2 DEF Save, ServiceInv, ServiceTypeOK
    <3> QED
      BY <3>1, <3>2, <3>3 DEF Save, Calculate, SetProcessing
  <2>2. CASE JobSaves(p)
    BY <2>2, JobSavesRefines
  <2> QED
    BY <1>3, <2>1, <2>2 DEF JobStep, SettingProcessingFails, JobCalculates, CalculationFails, SavingFails
<1> QED
  BY <1>1, <1>2, <1>3 DEF ServiceNext, Quiet

(***************************************************************************)
(* The service implements AccrualContract: a stored calculation only moves *)
(* forward and a concluded one never changes, whatever requests overlap    *)
(* and whichever statements fail.                                          *)
(***************************************************************************)
THEOREM ServiceImplementsContract == ServiceSpec => ServiceKeepsContract
<1>1. ServiceInit => CalcInit
  BY DEF ServiceInit
<1> QED
  BY <1>1, ServiceStepRefines, ServiceInvariant, PTL DEF ServiceSpec, ServiceKeepsContract, CalcSpec

-----------------------------------------------------------------------------
(* Awards follow the rules.  The basket of an order at work is the one of   *)
(* its request, and what the goroutine will store was calculated from it.   *)

FromRules(o, b, a) ==
  \E R \in SUBSET rules :
    rulesAt[o] \subseteq R /\ \E rs \in RowsOf(R) : a \in ProcessOrder(rs, b)

AwardInv ==
  /\ \A o \in Orders : rulesAt[o] \subseteq rules
  /\ \A p \in Posts : Working(p) => basket[Order(p)] = post[p].goods
  /\ \A p \in Posts : job[p] = "save" /\ result[p][1] = "PROCESSED" =>
                        FromRules(Order(p), basket[Order(p)], result[p][2])
  /\ \A o \in Orders : calc[o] = "PROCESSED" => FromRules(o, basket[o], award[o])

LEMMA InitAwardInv == ServiceInit => AwardInv
BY DEF ServiceInit, CalcInit, AwardInv, Working, NoResult

\* No order, basket or goroutine changes, and no rule is lost.
LEMMA RulesGrowAwardInv ==
  ASSUME ServiceInv, AwardInv, UNCHANGED <<calcVars, basket, post, jobVars, rulesAt>>, rules \subseteq rules',
         \A q \in Posts : Working(q)' => Working(q)
  PROVE  AwardInv'
<1>1. ASSUME NEW o, NEW b, NEW a, FromRules(o, b, a), rulesAt'[o] = rulesAt[o] PROVE FromRules(o, b, a)'
  BY <1>1 DEF FromRules
<1>2. \A q \in Posts : Order(q)' = Order(q)
  BY DEF Order
<1> QED
  BY <1>1, <1>2 DEF AwardInv, calcVars, jobVars

LEMMA InsertOrderAwardInv ==
  ASSUME ServiceInv, AwardInv, NEW p \in Posts, InsertOrder(p),
         NEW s, at' = [at EXCEPT ![p] = s]
  PROVE  AwardInv'
<1> DEFINE n == Order(p)
<1>1. /\ n \in Orders /\ calc[n] = "UNREGISTERED" /\ post[p].goods \in Baskets
      /\ calc' = [calc EXCEPT ![n] = "REGISTERED"] /\ award' = award
      /\ basket' = [basket EXCEPT ![n] = post[p].goods]
      /\ rulesAt' = [rulesAt EXCEPT ![n] = rules]
      /\ rules' = rules /\ post' = post /\ job' = job /\ result' = result
  BY PostType DEF ServiceInv, InsertOrder, IsAt, Stored, jobVars
<1>2. \A q \in Posts : Order(q)' = Order(q) /\ (Working(q)' => Working(q) \/ q = p)
  BY <1>1 DEF Order, Working, ServiceInv, ServiceTypeOK
<1>3. \A q \in Posts : Working(q) => Order(q) # n /\ Order(q) \in Orders
  BY <1>1, PostType DEF ServiceInv, WorkInProgress, Working
<1>4. \A o \in Orders : o # n => basket'[o] = basket[o] /\ rulesAt'[o] = rulesAt[o] /\ calc'[o] = calc[o]
  BY <1>1 DEF ServiceInv, ServiceTypeOK
<1>5. ASSUME NEW o \in Orders, o # n, NEW b, NEW a, FromRules(o, b, a) PROVE FromRules(o, b, a)'
  BY <1>1, <1>4, <1>5 DEF FromRules
<1>6. \A o \in Orders : rulesAt'[o] \subseteq rules'
  BY <1>1, <1>4 DEF AwardInv, ServiceInv, ServiceTypeOK
<1>7. \A q \in Posts : Working(q)' => basket'[Order(q)] = post'[q].goods
  <2>1. basket'[n] = post[p].goods
    BY <1>1 DEF ServiceInv, ServiceTypeOK
  <2> QED
    BY <1>1, <1>2, <1>3, <1>4, <2>1 DEF AwardInv
<1>8. ASSUME NEW q \in Posts, job'[q] = "save", result'[q][1] = "PROCESSED"
      PROVE  FromRules(Order(q), basket[Order(q)], result[q][2])'
  <2>1. Working(q) /\ Order(q) # n /\ Order(q) \in Orders
    BY <1>1, <1>3, <1>8 DEF Working
  <2>2. FromRules(Order(q), basket[Order(q)], result[q][2])
    BY <1>1, <1>8 DEF AwardInv
  <2> QED
    BY <1>1, <1>2, <1>4, <1>5, <2>1, <2>2
<1>9. ASSUME NEW o \in Orders, calc'[o] = "PROCESSED" PROVE FromRules(o, basket[o], award[o])'
  <2>1. o # n /\ FromRules(o, basket[o], award[o])
    BY <1>1, <1>4, <1>9 DEF AwardInv, ServiceInv, ServiceTypeOK
  <2> QED
    BY <1>1, <1>4, <1>5, <2>1
<1> QED
  BY <1>2, <1>6, <1>7, <1>8, <1>9 DEF AwardInv

\* A goroutine stores what it calculated.
LEMMA JobAwardInv ==
  ASSUME ServiceInv, AwardInv, NEW p \in Posts, JobStep(p)
  PROVE  AwardInv'
<1> DEFINE n == Order(p)
<1>1. /\ n \in Orders /\ Working(p) /\ post[p].goods = basket[n]
      /\ basket' = basket /\ rules' = rules /\ post' = post /\ rulesAt' = rulesAt /\ at' = at
      /\ \A q \in Posts \ {p} : job'[q] = job[q] /\ result'[q] = result[q]
      /\ job'[p] # "setProcessing"
  <2>1. Working(p)
    BY DEF JobStep, JobSetsProcessing, SettingProcessingFails, JobCalculates, CalculationFails, JobSaves, SavingFails,
           Working
  <2>2. PICK s \in {"calculate", "save", "done"} : \E r : JobGoes(p, s, r)
    BY DEF JobStep, JobSetsProcessing, SettingProcessingFails, JobCalculates, CalculationFails, JobSaves, SavingFails
  <2> QED
    BY <2>1, <2>2, PostType DEF JobGoes, ServiceInv, ServiceTypeOK, WorkInProgress, AwardInv, requestVars
<1>2. \A q \in Posts : Order(q)' = Order(q) /\ (Working(q)' => Working(q))
  BY <1>1 DEF Order, Working
<1>3. \A o, b, a : FromRules(o, b, a)' <=> FromRules(o, b, a)
  BY <1>1 DEF FromRules
<1>4. \A o \in Orders : rulesAt'[o] \subseteq rules'
  BY <1>1 DEF AwardInv
<1>5. \A q \in Posts : Working(q)' => basket'[Order(q)'] = post'[q].goods
  BY <1>1, <1>2 DEF AwardInv
<1>6. ASSUME NEW q \in Posts, job'[q] = "save", result'[q][1] = "PROCESSED"
      PROVE  FromRules(Order(q), basket[Order(q)], result'[q][2])
  <2>1. CASE q # p
    BY <1>1, <1>6, <2>1 DEF AwardInv
  <2>2. CASE q = p /\ JobCalculates(p)
    <3>1. PICK rs \in RowsOf(rules) :
            \E a \in ProcessOrder(rs, post[p].goods) : JobGoes(p, "save", <<"PROCESSED", a>>)
      BY <2>2 DEF JobCalculates
    <3>2. PICK a \in ProcessOrder(rs, post[p].goods) : JobGoes(p, "save", <<"PROCESSED", a>>)
      BY <3>1
    <3>3. result'[p] = <<"PROCESSED", a>>
      BY <3>2 DEF JobGoes, ServiceInv, ServiceTypeOK
    <3>4. FromRules(n, basket[n], a)
      BY <1>1, <3>1, <3>2 DEF FromRules, AwardInv, ServiceInv, ServiceTypeOK
    <3> QED
      BY <2>2, <3>3, <3>4
  <2>3. CASE q = p /\ ~JobCalculates(p)
    <3>1. (\E r : JobGoes(p, "calculate", r) \/ JobGoes(p, "done", r)) \/ JobGoes(p, "save", <<"INVALID", 0>>)
      BY <2>3 DEF JobStep, JobSetsProcessing, SettingProcessingFails, CalculationFails, JobSaves, SavingFails
    <3> QED
      BY <1>6, <2>3, <3>1 DEF JobGoes, ServiceInv, ServiceTypeOK
  <2> QED
    BY <2>1, <2>2, <2>3
<1>7. ASSUME NEW o \in Orders, calc'[o] = "PROCESSED" PROVE FromRules(o, basket[o], award'[o])
  <2>1. CASE UNCHANGED calcVars
    BY <1>7, <2>1 DEF AwardInv, calcVars
  <2>2. CASE JobSetsProcessing(p)
    <3>1. calc[o] = "PROCESSED" /\ award'[o] = award[o]
      BY <1>1, <1>7, <2>2 DEF JobSetsProcessing, Save, ServiceInv, ServiceTypeOK
    <3> QED
      BY <3>1 DEF AwardInv
  <2>3. CASE JobSaves(p)
    <3>1. Save(n, result[p][1], result[p][2]) /\ job[p] = "save"
      BY <2>3 DEF JobSaves
    <3>2. CASE o = n
      <4>1. result[p][1] = "PROCESSED" /\ award'[o] = result[p][2]
        BY <1>1, <1>7, <3>1, <3>2 DEF Save, ServiceInv, ServiceTypeOK
      <4> QED
        BY <3>1, <3>2, <4>1 DEF AwardInv
    <3>3. CASE o # n
      BY <1>1, <1>7, <3>1, <3>3 DEF Save, AwardInv, ServiceInv, ServiceTypeOK
    <3> QED
      BY <3>2, <3>3
  <2> QED
    BY <2>1, <2>2, <2>3 DEF JobStep, SettingProcessingFails, JobCalculates, CalculationFails, SavingFails
<1> QED
  BY <1>1, <1>2, <1>3, <1>4, <1>5, <1>6, <1>7 DEF AwardInv

LEMMA StepAwardInv == ServiceInv /\ AwardInv /\ [ServiceNext]_serviceVars => AwardInv'
<1> SUFFICES ASSUME ServiceInv, AwardInv, [ServiceNext]_serviceVars PROVE AwardInv'
  OBVIOUS
<1>1. CASE UNCHANGED serviceVars
  <2>1. \A q \in Posts : Working(q)' => Working(q)
    BY <1>1 DEF serviceVars, requestVars, jobVars, Working
  <2> QED
    BY <1>1, <2>1, RulesGrowAwardInv DEF serviceVars
<1>2. CASE Crash
  <2>1. \A q \in Posts : ~Working(q)' /\ job'[q] # "save"
    BY <1>2 DEF Crash, Working, ServiceInv, ServiceTypeOK
  <2>2. \A o, b, a : FromRules(o, b, a)' <=> FromRules(o, b, a)
    BY <1>2 DEF Crash, FromRules
  <2> QED
    BY <1>2, <2>1, <2>2 DEF Crash, AwardInv, calcVars
<1>3. ASSUME NEW p \in Posts, JobStep(p) PROVE AwardInv'
  BY <1>3, JobAwardInv
<1>4. ASSUME NEW p \in Posts, CreateOrder(p) \/ CreateUnanswered(p) PROVE AwardInv'
  <2>1. InsertOrder(p) /\ \E s : at' = [at EXCEPT ![p] = s]
    BY <1>4 DEF CreateOrder, CreateUnanswered, Goes, Responds
  <2> QED
    BY <2>1, InsertOrderAwardInv
<1>5. ASSUME NEW p \in Posts, StartJob(p) PROVE AwardInv'
  <2>1. /\ UNCHANGED <<calcVars, basket, post, result, rulesAt, rules>>
        /\ job' = [job EXCEPT ![p] = "setProcessing"] /\ at[p] = "start" /\ at' = [at EXCEPT ![p] = "done"]
    BY <1>5 DEF StartJob, IsAt, Responds
  <2>2. \A q \in Posts : /\ Order(q)' = Order(q) /\ (Working(q)' => Working(q))
                         /\ job'[q] = "save" => job[q] = "save"
    BY <2>1 DEF Order, Working, ServiceInv, ServiceTypeOK
  <2>3. \A o, b, a : FromRules(o, b, a)' <=> FromRules(o, b, a)
    BY <2>1 DEF FromRules
  <2> QED
    BY <2>1, <2>2, <2>3 DEF AwardInv, calcVars
<1>6. ASSUME NEW p \in Posts,
             \/ OrderExists(p) \/ CreateDuplicate(p) \/ RuleExists(p) \/ CreateRule(p)
             \/ CreateRuleDuplicate(p) \/ StatementFails(p)
      PROVE  AwardInv'
  <2>1. /\ UNCHANGED <<calcVars, basket, post, jobVars, rulesAt>> /\ rules \subseteq rules'
        /\ \E s \in {"insert", "done"} : at' = [at EXCEPT ![p] = s]
    BY <1>6 DEF OrderExists, CreateDuplicate, RuleExists, CreateRule, InsertRule, CreateRuleDuplicate, StatementFails,
                Goes, Responds
  <2>2. \A q \in Posts : Working(q)' => Working(q)
    BY <2>1 DEF Working, jobVars, ServiceInv, ServiceTypeOK
  <2> QED
    BY <2>1, <2>2, RulesGrowAwardInv
<1> QED
  BY <1>1, <1>2, <1>3, <1>4, <1>5, <1>6 DEF ServiceNext, RequestStep, Quiet

(***************************************************************************)
(* Every award follows the rules that were registered in time, for any     *)
(* goods, rules and interleaving of their registrations.                   *)
(***************************************************************************)
THEOREM ServiceAwardsFollowRules == ServiceSpec => []AwardFollowsRules
<1>1. AwardInv => AwardFollowsRules
  BY DEF AwardInv, AwardFollowsRules, FromRules
<1> QED
  BY <1>1, InitAwardInv, StepAwardInv, ServiceInvariant, PTL DEF ServiceSpec

-----------------------------------------------------------------------------
(* Numbers and keys are registered once: who was accepted finds its row.    *)

Took(p) == post[p].kind = "order" /\ (at[p] = "start" \/ response[p] = "accepted")
Added(p) == post[p].kind = "rule" /\ response[p] = "accepted"

RegisteredInv ==
  /\ \A r, q \in rules : r.match = q.match => r = q
  /\ \A p \in Posts : Took(p) => calc[Order(p)] # "UNREGISTERED"
  /\ \A p, q \in Posts : Took(p) /\ Took(q) /\ Order(p) = Order(q) => p = q
  /\ \A p \in Posts : Added(p) => post[p].rule \in rules
  /\ \A p, q \in Posts : Added(p) /\ Added(q) /\ post[p].rule.match = post[q].rule.match => p = q

LEMMA InitRegisteredInv == ServiceInit => RegisteredInv
BY DEF ServiceInit, RegisteredInv, Took, Added

LEMMA NobodyForgets ==
  ASSUME ServiceInv, [ServiceNext]_serviceVars, NEW o \in Orders, calc[o] # "UNREGISTERED"
  PROVE  calc'[o] # "UNREGISTERED"
BY ServiceStepRefines DEF calcVars, Calculate, RegisterOrder, SetProcessing, SetInvalid, SetProcessed,
   ServiceInv, ServiceTypeOK

\* Nobody is newly accepted, or only a request that had stored its order.
LEMMA SameRegisteredInv ==
  ASSUME ServiceInv, RegisteredInv, [ServiceNext]_serviceVars, rules' = rules, post' = post,
         \A q \in Posts : (Took(q)' => Took(q)) /\ (Added(q)' => Added(q))
  PROVE  RegisteredInv'
<1>1. \A q \in Posts : Order(q)' = Order(q)
  BY DEF Order
<1>2. \A q \in Posts : Took(q) => Order(q) \in Orders
  BY PostType DEF Took, ServiceInv
<1>3. \A q \in Posts : Took(q)' => calc'[Order(q)] # "UNREGISTERED"
  BY <1>2, NobodyForgets DEF RegisteredInv
<1> QED
  BY <1>1, <1>3 DEF RegisteredInv

LEMMA StepRegisteredInv == ServiceInv /\ RegisteredInv /\ [ServiceNext]_serviceVars => RegisteredInv'
<1> SUFFICES ASSUME ServiceInv, RegisteredInv, [ServiceNext]_serviceVars PROVE RegisteredInv'
  OBVIOUS
<1>1. CASE UNCHANGED serviceVars \/ Crash \/ \E p \in Posts : JobStep(p)
  <2>1. /\ rules' = rules /\ post' = post /\ response' = response
        /\ at' = at \/ \A q \in Posts : at'[q] # "start"
    BY <1>1 DEF serviceVars, requestVars, Crash, JobStep, JobSetsProcessing, SettingProcessingFails, JobCalculates,
                CalculationFails, JobSaves, SavingFails, JobGoes
  <2>2. \A q \in Posts : (Took(q)' => Took(q)) /\ (Added(q)' => Added(q))
    BY <2>1 DEF Took, Added
  <2> QED
    BY <2>1, <2>2, SameRegisteredInv
<1>2. ASSUME NEW p \in Posts,
             \/ OrderExists(p) \/ CreateDuplicate(p) \/ RuleExists(p) \/ CreateRuleDuplicate(p)
             \/ StatementFails(p) \/ StartJob(p)
      PROVE  RegisteredInv'
  <2>1. /\ rules' = rules /\ post' = post
        /\ \/ Goes(p, "insert") \/ Responds(p, "conflict") \/ Responds(p, "failed")
           \/ Responds(p, "accepted") /\ at[p] = "start" /\ post[p].kind = "order"
    BY <1>2 DEF OrderExists, CreateDuplicate, RuleExists, CreateRuleDuplicate, StatementFails, StartJob, IsAt
  <2>2. \A q \in Posts : (Took(q)' => Took(q)) /\ (Added(q)' => Added(q))
    BY <2>1 DEF Took, Added, Goes, Responds, ServiceInv, ServiceTypeOK
  <2> QED
    BY <2>1, <2>2, SameRegisteredInv
<1>3. ASSUME NEW p \in Posts, CreateOrder(p) \/ CreateUnanswered(p) PROVE RegisteredInv'
  <2>1. /\ Order(p) \in Orders /\ calc[Order(p)] = "UNREGISTERED" /\ post[p].kind = "order"
        /\ calc' = [calc EXCEPT ![Order(p)] = "REGISTERED"] /\ rules' = rules /\ post' = post
        /\ Goes(p, "start") \/ Responds(p, "failed")
    BY <1>3, PostType DEF CreateOrder, CreateUnanswered, InsertOrder, IsAt, Stored, ServiceInv
  <2>2. \A q \in Posts : /\ Order(q)' = Order(q)
                         /\ Took(q)' => Took(q) \/ q = p
                         /\ Added(q)' => Added(q)
    BY <2>1 DEF Took, Added, Order, Goes, Responds, ServiceInv, ServiceTypeOK
  <2>3. \A q \in Posts : Took(q) => Order(q) # Order(p) /\ Order(q) \in Orders
    BY <2>1, PostType DEF RegisteredInv, Took, ServiceInv
  <2>4. \A q \in Posts : Took(q)' => calc'[Order(q)] # "UNREGISTERED"
    BY <2>1, <2>2, <2>3 DEF RegisteredInv, ServiceInv, ServiceTypeOK
  <2>5. \A q, r \in Posts : Took(q)' /\ Took(r)' /\ Order(q) = Order(r) => q = r
    BY <2>2, <2>3 DEF RegisteredInv
  <2> QED
    BY <2>1, <2>2, <2>4, <2>5 DEF RegisteredInv
<1>4. ASSUME NEW p \in Posts, CreateRule(p) PROVE RegisteredInv'
  <2>1. /\ post[p].kind = "rule" /\ at[p] = "insert" /\ rules' = rules \cup {post[p].rule} /\ post' = post
        /\ calc' = calc /\ \A r \in rules : r.match # post[p].rule.match
        /\ Responds(p, "accepted") \/ Responds(p, "failed")
    BY <1>4 DEF CreateRule, InsertRule, IsAt, KeyStored, calcVars
  <2>2. \A q \in Posts : /\ Order(q)' = Order(q)
                         /\ Took(q)' => Took(q)
                         /\ Added(q)' => Added(q) \/ q = p
    BY <2>1 DEF Took, Added, Order, Responds, ServiceInv, ServiceTypeOK
  <2>3. \A r, q \in rules' : r.match = q.match => r = q
    BY <2>1 DEF RegisteredInv
  <2>4. \A q, r \in Posts : Added(q)' /\ Added(r)' /\ post[q].rule.match = post[r].rule.match => q = r
    BY <2>1, <2>2 DEF RegisteredInv
  <2> QED
    BY <2>1, <2>2, <2>3, <2>4 DEF RegisteredInv
<1> QED
  BY <1>1, <1>2, <1>3, <1>4 DEF ServiceNext, RequestStep, Quiet

(***************************************************************************)
(* Numbers and keys are registered once, for any number of requests.       *)
(***************************************************************************)
THEOREM ServiceRegistersOnce == ServiceSpec => []RegisteredOnce
<1>1. ServiceInv /\ RegisteredInv => RegisteredOnce
  <2> SUFFICES ASSUME ServiceInv, RegisteredInv, NEW p \in Posts, NEW q \in Posts,
                      response[p] = "accepted", response[q] = "accepted", p # q
               PROVE  \/ post[p].kind # post[q].kind
                      \/ post[p].kind = "order" /\ Order(p) # Order(q)
                      \/ post[p].kind = "rule" /\ post[p].rule.match # post[q].rule.match
    BY DEF RegisteredOnce, RegisteredInv
  <2>1. post[p].kind \in {"order", "rule"}
    BY PostType DEF ServiceInv
  <2> QED
    BY <2>1 DEF RegisteredInv, Took, Added
<1> QED
  BY <1>1, InitRegisteredInv, StepRegisteredInv, ServiceInvariant, PTL DEF ServiceSpec

-----------------------------------------------------------------------------
(* Nothing is forgotten: an accepted request has a goroutine, which ends    *)
(* with its order concluded.                                                *)

Undisturbed == failures = 0 /\ crashes = 0
AcceptedOrder(p) == post[p].kind = "order" /\ response[p] = "accepted"
HasJob(p) == job[p] \in {"setProcessing", "calculate", "save"}

AtWorkInv ==
  Undisturbed => \A p \in Posts : AcceptedOrder(p) => calc[Order(p)] \in Concluded \/ HasJob(p)

LEMMA ConcludedStays ==
  ASSUME ServiceInv, [ServiceNext]_serviceVars, NEW o \in Orders, calc[o] \in Concluded
  PROVE  calc'[o] \in Concluded
BY ServiceStepRefines DEF calcVars, Calculate, RegisterOrder, SetProcessing, SetInvalid, SetProcessed,
   Concluded, ServiceInv, ServiceTypeOK

\* Failures and crashes are never taken back.
LEMMA DisturbedStays ==
  ASSUME ServiceInv, [ServiceNext]_serviceVars, Undisturbed'
  PROVE  Undisturbed /\ failures' = failures /\ crashes' = crashes
<1>1. failures \in Nat /\ crashes \in Nat
  BY ServiceAssumption DEF ServiceInv, ServiceTypeOK
<1>2. /\ failures' = failures \/ failures' = failures + 1
      /\ crashes' = crashes \/ crashes' = crashes + 1
  BY DEF ServiceNext, RequestStep, JobStep, StatementFails, Crash, Quiet, serviceVars, Failure,
         OrderExists, CreateOrder, CreateUnanswered, CreateDuplicate, StartJob, RuleExists, CreateRule,
         CreateRuleDuplicate, InsertOrder, InsertRule, JobSetsProcessing, SettingProcessingFails,
         JobCalculates, CalculationFails, JobSaves, SavingFails, JobGoes
<1> QED
  BY <1>1, <1>2 DEF Undisturbed

\* A step that accepts nobody and ends no goroutine.
LEMMA SameAtWork ==
  ASSUME ServiceInv, AtWorkInv, [ServiceNext]_serviceVars, Undisturbed, post' = post,
         NEW q \in Posts, AcceptedOrder(q)', AcceptedOrder(q) \/ HasJob(q)', HasJob(q) => HasJob(q)'
  PROVE  calc'[Order(q)'] \in Concluded \/ HasJob(q)'
<1>1. Order(q)' = Order(q) /\ Order(q) \in Orders
  BY PostType DEF Order, AcceptedOrder, ServiceInv
<1> QED
  BY <1>1, ConcludedStays DEF AtWorkInv

LEMMA StepAtWorkInv == ServiceInv /\ AtWorkInv /\ [ServiceNext]_serviceVars => AtWorkInv'
<1> SUFFICES ASSUME ServiceInv, AtWorkInv, [ServiceNext]_serviceVars, Undisturbed',
                    NEW q \in Posts, AcceptedOrder(q)'
             PROVE  calc'[Order(q)'] \in Concluded \/ HasJob(q)'
  BY DEF AtWorkInv
<1>1. Undisturbed /\ failures' = failures /\ crashes' = crashes
  BY DisturbedStays
<1>2. ~Crash /\ \A p \in Posts : ~Failure
  BY <1>1, ServiceAssumption DEF Crash, Failure, Undisturbed
<1>3. CASE UNCHANGED serviceVars
  BY <1>1, <1>3, SameAtWork DEF serviceVars, requestVars, jobVars, AcceptedOrder, HasJob
<1>4. ASSUME NEW p \in Posts, RequestStep(p)
      PROVE  calc'[Order(q)'] \in Concluded \/ HasJob(q)'
  <2>1. CASE StartJob(p)
    <3>1. /\ post' = post /\ job' = [job EXCEPT ![p] = "setProcessing"]
          /\ response' = [response EXCEPT ![p] = "accepted"]
      BY <2>1 DEF StartJob, Responds
    <3>2. (HasJob(q) => HasJob(q)') /\ (AcceptedOrder(q) \/ HasJob(q)')
      BY <3>1 DEF HasJob, AcceptedOrder, ServiceInv, ServiceTypeOK
    <3> QED
      BY <1>1, <3>1, <3>2, SameAtWork
  <2>2. CASE CreateRule(p) \/ RuleExists(p) \/ CreateRuleDuplicate(p)
    <3>1. /\ post' = post /\ job' = job /\ post[p].kind = "rule"
          /\ \A r \in Posts \ {p} : response'[r] = response[r]
      BY <2>2 DEF CreateRule, InsertRule, RuleExists, CreateRuleDuplicate, IsAt, jobVars, Responds, Goes,
                  ServiceInv, ServiceTypeOK
    <3>2. (HasJob(q) => HasJob(q)') /\ AcceptedOrder(q)
      BY <3>1 DEF HasJob, AcceptedOrder
    <3> QED
      BY <1>1, <3>1, <3>2, SameAtWork
  <2>3. CASE OrderExists(p) \/ CreateOrder(p) \/ CreateUnanswered(p) \/ CreateDuplicate(p)
    <3>1. /\ post' = post /\ job' = job
          /\ \E s \in {"insert", "start"} : Goes(p, s)
             \/ \E a \in {"conflict", "failed"} : Responds(p, a)
      BY <2>3 DEF OrderExists, CreateOrder, CreateUnanswered, CreateDuplicate, InsertOrder, jobVars
    <3>2. (HasJob(q) => HasJob(q)') /\ AcceptedOrder(q)
      BY <3>1 DEF HasJob, AcceptedOrder, Goes, Responds, ServiceInv, ServiceTypeOK
    <3> QED
      BY <1>1, <3>1, <3>2, SameAtWork
  <2> QED
    BY <1>4, <2>1, <2>2, <2>3 DEF RequestStep
<1>5. ASSUME NEW p \in Posts, StatementFails(p)
      PROVE  calc'[Order(q)'] \in Concluded \/ HasJob(q)'
  BY <1>2, <1>5 DEF StatementFails
<1>6. ASSUME NEW p \in Posts, JobStep(p)
      PROVE  calc'[Order(q)'] \in Concluded \/ HasJob(q)'
  <2>1. CASE JobSaves(p) /\ p = q
    <3>1. /\ Order(p) \in Orders /\ result[p] # NoResult /\ Save(Order(p), result[p][1], result[p][2])
          /\ Order(q)' = Order(p)
      BY <2>1, PostType DEF JobSaves, JobGoes, ServiceInv, WorkInProgress, Working, Order
    <3>2. result[p][1] \in Concluded
      BY <3>1 DEF ServiceInv, ServiceTypeOK, Concluded
    <3> QED
      BY <3>1, <3>2 DEF Save, ServiceInv, ServiceTypeOK
  <2>2. CASE JobSetsProcessing(p) \/ JobCalculates(p) \/ (JobSaves(p) /\ p # q)
    <3>1. /\ post' = post /\ response' = response
          /\ \/ job' = [job EXCEPT ![p] = "calculate"]
             \/ job' = [job EXCEPT ![p] = "save"]
             \/ job' = [job EXCEPT ![p] = "done"] /\ p # q
      BY <2>2 DEF JobSetsProcessing, JobCalculates, JobSaves, JobGoes, requestVars
    <3>2. (HasJob(q) => HasJob(q)') /\ AcceptedOrder(q)
      BY <3>1 DEF HasJob, AcceptedOrder, ServiceInv, ServiceTypeOK
    <3> QED
      BY <1>1, <3>1, <3>2, SameAtWork
  <2> QED
    BY <1>2, <1>6, <2>1, <2>2 DEF JobStep, SettingProcessingFails, CalculationFails, SavingFails
<1> QED
  BY <1>2, <1>3, <1>4, <1>5, <1>6 DEF ServiceNext, Quiet

(***************************************************************************)
(* Without a failed statement and a crash no accepted order is ever left   *)
(* behind, for any number of overlapping requests.                         *)
(***************************************************************************)
THEOREM ServiceForgetsNone == ServiceSpec => []NoneIsForgotten
<1>1. ServiceInit => AtWorkInv
  BY DEF ServiceInit, AtWorkInv, AcceptedOrder
<1>2. AtWorkInv => NoneIsForgotten
  BY DEF AtWorkInv, NoneIsForgotten, Undisturbed, AcceptedOrder, HasJob, Accepted, AtWork, Order
<1> QED
  BY <1>1, <1>2, StepAtWorkInv, ServiceInvariant, PTL DEF ServiceSpec

-----------------------------------------------------------------------------
(* The calculation of an award. *)

LEMMA SmallestNumber ==
  ASSUME NEW k \in Nat, NEW M \in SUBSET (1..k), M # {}
  PROVE  \E i \in M : \A j \in M : i <= j
<1> DEFINE Initials == {1..i : i \in M}
<1>1. IsFiniteSet(1..k)
  BY FS_Interval
<1>0. Initials \in SUBSET SUBSET (1..k) /\ Initials # {}
  <2> SUFFICES ASSUME NEW i \in M PROVE 1..i \subseteq 1..k
    OBVIOUS
  <2> QED
    OBVIOUS
<1>2. PICK T \in Initials : \A U \in SUBSET T : U # T => U \notin Initials
  <2> HIDE DEF Initials
  <2> QED
    BY <1>0, <1>1, SmallestSubset
<1>3. PICK i \in M : T = 1..i
  OBVIOUS
<1>4. ASSUME NEW j \in M, ~(i <= j) PROVE FALSE
  <2>1. 1..j \in SUBSET T /\ i \in T /\ i \notin 1..j
    BY <1>3, <1>4
  <2> QED
    BY <1>2, <2>1
<1> QED
  BY <1>4

\* The table of rules is finite: one row per key.
LEMMA RuleSetsAreFinite == ASSUME NEW R \in RuleSets PROVE IsFiniteSet(R)
<1> DEFINE f == [r \in R |-> r.match]
<1>1. f \in Injection(R, Keys)
  BY DEF RuleSets, AnyRule, Injection, IsInjective
<1> QED
  BY <1>1, CalculationAssumption, FS_Injection DEF CalculationAssumption

LEMMA RowsAreRead ==
  ASSUME NEW R \in RuleSets, NEW rs \in RowsOf(R)
  PROVE  rs \in Seq(AnyRule)
<1>1. Cardinality(R) \in Nat
  BY RuleSetsAreFinite, FS_CardinalityType
<1>2. rs \in [1..Cardinality(R) -> AnyRule]
  BY DEF RowsOf, RuleSets
<1> QED
  BY <1>1, <1>2

LEMMA ShareParts ==
  ASSUME NEW good \in AnyGood, NEW rule \in AnyRule
  PROVE  /\ Share(good, rule) \in Nat
         /\ Accrual(good, rule) \in Share(good, rule) .. Share(good, rule) + Unit \div 2
<1>1. good.price \in Nat /\ rule.reward \in Nat
  BY CalculationAssumption DEF CalculationAssumption, AnyGood, AnyRule
<1>2. Share(good, rule) \in Nat
  BY <1>1 DEF Share, Unit
<1>3. Accrual(good, rule) = Share(good, rule) + Unit \div 2 \/ Accrual(good, rule) = Share(good, rule) + 0
  BY DEF Accrual
<1> HIDE DEF Share
<1> QED
  BY <1>2, <1>3 DEF Unit

\* What a good is worth, before it is rounded: the share of one matching rule.
Worth(rs, good) ==
  LET matching == MatchingRows(rs, good)
  IN IF matching = {} THEN 0
     ELSE Share(good, rs[CHOOSE i \in matching : \A j \in matching : i <= j])

LEMMA FirstMatchDecides ==
  ASSUME NEW rs \in Seq(AnyRule), NEW good \in AnyGood
  PROVE  /\ Worth(rs, good) \in Nat
         /\ GoodAccrual(rs, good) \in Worth(rs, good) .. Worth(rs, good) + Unit \div 2
         /\ \/ Worth(rs, good) = 0 /\ ~ \E i \in DOMAIN rs : rs[i].match \in good.description
            \/ \E i \in DOMAIN rs : rs[i].match \in good.description /\ Worth(rs, good) = Share(good, rs[i])
<1> DEFINE M == MatchingRows(rs, good)
           first == CHOOSE i \in M : \A j \in M : i <= j
<1>1. CASE M = {}
  <2>1. Worth(rs, good) = 0 /\ GoodAccrual(rs, good) = 0
    BY <1>1 DEF Worth, GoodAccrual
  <2>2. ~ \E i \in DOMAIN rs : rs[i].match \in good.description
    BY <1>1 DEF MatchingRows
  <2> QED
    BY <2>1, <2>2 DEF Unit
<1>2. CASE M # {}
  <2>1. M \in SUBSET (1..Len(rs)) /\ Len(rs) \in Nat
    BY DEF MatchingRows
  <2>2. \E i \in M : \A j \in M : i <= j
    BY <1>2, <2>1, SmallestNumber
  <2>3. first \in M
    BY <2>2
  <2>4. Worth(rs, good) = Share(good, rs[first]) /\ GoodAccrual(rs, good) = Accrual(good, rs[first])
    BY <1>2 DEF Worth, GoodAccrual
  <2>5. first \in DOMAIN rs /\ rs[first].match \in good.description /\ rs[first] \in AnyRule
    BY <2>1, <2>3 DEF MatchingRows
  <2> HIDE DEF M, first
  <2> QED
    BY <2>4, <2>5, ShareParts
<1> QED
  BY <1>1, <1>2

LEMMA TruncateParts ==
  ASSUME NEW total \in Nat, NEW c \in Truncate(total)
  PROVE  c \in Int /\ c * Unit <= total /\ c * Unit >= total - Unit
BY DEF Truncate, Unit

LEMMA TruncatedIsNatural == ASSUME NEW total \in Nat PROVE Truncate(total) \subseteq Nat
BY DEF Truncate, Unit

(***************************************************************************)
(* An award is never negative, for any goods and any rules: truncation     *)
(* takes a cent only from a sum that has one (processOrder).  It is why    *)
(* amounts may be natural numbers on both sides of the HTTP interface.     *)
(***************************************************************************)
THEOREM AwardsAreNatural ==
  ASSUME NEW gs \in Seq(AnyGood), NEW rs \in Seq(AnyRule)
  PROVE  ProcessOrder(rs, gs) \subseteq Nat
<1> DEFINE n == Len(gs)
           D == DOMAIN gs
           given == [i \in D |-> GoodAccrual(rs, gs[i])]
<1>1. n \in Nat /\ D = 1..n /\ \A i \in D : gs[i] \in AnyGood
  OBVIOUS
<1>2. ProcessOrder(rs, gs) = Truncate(SumFunction(given))
  BY DEF ProcessOrder
<1>3. DOMAIN given = D
  OBVIOUS
<1> HIDE DEF n, D
<1>4. IsFiniteSet(D)
  BY <1>1, FS_Interval
<1>5. \A i \in D : given[i] \in Nat
  <2> SUFFICES ASSUME NEW i \in D PROVE GoodAccrual(rs, gs[i]) \in Nat
    OBVIOUS
  <2> DEFINE good == gs[i]
  <2>1. good \in AnyGood
    BY <1>1
  <2> HIDE DEF good
  <2>2. /\ Worth(rs, good) \in Nat
        /\ GoodAccrual(rs, good) \in Worth(rs, good) .. Worth(rs, good) + Unit \div 2
    BY <2>1, FirstMatchDecides
  <2>3. GoodAccrual(rs, good) \in Nat
    BY <2>2 DEF Unit
  <2> QED
    BY <2>3 DEF good
<1> HIDE DEF given
<1>6. SumFunctionOnSet(given, D) \in Nat
  BY <1>4, <1>5, SumOfNaturals
<1> QED
  BY <1>2, <1>3, <1>6, TruncatedIsNatural DEF SumFunction

\* The rule that decides is one of those that match, and the only one if there is no other.
LEMMA WorthIsMatched ==
  ASSUME rows \in Seq(AnyRule), NEW good \in AnyGood
  PROVE  /\ Matches(good) \in Nat /\ Worth(rows, good) <= Matches(good)
         /\ Cardinality(Matched(good)) <= 1 => Worth(rows, good) = Matches(good)
<1> DEFINE M == Matched(good)
           share == [rule \in M |-> Share(good, rule)]
<1>1. IsFiniteSet(M) /\ Cardinality(M) \in Nat /\ M \subseteq AnyRule
  <2>1. {rows[i] : i \in 1..Len(rows)} \subseteq AnyRule /\ M \subseteq {rows[i] : i \in 1..Len(rows)}
    BY DEF Matched
  <2>2. IsFiniteSet({rows[i] : i \in 1..Len(rows)})
    <3> DEFINE R == {rows[i] : i \in 1..Len(rows)}
    <3>1. IsFiniteSet(1..Len(rows))
      BY FS_Interval
    <3>2. rows \in Surjection(1..Len(rows), R)
      BY DEF Surjection
    <3> HIDE DEF R
    <3>3. IsFiniteSet(R)
      BY <3>1, <3>2, FS_Surjection
    <3> QED
      BY <3>3 DEF R
  <2> QED
    BY <2>1, <2>2, FS_Subset, FS_CardinalityType
<1>2. Matches(good) = SumFunctionOnSet(share, M)
  BY DEF Matches, SumFunction
<1>3. \A rule \in M : share[rule] \in Nat /\ share[rule] = Share(good, rule)
  BY <1>1, ShareParts
<1>4. /\ Worth(rows, good) \in Nat
      /\ \/ Worth(rows, good) = 0 /\ M = {}
         \/ \E rule \in M : Worth(rows, good) = share[rule]
  BY FirstMatchDecides DEF Matched
<1> HIDE DEF M, share
<1>5. Matches(good) \in Nat
  BY <1>1, <1>2, <1>3, SumOfNaturals
<1>6. CASE Worth(rows, good) = 0 /\ M = {}
  BY <1>2, <1>5, <1>6, SumOfNothing
<1>7. ASSUME NEW rule \in M, Worth(rows, good) = share[rule]
      PROVE  /\ Worth(rows, good) <= Matches(good)
             /\ Cardinality(M) <= 1 => Worth(rows, good) = Matches(good)
  <2>1. IsFiniteSet(M \ {rule}) /\ Cardinality(M \ {rule}) = Cardinality(M) - 1
    BY <1>1, FS_RemoveElement
  <2>2. SumFunctionOnSet(share, M) = share[rule] + SumFunctionOnSet(share, M \ {rule})
    BY <1>1, <1>3, SumRemove
  <2>3. SumFunctionOnSet(share, M \ {rule}) \in Nat
    BY <1>3, <2>1, SumOfNaturals
  <2>4. Cardinality(M) <= 1 => M \ {rule} = {}
    <3> DEFINE L == M \ {rule}
               k == Cardinality(M)
    <3>1. IsFiniteSet(L) /\ Cardinality(L) \in Nat /\ Cardinality(L) = k - 1 /\ k \in Nat
      BY <1>1, <2>1, FS_CardinalityType
    <3> HIDE DEF L, k
    <3>2. k <= 1 => Cardinality(L) = 0
      BY <3>1
    <3>3. Cardinality(L) = 0 <=> L = {}
      BY <3>1, FS_EmptySet
    <3>4. k <= 1 => L = {}
      BY <3>2, <3>3
    <3> QED
      BY <3>4 DEF L, k
  <2>5. SumFunctionOnSet(share, {}) = 0
    BY SumOfNothing
  <2> DEFINE rest == SumFunctionOnSet(share, M \ {rule})
             worth == Worth(rows, good)
  <2>6. /\ worth \in Nat /\ rest \in Nat /\ Matches(good) = worth + rest
        /\ Cardinality(M) <= 1 => rest = 0
    BY <1>2, <1>4, <1>7, <2>2, <2>3, <2>4, <2>5
  <2> HIDE DEF rest, worth
  <2>7. worth <= Matches(good)
    BY <2>6
  <2>8. Cardinality(M) <= 1 => worth = Matches(good)
    BY <2>6
  <2> QED
    BY <2>7, <2>8 DEF worth
<1> QED
  BY <1>4, <1>5, <1>6, <1>7 DEF M

LEMMA AwardIsOfMatches ==
  ASSUME goods \in Seq(AnyGood), rows \in Seq(AnyRule), cents \in ProcessOrder(rows, goods)
  PROVE  AwardKeepsToMatches
<1> DEFINE n == Len(goods)
           D == DOMAIN goods
           matches == [i \in D |-> Matches(goods[i])]
           given == [i \in D |-> GoodAccrual(rows, goods[i])]
<1>1. n \in Nat /\ D = 1..n /\ \A i \in D : goods[i] \in AnyGood
  OBVIOUS
<1> HIDE DEF n, D
<1>2. IsFiniteSet(D) /\ Cardinality(D) = n
  BY <1>1, FS_Interval
<1> DEFINE Single(i) == Cardinality(Matched(goods[i])) <= 1
<1>3. \A i \in D : /\ matches[i] \in Nat /\ given[i] \in Nat /\ given[i] <= matches[i] + 5000
                   /\ Single(i) => matches[i] <= given[i]
  <2> SUFFICES ASSUME NEW i \in D
               PROVE  /\ Matches(goods[i]) \in Nat /\ GoodAccrual(rows, goods[i]) \in Nat
                      /\ GoodAccrual(rows, goods[i]) <= Matches(goods[i]) + 5000
                      /\ Single(i) => Matches(goods[i]) <= GoodAccrual(rows, goods[i])
    OBVIOUS
  <2> DEFINE good == goods[i]
  <2>1. good \in AnyGood
    BY <1>1
  <2> HIDE DEF good
  <2>2. /\ Worth(rows, good) \in Nat
        /\ GoodAccrual(rows, good) \in Worth(rows, good) .. Worth(rows, good) + 5000
    BY <2>1, FirstMatchDecides DEF Unit
  <2>3. /\ Matches(good) \in Nat /\ Worth(rows, good) <= Matches(good)
        /\ Cardinality(Matched(good)) <= 1 => Worth(rows, good) = Matches(good)
    BY <2>1, WorthIsMatched
  <2> QED
    BY <2>2, <2>3 DEF good
<1>4. cents \in Truncate(SumFunction(given)) /\ SumOfMatches = SumFunction(matches)
  BY <1>1 DEF ProcessOrder, SumOfMatches, D
<1>5. DOMAIN matches = D /\ DOMAIN given = D
  OBVIOUS
<1> HIDE DEF matches, given, Single
<1>6. SumFunction(matches) \in Nat /\ SumFunction(given) \in Nat
  <2>1. (\A i \in D : matches[i] \in Nat) /\ (\A i \in D : given[i] \in Nat)
    BY <1>3
  <2>2. SumFunctionOnSet(matches, D) \in Nat /\ SumFunctionOnSet(given, D) \in Nat
    BY <1>2, <2>1, SumOfNaturals
  <2> QED
    BY <1>5, <2>2 DEF SumFunction
<1>7. SumFunction(given) <= SumFunction(matches) + 5000 * n
  <2>1. \A i \in D : matches[i] \in Int /\ given[i] \in Int /\ given[i] <= matches[i] + 5000
    BY <1>3
  <2>2. SumFunctionOnSet(given, D) <= SumFunctionOnSet(matches, D) + 5000 * Cardinality(D)
    BY <1>2, <2>1, SumAtMost
  <2> QED
    BY <1>2, <1>5, <2>2 DEF SumFunction
<1>8. (\A i \in D : Single(i)) => SumFunction(matches) <= SumFunction(given)
  <2> SUFFICES ASSUME \A i \in D : Single(i)
               PROVE  SumFunction(matches) <= SumFunction(given)
    OBVIOUS
  <2>1. \A i \in D : matches[i] \in Int /\ given[i] \in Int /\ matches[i] <= given[i] + 0
    BY <1>3
  <2>2. SumFunctionOnSet(matches, D) <= SumFunctionOnSet(given, D) + 0 * Cardinality(D)
    BY <1>2, <2>1, SumAtMost
  <2> QED
    BY <1>1, <1>2, <1>5, <1>6, <2>2 DEF SumFunction
<1>9. cents \in Int /\ cents * Unit <= SumFunction(given) /\ cents * Unit >= SumFunction(given) - Unit
  BY <1>4, <1>6, TruncateParts
<1>10. /\ cents * Unit <= SumOfMatches + n * (Unit \div 2)
       /\ (\A i \in D : Single(i)) => cents * Unit >= SumOfMatches - Unit
  BY <1>1, <1>4, <1>6, <1>7, <1>8, <1>9 DEF Unit
<1> QED
  BY <1>10 DEF n, D, Single, AwardKeepsToMatches

-----------------------------------------------------------------------------
(* The check of an order number. *)

\* The characters from a to b are no white space at the ends; around them is nothing else.
LEMMA TrimParts ==
  ASSUME NEW s \in Seq(Int), NEW a \in 1..Len(s), NEW b \in a..Len(s),
         s[a] # Space, s[b] # Space,
         \A i \in DOMAIN s : i < a \/ i > b => s[i] = Space
  PROVE  TrimSpace(s) = SubSeq(s, a, b)
<1> DEFINE kept == {i \in DOMAIN s : s[i] # Space}
           first == CHOOSE i \in kept : \A j \in kept : i <= j
           last == CHOOSE i \in kept : \A j \in kept : i >= j
<1>1. kept \subseteq a..b /\ a \in kept /\ b \in kept
  OBVIOUS
<1>2. TrimSpace(s) = IF kept = {} THEN <<>> ELSE SubSeq(s, first, last)
  BY DEF TrimSpace
<1> HIDE DEF kept
<1>3. first = a
  <2>1. a \in kept /\ \A j \in kept : a <= j
    BY <1>1
  <2>2. \A i \in kept : (\A j \in kept : i <= j) => i = a
    BY <1>1
  <2> QED
    BY <2>1, <2>2
<1>4. last = b
  <2>1. b \in kept /\ \A j \in kept : b >= j
    BY <1>1
  <2>2. \A i \in kept : (\A j \in kept : i >= j) => i = b
    BY <1>1
  <2> QED
    BY <2>1, <2>2
<1> QED
  BY <1>1, <1>2, <1>3, <1>4

\* What IsValidOrderNumber comes to when there is nothing to trim.
LEMMA PlainNumber ==
  ASSUME NEW s \in Seq(Int), s # <<>>, \A i \in DOMAIN s : s[i] # Space
  PROVE  /\ TrimSpace(s) = s
         /\ IsValidOrderNumber(s) <=> (\A i \in DOMAIN s : s[i] \in Digits) /\ LuhnSum(s) % 10 = 0
<1>1. Len(s) \in Nat /\ Len(s) >= 1 /\ DOMAIN s = 1..Len(s)
  OBVIOUS
<1>2. TrimSpace(s) = SubSeq(s, 1, Len(s))
  <2> DEFINE k == Len(s)
  <2>1. 1 \in 1..k /\ k \in 1..k /\ s[1] # Space /\ s[k] # Space
        /\ \A i \in DOMAIN s : ~(i < 1 \/ i > k)
    BY <1>1
  <2> HIDE DEF k
  <2> QED
    BY <2>1, TrimParts DEF k
<1>3. SubSeq(s, 1, Len(s)) = s
  OBVIOUS
<1> QED
  BY <1>2, <1>3 DEF IsValidOrderNumber

LEMMA WeightType == \A d \in Digits : \A alt \in BOOLEAN : Weight(d, alt) \in Digits
BY DEF Weight, Digits

\* Two digits count alike in no place.
LEMMA WeightTells ==
  \A d, e \in Digits : \A alt \in BOOLEAN : d # e => Weight(d, alt) # Weight(e, alt)
BY DEF Weight, Digits

\* Two digits count alike in both orders when they are equal, or 0 and 9.
LEMMA WeightOrders ==
  ASSUME NEW d \in Digits, NEW e \in Digits, NEW alt \in BOOLEAN,
         (Weight(e, alt) - Weight(d, alt) + (Weight(d, ~alt) - Weight(e, ~alt))) % 10 = 0
  PROVE  d = e \/ {d, e} = {0, 9}
<1>1. d \in 0..9 /\ e \in 0..9
  BY DEF Digits
<1>2. d = e \/ (d = 0 /\ e = 9) \/ (d = 9 /\ e = 0)
  BY <1>1 DEF Weight
<1> QED
  BY <1>2

Alternates(s, i) == (Len(s) + 1 - i) % 2 = 0

\* One digit of a number is replaced: only its own term of the sum changes.
LEMMA ReplacedSum ==
  ASSUME NEW s \in Seq(Digits), NEW i \in DOMAIN s, NEW d \in Digits
  PROVE  /\ LuhnSum([s EXCEPT ![i] = d]) =
              LuhnSum(s) - Weight(s[i], Alternates(s, i)) + Weight(d, Alternates(s, i))
         /\ LuhnSum(s) \in Int
<1> DEFINE t == [s EXCEPT ![i] = d]
           k == Len(s)
           D == DOMAIN s
           f == [n \in D |-> Weight(s[k + 1 - n], n % 2 = 0)]
           g == [n \in D |-> Weight(t[k + 1 - n], n % 2 = 0)]
           a == k + 1 - i
<1>1. k \in Nat /\ D = 1..k /\ DOMAIN t = D /\ Len(t) = k /\ i \in D /\ a \in D
  OBVIOUS
<1>2. LuhnSum(s) = SumFunction(f) /\ LuhnSum(t) = SumFunction(g)
  BY <1>1 DEF LuhnSum
<1>3. DOMAIN f = D /\ DOMAIN g = D
  OBVIOUS
<1>4. \A n \in D : k + 1 - n \in D /\ s[k + 1 - n] \in Digits
  BY <1>1
<1>5. f[a] = Weight(s[i], Alternates(s, i)) /\ g[a] = Weight(d, Alternates(s, i))
  <2>1. k + 1 - a = i /\ (a % 2 = 0) = Alternates(s, i)
    BY <1>1 DEF Alternates
  <2>2. f[a] = Weight(s[k + 1 - a], a % 2 = 0) /\ g[a] = Weight(t[k + 1 - a], a % 2 = 0)
    BY <1>1
  <2>3. t[i] = d
    OBVIOUS
  <2> QED
    BY <2>1, <2>2, <2>3
<1>6. \A n \in D : f[n] \in Int
  <2> SUFFICES ASSUME NEW n \in D PROVE Weight(s[k + 1 - n], n % 2 = 0) \in Int
    OBVIOUS
  <2>1. s[k + 1 - n] \in Digits /\ (n % 2 = 0) \in BOOLEAN
    BY <1>4
  <2>2. Weight(s[k + 1 - n], n % 2 = 0) \in Digits
    BY <2>1, WeightType, Zenon
  <2> QED
    BY <2>2 DEF Digits
<1>7. \A n \in D \ {a} : g[n] = f[n]
  <2> SUFFICES ASSUME NEW n \in D \ {a} PROVE t[k + 1 - n] = s[k + 1 - n]
    OBVIOUS
  <2>1. k + 1 - n # i /\ k + 1 - n \in D
    BY <1>1, <1>4
  <2> QED
    BY <2>1
<1> HIDE DEF f, g, D, t, a
<1>8. IsFiniteSet(D)
  BY <1>1, FS_Interval
<1>9. g[a] \in Int
  <2>1. Alternates(s, i) \in BOOLEAN
    BY DEF Alternates
  <2> QED
    BY <1>5, <2>1, WeightType DEF Digits
<1>10. SumFunctionOnSet(g, D) = SumFunctionOnSet(f, D) - f[a] + g[a] /\ SumFunctionOnSet(f, D) \in Int
  BY <1>1, <1>6, <1>7, <1>8, <1>9, SumOfChanged
<1> QED
  BY <1>2, <1>3, <1>5, <1>10 DEF SumFunction, t

\* Two numbers that differ in one digit are not both valid.
LEMMA OneDigitTells ==
  ASSUME NEW s \in Seq(Digits), LuhnSum(s) % 10 = 0, NEW i \in DOMAIN s, NEW d \in Digits, d # s[i]
  PROVE  LuhnSum([s EXCEPT ![i] = d]) % 10 # 0
<1> DEFINE v == Weight(s[i], Alternates(s, i))  w == Weight(d, Alternates(s, i))
<1>1. s[i] \in Digits /\ Alternates(s, i) \in BOOLEAN
  BY DEF Alternates
<1>2. v \in 0..9 /\ w \in 0..9 /\ v # w
  BY <1>1, WeightType, WeightTells DEF Digits
<1>3. LuhnSum([s EXCEPT ![i] = d]) = LuhnSum(s) - v + w /\ LuhnSum(s) \in Int
  BY ReplacedSum
<1> HIDE DEF v, w
<1>4. \A sum \in Int : sum % 10 = 0 => (sum - v + w) % 10 # 0
  BY <1>2
<1> QED
  BY <1>3, <1>4

\* Two neighbours change places.
LEMMA NeighboursTell ==
  ASSUME NEW s \in Seq(Digits), LuhnSum(s) % 10 = 0, NEW i \in 1..(Len(s) - 1),
         s[i] # s[i + 1], {s[i], s[i + 1]} # {0, 9}
  PROVE  LuhnSum([s EXCEPT ![i] = s[i + 1], ![i + 1] = s[i]]) % 10 # 0
<1> DEFINE d == s[i]  e == s[i + 1]  alt == Alternates(s, i)
           t == [s EXCEPT ![i] = e]
           x == Weight(e, alt) - Weight(d, alt) + (Weight(d, ~alt) - Weight(e, ~alt))
<1>1. /\ i \in DOMAIN s /\ i + 1 \in DOMAIN s /\ Len(s) \in Nat /\ i \in Int
      /\ d \in Digits /\ e \in Digits /\ alt \in BOOLEAN
  BY DEF Alternates
<1>2. t \in Seq(Digits) /\ DOMAIN t = DOMAIN s /\ Len(t) = Len(s) /\ t[i + 1] = e
  BY <1>1
<1>3. Alternates(t, i + 1) = ~alt
  <2>1. \A m \in Int : ((m + 1) % 2 = 0) = ~(m % 2 = 0)
    OBVIOUS
  <2>2. Len(t) + 1 - (i + 1) = Len(s) - i /\ Len(s) + 1 - i = (Len(s) - i) + 1 /\ Len(s) - i \in Int
    BY <1>1, <1>2
  <2> QED
    BY <2>1, <2>2 DEF Alternates
<1>4. [s EXCEPT ![i] = e, ![i + 1] = d] = [t EXCEPT ![i + 1] = d]
  OBVIOUS
<1>5. LuhnSum(t) = LuhnSum(s) - Weight(d, alt) + Weight(e, alt) /\ LuhnSum(s) \in Int
  BY <1>1, ReplacedSum
<1> HIDE DEF t, d, e, alt
<1>6. LuhnSum([t EXCEPT ![i + 1] = d]) = LuhnSum(t) - Weight(e, ~alt) + Weight(d, ~alt)
  BY <1>1, <1>2, <1>3, ReplacedSum
<1>7. /\ Weight(d, alt) \in Int /\ Weight(e, alt) \in Int
      /\ Weight(d, ~alt) \in Int /\ Weight(e, ~alt) \in Int
  <2>1. (~alt) \in BOOLEAN
    OBVIOUS
  <2>2. /\ Weight(d, alt) \in Digits /\ Weight(e, alt) \in Digits
        /\ Weight(d, ~alt) \in Digits /\ Weight(e, ~alt) \in Digits
    BY <1>1, <2>1, WeightType, Zenon
  <2> QED
    BY <2>2 DEF Digits
<1>8. x % 10 # 0
  BY <1>1, WeightOrders DEF d, e
<1>9. LuhnSum([t EXCEPT ![i + 1] = d]) = LuhnSum(s) + x /\ x \in Int
  <2> DEFINE da == Weight(d, alt)  dn == Weight(d, ~alt)  ea == Weight(e, alt)  en == Weight(e, ~alt)
             before == LuhnSum(s)  between == LuhnSum(t)  after == LuhnSum([t EXCEPT ![i + 1] = d])
  <2>1. /\ between = before - da + ea /\ before \in Int
        /\ after = between - en + dn
        /\ x = ea - da + (dn - en)
    BY <1>5, <1>6
  <2>2. da \in Int /\ ea \in Int /\ dn \in Int /\ en \in Int
    BY <1>7
  <2> HIDE DEF da, dn, ea, en, before, between, after, x
  <2>3. after = before + x /\ x \in Int
    BY <2>1, <2>2
  <2> QED
    BY <2>3 DEF before, after
<1> HIDE DEF x
<1>10. (LuhnSum(s) + x) % 10 # 0
  <2> DEFINE before == LuhnSum(s)
  <2>1. before \in Int /\ before % 10 = 0
    BY <1>5
  <2> HIDE DEF before
  <2>2. (before + x) % 10 # 0
    BY <1>8, <1>9, <2>1
  <2> QED
    BY <2>2 DEF before
<1> QED
  BY <1>4, <1>9, <1>10 DEF d, e

\* A number without a digit.
LEMMA BlanksAreRefused ==
  ASSUME NEW s, \A i \in DOMAIN s : s[i] = Space
  PROVE  ~IsValidOrderNumber(s)
<1>1. TrimSpace(s) = <<>>
  BY DEF TrimSpace
<1> QED
  BY <1>1 DEF IsValidOrderNumber

LEMMA SlipsAreFound == ASSUME number \in Seq(Digits) PROVE SlipsAreRefused
<1> SUFFICES ASSUME IsValidOrderNumber(number) PROVE SlipsAreRefused
  BY BlanksAreRefused DEF SlipsAreRefused
<1> DEFINE n == Len(number)
<1>1. n \in Nat /\ DOMAIN number = 1..n /\ \A i \in DOMAIN number : number[i] \in Digits
  OBVIOUS
<1>2. \A d \in Digits : d \in Int /\ d # Space
  BY DEF Digits, Space
<1>3. \A s \in Seq(Digits) : s \in Seq(Int) /\ \A i \in DOMAIN s : s[i] \in Digits /\ s[i] # Space
  <2> SUFFICES ASSUME NEW s \in Seq(Digits) PROVE s \in Seq(Int) /\ \A i \in DOMAIN s : s[i] \in Digits
    BY <1>2
  <2>1. Len(s) \in Nat /\ s \in [1..Len(s) -> Int] /\ DOMAIN s = 1..Len(s)
    BY <1>2
  <2> QED
    BY <2>1
<1>4. number # <<>>
  <2>1. ASSUME number = <<>> PROVE FALSE
    <3>1. TrimSpace(number) = <<>>
      BY <2>1 DEF TrimSpace
    <3> QED
      BY <3>1 DEF IsValidOrderNumber
  <2> QED
    BY <2>1
<1>5. LuhnSum(number) % 10 = 0 /\ TrimSpace(number) = number
  BY <1>3, <1>4, PlainNumber
\* What the check says of another number of digits.
<1>6. \A s \in Seq(Digits) : s # <<>> => (IsValidOrderNumber(s) <=> LuhnSum(s) % 10 = 0)
  BY <1>3, PlainNumber
<1>7. ASSUME NEW i \in DOMAIN number, NEW d \in Digits, d # number[i]
      PROVE  ~IsValidOrderNumber(Replaced(i, d))
  <2>1. Replaced(i, d) \in Seq(Digits) /\ Replaced(i, d) # <<>>
    BY <1>1, <1>4 DEF Replaced
  <2>2. LuhnSum(Replaced(i, d)) % 10 # 0
    BY <1>5, <1>7, OneDigitTells DEF Replaced
  <2> QED
    BY <1>6, <2>1, <2>2
<1>8. ASSUME NEW i \in 1..(Len(number) - 1), number[i] # number[i + 1], {number[i], number[i + 1]} # {0, 9}
      PROVE  ~IsValidOrderNumber(Swapped(i))
  <2>1. i \in DOMAIN number /\ i + 1 \in DOMAIN number
    BY <1>1
  <2>2. Swapped(i) \in Seq(Digits) /\ Swapped(i) # <<>>
    BY <1>1, <1>4, <2>1 DEF Swapped
  <2>3. LuhnSum(Swapped(i)) % 10 # 0
    BY <1>5, <1>8, NeighboursTell DEF Swapped
  <2> QED
    BY <1>6, <2>2, <2>3
<1>9. ASSUME NEW i \in DOMAIN number, NEW c \in {-1, 10}
      PROVE  ~IsValidOrderNumber(Replaced(i, c))
  <2> DEFINE s == Replaced(i, c)
  <2>1. c \in Int /\ c \notin Digits /\ c # Space
    BY DEF Digits, Space
  <2>2. DOMAIN s = DOMAIN number /\ s[i] = c /\ \A j \in DOMAIN number : s[j] = c \/ s[j] = number[j]
    BY DEF Replaced
  <2>3. s \in Seq(Int) /\ s # <<>>
    BY <1>1, <1>3, <1>4, <2>1 DEF Replaced
  <2> HIDE DEF s
  <2>4. \A j \in DOMAIN s : s[j] # Space
    BY <1>3, <2>1, <2>2
  <2> QED
    BY <2>1, <2>2, <2>3, <2>4, PlainNumber DEF s
<1>10. IsValidOrderNumber(<<Space>> \o number \o <<Space>>)
  <2> DEFINE s == <<Space>> \o number \o <<Space>>
  <2>1. /\ s \in Seq(Int) /\ Len(s) = n + 2 /\ s[1] = Space /\ s[n + 2] = Space
        /\ \A i \in 1..n : s[i + 1] = number[i]
    BY <1>1, <1>3 DEF Space
  <2>2. SubSeq(s, 2, n + 1) = number
    BY <1>1, <2>1
  <2> HIDE DEF s, n
  <2>3. n >= 1
    BY <1>1, <1>4 DEF n
  <2>4. s[2] # Space /\ s[n + 1] # Space
    <3>1. 1 \in 1..n /\ n \in 1..n /\ s[1 + 1] = number[1] /\ s[n + 1] = number[n]
      BY <1>1, <2>1, <2>3 DEF n
    <3> QED
      BY <1>1, <1>3, <3>1 DEF n
  <2>5. TrimSpace(s) = SubSeq(s, 2, n + 1)
    <3>1. n \in Nat
      BY <1>1
    <3>2. 2 \in 1..Len(s) /\ n + 1 \in 2..Len(s)
      BY <2>1, <2>3, <3>1
    <3>3. \A i \in DOMAIN s : i < 2 \/ i > n + 1 => s[i] = Space
      BY <2>1, <3>1
    <3> QED
      BY <2>1, <2>4, <3>2, <3>3, TrimParts
  <2> QED
    BY <1>3, <1>4, <1>5, <2>2, <2>5 DEF IsValidOrderNumber, s
<1>11. IsValidOrderNumber(<<0>> \o number)
  <2> DEFINE s == <<0>> \o number
             D == DOMAIN number
             f == [m \in D |-> Weight(number[n + 1 - m], m % 2 = 0)]
             g == [m \in DOMAIN s |-> Weight(s[Len(s) + 1 - m], m % 2 = 0)]
  <2>1. /\ s \in Seq(Digits) /\ s # <<>> /\ Len(s) = n + 1 /\ DOMAIN s = 1..n + 1 /\ s[1] = 0
        /\ \A m \in D : s[Len(s) + 1 - m] = number[n + 1 - m] /\ number[n + 1 - m] \in Digits
    BY <1>1 DEF Digits
  <2>2. LuhnSum(number) = SumFunction(f) /\ LuhnSum(s) = SumFunction(g)
    BY DEF LuhnSum
  <2> HIDE DEF s
  <2>3. /\ DOMAIN f = D /\ DOMAIN g = D \cup {n + 1} /\ n + 1 \notin D
        /\ \A m \in D : g[m] = f[m]
    BY <1>1, <2>1
  <2>4. \A m \in D : f[m] \in Int
    <3> SUFFICES ASSUME NEW m \in D PROVE Weight(number[n + 1 - m], m % 2 = 0) \in Int
      OBVIOUS
    <3>1. number[n + 1 - m] \in Digits /\ (m % 2 = 0) \in BOOLEAN
      BY <2>1
    <3>2. Weight(number[n + 1 - m], m % 2 = 0) \in Digits
      BY <3>1, WeightType, Zenon
    <3> QED
      BY <3>2, <1>2
  <2>5. g[n + 1] = 0
    <3>1. n + 1 \in DOMAIN s /\ Len(s) + 1 - (n + 1) = 1
      BY <1>1, <2>1
    <3>2. g[n + 1] = Weight(0, (n + 1) % 2 = 0)
      BY <2>1, <3>1
    <3> QED
      BY <3>2 DEF Weight
  <2>6. IsFiniteSet(D)
    BY <1>1, FS_Interval
  <2> HIDE DEF f, g, D, n
  <2>7. SumFunction(g) = SumFunction(f) + g[n + 1]
    BY <2>3, <2>4, <2>5, <2>6, SumOfLonger
  <2>8. SumFunction(f) \in Int
    <3>1. SumFunctionOnSet(f, D) \in Int
      BY <2>4, <2>6, SumType
    <3> QED
      BY <2>3, <3>1 DEF SumFunction
  <2>9. LuhnSum(s) % 10 = 0
    BY <1>5, <2>2, <2>5, <2>7, <2>8
  <2> QED
    BY <1>6, <2>1, <2>9 DEF s
<1> QED
  BY <1>7, <1>8, <1>9, <1>10, <1>11, BlanksAreRefused DEF SlipsAreRefused

-----------------------------------------------------------------------------
\* What is calculated, and from what.
CalculationInv ==
  /\ goods \in Seq(AnyGood) /\ rows \in Seq(AnyRule) /\ number \in Seq(Digits)
  /\ cents # NotCalculated => cents \in ProcessOrder(rows, goods)

(***************************************************************************)
(* The goods, rules and digits are of the kinds they are meant to be, for  *)
(* any number of them, and an award is what processOrder makes of them.    *)
(***************************************************************************)
THEOREM CalculationInvariant == RewardsSpec => []CalculationInv
<1>1. RewardsInit => CalculationInv
  <2> SUFFICES ASSUME RewardsInit PROVE CalculationInv
    OBVIOUS
  <2>1. CASE OrderInit
    <3>1. PICK n \in Nat : goods \in [1..n -> AnyGood]
      BY <2>1 DEF OrderInit
    <3>2. PICK R \in RuleSets : rows \in RowsOf(R)
      BY <2>1 DEF OrderInit
    <3>3. rows \in Seq(AnyRule)
      BY <3>2, RowsAreRead
    <3> QED
      BY <2>1, <3>1, <3>3 DEF RewardsInit, OrderInit, CalculationInv
  <2>2. CASE NumberInit
    <3>1. PICK n \in Nat : number \in [1..n -> Digits]
      BY <2>2 DEF NumberInit
    <3> QED
      BY <2>2, <3>1 DEF RewardsInit, NumberInit, CalculationInv
  <2> QED
    BY <2>1, <2>2 DEF RewardsInit
<1>2. CalculationInv /\ [CalculateAward]_rewardVars => CalculationInv'
  BY DEF CalculationInv, CalculateAward, rewardVars
<1> QED
  BY <1>1, <1>2, PTL DEF RewardsSpec

(***************************************************************************)
(* For any rules, prices and rewards and any number of goods: an award     *)
(* exceeds the sum of the matches by half a cent per good at most, and     *)
(* falls short of it by a cent at most when no good is matched twice       *)
(* (processOrder).                                                         *)
(***************************************************************************)
THEOREM AwardsKeepToMatches == RewardsSpec => []AwardKeepsToMatches
<1>1. CalculationInv => AwardKeepsToMatches
  BY AwardIsOfMatches DEF CalculationInv, AwardKeepsToMatches
<1> QED
  BY <1>1, CalculationInvariant, PTL

(***************************************************************************)
(* The check finds the slips it is there to find in an order number of any *)
(* length (IsValidOrderNumber).                                            *)
(***************************************************************************)
THEOREM NumbersAreChecked == RewardsSpec => []SlipsAreRefused
<1>1. CalculationInv => SlipsAreRefused
  BY SlipsAreFound DEF CalculationInv
<1> QED
  BY <1>1, CalculationInvariant, PTL
=============================================================================
