---------------------------- MODULE Lifecycle_proofs ----------------------------
(***************************************************************************)
(* Proofs about Lifecycle for any finite pool, any number of requests,     *)
(* migrations and starts.                                                  *)
(***************************************************************************)
EXTENDS Lifecycle, FiniteSetTheorems, TLAPS

USE LifecycleAssumption

Starting == {"ping", "prepare"} \cup Migrating
AfterShutdown == Stopping \ {"shutdown"}

\* Where the migrations stand.
MigrationInv ==
  /\ IF dirty THEN applied \in {version - 1, version} ELSE applied = version
  /\ at = "mark" => ~dirty /\ version < LastMigration
  /\ at = "apply" => dirty /\ applied = version - 1
  /\ at = "clean" => dirty /\ applied = version
  /\ at \in {"prepare", "serve", "exited"} \cup Stopping => ~dirty /\ version = LastMigration

\* The listener is closed for good before main looks whether handlers run.
ServerInv ==
  /\ at \in Stopping \cup {"exited"} => listener = "closed"
  /\ at \in AfterShutdown \cup {"exited"} => handling = {} \/ timedOut

\* The WaitGroup counts the goroutines that run, and one that Run is about to start.
Running == {g \in Pool : goroutine[g] = "run"}
CountInv == counter = Cardinality(Running) + (IF run = "go" THEN 1 ELSE 0)

RunInv ==
  /\ at \in Starting => run = "none"
  /\ run = "none" => \A g \in Pool : goroutine[g] = "none"
  /\ run \in {"add", "go"} => \E g \in Pool : goroutine[g] = "none"
  /\ run = "returned" => \A g \in Pool : goroutine[g] # "none"

\* One goroutine at most wakes main up, and only while main waits.
WaiterInv ==
  /\ waiter => at \in {"waiting"} \cup Ended
  /\ \A g \in Pool : goroutine[g] = "wakes" =>
       /\ waiter
       /\ counter = 0 \/ ~Alive
       /\ \A h \in Pool \ {g} : goroutine[h] # "wakes" \/ ~Alive

LifecycleInv ==
  /\ LifecycleTypeOK
  /\ MigrationInv
  /\ ServerInv
  /\ CountInv
  /\ RunInv
  /\ WaiterInv

-----------------------------------------------------------------------------
LEMMA PoolSize ==
  /\ IsFiniteSet(Pool) /\ Cardinality(Pool) \in Nat /\ Cardinality(Pool) >= 1
  /\ \A S \in SUBSET Pool : IsFiniteSet(S) /\ Cardinality(S) \in Nat /\ Cardinality(S) <= Cardinality(Pool)
<1>1. IsFiniteSet(Pool)
  BY FS_AddElement DEF Pool
<1>2. Cardinality(Pool) \in Nat /\ Cardinality(Pool) # 0
  BY <1>1, FS_CardinalityType, FS_EmptySet DEF Pool
<1>3. ASSUME NEW S \in SUBSET Pool
      PROVE  IsFiniteSet(S) /\ Cardinality(S) \in Nat /\ Cardinality(S) <= Cardinality(Pool)
  BY <1>1, FS_Subset, FS_CardinalityType
<1> QED
  BY <1>1, <1>2, <1>3

LEMMA RunningSize ==
  /\ IsFiniteSet(Running) /\ Cardinality(Running) \in Nat
  /\ Cardinality(Running) <= Cardinality(Pool)
BY PoolSize DEF Running

LEMMA LifecycleInitInv == LifecycleInit => LifecycleInv
<1> SUFFICES ASSUME LifecycleInit PROVE LifecycleInv
  OBVIOUS
<1>1. Running = {} /\ Cardinality(Running) = 0
  BY FS_EmptySet DEF LifecycleInit, Running
<1>2. LifecycleTypeOK
  <2>1. 0 \in 0..Cardinality(Pool) /\ 0 \in 0..LastMigration /\ 0 \in 0..MaxStarts
    BY PoolSize
  <2> QED
    BY <2>1 DEF LifecycleInit, LifecycleTypeOK, Ended
<1>3. MigrationInv /\ ServerInv /\ CountInv /\ RunInv
  BY <1>1 DEF LifecycleInit, MigrationInv, ServerInv, CountInv, RunInv, Stopping,
     AfterShutdown, Migrating, Starting
<1>4. WaiterInv
  BY DEF LifecycleInit, WaiterInv
<1> QED
  BY <1>2, <1>3, <1>4 DEF LifecycleInv

-----------------------------------------------------------------------------
LEMMA PreparingInv ==
  ASSUME LifecycleInv,
         Ping \/ Up \/ MarkDirty \/ Apply \/ MarkClean \/ MigrationFails \/ PreparingFails
  PROVE  LifecycleInv'
<1>1. /\ UNCHANGED <<ctxDone, starts, listener, handling, timedOut, run, counter, waiter, goroutine>>
      /\ at \in Starting /\ at' \in Starting \cup {"failed"}
  BY DEF Ping, Up, MarkDirty, Apply, MarkClean, MigrationFails, PreparingFails, Prepares, To,
     serverVars, waitVars, Starting, Migrating
<1>2. LifecycleTypeOK'
  <2>1. version' \in 0..LastMigration /\ applied' \in 0..LastMigration /\ dirty' \in BOOLEAN
    <3>1. CASE MarkDirty
      BY <3>1 DEF MarkDirty, LifecycleInv, LifecycleTypeOK, MigrationInv
    <3>2. CASE Apply
      BY <3>2 DEF Apply, LifecycleInv, LifecycleTypeOK, MigrationInv
    <3>3. CASE ~MarkDirty /\ ~Apply
      BY <3>3 DEF Ping, Up, MarkClean, MigrationFails, PreparingFails, LifecycleInv, LifecycleTypeOK,
         dbVars
    <3> QED
      BY <3>1, <3>2, <3>3
  <2> QED
    BY <1>1, <2>1 DEF LifecycleInv, LifecycleTypeOK, Starting, Ended
<1>3. MigrationInv'
  BY DEF Ping, Up, MarkDirty, Apply, MarkClean, MigrationFails, PreparingFails, Prepares, To,
     LifecycleInv, LifecycleTypeOK, MigrationInv, dbVars, Stopping, Migrating
<1>4. ServerInv'
  BY <1>1 DEF ServerInv, Starting, Stopping, AfterShutdown, Migrating
<1>5. CountInv' /\ RunInv'
  BY <1>1 DEF LifecycleInv, CountInv, Running, RunInv, Starting, Migrating
<1>6. WaiterInv'
  BY <1>1 DEF LifecycleInv, WaiterInv, RunInv, Alive, Starting, Ended, Migrating
<1> QED
  BY <1>2, <1>3, <1>4, <1>5, <1>6 DEF LifecycleInv

LEMMA PrepareStatementsInv == ASSUME LifecycleInv, PrepareStatements PROVE LifecycleInv'
<1>1. /\ at = "prepare" /\ at' = "serve" /\ run' = "add" /\ listener' = "starting"
      /\ UNCHANGED <<version, dirty, applied, ctxDone, starts, handling, timedOut, counter, waiter, goroutine>>
  BY DEF PrepareStatements, To, dbVars
<1>2. run = "none" /\ ~waiter /\ \A g \in Pool : goroutine[g] = "none"
  BY <1>1 DEF LifecycleInv, RunInv, WaiterInv, Starting, Ended
<1>3. LifecycleTypeOK' /\ MigrationInv' /\ ServerInv'
  BY <1>1 DEF LifecycleInv, LifecycleTypeOK, MigrationInv, ServerInv, Stopping, AfterShutdown
<1>4. CountInv' /\ RunInv' /\ WaiterInv'
  BY <1>1, <1>2 DEF LifecycleInv, CountInv, Running, RunInv, WaiterInv,
     Starting, Migrating, Pool
<1> QED
  BY <1>3, <1>4 DEF LifecycleInv

LEMMA ServingInv ==
  ASSUME LifecycleInv,
         Listen \/ ListenerFails \/ \E q \in Requests : Arrive(q) \/ Answer(q)
  PROVE  LifecycleInv'
<1>1. UNCHANGED <<version, dirty, applied, at, ctxDone, starts, run, counter, waiter, goroutine, timedOut>>
  BY DEF Listen, ListenerFails, Arrive, Answer, Serves, dbVars, waitVars
<1>2. LifecycleTypeOK'
  <2>1. handling' \subseteq Requests /\ listener' \in {"none", "starting", "open", "failed", "closed"}
    BY DEF LifecycleInv, LifecycleTypeOK, Listen, ListenerFails, Arrive, Answer
  <2> QED
    BY <1>1, <2>1 DEF LifecycleInv, LifecycleTypeOK
<1>3. ServerInv'
  <2>1. CASE Listen \/ ListenerFails
    BY <1>1, <2>1 DEF LifecycleInv, ServerInv, Listen, ListenerFails, Stopping, AfterShutdown
  <2>2. ASSUME NEW q \in Requests, Arrive(q) \/ Answer(q) PROVE ServerInv'
    BY <1>1, <2>2 DEF LifecycleInv, ServerInv, Arrive, Answer, Stopping, AfterShutdown
  <2> QED
    BY <2>1, <2>2
<1>4. MigrationInv' /\ CountInv' /\ RunInv' /\ WaiterInv'
  BY <1>1 DEF LifecycleInv, MigrationInv, CountInv, Running, RunInv, WaiterInv, Alive
<1> QED
  BY <1>2, <1>3, <1>4 DEF LifecycleInv

LEMMA StoppingInv ==
  ASSUME LifecycleInv,
         \/ ServerError \/ BeginShutdown \/ ShutdownReturns \/ ShutdownTimesOut
         \/ CloseRepository \/ Exit \/ Crash \/ Signal
  PROVE  LifecycleInv'
<1>1. UNCHANGED <<version, dirty, applied, starts, run, counter, waiter, goroutine, handling>>
  BY DEF ServerError, BeginShutdown, ShutdownReturns, ShutdownTimesOut, CloseRepository, Exit, Crash,
     Signal, To, dbVars, serverVars, waitVars
<1>2. /\ <<at, at'>> \in {<<"serve", "failed">>, <<"serve", "shutdown">>, <<"shutdown", "wait">>,
                          <<"close", "closed">>, <<"closed", "exited">>}
         \/ at' = "down" \/ at' = at
      /\ at' = at \/ at \notin Ended
  BY DEF ServerError, BeginShutdown, ShutdownReturns, ShutdownTimesOut, CloseRepository, Exit, Crash,
     Signal, To, Alive, Ended
<1>3. LifecycleTypeOK'
  <2>1. ctxDone' \in BOOLEAN /\ timedOut' \in BOOLEAN /\ listener' \in {listener, "closed"}
    BY DEF ServerError, BeginShutdown, ShutdownReturns, ShutdownTimesOut, CloseRepository, Exit,
       Crash, Signal, To, LifecycleInv, LifecycleTypeOK, serverVars
  <2> QED
    BY <1>1, <1>2, <2>1 DEF LifecycleInv, LifecycleTypeOK, Stopping, Ended
<1>4. MigrationInv'
  BY <1>1, <1>2 DEF LifecycleInv, MigrationInv, Stopping
<1>5. ServerInv'
  BY <1>1 DEF LifecycleInv, ServerInv, ServerError, BeginShutdown, ShutdownReturns, ShutdownTimesOut,
     CloseRepository, Exit, Crash, Signal, To, serverVars, Stopping, AfterShutdown
<1>6. CountInv' /\ RunInv'
  BY <1>1, <1>2 DEF LifecycleInv, CountInv, Running, RunInv, Starting, Migrating
<1>7. WaiterInv'
  BY <1>1, <1>2 DEF LifecycleInv, WaiterInv, Alive, Ended
<1> QED
  BY <1>3, <1>4, <1>5, <1>6, <1>7 DEF LifecycleInv

LEMMA StartInv == ASSUME LifecycleInv, Start PROVE LifecycleInv'
<1>1. /\ UNCHANGED <<version, dirty, applied>> /\ at' = "ping" /\ listener' = "none" /\ handling' = {}
      /\ run' = "none" /\ counter' = 0 /\ waiter' = FALSE /\ goroutine' = [g \in Pool |-> "none"]
      /\ ctxDone' = FALSE /\ timedOut' = FALSE
      /\ starts < MaxStarts /\ starts' = starts + 1
  BY DEF Start, dbVars
<1>2. Running' = {} /\ Cardinality(Running') = 0
  BY <1>1, FS_EmptySet DEF Running
<1>3. LifecycleTypeOK'
  <2>1. 0 \in 0..Cardinality(Pool)
    BY PoolSize
  <2>2. starts' \in 0..MaxStarts
    BY <1>1 DEF LifecycleInv, LifecycleTypeOK
  <2> QED
    BY <1>1, <2>1, <2>2 DEF LifecycleInv, LifecycleTypeOK
<1>4. MigrationInv' /\ ServerInv' /\ CountInv' /\ RunInv'
  BY <1>1, <1>2 DEF LifecycleInv, MigrationInv, ServerInv, CountInv, RunInv, Stopping,
     AfterShutdown
<1>5. WaiterInv'
  BY <1>1 DEF WaiterInv
<1> QED
  BY <1>3, <1>4, <1>5 DEF LifecycleInv

-----------------------------------------------------------------------------
(* The WaitGroup. *)

\* They leave the database and the server alone, and move main only once it
\* has shut the server down.
LEMMA WaitGroupKeeps ==
  ASSUME LifecycleInv, Waits,
         at' = at \/ at' \in {"close", "waiting", "released", "panicked"},
         at' # at => at \in AfterShutdown
  PROVE  MigrationInv' /\ ServerInv'
BY DEF Waits, LifecycleInv, MigrationInv, ServerInv, dbVars, serverVars, Stopping, AfterShutdown

\* The type of what they change.
LEMMA WaitGroupType ==
  ASSUME LifecycleInv, Waits, CountInv', RunInv',
         at' = at \/ at' \in {"close", "waiting", "released", "panicked"},
         run' \in {run, "add", "go", "returned"}, counter' \in Int,
         waiter' \in BOOLEAN,
         goroutine' \in [Pool -> {"none", "run", "wakes", "done"}]
  PROVE  LifecycleTypeOK'
<1>1. Cardinality(Running') \in Nat /\ Cardinality(Running') <= Cardinality(Pool)
  BY PoolSize DEF Running
<1>2. counter' \in 0..Cardinality(Pool)
  <2>1. CASE run' # "go"
    BY <1>1, <2>1, PoolSize DEF CountInv
  <2>2. CASE run' = "go"
    <3>1. PICK g \in Pool : goroutine'[g] = "none"
      BY <2>2 DEF RunInv
    <3>2. Running' \subseteq Pool \ {g}
      BY <3>1 DEF Running
    <3>3. Cardinality(Pool \ {g}) = Cardinality(Pool) - 1 /\ IsFiniteSet(Pool \ {g})
      BY PoolSize, FS_RemoveElement
    <3>4. Cardinality(Running') <= Cardinality(Pool) - 1
      BY <3>2, <3>3, FS_Subset
    <3> QED
      BY <1>1, <2>2, <3>4, PoolSize DEF CountInv
  <2> QED
    BY <2>1, <2>2
<1> QED
  BY <1>2 DEF Waits, LifecycleInv, LifecycleTypeOK, Stopping, Ended, dbVars, serverVars

LEMMA RunAddsInv == ASSUME LifecycleInv, RunAdds PROVE LifecycleInv'
<1>1. /\ run = "add" /\ run' = "go" /\ counter' = counter + 1 /\ at \notin Ended
      /\ at' = IF counter = 0 /\ waiter THEN "panicked" ELSE at
      /\ Waits /\ UNCHANGED <<waiter, goroutine>>
  BY DEF RunAdds, Alive
<1>2. counter \in Nat /\ (waiter => at = "waiting")
  BY <1>1 DEF LifecycleInv, LifecycleTypeOK, WaiterInv
<1>3. MigrationInv' /\ ServerInv'
  BY <1>1, <1>2, WaitGroupKeeps DEF AfterShutdown, Stopping
<1>4. CountInv'
  <2>1. Running' = Running /\ Cardinality(Running) \in Nat
    BY <1>1, RunningSize DEF Running
  <2> QED
    BY <1>1, <2>1 DEF LifecycleInv, CountInv
<1>5. RunInv'
  BY <1>1 DEF LifecycleInv, RunInv, Starting, Migrating
<1>6. LifecycleTypeOK'
  BY <1>1, <1>2, <1>3, <1>4, <1>5, WaitGroupType DEF LifecycleInv, LifecycleTypeOK
<1>7. WaiterInv'
  BY <1>1, <1>2 DEF LifecycleInv, WaiterInv, Alive, Ended
<1> QED
  BY <1>3, <1>4, <1>5, <1>6, <1>7 DEF LifecycleInv

LEMMA RunStartsInv == ASSUME LifecycleInv, NEW g \in Pool, RunStarts(g) PROVE LifecycleInv'
<1>1. /\ run = "go" /\ goroutine[g] = "none" /\ goroutine' = [goroutine EXCEPT ![g] = "run"]
      /\ run' = IF \A p \in Pool \ {g} : goroutine[p] # "none" THEN "returned" ELSE "add"
      /\ at \notin Ended /\ Waits /\ UNCHANGED <<at, counter, waiter>>
  BY DEF RunStarts, Alive
<1>2. goroutine = [p \in Pool |-> goroutine[p]] /\ at \notin Starting
  BY <1>1 DEF LifecycleInv, LifecycleTypeOK, RunInv
<1>3. MigrationInv' /\ ServerInv'
  BY <1>1, WaitGroupKeeps
<1>4. CountInv'
  <2>1. Running' = Running \cup {g} /\ g \notin Running
    BY <1>1, <1>2 DEF Running
  <2>2. Cardinality(Running') = Cardinality(Running) + 1
    BY <2>1, RunningSize, FS_AddElement
  <2> QED
    BY <1>1, <2>2, RunningSize DEF LifecycleInv, CountInv
<1>5. RunInv'
  BY <1>1, <1>2 DEF RunInv
<1>6. LifecycleTypeOK'
  <2>1. goroutine' \in [Pool -> {"none", "run", "wakes", "done"}]
    BY <1>1 DEF LifecycleInv, LifecycleTypeOK
  <2>2. /\ run' \in {run, "add", "go", "returned"} /\ counter' \in Int
        /\ waiter' \in BOOLEAN
    BY <1>1 DEF LifecycleInv, LifecycleTypeOK
  <2> QED
    BY <1>1, <1>3, <1>4, <1>5, <2>1, <2>2, WaitGroupType
<1>7. WaiterInv'
  BY <1>1, <1>2 DEF LifecycleInv, WaiterInv, Alive
<1> QED
  BY <1>3, <1>4, <1>5, <1>6, <1>7 DEF LifecycleInv

LEMMA DoneInv == ASSUME LifecycleInv, NEW g \in Pool, Done(g) PROVE LifecycleInv'
<1> DEFINE s == IF counter = 1 /\ waiter THEN "wakes" ELSE "done"
<1>1. /\ goroutine[g] = "run" /\ goroutine' = [goroutine EXCEPT ![g] = s] /\ counter' = counter - 1
      /\ at \notin Ended /\ Waits /\ UNCHANGED <<at, run, waiter>>
  BY DEF Done, Alive
<1>2. goroutine = [p \in Pool |-> goroutine[p]] /\ counter \in Nat
  BY DEF LifecycleInv, LifecycleTypeOK
<1>3. counter >= 1
  <2>1. Cardinality(Running) # 0
    BY <1>1, RunningSize, FS_EmptySet DEF Running
  <2> QED
    BY <1>2, <2>1, RunningSize DEF LifecycleInv, CountInv
<1>4. MigrationInv' /\ ServerInv'
  BY <1>1, WaitGroupKeeps
<1>5. CountInv'
  <2>1. Running' = Running \ {g} /\ g \in Running
    BY <1>1, <1>2 DEF Running
  <2>2. Cardinality(Running') = Cardinality(Running) - 1
    BY <2>1, RunningSize, FS_RemoveElement
  <2> QED
    BY <1>1, <2>2, RunningSize DEF LifecycleInv, CountInv
<1>6. RunInv'
  BY <1>1, <1>2 DEF LifecycleInv, RunInv, Starting, Migrating
<1>7. LifecycleTypeOK'
  <2>1. goroutine' \in [Pool -> {"none", "run", "wakes", "done"}]
    BY <1>1 DEF LifecycleInv, LifecycleTypeOK
  <2>2. /\ run' \in {run, "add", "go", "returned"} /\ counter' \in Int
        /\ waiter' \in BOOLEAN
    BY <1>1 DEF LifecycleInv, LifecycleTypeOK
  <2> QED
    BY <1>1, <1>2, <1>4, <1>5, <1>6, <2>1, <2>2, WaitGroupType
<1>8. WaiterInv'
  BY <1>1, <1>2, <1>3 DEF LifecycleInv, WaiterInv, Alive, Ended
<1> QED
  BY <1>4, <1>5, <1>6, <1>7, <1>8 DEF LifecycleInv

LEMMA WakesInv == ASSUME LifecycleInv, NEW g \in Pool, Wakes(g) PROVE LifecycleInv'
<1>1. /\ goroutine[g] = "wakes" /\ goroutine' = [goroutine EXCEPT ![g] = "done"] /\ waiter' = FALSE
      /\ at \notin Ended /\ at' = "released" /\ Waits /\ UNCHANGED <<run, counter>>
  BY DEF Wakes, Alive
<1>2. goroutine = [p \in Pool |-> goroutine[p]] /\ counter \in Nat
  BY DEF LifecycleInv, LifecycleTypeOK
<1>3. /\ at = "waiting" /\ waiter /\ counter = 0
      /\ \A h \in Pool \ {g} : goroutine[h] # "wakes"
  BY <1>1 DEF LifecycleInv, WaiterInv, Alive
<1>4. \A h \in Pool : goroutine[h] # "run"
  <2>1. Cardinality(Running) = 0
    BY <1>3, RunningSize DEF LifecycleInv, CountInv
  <2> QED
    BY <2>1, RunningSize, FS_EmptySet DEF Running
<1>5. MigrationInv' /\ ServerInv'
  BY <1>1, <1>3, WaitGroupKeeps DEF AfterShutdown, Stopping
<1>6. CountInv'
  <2>1. Running' = Running
    BY <1>1, <1>2 DEF Running
  <2> QED
    BY <1>1, <2>1 DEF LifecycleInv, CountInv
<1>7. RunInv'
  BY <1>1, <1>2 DEF LifecycleInv, RunInv, Starting, Migrating
<1>8. LifecycleTypeOK'
  <2>1. goroutine' \in [Pool -> {"none", "run", "wakes", "done"}]
    BY <1>1 DEF LifecycleInv, LifecycleTypeOK
  <2>2. run' \in {run, "add", "go", "returned"} /\ counter' \in Int
    BY <1>1, <1>2 DEF LifecycleInv, LifecycleTypeOK
  <2>3. waiter' \in BOOLEAN
    BY <1>1
  <2> QED
    BY <1>1, <1>2, <1>5, <1>6, <1>7, <2>1, <2>2, <2>3, WaitGroupType
<1>9. WaiterInv'
  BY <1>1, <1>2, <1>3 DEF WaiterInv
<1> QED
  BY <1>5, <1>6, <1>7, <1>8, <1>9 DEF LifecycleInv

LEMMA WaitInv == ASSUME LifecycleInv, Wait \/ WaitReturns PROVE LifecycleInv'
<1>1. /\ at \in {"wait", "released"} /\ at' \in {"close", "waiting", "panicked"}
      /\ Waits /\ UNCHANGED <<run, counter, goroutine>>
      /\ waiter' \in BOOLEAN
  BY DEF Wait, WaitReturns, waitVars, LifecycleInv, LifecycleTypeOK
<1>2. counter \in Nat /\ ~waiter /\ \A g \in Pool : goroutine[g] \in {"none", "run", "done"}
  BY <1>1 DEF LifecycleInv, LifecycleTypeOK, WaiterInv, Ended
<1>3. MigrationInv' /\ ServerInv'
  BY <1>1, WaitGroupKeeps DEF AfterShutdown, Stopping
<1>4. CountInv' /\ RunInv'
  BY <1>1 DEF LifecycleInv, CountInv, Running, RunInv, Starting, Migrating
<1>5. LifecycleTypeOK'
  BY <1>1, <1>2, <1>3, <1>4, WaitGroupType DEF LifecycleInv, LifecycleTypeOK
<1>6. WaiterInv'
  BY <1>1, <1>2 DEF WaiterInv, Wait, WaitReturns, waitVars
<1> QED
  BY <1>3, <1>4, <1>5, <1>6 DEF LifecycleInv

-----------------------------------------------------------------------------
LEMMA LifecycleStepInv == ASSUME LifecycleInv, [LifecycleNext]_lifeVars PROVE LifecycleInv'
<1>1. CASE Main
  BY <1>1, PreparingInv, PrepareStatementsInv, StoppingInv, WaitInv DEF Main
<1>2. CASE Run
  BY <1>2, RunAddsInv, RunStartsInv DEF Run
<1>3. CASE \E g \in Pool : PoolStep(g)
  BY <1>3, DoneInv, WakesInv DEF PoolStep
<1>4. CASE Around
  BY <1>4, StartInv, StoppingInv, ServingInv DEF Around
<1>5. CASE UNCHANGED lifeVars
  <2>1. UNCHANGED <<version, dirty, applied, at, ctxDone, listener, handling, timedOut, run, counter,
                    waiter, goroutine, starts>>
    BY <1>5 DEF lifeVars, dbVars, serverVars, waitVars
  <2> QED
    BY <2>1 DEF LifecycleInv, LifecycleTypeOK, MigrationInv, ServerInv, CountInv, Running, RunInv,
       WaiterInv, Alive
<1> QED
  BY <1>1, <1>2, <1>3, <1>4, <1>5 DEF LifecycleNext

(***************************************************************************)
(* The strengthened invariant: the WaitGroup counts exactly the goroutines *)
(* that run, a goroutine that wakes main is the last one, and a migration  *)
(* that is not marked clean keeps main from going on.                      *)
(***************************************************************************)
THEOREM LifecycleInvariant == LifecycleSpec => []LifecycleInv
<1>1. LifecycleInv /\ [LifecycleNext]_lifeVars => LifecycleInv'
  BY LifecycleStepInv
<1> QED
  BY <1>1, LifecycleInitInv, PTL DEF LifecycleSpec

(***************************************************************************)
(* Every variable keeps its type; the counter of the WaitGroup, which Run, *)
(* the goroutines and main share, is never negative.                       *)
(***************************************************************************)
THEOREM LifecycleTypeCorrect == LifecycleSpec => []LifecycleTypeOK
<1>1. LifecycleInv => LifecycleTypeOK
  BY DEF LifecycleInv
<1> QED
  BY <1>1, LifecycleInvariant, PTL

(***************************************************************************)
(* No start, crash or failure lets the process serve on a schema that is   *)
(* not complete, for any number of migrations.                             *)
(***************************************************************************)
THEOREM LifecycleServesOnCompleteSchema == LifecycleSpec => []ServesOnCompleteSchema
<1>1. LifecycleInv => ServesOnCompleteSchema
  BY DEF LifecycleInv, MigrationInv, ServesOnCompleteSchema
<1> QED
  BY <1>1, LifecycleInvariant, PTL

\* main leaves Wait with the counter at zero.
LEMMA LeavesAtZero ==
  ASSUME LifecycleInv, [LifecycleNext]_lifeVars, at # "close", at' = "close"
  PROVE  run' # "go" /\ \A g \in Pool : goroutine'[g] # "run"
<1>1. Wait \/ WaitReturns
  BY DEF LifecycleNext, Main, Run, PoolStep, Around, lifeVars, Ping, Up, MarkDirty, Apply, MarkClean,
     MigrationFails, PrepareStatements, PreparingFails, Prepares, To, ServerError, BeginShutdown,
     ShutdownReturns, ShutdownTimesOut, CloseRepository, Exit, RunAdds, RunStarts, Done, Wakes,
     Start, Crash, Signal, Listen, ListenerFails, Arrive, Answer, Serves
<1>2. counter = 0 /\ UNCHANGED <<run, goroutine>>
  BY <1>1 DEF Wait, WaitReturns, waitVars
<1>3. Cardinality(Running) = 0 /\ run # "go"
  BY <1>2, RunningSize DEF LifecycleInv, CountInv
<1>4. Running = {}
  BY <1>3, RunningSize, FS_EmptySet
<1> QED
  BY <1>2, <1>3, <1>4 DEF Running

(***************************************************************************)
(* main never leaves Wait while a goroutine of the pool runs or Run is     *)
(* about to start the next, for a pool of any size and however Run, the    *)
(* goroutines, signals, crashes and main overlap.                          *)
(***************************************************************************)
THEOREM LifecycleCloseWaitsForPool == LifecycleSpec => CloseWaitsForPool
<1>1. LifecycleInv /\ [LifecycleNext]_lifeVars
        => [at # "close" /\ at' = "close" => run' # "go" /\ \A g \in Pool : goroutine'[g] # "run"]_lifeVars
  BY LeavesAtZero
<1> QED
  BY <1>1, LifecycleInvariant, PTL DEF LifecycleSpec, CloseWaitsForPool

(***************************************************************************)
(* Unless Shutdown gives up, every request that was accepted is answered   *)
(* before the repository is closed, for any number of requests.            *)
(***************************************************************************)
THEOREM LifecycleAnswersRequests == LifecycleSpec => []RequestsAreAnswered
<1>1. LifecycleInv => RequestsAreAnswered
  BY DEF LifecycleInv, ServerInv, AfterShutdown, Stopping, RequestsAreAnswered
<1> QED
  BY <1>1, LifecycleInvariant, PTL
=============================================================================
