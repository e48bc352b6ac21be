------------------------------- MODULE Lifecycle -------------------------------
(***************************************************************************)
(* The life of the gophermart process (cmd/gophermart/main.go): it brings  *)
(* the database to the last migration, prepares its statements, starts the *)
(* worker pool and the HTTP server, and on SIGTERM shuts the server down,  *)
(* waits for the pool and closes the repository.  It may crash anywhere    *)
(* and is started again (restart: unless-stopped); what the migrations     *)
(* have left in the database survives.                                     *)
(*                                                                         *)
(* The goroutines of the pool and the handlers of requests are seen from   *)
(* outside: that they run, and that they end.  What they do is in          *)
(* WorkerPool, OrderUpload and Accounts.                                   *)
(***************************************************************************)
EXTENDS Integers, FiniteSets

CONSTANTS
  Workers,        \* the worker goroutines of the pool
  Puller,         \* its puller goroutine
  Requests,       \* bound of the model: requests served at the same time
  LastMigration,  \* 3 in migrations/gophermart
  MaxStarts       \* bound of the model: how often the process is started

ASSUME LifecycleAssumption ==
  /\ IsFiniteSet(Workers)
  /\ Puller \notin Workers
  /\ LastMigration \in Nat
  /\ MaxStarts \in Nat

VARIABLES
  version,    \* schema_migrations_gophermart.version
  dirty,      \* schema_migrations_gophermart.dirty
  applied,    \* how many migrations have been executed, in order
  at,         \* the statement of main, or how the process has ended
  ctxDone,    \* the context of signal.NotifyContext is cancelled
  listener,   \* the goroutine of ListenAndServe
  handling,   \* the requests that have a handler running
  timedOut,   \* Shutdown has given up
  run,        \* the statement of poller.Run, a goroutine of its own
  counter,    \* the WaitGroup: its counter
  waiter,     \*   and whether main is blocked in its Wait
  goroutine,  \* the goroutines of the pool
  starts      \* how often the process was started

dbVars == <<version, dirty, applied>>
serverVars == <<listener, handling, timedOut>>
waitVars == <<run, counter, waiter, goroutine>>
lifeVars == <<dbVars, at, ctxDone, serverVars, waitVars, starts>>

Pool == Workers \cup {Puller}

Migrating == {"up", "mark", "apply", "clean"}
Stopping == {"shutdown", "wait", "waiting", "released", "close", "closed"}
Ended == {"down", "exited", "failed", "panicked"}

Alive == at \notin Ended

LifecycleInit ==
  /\ version = 0 /\ dirty = FALSE /\ applied = 0
  /\ at = "down"
  /\ ctxDone = FALSE
  /\ listener = "none" /\ handling = {} /\ timedOut = FALSE
  /\ run = "none" /\ counter = 0 /\ waiter = FALSE
  /\ goroutine = [g \in Pool |-> "none"]
  /\ starts = 0

\* A new process remembers nothing.
Start ==
  /\ ~Alive
  /\ starts < MaxStarts
  /\ starts' = starts + 1
  /\ at' = "ping"
  /\ ctxDone' = FALSE
  /\ listener' = "none" /\ handling' = {} /\ timedOut' = FALSE
  /\ run' = "none" /\ counter' = 0 /\ waiter' = FALSE
  /\ goroutine' = [g \in Pool |-> "none"]
  /\ UNCHANGED dbVars

\* The container is killed, or the machine fails.
Crash ==
  /\ Alive
  /\ at' = "down"
  /\ UNCHANGED <<dbVars, ctxDone, serverVars, waitVars, starts>>

\* The first SIGTERM or SIGINT; until stop() runs, further ones have no effect.
Signal ==
  /\ Alive
  /\ ~ctxDone
  /\ ctxDone' = TRUE
  /\ UNCHANGED <<dbVars, at, serverVars, waitVars, starts>>

-----------------------------------------------------------------------------
(* NewPostgresRepository.  A signal does not interrupt the migrations.      *)

\* main goes on to p.
To(p) == at' = p /\ UNCHANGED <<ctxDone, starts>>
Prepares(p) == To(p) /\ UNCHANGED <<serverVars, waitVars>>

Ping == at = "ping" /\ Prepares("up") /\ UNCHANGED dbVars

\* Up starts from a clean version, and has nothing to do at the last one.
Up ==
  /\ at = "up"
  /\ ~dirty
  /\ Prepares(IF version = LastMigration THEN "prepare" ELSE "mark")
  /\ UNCHANGED dbVars

MarkDirty ==
  /\ at = "mark"
  /\ version' = version + 1
  /\ dirty' = TRUE
  /\ Prepares("apply")
  /\ UNCHANGED applied

\* The statements of one file are one transaction.
Apply ==
  /\ at = "apply"
  /\ applied' = applied + 1
  /\ Prepares("clean")
  /\ UNCHANGED <<version, dirty>>

MarkClean ==
  /\ at = "clean"
  /\ dirty' = FALSE
  /\ Prepares(IF version = LastMigration THEN "prepare" ELSE "mark")
  /\ UNCHANGED <<version, applied>>

\* Mutant of MigrationFails: an error of Up counts as nothing to do.
MigrationFailsMutant ==
  /\ at \in {"ping"} \cup Migrating
  /\ Prepares("prepare")
  /\ UNCHANGED dbVars

\* No ping, no migration files, a dirty version, a failed statement.
MigrationFails ==
  /\ at \in {"ping"} \cup Migrating
  /\ Prepares("failed")
  /\ UNCHANGED dbVars

\* A cancelled context makes every PrepareContext fail.
PreparingFails == at = "prepare" /\ Prepares("failed") /\ UNCHANGED dbVars

\* The statements are prepared; main starts Run and the server.
PrepareStatements ==
  /\ at = "prepare"
  /\ ~ctxDone
  /\ To("serve")
  /\ run' = "add"
  /\ listener' = "starting"
  /\ UNCHANGED <<dbVars, handling, timedOut, counter, waiter, goroutine>>

-----------------------------------------------------------------------------
(* The server. *)

Serves == UNCHANGED <<dbVars, at, ctxDone, waitVars, starts>>

Listen ==
  /\ Alive
  /\ listener = "starting"
  /\ listener' = "open"
  /\ Serves /\ UNCHANGED <<handling, timedOut>>

\* The address is taken, or Accept fails for good.
ListenerFails ==
  /\ Alive
  /\ listener \in {"starting", "open"}
  /\ listener' = "failed"
  /\ Serves /\ UNCHANGED <<handling, timedOut>>

Arrive(q) ==
  /\ Alive
  /\ listener = "open"
  /\ q \notin handling
  /\ handling' = handling \cup {q}
  /\ Serves /\ UNCHANGED <<listener, timedOut>>

Answer(q) ==
  /\ Alive
  /\ q \in handling
  /\ handling' = handling \ {q}
  /\ Serves /\ UNCHANGED <<listener, timedOut>>

\* Fatalf, without a shutdown of any kind.  When there is a signal as well,
\* select takes either.
ServerError ==
  /\ at = "serve"
  /\ listener = "failed"
  /\ To("failed")
  /\ UNCHANGED <<dbVars, serverVars, waitVars>>

\* Mutant of BeginShutdown: the listener stays open.
BeginShutdownMutant ==
  /\ at = "serve"
  /\ ctxDone
  /\ To("shutdown")
  /\ UNCHANGED <<dbVars, listener, handling, timedOut, waitVars>>

\* Shutdown closes the listener; a ListenAndServe that comes later returns at once.
BeginShutdown ==
  /\ at = "serve"
  /\ ctxDone
  /\ To("shutdown")
  /\ listener' = "closed"
  /\ UNCHANGED <<dbVars, handling, timedOut, waitVars>>

ShutdownReturns ==
  /\ at = "shutdown"
  /\ handling = {}
  /\ To("wait")
  /\ UNCHANGED <<dbVars, serverVars, waitVars>>

\* Mutant of ShutdownTimesOut: Shutdown gets a context without a timeout.
ShutdownTimesOutMutant ==
  /\ at = "shutdown"
  /\ handling = {}
  /\ timedOut' = TRUE
  /\ To("wait")
  /\ UNCHANGED <<dbVars, listener, handling, waitVars>>

\* ShutdownTimeout is shorter than the timeouts of a request.
ShutdownTimesOut ==
  /\ at = "shutdown"
  /\ handling # {}
  /\ timedOut' = TRUE
  /\ To("wait")
  /\ UNCHANGED <<dbVars, listener, handling, waitVars>>

-----------------------------------------------------------------------------
(* The pool and its WaitGroup.  An Add that finds the counter at zero while *)
(* Wait is blocked, or a counter that is not zero when it wakes up, makes   *)
(* the WaitGroup panic, and a panic in any goroutine ends the process.      *)

Waits == UNCHANGED <<dbVars, ctxDone, serverVars, starts>>

\* Mutant of RunAdds: Add is forgotten.
RunAddsMutant ==
  /\ Alive
  /\ run = "add"
  /\ run' = "go"
  /\ Waits /\ UNCHANGED <<at, counter, waiter, goroutine>>

RunAdds ==
  /\ Alive
  /\ run = "add"
  /\ counter' = counter + 1
  /\ run' = "go"
  /\ at' = IF counter = 0 /\ waiter THEN "panicked" ELSE at
  /\ Waits /\ UNCHANGED <<waiter, goroutine>>

\* The puller first, then the workers.
RunStarts(g) ==
  /\ Alive
  /\ run = "go"
  /\ goroutine[g] = "none"
  /\ g # Puller => goroutine[Puller] # "none"
  /\ goroutine' = [goroutine EXCEPT ![g] = "run"]
  /\ run' = IF \A p \in Pool \ {g} : goroutine[p] # "none" THEN "returned" ELSE "add"
  /\ Waits /\ UNCHANGED <<at, counter, waiter>>

\* Every goroutine of the pool ends with the context (PoolStops of WorkerPool)
\* and calls Done; the last one sees to a Wait that is blocked.
Done(g) ==
  /\ Alive
  /\ ctxDone
  /\ goroutine[g] = "run"
  /\ counter' = counter - 1
  /\ goroutine' = [goroutine EXCEPT ![g] = IF counter = 1 /\ waiter THEN "wakes" ELSE "done"]
  /\ Waits /\ UNCHANGED <<at, run, waiter>>

Wakes(g) ==
  /\ Alive
  /\ goroutine[g] = "wakes"
  /\ goroutine' = [goroutine EXCEPT ![g] = "done"]
  /\ waiter' = FALSE
  /\ at' = "released"
  /\ Waits /\ UNCHANGED <<run, counter>>

\* Mutant of Wait: main does not wait for the pool.
WaitMutant ==
  /\ at = "wait"
  /\ waiter' = FALSE
  /\ at' = "close"
  /\ Waits /\ UNCHANGED <<run, counter, goroutine>>

Wait ==
  /\ at = "wait"
  /\ waiter' = (counter # 0)
  /\ at' = IF counter = 0 THEN "close" ELSE "waiting"
  /\ Waits /\ UNCHANGED <<run, counter, goroutine>>

WaitReturns ==
  /\ at = "released"
  /\ at' = IF counter = 0 THEN "close" ELSE "panicked"
  /\ Waits /\ UNCHANGED waitVars

\* repo.Close: the statements, then the connections.
CloseRepository ==
  /\ at = "close"
  /\ To("closed")
  /\ UNCHANGED <<dbVars, serverVars, waitVars>>

Exit ==
  /\ at = "closed"
  /\ To("exited")
  /\ UNCHANGED <<dbVars, serverVars, waitVars>>

-----------------------------------------------------------------------------
Main ==
  \/ Ping \/ Up \/ MarkDirty \/ Apply \/ MarkClean \/ MigrationFails
  \/ PrepareStatements \/ PreparingFails
  \/ ServerError \/ BeginShutdown \/ ShutdownReturns \/ ShutdownTimesOut
  \/ Wait \/ WaitReturns \/ CloseRepository \/ Exit

Run == RunAdds \/ \E g \in Pool : RunStarts(g)

PoolStep(g) == Done(g) \/ Wakes(g)

Around ==
  \/ Start \/ Crash \/ Signal
  \/ Listen \/ ListenerFails
  \/ \E q \in Requests : Arrive(q) \/ Answer(q)

LifecycleNext == Main \/ Run \/ (\E g \in Pool : PoolStep(g)) \/ Around

LifecycleSpec == LifecycleInit /\ [][LifecycleNext]_lifeVars

(***************************************************************************)
(* The Go scheduler runs main, Run and the goroutines of the pool, and the *)
(* timeout of Shutdown fires.  No request need ever be answered.           *)
(***************************************************************************)
FairLifecycleSpec ==
  /\ LifecycleSpec
  /\ WF_lifeVars(Main)
  /\ WF_lifeVars(Run)
  /\ \A g \in Pool : WF_lifeVars(PoolStep(g))

-----------------------------------------------------------------------------
LifecycleTypeOK ==
  /\ version \in 0..LastMigration
  /\ dirty \in BOOLEAN
  /\ applied \in 0..LastMigration
  /\ at \in {"ping", "prepare", "serve"} \cup Migrating \cup Stopping \cup Ended
  /\ ctxDone \in BOOLEAN
  /\ listener \in {"none", "starting", "open", "failed", "closed"}
  /\ handling \subseteq Requests
  /\ timedOut \in BOOLEAN
  /\ run \in {"none", "add", "go", "returned"}
  /\ counter \in 0..Cardinality(Pool)
  /\ waiter \in BOOLEAN
  /\ goroutine \in [Pool -> {"none", "run", "wakes", "done"}]
  /\ starts \in 0..MaxStarts

(***************************************************************************)
(* The repository is used only when every migration has been executed,     *)
(* once, and marked clean: a crash or a failure between the three steps of *)
(* a migration keeps the process from serving, at this start and at every  *)
(* later one.                                                              *)
(***************************************************************************)
ServesOnCompleteSchema ==
  at \in {"prepare", "serve", "exited"} \cup Stopping => applied = LastMigration /\ ~dirty

(***************************************************************************)
(* main goes on to close the repository only when no goroutine of the pool *)
(* runs that Run has started by then, and Run is not about to start the    *)
(* next: with the counter at zero, or woken up by the last Done, however   *)
(* Run, the goroutines, the signal and Wait overlap (poller.Wait).         *)
(***************************************************************************)
CloseWaitsForPool ==
  [][at # "close" /\ at' = "close" => run' # "go" /\ \A g \in Pool : goroutine'[g] # "run"]_lifeVars

(***************************************************************************)
(* README.md:51: the shutdown awaits the goroutines; so none of the pool   *)
(* runs while the repository is closed, and the WaitGroup does not panic.  *)
(***************************************************************************)
PoolEndsBeforeClose ==
  /\ at \in {"close", "closed"} => \A g \in Pool : goroutine[g] # "run"
  /\ at # "panicked"

(***************************************************************************)
(* A request that was accepted is answered before the repository is closed *)
(* and the process ends, unless Shutdown has given up.                     *)
(***************************************************************************)
RequestsAreAnswered ==
  at \in {"close", "closed", "exited"} => handling = {} \/ timedOut

(***************************************************************************)
(* A signal ends the process, with a handler that hangs as with a Run that *)
(* has not begun.                                                          *)
(***************************************************************************)
SignalEndsProcess == ctxDone ~> ~Alive
=============================================================================
