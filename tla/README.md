# A TLA+ model of go-loyalty-service

The repository holds two services. **gophermart** keeps users, their order
numbers and their points. **accrual** calculates how many points an order
earns. gophermart polls accrual over HTTP; each has a PostgreSQL schema of its
own. This directory models what the two do with shared state, checks it with
TLC on small instances and proves the central parts with TLAPS for every value
of the constants.

    tlc -workers 2 -config MCRepositoryTx.cfg MCRepositoryTx    # check a run
    tlapm RepositoryTx_proofs.tla                               # check the proofs

`PROJECT.json` lists every run, the lines each definition models (`map`), the
hazards with the properties aimed at them, a plausible bug of the code for each
property (`mutants`), the disagreements found (`findings`) and the theorems.

## 1. Inventory

Paths are below `src/`; `gm` is `internal/gophermart`, `ac` is `internal/accrual`.

| component | state | operations | what makes it correct | modelled in |
|---|---|---|---|---|
| repository of gophermart, `gm/repository` | tables `users`, `orders`, `balance_transactions` | CreateUser, GetUserByLogin, CreateOrder, GetOrder…, UpdateOrderStatus, GetBalance, WithdrawBalance, GetWithdrawals, AddAccrual | each method is atomic, no point appears or disappears, an error means no effect (unless the answer to COMMIT is lost), no circle of row locks | Repository, RepositoryTx; connecting, migrating, preparing and closing in Lifecycle |
| worker pool, `gm/service/accrual/poller.go` | the two channels; what puller and workers are doing | runPuller, fetchAndQueueOrders, runWorker, handleOrder, Wait | an order is settled as calculated, eventually, and credited at most once per worker; a cancelled pool ends | WorkerPool; Run and Wait in Lifecycle |
| accrual client, `gm/service/accrual/client.go` | requests and answers on their way | GetOrder | an answer is what the service had stored when it was read, a request that was given up has no effect, none is repeated during a pause | Polling; its outcomes in WorkerPool |
| order upload, `gm/service/order`, `gm/handler/orders.go` | none of its own | Upload, List | overlapping uploads of a number have one winner; answers stay true | OrderUpload; List in Accounts |
| authentication, `gm/service/auth`, `gm/handler/auth.go`, `gm/middleware/auth.go`, `gm/utils/auth.go` | none beside `users` (a token is its own proof) | Register, Login, Auth | a token opens one account; registrations are final | Accounts |
| balance, `gm/service/balance`, `gm/handler/balance.go` | none of its own | Balance, Withdrawals, Withdraw | a user pays for what was answered; readings agree | Accounts |
| process gophermart, `cmd/gophermart/main.go` | context, WaitGroup, server | start, SIGTERM, Shutdown, Wait, Close | it serves on a complete schema, pool and requests are waited for before the repository is closed, a signal ends it | Lifecycle; stop and restart of the pool in WorkerPool |
| order service of accrual, `ac/service/order.go` | one goroutine per accepted order | RegisterOrder, GetOrderInfo, processOrder | a calculation moves forward only and is not forgotten | AccrualContract, AccrualService, Rewards; GetOrder in Polling |
| reward service of accrual, `ac/service/reward.go` | none of its own | RegisterReward | a key has one rule | AccrualService |
| repositories of accrual, `ac/repository` | tables `orders`, `reward_rules` | one statement per method | | AccrualService, Rewards |
| handlers of accrual, `ac/handler` | none | RegisterOrder, RegisterReward, GetOrder | the answer tells the effect | AccrualService (answers); GetOrderInfo in Polling |
| Luhn check, `pkg/luhn` | none | IsValidOrderNumber | it finds the slips it is there to find | Luhn |
| configuration, logging, mocks | | | | no |

Interactions. Handlers and workers share the database and nothing else: what
they do to each other goes through row locks, unique keys and committed rows.
Puller and workers share a jobs channel and a channel of announced pauses. The
pool reads what the accrual service concludes. The processes share no memory,
and each can crash while the databases live on.

What is hard here:

* two workers, or a worker and a withdrawal, between the SELECT and the COMMIT
  of each other;
* an answer of the accrual service that is stored after a newer one;
* the SELECT-then-INSERT of three different handlers;
* channels with room for few entries between goroutines that need each other;
* statements that fail in the middle of a transaction, and COMMITs whose
  answer is lost;
* crashes between an INSERT and the goroutine that was to follow it, or between
  the steps of a migration;
* a signal that overtakes a goroutine which was only just started, handlers
  that outlive the shutdown of their server;
* requests that are given up while they are answered;
* rounding of percentages to cents.

## 2. Modules

| module | what it is |
|---|---|
| `Domain` | orders, amounts (cents), statuses |
| `Repository` | the abstract repository: every method that changes orders or balances is one atomic action |
| `RepositoryTx` | the real methods: a step per SQL statement, row locks as PostgreSQL gives them, uncommitted drafts, failures, lost COMMIT answers; implements `Repository` |
| `AccrualContract` | what gophermart may rely on: a calculation moves forward, a concluded one never changes |
| `WorkerPool` | puller and workers over `Repository` and `AccrualContract` |
| `Polling` | the pool with its HTTP exchanges: a request, the two reads of the accrual handler, the answer on its way; implements `WorkerPool` |
| `Lifecycle` | the process gophermart: start, migrations, pool, server, signal, shutdown, crash |
| `UploadContract` | an upload as one atomic step |
| `OrderUpload` | the upload handler: lookup, INSERT, second lookup; implements `UploadContract` |
| `Accounts` | registration, login, token check, withdrawal, balance and the listings over `Repository` |
| `Rewards` | `processOrder` as operators |
| `Luhn` | `IsValidOrderNumber` as operators |
| `Calculation` | the two applied to any basket, rules and number, against what they are for |
| `AccrualService` | registration of orders and rules and the goroutine that calculates, over `Rewards`; implements `AccrualContract` |
| `MC*` | instances for TLC; `MCAccrual` has `AccrualService` and `Calculation` in one run, each behaviour being one of either |
| `*_proofs` | theorems: `Sums_proofs` about sums over finite sets, the others about the modules they are named for (`Polling_proofs` also about `WorkerPool`, `AccrualService_proofs` also about `Calculation`) |

The layers fit together by refinement. `RepositoryTx` implements `Repository`,
which is why `WorkerPool`, `OrderUpload` and `Accounts` may use its atomic
actions; `AccrualService` implements `AccrualContract`, which is what
`WorkerPool` polls; and `Polling` implements `WorkerPool`, which may therefore
take a question to the accrual service as one step. `Lifecycle` sees the pool
and the handlers from outside and relies on two things the others check: that
the goroutines of a cancelled pool end (`PoolStops`), and that the database
keeps a consistent state whichever statement fails.

### How state and actions correspond to the code

**Repository.** `owner`, `status`, `accrual` are columns of `orders`;
`balance`, `withdrawn` of `users`; `transactions[u]` are the sums in
`balance_transactions`. `earned` and `credits` are history: what was ever added
to an account, and how often an order was credited. `CreateOrder`,
`UpdateOrderStatus`, `WithdrawBalance`, `AddAccrual` are the methods.

**RepositoryTx.** `op[c]` is the method a call runs, `phase[c]` the last
statement it finished, `seen[c]` what it read, `draft[c]` the uncommitted user
row, `orderLock` and `userLock` who holds a row. `Begin` … `CommitAccrual` are
the statements in the order of the Go code. `Fail` is a statement that returns
an error (the deferred `Rollback` follows); each commit may succeed with its
answer lost. `FOR UPDATE`, the foreign key's `KEY SHARE` lock and the wait for
an uncommitted unique key are modelled as PostgreSQL documents them; they are
the external part of the map.

**WorkerPool.** `pullerAt`, `workerAt` are the statement a goroutine stands at;
`jobs`, `rateLimit` the channels with the capacities of `NewWorkerPool`;
`batch` the rows a listing returned and that are not queued yet. A worker's
call ends as an answer (`GetOrder`, mapped by `MapStatus`), as 429
(`TooManyRequests`) or in any other way (`CallFails`). The send on
`rateLimitChan` has a default branch in the code and in `SignalRateLimit`.
`Cancel` is SIGTERM, `Restart` a new process after a stop or a crash.

**Polling.** `exchange[w]` is the request of worker `w`: on its way (`sent`),
found by `IsOrderExists` (`exists`), refused (a 204 or a 500, which the worker
drops alike), or answered with a status and a number that `GetByNumber` read at
that moment and that may be out of date on arrival. `RequestFails` is possible
at any time while a worker waits, with a handler or an answer under way;
handlers only read, so one that nobody waits for needs no state. `Throttle` is
the 429 that this accrual service never sends and the client provides for.
`asked` counts the requests since the puller began to wait. For the refinement
a worker whose answer has been read counts as one that holds the reply already,
so giving the request up is `StoringFails` of `WorkerPool`.

**Lifecycle.** `at` is the statement of `main`; `run` that of `poller.Run`,
which `main` starts as a goroutine; `counter` and `waiter` the WaitGroup with the two
misuses that make it panic; `version`, `dirty` the row of
`schema_migrations_gophermart` and `applied` what the files have really done.
`MarkDirty`, `Apply` and `MarkClean` are golang-migrate's three steps per file,
external like the wake-up of the WaitGroup. `Signal` cancels the context, which
the statements are prepared with and the migrations are not. `listener` is the
goroutine of `ListenAndServe`, whose failure ends the process in `Fatalf`
without a shutdown. `ShutdownTimesOut` leaves handlers running.

**OrderUpload.** `at[r]` is the next repository call of request `r`, and
`response[r]` its status code. A lookup that fails otherwise than with
`ErrNoRows`, an INSERT that fails, and an INSERT that took effect with a lost
answer are actions.

**Accounts.** `login`, `password` are columns of `users`; a user id whose login
is `NoRow` has no row. `token[r]` is the id in the token that `r` was given
(Register, Login) or came with. Requests are numbered by arrival, and
`before[r]` is what had been answered when `r` arrived, so that properties can
speak of "later". `FromFloat64` rounds tenths of a cent as `math.Round` does;
the float64 of a sum may lie below an exact half (1.005 is charged as 100 cents),
which stays within the half cent that `SpendsAreAnswered` allows.
Uploads and settlements appear as their effect on the database. `conclusion[o]`
is what the accrual service concludes of an order, and `Settle` stores whatever a
worker has fetched of it, "in progress" or the conclusion, at any time and whatever the status is:
a PROCESSED order may go back to PROCESSING and be credited again, as several
workers do it (finding 1). That an answer was fetched before it is stored, and
how late it may be, is `WorkerPool`'s matter; here it may always be late.

**AccrualService.** `at[p]` and `job[p]` are the handler and its goroutine;
`calc`, `award`, `basket`, `rules` the tables. An error of the two writes of
the result is ignored by the code and by `SavingFails`. A crash ends handlers
and goroutines; nothing takes the orders up again.

**Rewards.** Exact arithmetic in units of 1/10000 cent, with the `+ 0.5` per
good and the truncation of the sum as in the code. Where float64 could fall on
either side of an integer, `Truncate` says which results it allows.

**Luhn.** A number is a sequence of character codes counted from that of `0`; the
loop from the last character is a sum over positions. White space is one
character.

**Calculation.** The inputs of the two calculations as initial states:
`goods` and `rows` for `processOrder`, whose result the only step puts into
`cents`, or a `number` to be checked. It has no counterpart in the code beside
the two functions.

## 3. Runs

| run | question | result |
|---|---|---|
| `repository_tx` | Three concurrent calls of any method, two users, two orders: is every method atomic, are points conserved, is every withdrawal listed, does each answer tell the effect, can the calls block each other? | all hold |
| `worker_pool` | Two workers, one order: is it settled as calculated, and how often can it be credited? | settled as calculated; at most once per worker |
| `worker_pool_credited_once` | Is it credited once? | **no** with two workers, see finding 1 |
| `polling` | One worker with its HTTP exchanges, one stop: does it implement the pool that asks in one step, do pauses hold requests back, is the order settled in the end, does a cancelled pool end? | all hold |
| `order_upload` | Four overlapping uploads of two numbers by two users: one winner, true answers, atomic? | all hold |
| `accounts` | Four requests, two at a time, while workers settle, reopen and credit again: is a session bound to its account, are registrations final, is a charge answered, do later balances and withdrawals account for what was shown? | all hold |
| `rewards_matches` | Is the sum of all matching rules awarded? | **no**, finding 2 |
| `accrual_service` | Four overlapping registrations: contract kept, award follows the rules, key and number accepted once, no order forgotten? Every basket of up to two goods, every set of rules, every order of rows: does the award keep to what matches? Every number of up to four digits: is every slip found? | all hold |
| `accrual_service_crash` | Is an accepted order concluded if the process crashes? | **no**, finding 3 |
| `accrual_service_duplicate` | Is a duplicate always answered 409? | **no**, finding 4 |
| `lifecycle` | Three starts, with crashes, failures and signals anywhere: does the process serve on a complete schema only, are requests answered and the goroutines that run waited for before the repository is closed, does a signal end it? | all hold |
| `lifecycle_wait` | Has every goroutine of the pool ended when the repository is closed? | **no**, finding 5 |

### Findings

1. With more than one worker (`main` starts five) a late "still in progress"
   overwrites PROCESSED, the order is polled again, and its award is added a
   second time. Meanwhile a list of orders no longer shows the award.
   `CreditsBounded` gives the exact limit: one credit per worker.
2. Only the first matching rule counts (`service/order.go:136`), in whatever order
   the rows come, where SPECIFICATION.md:431 promises the sum over the matches: a
   good of 10000 cents with two rules of 10% earns 1000. `AwardKeepsToMatches` says
   what the code does guarantee; its upper bound shows the rounding as well (half a
   cent is added per good and the *sum* is truncated, so two exact shares of 1000
   cents make 2001).
3. A crash between the 202 and the stored result loses the order for good.
4. Two overlapping registrations of one number or key: the slower one gets a
   500, not a 409.
5. `poller.Run` adds to the WaitGroup in a goroutine of its own (`main.go:51`).
   A signal right after the start can bring `main` to `Wait` before it: then
   `Wait` returns at once and the pool starts while the repository is closed, or
   the WaitGroup panics. README.md:51 of the repository promises that the
   goroutines are waited for. `CloseWaitsForPool` says what `Wait` does guarantee:
   nothing that was started by then still runs. Calling `poller.Run` without `go`
   would make the rest true.

Beside these, the model shows one thing that no violation run is spent on: a
crash between the steps of a migration leaves the version dirty. The process
then never serves on an incomplete schema, and never starts again either
until the version is repaired by hand (`restart: unless-stopped` does not help).

### Bounds, and why they are enough

* **Calls, requests, posts.** The races of this code are between two parties;
  a third (RepositoryTx) can stand between them, and three are needed for a
  circle of locks through two orders and one user. Four uploads let two numbers
  be contested at once and an answer be followed by a later request. Four
  accounts requests are needed for the longest story: two registrations, a
  withdrawal and a later read, or a registration, a refused duplicate and two
  logins. Two in flight at a time (`MaxInFlight`) are enough for an overlap, and
  the second to arrive is the one that may fail or be refused (`MayFail`): it
  can race the first, and two more can come after it. The first
  request registers (before there is a user, a login finds none and no token is valid)
  and the last one does not (`RegistersFirst`), since a registration shows
  nothing that a later request would not tell.
* **Users, orders, logins, passwords, keys**: two of each where two can be
  confused, one where only its history matters.
* **Amounts.** `{1, 2}` with a start balance of 1 make a withdrawal fit or not,
  before and after an award. In `accounts` a sum of 0.7 cents is charged as a
  cent, so rounding shows. `Amounts` of the accrual service are all the awards
  its baskets can earn.
* **`MaxCredits`** (two in `accounts`): once credited twice a PROCESSED order stays
  so, which bounds the points. The instance has orders that end PROCESSED only; an
  INVALID one changes no balance, and the proofs cover both.
* **Workers, `JobsPerWorker`, `Delays`.** Two workers show the late answer; the
  capacities are those of the code (two jobs per worker), so one order queued
  tick after tick fills the channel. `polling` has one worker and one order: each
  of the other workers adds interleavings of exchanges that do not touch each
  other, which the proof of the refinement covers for any number. What several
  workers do to one order is the question of `worker_pool`; that an order stays
  settled is therefore checked for one worker, and finding 1 says what another
  one may do. Delay 0 stands for a missing or zero
  Retry-After.
* **`MaxStops`, `MaxFailures`, `MaxCrashes`** bound what fails.
  Retries of the pool are not bounded: calls and writes may fail any number of
  times. `MaxStops` is one in `polling`, so that there is a process that was
  stopped and one that was started again.
* **Rewards**: prices, percentages and points are chosen around the rounding
  boundaries (1 cent, 9.99, 100.00; 0.01% and 10.5%), two goods and two keys.
* **Numbers** of up to four digits: both places of a digit (doubled or not) and
  both orders of two neighbours occur, with something before and behind them.
* **Lifecycle**: the three migrations of the code; two workers, so that the last
  `Done` races another `Add`; two requests, so that one may hang when the other is
  answered; three starts: a crash, a failed start after it, and one more.

Symmetry is declared over sets of interchangeable model values, and only in
runs without liveness properties. Deadlock is checked in every run except
`rewards_matches`, whose one step calculates and is done, and those of `MCLifecycle`,
where a process that has ended for the last time stays down; a finished set
of requests stutters by an explicit action (`AllServed`, `Quiet`, …).

### Fairness

* `FairPollingSpec` (Polling). Weak fairness of the puller and of each worker: the
  Go scheduler runs every goroutine, timers fire, calls end (the HTTP client
  has a timeout; for the repository see `NoCircularWait` below). Strong fairness
  of `Tick` and `PullerStops`: `select` chooses at random among ready cases, so
  a case that is ready again and again is taken. Strong fairness of a listing,
  and *for one order* of a request, of its two reads, of the receipt of its
  answer and of `StoreReply`: an attempt repeated for ever succeeds in the end.
  Nothing is assumed of users, of the calculations of the accrual service or of
  when the process is stopped.
* `FairLifecycleSpec`. Weak fairness of `main`, of `Run` and of each goroutine of
  the pool. A goroutine whose context is cancelled ends because of what `polling`
  shows of the pool; the timeout of `Shutdown` fires. No handler need ever return.
* `FairServiceSpec`. Weak fairness of requests and goroutines. The violation
  `accrual_service_crash` holds under it.
* `TxSpec` has none. Instead `NoCircularWait` says that while calls are on
  their way one of them is not waiting; every statement brings a call nearer
  to its end, so all of them return.

## 4. Proofs

Assumptions on the constants are the named `ASSUME`s of the modules:
amounts are natural numbers, `NoUser`, `NoCall`, `NoOrder`, `NoRow` are not
members of the sets they stand beside, the set of workers is finite, every sum
converts to an amount, prices and rewards are natural numbers and the keys of
rules are finitely many. No set of users, orders, calls or requests needs to be
finite: where something is counted or summed, the proofs show that finitely
many are there.

**RepositoryTx** (`RepositoryTx_proofs`, lemmas of single methods in
`Repository_proofs`).
Atomicity is not inductive: a COMMIT writes what was computed several steps
ago. `TxInv` adds, per call, that the rows it works on are locked by it
(`LocksAreHeld`), that what it read is still what is committed
(`ReadsAreCurrent`), and that its draft is computed from that
(`DraftsAreCurrent`). With it every step is shown to be an action of
`Repository` or to change nothing committed (`TxImplementsRepository`), from
which conservation and the truth of answers follow (`TxConserves`,
`TxAnswersTellTheEffect`). `TxNeverWaitsInCircle` uses `LocksAreUsed` besides:
a lock is held by a call that is still active, and user rows are always locked
last, so the holder of a user row can move, and with no user row locked the
holder of an order can.

**WorkerPool** (first half of `Polling_proofs`). `PoolInv` says of each worker that what
it is about to store is an answer the accrual service gave (`RepliesAreTrue`,
`WorkersHold`), and of each order that the credits so far *plus the late
answers that may still reopen it* are at most the number of workers
(`CreditInv`). Counting credits alone is not inductive: one late answer may be
in the hands of every worker. From it: `PoolTypeCorrect`,
`PoolSettlesAsCalculated` and `PoolBoundsCredits`.

**Polling** (`Polling_proofs`). `PollingInv` says that a request is under way only for a worker that waits
for it and that an order that was found does not disappear (`ExchangesFit`). With
it every step maps to one of `WorkerPool` or a stutter (`PollingImplementsPool`):
the read of `GetByNumber` is `GetOrder`, and a request that is given up
later is a store that fails. `CreditedInv` then repeats the argument of `CreditInv`
for the pool that the refinement finds, whose workers hold an answer from the
moment it was read: an answer on its way back is late as well. It gives
`PollingCreditsBounded` for any number of workers. `PauseIsBounded` is not inductive; `PauseInv`
counts what may still be asked: while the puller waits, requests sent *plus jobs
in the channel plus workers about to ask* stay within the bound
(`PollingPauseIsBounded`).

**Points over all modules.** `RepoKeepsAccounts` shows of the atomic repository
that rows keep their types, that balance plus withdrawals is what was earned,
and that the sum of the listed withdrawals is what was withdrawn. Whatever
implements or uses only that repository inherits it: `RepositoryTx` by its
refinement (`TxItemizes`), `Accounts` and `OrderUpload` because their steps are
operations of it or leave it alone (`AccountsUseRepository`, `AccountsItemize`,
`UploadsUseRepository`), and the pool because what a worker stores is always a
status `UpdateOrderStatus` may be asked for (`PoolConserves`, `PollingConserves`).

**Sums** (`Sums_proofs`). `SumFunction` and `SumFunctionOnSet` of the community
modules are folds over a finite set. What is needed of them (a set with one
more element, a changed summand, a sequence with one more, sums that are
ordered) would be an induction over finite sets. Each fact is shown instead by
minimality: among the subsets for which it failed there would be a smallest
(`SmallestSubset`), and taking the element away from it that the fold chooses
leaves a smaller one.

**Lifecycle** (`Lifecycle_proofs`). `LifecycleInv`: `applied` follows
`version` up to the one file a dirty version stands for (`MigrationInv`); the
counter is the number of goroutines that run, and one more between `Add` and
`go` (`CountInv`); one goroutine at most wakes `main` up (`WaiterInv`). A counter at
zero therefore leaves no goroutine running (`LeavesAtZero`), which is what both
ways out of `Wait` see. It gives `LifecycleServesOnCompleteSchema`,
`LifecycleCloseWaitsForPool` and `LifecycleAnswersRequests` for any number of
migrations, starts, workers and requests.

**OrderUpload** (`OrderUpload_proofs`). An owner never changes, so an answer
that names it stays true (`UploadAnswersStayTrue`, `UploadAcceptsOnce`);
`UploadsImplementContract` maps each step to one of the contract or a stutter.

**AccrualService** (`AccrualService_proofs`). `ServiceInv`: a stored order has
at most one request that stored it, alone writes it, and the status follows its
progress (`WorkInProgress`, `Alone`, `NoEarlyAward`). It gives
`ServiceImplementsContract`; with `AwardInv`, `RegisteredInv` and `AtWorkInv`
it gives `ServiceAwardsFollowRules`, `ServiceRegistersOnce` and
`ServiceForgetsNone`.

**Calculation** (`AccrualService_proofs`). `AwardsKeepToMatches`: the
first row that matches decides, and its share is one of the matches of its good,
so the sum is within half a cent per good of what the matches give, from above
always and from below where no good has two; truncation takes less than a cent,
or one cent where float64 falls short.
`AwardsAreNatural`: the result is never below zero. `NumbersAreChecked` holds for numbers of any length. A
mistyped digit changes one weight, and each of the two weights is one-to-one on
the digits; two neighbours have one weight of each kind, and only 0 and 9 give
the same total both ways; trimmed or behind a zero, a number has the same sum
(`OneDigitTells`, `NeighboursTell`, `TrimParts`).

**Accounts** (`Accounts_proofs`). Rows of `users` never change and no two have
one login (`LoginsAreUnique`); hence what a request has found out stays true
while it goes on (`Stage`), and so does what was answered
(`RegistrationsAreTrue`). `AccountsSessionsAreOwn` and
`AccountsRegistrationIsFinal` are conjuncts of the invariant.
`SpendsAreAnswered` and `ReadsNeverGoBack` need `BooksInv`: what a reading
showed is still there or was exceeded since (`ShownIsThere`), so a later reading shows at
least that; a PROCESSED order has the award that was concluded for it, however
often it was reopened (`AwardsAreConcluded`), and the awards shown to a user are
part of what the user has earned (`AwardsAreEarned`): an order that is reopened
keeps its points, and a further credit only adds to them; so a balance accounts for every listed award; an account
without a row in `users` is untouched (`NewAccountsAreUnused`), so a new login
has nothing to pay for; a session is one of a request that was answered
(`SessionsAreThere`); and only finitely many requests and orders are there
(`FewAreThere`), so that the sums are defined with infinitely many to come.

**Model-checked only.** Liveness (`OrdersAreSettled`, `PoolStops`,
`SignalEndsProcess`), out of the prover's reach, and the five disagreements
of section 3. Every other property of a passing run is stated by a theorem.
`ProcessOrder(...) \subseteq Amounts` is an assumption of `AccrualService`
about its bound `Amounts`, which TLC evaluates; that awards are natural numbers
at all is `AwardsAreNatural`.

## 5. Not modelled, and why

* Configuration, logging, mocks, JSON and HTTP framing: no later state.
* Cryptography: a hash is identified with its password, a token with its id; a
  token may be expired whenever it is checked.
* The lengths of pauses, intervals and timeouts: a timer may fire at any time.
* Overflow: amounts are natural numbers. A sum beyond the int64 cents is
  converted by Go as the platform likes, and balances near 2^63 are out of
  the model.
* The migrations of accrual, which go through the same library and the same
  steps as those `Lifecycle` models, and the down files, which nothing executes.
* An UPDATE of a lost connection that takes effect after the process was
  started again.
* Requests a handler refuses before it calls a service (a body that is not JSON,
  a missing field): they change nothing.
* Two spellings of one number. The Luhn check trims white space, and accrual and
  the withdrawal handler keep the number as it came; numbers are model values
  here, one per stored spelling.
* `GetUserByID`, a read that no service calls.

## 6. Plan

Done, in this order, the most important first: RepositoryTx over Repository;
WorkerPool; OrderUpload; Rewards and AccrualService; Accounts; Polling;
Lifecycle; Luhn; the proofs of every safety property of a passing run; the points carried
through every module that uses the repository.

Next:

1. The whole system: `Polling` over `AccrualService` in place of its contract, so
   that a crash of accrual is seen from the user's side (an order that stays
   PROCESSING for ever).
2. `Lifecycle` with the statements of the handlers that outlive `Shutdown`.
3. Proofs: the steps of the liveness properties that need no fairness (a
   cancelled pool has no step that leads away from its end; the number of
   statements before a process ends falls with each step of `main`).
