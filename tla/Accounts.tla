------------------------------- MODULE Accounts -------------------------------
(***************************************************************************)
(* Users of gophermart: registration and login (handler/auth.go,           *)
(* service/auth), the token they get and its check before every other      *)
(* request (utils/auth.go, middleware/auth.go), and the requests about the *)
(* user's own points: the balance, the withdrawals, the orders and a       *)
(* withdrawal (handler/balance.go, handler/orders.go, service/balance).    *)
(* Requests overlap at every call of the repository.  Uploads and the      *)
(* workers of the pool appear as what they do to the database; OrderUpload *)
(* and WorkerPool model how they get there.                                *)
(*                                                                         *)
(* A token is the id of a row of users and an expiry: token[r] is the id   *)
(* in the token that request r was given.  Time is left out, so a token    *)
(* may have expired whenever it is checked.  Nothing of a session is kept  *)
(* in the process, so a restart ends no session; the requests it           *)
(* interrupts are "failed", like those answered with a 500.                *)
(***************************************************************************)
EXTENDS Repository, FiniteSets

CONSTANTS
  Requests,       \* numbered in the order they arrive in
  Logins,         \* users.login, without the blanks around it
  NoRow,          \* the login and password of an id that has no row in users
  Passwords,      \* users.password_hash, by the password it is the hash of
  Sums,           \* sums of withdrawals, in tenths of a cent
  MaxInFlight,    \* bound of the model: how many are served at a time
  MayFail,        \* bound of the model: the requests that may fail or be refused
  MaxCredits      \* bound of the model: how often an order's award is added
                  \* (the program's bound: once per worker, CreditsBounded in WorkerPool)

\* FromFloat64: the nearest number of cents, half a cent rounded up.  The float64
\* of a sum may lie below an exact half (1.005 is 100 cents); it is exact here.
FromFloat64(sum) == (sum + 5) \div 10

ASSUME AccountsAssumption ==
  /\ Requests \subseteq Nat
  /\ NoRow \notin Logins
  /\ MaxCredits \in Nat
  /\ Sums \subseteq Nat
  /\ \A sum \in Sums : sum > 0 /\ FromFloat64(sum) \in Amounts

VARIABLES
  conclusion, \* what the accrual service concludes of an order, once (AccrualContract)
  login,      \* users.login
  password,   \* users.password_hash
  request,    \* what is asked
  before,     \* history: the requests answered when this one arrived
  at,         \* the next step of the handler
  token,      \* the user id it works with, and signs or has read in a token
  response,   \* the status it answered with
  view        \* the rows it showed

rowVars == <<login, password>>
callVars == <<request, before, at, token, response, view>>
accountsVars == <<repoVars, conclusion, rowVars, callVars>>

Nothing == [kind |-> "none"]
Credentials == [kind : {"register", "login"}, login : Logins, password : Passwords]
Authorized ==
  [kind : {"withdraw"}, session : Requests, sum : Sums]
    \cup [kind : {"balance", "withdrawals", "orders"}, session : Requests]

Rows == {login[u] : u \in Users}
Responses == {"none", "ok", "conflict", "unauthorized", "insufficient", "invalid", "failed", "expired"}
Views == [current : Nat, withdrawn : Nat, sums : Seq(Amounts), awards : [Orders -> Nat]]
NoView == [current |-> 0, withdrawn |-> 0, sums |-> <<>>, awards |-> [o \in Orders |-> 0]]

Conclusions == {<<"INVALID", 0>>} \cup ({"PROCESSED"} \X Amounts)

\* No users yet, and no orders without one.
AccountsInit ==
  /\ RepoInit
  /\ conclusion \in [Orders -> Conclusions]
  /\ owner = [o \in Orders |-> NoUser]
  /\ login = [u \in Users |-> NoRow]
  /\ password = [u \in Users |-> NoRow]
  /\ request = [r \in Requests |-> Nothing]
  /\ before = [r \in Requests |-> {}]
  /\ at = [r \in Requests |-> "idle"]
  /\ token = [r \in Requests |-> NoUser]
  /\ response = [r \in Requests |-> "none"]
  /\ view = [r \in Requests |-> NoView]

Goes(r, p) == at' = [at EXCEPT ![r] = p] /\ UNCHANGED <<request, before, response, view>>

Shows(r, a, v) ==
  /\ at' = [at EXCEPT ![r] = "done"]
  /\ response' = [response EXCEPT ![r] = a]
  /\ view' = [view EXCEPT ![r] = v]
  /\ UNCHANGED <<request, before>>

Responds(r, a) == Shows(r, a, NoView)

Holds(r, u) == token' = [token EXCEPT ![r] = u]

\* A client got a token with this answer.
IsSession(q) == request[q].kind \in {"register", "login"} /\ response[q] = "ok"

First(a) == CASE a.kind = "register" -> "create" [] a.kind = "login" -> "lookup" [] OTHER -> "serve"

\* The middleware puts the user id of the token in the context of the request.
UserOf(a) == IF a \in Credentials THEN NoUser ELSE token[a.session]

InFlight == {q \in Requests : at[q] \notin {"idle", "done"}}

Arrive(r) ==
  /\ at[r] = "idle"
  /\ \A q \in Requests : q < r => at[q] # "idle"
  /\ Cardinality(InFlight) < MaxInFlight
  /\ \E a \in Credentials \cup Authorized :
       /\ a \in Authorized => IsSession(a.session)
       /\ request' = [request EXCEPT ![r] = a]
       /\ at' = [at EXCEPT ![r] = First(a)]
       /\ Holds(r, UserOf(a))
  /\ before' = [before EXCEPT ![r] = {q \in Requests : at[q] = "done"}]
  /\ UNCHANGED <<repoVars, rowVars, response, view>>

Refuses(r, a) == r \in MayFail /\ Responds(r, a)

\* The body does not decode, a login or a password is empty, an order number
\* fails the Luhn check, a sum is not positive: 400 or 422.
Reject(r) ==
  /\ \/ at[r] \in {"create", "lookup"}
     \/ at[r] = "serve" /\ request[r].kind = "withdraw"
  /\ Refuses(r, "invalid")
  /\ UNCHANGED <<repoVars, rowVars, token>>

\* The repository, the hash of the password or the process fails; a 500 or no
\* answer.
Fail(r) ==
  /\ at[r] \notin {"idle", "done"}
  /\ Refuses(r, "failed")
  /\ UNCHANGED <<repoVars, rowVars, token>>

-----------------------------------------------------------------------------
(* Register and Login                                                       *)

\* Mutant of CreateUser: the login has no unique constraint.
CreateUserMutant(u, r) ==
  /\ login[u] = NoRow
  /\ login' = [login EXCEPT ![u] = request[r].login]
  /\ password' = [password EXCEPT ![u] = request[r].password]

CreateUser(u, r) ==
  /\ request[r].login \notin Rows
  /\ login[u] = NoRow
  /\ login' = [login EXCEPT ![u] = request[r].login]
  /\ password' = [password EXCEPT ![u] = request[r].password]

Register(r) ==
  /\ at[r] = "create"
  /\ \E u \in Users :
       /\ CreateUser(u, r)
       /\ Holds(r, u)
  /\ Responds(r, "ok")
  /\ UNCHANGED repoVars

\* The INSERT took effect, and the error or the crash came after it.
RegisterUnanswered(r) ==
  /\ at[r] = "create"
  /\ \E u \in Users : CreateUser(u, r)
  /\ Refuses(r, "failed")
  /\ UNCHANGED <<repoVars, token>>

\* ErrUserAlreadyExists
RegisterDuplicate(r) ==
  /\ at[r] = "create"
  /\ request[r].login \in Rows
  /\ Responds(r, "conflict")
  /\ UNCHANGED <<repoVars, rowVars, token>>

FindUser(r) ==
  /\ at[r] = "lookup"
  /\ \E u \in Users :
       /\ login[u] = request[r].login
       /\ Holds(r, u)
  /\ Goes(r, "check")
  /\ UNCHANGED <<repoVars, rowVars>>

MissUser(r) ==
  /\ at[r] = "lookup"
  /\ request[r].login \notin Rows
  /\ Responds(r, "unauthorized")
  /\ UNCHANGED <<repoVars, rowVars, token>>

\* Mutant of CheckPassword: a hash that does not match is no error.
CheckPasswordMutant(r) ==
  /\ at[r] = "check"
  /\ Responds(r, "ok")
  /\ UNCHANGED <<repoVars, rowVars, token>>

CheckPassword(r) ==
  /\ at[r] = "check"
  /\ Responds(r, IF password[token[r]] = request[r].password THEN "ok" ELSE "unauthorized")
  /\ UNCHANGED <<repoVars, rowVars, token>>

-----------------------------------------------------------------------------
(* The middleware, and the handlers behind it                               *)

\* ParseToken refuses the token: it has expired.
RefuseToken(r) ==
  /\ at[r] = "serve"
  /\ Refuses(r, "expired")
  /\ UNCHANGED <<repoVars, rowVars, token>>

Serving(r, kind) == at[r] = "serve" /\ request[r].kind = kind

Withdraw(r) ==
  /\ Serving(r, "withdraw")
  /\ WithdrawBalance(token[r], FromFloat64(request[r].sum))
  /\ Responds(r, "ok") \/ Refuses(r, "failed")
  /\ UNCHANGED <<rowVars, token>>

\* Mutant of WithdrawTooMuch: ErrInsufficientFunds is answered like nil.
WithdrawTooMuchMutant(r) ==
  /\ Serving(r, "withdraw")
  /\ balance[token[r]] < FromFloat64(request[r].sum)
  /\ Responds(r, "ok")
  /\ UNCHANGED <<repoVars, rowVars, token>>

\* ErrInsufficientFunds
WithdrawTooMuch(r) ==
  /\ Serving(r, "withdraw")
  /\ balance[token[r]] < FromFloat64(request[r].sum)
  /\ Responds(r, "insufficient")
  /\ UNCHANGED <<repoVars, rowVars, token>>

GetBalance(u) == [NoView EXCEPT !.current = balance[u], !.withdrawn = withdrawn[u]]
GetWithdrawals(u) == [NoView EXCEPT !.sums = transactions[u]]

\* An order shows its accrual once it is PROCESSED.
GetOrders(u) ==
  [NoView EXCEPT !.awards =
    [o \in Orders |-> IF owner[o] = u /\ status[o] = "PROCESSED" THEN accrual[o] ELSE 0]]

Read(r) ==
  /\ \/ Serving(r, "balance") /\ Shows(r, "ok", GetBalance(token[r]))
     \/ Serving(r, "withdrawals") /\ Shows(r, "ok", GetWithdrawals(token[r]))
     \/ Serving(r, "orders") /\ Shows(r, "ok", GetOrders(token[r]))
  /\ UNCHANGED <<repoVars, rowVars, token>>

-----------------------------------------------------------------------------
Upload(u, o) == login[u] # NoRow /\ CreateOrder(u, o) /\ UNCHANGED <<rowVars, callVars>>

\* What the workers fetched of an order, until it was concluded and afterwards.
Fetched(o) == {<<"PROCESSING", 0>>, conclusion[o]}

(***************************************************************************)
(* A worker stores what it has fetched, however long ago that was and      *)
(* whatever the order has become: with several workers a PROCESSED order   *)
(* may return to PROCESSING, and its award be added again (CreditedOnce in *)
(* WorkerPool).                                                            *)
(***************************************************************************)
Settle(o) ==
  /\ \E s \in Fetched(o) :
       /\ status[o] = "PROCESSED" /\ s[1] = "PROCESSING" => credits[o] < MaxCredits
       /\ UpdateOrderStatus(o, s[1], s[2])
  /\ UNCHANGED <<rowVars, callVars>>

Step(r) ==
  \/ Arrive(r) \/ Reject(r) \/ Fail(r)
  \/ Register(r) \/ RegisterUnanswered(r) \/ RegisterDuplicate(r)
  \/ FindUser(r) \/ MissUser(r) \/ CheckPassword(r)
  \/ RefuseToken(r) \/ Withdraw(r) \/ WithdrawTooMuch(r) \/ Read(r)

AllServed == (\A r \in Requests : at[r] = "done") /\ UNCHANGED accountsVars

AccountsNext ==
  /\ \/ \E r \in Requests : Step(r)
     \/ \E u \in Users, o \in Orders : Upload(u, o)
     \/ \E o \in Orders : Settle(o)
     \/ AllServed
  /\ UNCHANGED conclusion

AccountsSpec == AccountsInit /\ [][AccountsNext]_accountsVars
-----------------------------------------------------------------------------
AccountsTypeOK ==
  /\ RepoTypeOK
  /\ conclusion \in [Orders -> Conclusions]
  /\ login \in [Users -> Logins \cup {NoRow}]
  /\ password \in [Users -> Passwords \cup {NoRow}]
  /\ request \in [Requests -> {Nothing} \cup Credentials \cup Authorized]
  /\ before \in [Requests -> SUBSET Requests]
  /\ at \in [Requests -> {"idle", "create", "lookup", "check", "serve", "done"}]
  /\ token \in [Requests -> Users \cup {NoUser}]
  /\ response \in [Requests -> Responses]
  /\ view \in [Requests -> Views]

Registers(r) == request[r].kind = "register"
LogsIn(r) == request[r].kind = "login"

(***************************************************************************)
(* A token opens the account of the login it was given for, and only to    *)
(* the password this login was registered with (Register and Login);       *)
(* whatever a request does with a session (Auth, getUserID), it does to    *)
(* that account, however many registrations and logins overlap.            *)
(***************************************************************************)
SessionsAreOwn ==
  \A r \in Requests :
    /\ IsSession(r) =>
         /\ token[r] \in Users
         /\ login[token[r]] = request[r].login
         /\ password[token[r]] = request[r].password
    /\ at[r] = "serve" => token[r] = token[request[r].session]

(***************************************************************************)
(* A registration is final, whoever races it and whatever fails: a login   *)
(* is registered (200) once; a login that was refused as taken (409) is    *)
(* not registered later; and a user whose registration was answered can    *)
(* log in with the password it named (Register, CreateUser, Login).        *)
(***************************************************************************)
RegistrationIsFinal ==
  \A r, q \in Requests :
    Registers(q) /\ request[r].kind \in {"register", "login"} /\ request[r].login = request[q].login =>
      /\ Registers(r) /\ response[r] = "ok" /\ response[q] = "ok" => r = q
      /\ Registers(r) /\ response[q] = "conflict" /\ q \in before[r] => response[r] # "ok"
      /\ LogsIn(r) /\ response[q] = "ok" /\ q \in before[r] /\ request[r].password = request[q].password
           => response[r] # "unauthorized"

\* The login whose session a request uses: the client's idea of whose it is.
LoginOf(r) == request[request[r].session].login
IsAuthorized(r) == request[r].kind \in {"withdraw", "balance", "withdrawals", "orders"}
SameUser(r, q) == IsAuthorized(r) /\ IsAuthorized(q) /\ LoginOf(r) = LoginOf(q)

WithdrawalsOf(l, answers) ==
  {r \in Requests : request[r].kind = "withdraw" /\ LoginOf(r) = l /\ response[r] \in answers}
Asked(R) == SumFunction([r \in R |-> request[r].sum])
HalfCents(R) == 5 * Cardinality(R)

(***************************************************************************)
(* A user pays for the withdrawals that were answered with a 200, and for  *)
(* nothing that was answered otherwise but a 500, half a cent more or less *)
(* each than was asked for: what the repository took from the account,     *)
(* seen from the login that asked for it (Withdraw, FromFloat64).          *)
(***************************************************************************)
SpendsAreAnswered ==
  \A u \in Users : login[u] # NoRow =>
    LET paid == WithdrawalsOf(login[u], {"ok"})
        charged == WithdrawalsOf(login[u], {"ok", "failed"})
    IN /\ 10 * withdrawn[u] >= Asked(paid) - HalfCents(paid)
       /\ 10 * withdrawn[u] <= Asked(charged) + HalfCents(charged)

\* The awards that a list of orders shows.
Awarded(awards) == SumFunctionOnSet(awards, {o \in Orders : awards[o] > 0})

\* What a user has learnt of the points earned and spent from an answer.
Earned(r) ==
  CASE request[r].kind = "balance" -> view[r].current + view[r].withdrawn
    [] OTHER -> Awarded(view[r].awards)
Spent(r) ==
  CASE request[r].kind = "balance" -> view[r].withdrawn
    [] request[r].kind = "withdraw" -> FromFloat64(request[r].sum)
    [] OTHER -> SumFunction(view[r].sums)

ShowsEarned(r) == response[r] = "ok" /\ request[r].kind = "balance"
ShowsSpent(r) == response[r] = "ok" /\ request[r].kind \in {"balance", "withdrawals"}

(***************************************************************************)
(* A later balance or list of withdrawals never takes back what the user   *)
(* was shown: a balance accounts for every award of an earlier list of     *)
(* orders and for the earlier balances, and both account for every         *)
(* withdrawal answered with a 200 and for each other (GetBalance,          *)
(* GetWithdrawals and GetOrdersByUserID read what UpdateOrderStatus and    *)
(* WithdrawBalance write to several rows).  Of a later list of orders this *)
(* is not said: the workers may return a PROCESSED order to PROCESSING     *)
(* (Settle), and its award is not listed then.                             *)
(***************************************************************************)
ReadsNeverGoBack ==
  \A r \in Requests : \A q \in before[r] :
    response[q] = "ok" /\ SameUser(r, q) =>
      /\ ShowsEarned(r) => Earned(r) >= Earned(q)
      /\ ShowsSpent(r) => Spent(r) >= Spent(q)
=============================================================================
