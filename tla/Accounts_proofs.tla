---------------------------- MODULE Accounts_proofs ----------------------------
(***************************************************************************)
(* Proofs about Accounts for any logins, passwords, ids and requests.  The *)
(* argument: a row of users is never changed once it is there and no two   *)
(* rows have one login, so what a request has found out about a login      *)
(* stays true while it goes on, and what was answered stays true for ever. *)
(***************************************************************************)
EXTENDS Accounts, Repository_proofs

USE AccountsAssumption

\* No two rows of users have the same login.
LoginsAreUnique ==
  \A u, v \in Users : login[u] = login[v] /\ login[u] # NoRow => u = v

\* How far a request has got tells what it asks for and what it holds.
Stage(r) ==
  /\ at[r] = "idle" => request[r].kind = "none"
  /\ at[r] = "create" => Registers(r)
  /\ at[r] \in {"lookup", "check"} => LogsIn(r)
  /\ at[r] = "check" => token[r] \in Users /\ login[token[r]] = request[r].login
  /\ at[r] = "serve" => request[r] \in Authorized /\ IsSession(request[r].session)
  /\ at[r] # "done" => response[r] = "none"
  /\ \A q \in before[r] : at[q] = "done"

\* A login that was registered, or refused as taken, has a row.
RegistrationsAreTrue ==
  \A r \in Requests : Registers(r) /\ response[r] \in {"ok", "conflict"} => request[r].login \in Rows

AccountsInv ==
  /\ AccountsTypeOK
  /\ LoginsAreUnique
  /\ \A r \in Requests : Stage(r)
  /\ SessionsAreOwn
  /\ RegistrationsAreTrue
  /\ RegistrationIsFinal

-----------------------------------------------------------------------------
LEMMA RequestParts ==
  ASSUME AccountsTypeOK, NEW r \in Requests
  PROVE  /\ request[r].kind \in {"register", "login"} =>
              request[r].login \in Logins /\ request[r].password \in Passwords
         /\ request[r] \in Authorized => request[r].session \in Requests
         /\ request[r] \in Authorized /\ request[r].kind = "withdraw" => request[r].sum \in Sums
         /\ request[r] \in Authorized => request[r].kind \notin {"register", "login"}
<1>1. request[r] \in {Nothing} \cup Credentials \cup Authorized
  BY DEF AccountsTypeOK
<1>2. CASE request[r] = Nothing
  BY <1>2 DEF Nothing, Authorized
<1>3. CASE request[r] \in Credentials
  BY <1>3 DEF Credentials, Authorized
<1>4. CASE request[r] \in Authorized
  BY <1>4 DEF Authorized
<1> QED
  BY <1>1, <1>2, <1>3, <1>4

LEMMA NoViewType == NoView \in Views
<1>1. <<>> \in Seq(Amounts) /\ [o \in Orders |-> 0] \in [Orders -> Nat]
  OBVIOUS
<1> QED
  BY <1>1 DEF NoView, Views

LEMMA InitAccountsInv == AccountsInit => AccountsInv
<1> SUFFICES ASSUME AccountsInit PROVE AccountsInv
  OBVIOUS
<1>1. AccountsTypeOK
  BY RepoInitType, NoViewType DEF AccountsInit, AccountsTypeOK, Responses, Nothing
<1>2. \A r \in Requests : request[r].kind = "none" /\ at[r] = "idle" /\ response[r] = "none" /\ before[r] = {}
  BY DEF AccountsInit, Nothing
<1>3. LoginsAreUnique
  BY DEF AccountsInit, LoginsAreUnique
<1>4. \A r \in Requests : Stage(r)
  BY <1>2 DEF Stage, Registers, LogsIn
<1>5. SessionsAreOwn /\ RegistrationsAreTrue /\ RegistrationIsFinal
  BY <1>2 DEF SessionsAreOwn, RegistrationsAreTrue, RegistrationIsFinal, IsSession, Registers, LogsIn
<1> QED
  BY <1>1, <1>3, <1>4, <1>5 DEF AccountsInv

\* Steps of the worker pool and of uploads.
LEMMA RepoStepInv ==
  ASSUME AccountsInv, UNCHANGED <<conclusion, rowVars, callVars>>, RepoTypeOK'
  PROVE  AccountsInv'
<1> USE DEF AccountsInv, rowVars, callVars
<1>1. AccountsTypeOK'
  BY DEF AccountsTypeOK
<1>2. LoginsAreUnique' /\ SessionsAreOwn' /\ RegistrationsAreTrue' /\ RegistrationIsFinal'
  BY DEF LoginsAreUnique, SessionsAreOwn, RegistrationsAreTrue, RegistrationIsFinal, IsSession,
     Registers, LogsIn, Rows
<1>3. \A r \in Requests : Stage(r)'
  BY DEF Stage, IsSession, Registers, LogsIn
<1> QED
  BY <1>1, <1>2, <1>3

LEMMA ArriveInv ==
  ASSUME AccountsInv, NEW r \in Requests, Arrive(r), UNCHANGED conclusion
  PROVE  AccountsInv'
<1> USE DEF AccountsInv
<1>1. PICK a \in Credentials \cup Authorized :
        /\ a \in Authorized => IsSession(a.session)
        /\ request' = [request EXCEPT ![r] = a]
        /\ at' = [at EXCEPT ![r] = First(a)]
        /\ Holds(r, UserOf(a))
  BY DEF Arrive
<1>2. /\ UNCHANGED <<repoVars, login, password, response, view>> /\ at[r] = "idle"
      /\ before' = [before EXCEPT ![r] = {q \in Requests : at[q] = "done"}]
  BY DEF Arrive, rowVars
<1>3. response[r] = "none" /\ request[r].kind = "none"
  BY <1>2 DEF Stage
<1>4. a \in Authorized => a.session \in Requests /\ a.session # r /\ a \notin Credentials
                          /\ token[a.session] \in Users
  <2> SUFFICES ASSUME a \in Authorized
               PROVE  a.session \in Requests /\ a.session # r /\ a \notin Credentials
                      /\ token[a.session] \in Users
    OBVIOUS
  <2>1. a.session \in Requests /\ a \notin Credentials
    BY DEF Authorized, Credentials
  <2>2. a.session # r
    BY <1>1, <1>3 DEF IsSession
  <2>3. token[a.session] \in Users
    BY <1>1, <2>1 DEF SessionsAreOwn
  <2> QED
    BY <2>1, <2>2, <2>3
<1>5. UserOf(a) \in Users \cup {NoUser}
  BY <1>4 DEF UserOf
<1>6. First(a) \in {"create", "lookup", "serve"}
  BY DEF First
<1>7. AccountsTypeOK'
  <2>1. RepoTypeOK'
    BY <1>2, RepoUnchangedType DEF AccountsTypeOK
  <2>2. request' \in [Requests -> {Nothing} \cup Credentials \cup Authorized]
    BY <1>1 DEF AccountsTypeOK
  <2>3. before' \in [Requests -> SUBSET Requests]
    BY <1>2 DEF AccountsTypeOK
  <2>4. token' \in [Requests -> Users \cup {NoUser}]
    BY <1>1, <1>5 DEF AccountsTypeOK, Holds
  <2>5. at' \in [Requests -> {"idle", "create", "lookup", "check", "serve", "done"}]
    BY <1>1, <1>6 DEF AccountsTypeOK
  <2> QED
    BY <1>2, <2>1, <2>2, <2>3, <2>4, <2>5 DEF AccountsTypeOK
<1>8. /\ \A q \in Requests \ {r} :
           request'[q] = request[q] /\ at'[q] = at[q] /\ token'[q] = token[q] /\ before'[q] = before[q]
      /\ request'[r] = a /\ at'[r] = First(a) /\ token'[r] = UserOf(a)
      /\ before'[r] = {q \in Requests : at[q] = "done"}
  BY <1>1, <1>2 DEF AccountsTypeOK, Holds
<1>9. \A q \in Requests : before[q] \subseteq Requests
  BY DEF AccountsTypeOK
<1>10. ASSUME NEW q \in Requests PROVE Stage(q)'
  <2>1. CASE q = r
    <3>1. \A p \in before'[r] : at'[p] = "done"
      BY <1>2, <1>8
    <3>2. CASE a \in Credentials
      BY <1>2, <1>3, <1>8, <2>1, <3>1, <3>2 DEF Stage, Credentials, First, Registers, LogsIn
    <3>3. CASE a \in Authorized
      <4>1. First(a) = "serve"
        BY <3>3 DEF Authorized, First
      <4>2. IsSession(a.session)'
        BY <1>1, <1>2, <1>4, <1>8, <3>3 DEF IsSession
      <4> QED
        BY <1>2, <1>3, <1>8, <2>1, <3>1, <3>3, <4>1, <4>2 DEF Stage
    <3> QED
      BY <3>2, <3>3
  <2>2. CASE q # r
    <3>1. Stage(q) /\ \A p \in before[q] : p \in Requests /\ p # r
      BY <1>2, <1>9 DEF Stage
    <3>2. at[q] = "serve" => request[q].session \in Requests /\ request[q].session # r
      BY <1>3, <3>1, RequestParts DEF Stage, IsSession
    <3> QED
      BY <1>2, <1>8, <2>2, <3>1, <3>2 DEF Stage, IsSession, Registers, LogsIn
  <2> QED
    BY <2>1, <2>2
<1>11. SessionsAreOwn'
  <2> SUFFICES ASSUME NEW q \in Requests
               PROVE  /\ IsSession(q)' => /\ token'[q] \in Users
                                          /\ login'[token'[q]] = request'[q].login
                                          /\ password'[token'[q]] = request'[q].password
                      /\ at'[q] = "serve" => token'[q] = token'[request'[q].session]
    BY DEF SessionsAreOwn
  <2>1. CASE q = r
    <3>1. ~IsSession(q)'
      BY <1>2, <1>3, <2>1 DEF IsSession
    <3>2. at'[q] = "serve" => a \in Authorized
      BY <1>8, <2>1 DEF First, Credentials
    <3> QED
      BY <1>4, <1>8, <2>1, <3>1, <3>2 DEF UserOf
  <2>2. CASE q # r
    <3>1. at[q] = "serve" => request[q].session \in Requests /\ request[q].session # r
      BY <1>3, RequestParts DEF Stage, IsSession
    <3>2. /\ request'[q] = request[q] /\ at'[q] = at[q] /\ token'[q] = token[q] /\ response'[q] = response[q]
          /\ at[q] = "serve" => token'[request[q].session] = token[request[q].session]
      BY <1>2, <1>8, <2>2, <3>1
    <3>3. IsSession(q)' => IsSession(q)
      BY <3>2 DEF IsSession
    <3> QED
      BY <1>2, <3>2, <3>3 DEF SessionsAreOwn
  <2> QED
    BY <2>1, <2>2
<1>12. LoginsAreUnique' /\ RegistrationsAreTrue'
  <2>1. LoginsAreUnique'
    BY <1>2 DEF LoginsAreUnique
  <2>2. Rows' = Rows /\ response' = response
    BY <1>2 DEF Rows
  <2> QED
    BY <1>3, <1>8, <2>1, <2>2 DEF RegistrationsAreTrue, Registers
<1>13. RegistrationIsFinal'
  BY <1>2, <1>3, <1>8 DEF RegistrationIsFinal, Registers, LogsIn
<1> QED
  BY <1>7, <1>10, <1>11, <1>12, <1>13

\* A request is answered; the rows of users are those of before, or have one more.
LEMMA AnswerInv ==
  ASSUME AccountsInv, NEW r \in Requests, at[r] \notin {"idle", "done"},
         NEW a \in Responses \ {"none"}, NEW v \in Views, Shows(r, a, v),
         RepoTypeOK', UNCHANGED conclusion, token' \in [Requests -> Users \cup {NoUser}],
         \A q \in Requests \ {r} : token'[q] = token[q],
         login' \in [Users -> Logins \cup {NoRow}], password' \in [Users -> Passwords \cup {NoRow}],
         \A u \in Users : login[u] # NoRow => login'[u] = login[u] /\ password'[u] = password[u],
         LoginsAreUnique',
         IsSession(r)' => /\ token'[r] \in Users
                          /\ login'[token'[r]] = request[r].login
                          /\ password'[token'[r]] = request[r].password,
         Registers(r) /\ a = "ok" => request[r].login \notin Rows,
         Registers(r) /\ a = "conflict" => request[r].login \in Rows,
         LogsIn(r) /\ a = "unauthorized" =>
           \A u \in Users : login[u] = request[r].login => password[u] # request[r].password
  PROVE  AccountsInv'
<1> USE DEF AccountsInv
<1>1. /\ UNCHANGED <<request, before>>
      /\ at' = [at EXCEPT ![r] = "done"]
      /\ response' = [response EXCEPT ![r] = a]
      /\ view' = [view EXCEPT ![r] = v]
  BY DEF Shows
<1>2. AccountsTypeOK'
  BY <1>1 DEF AccountsTypeOK
<1>3. /\ \A q \in Requests \ {r} : at'[q] = at[q] /\ response'[q] = response[q] /\ token'[q] = token[q]
      /\ at'[r] = "done" /\ response'[r] = a /\ response[r] = "none"
  BY <1>1 DEF AccountsTypeOK, Stage
<1>4. \A q \in Requests : IsSession(q) =>
        /\ q # r
        /\ request[q].login \in Logins /\ token[q] \in Users /\ login[token[q]] = request[q].login
        /\ password[token[q]] = request[q].password /\ request[q].login # NoRow
  BY <1>3, RequestParts DEF SessionsAreOwn, IsSession
<1>5. \A l \in Rows : l # NoRow => l \in Rows'
  BY DEF Rows
<1>6. ASSUME NEW q \in Requests PROVE Stage(q)'
  <2>1. CASE q = r
    BY <1>1, <1>3, <2>1 DEF Stage, AccountsTypeOK
  <2>2. CASE q # r
    <3>1. Stage(q) /\ before[q] \subseteq Requests
      BY DEF AccountsTypeOK
    <3>2. at[q] = "serve" => IsSession(request[q].session)'
      <4>1. ASSUME at[q] = "serve" PROVE IsSession(request[q].session)'
        <5>1. request[q].session \in Requests /\ IsSession(request[q].session)
          BY <4>1, <3>1, RequestParts DEF Stage
        <5> QED
          BY <1>1, <1>3, <1>4, <5>1 DEF IsSession
      <4> QED
        BY <4>1
    <3>3. at[q] = "check" => token'[q] \in Users /\ login'[token'[q]] = request[q].login
      <4>1. ASSUME at[q] = "check" PROVE login[token[q]] # NoRow
        BY <4>1, <3>1, RequestParts DEF Stage, LogsIn
      <4> QED
        BY <1>3, <2>2, <3>1, <4>1 DEF Stage
    <3>4. \A p \in before[q] : at'[p] = "done"
      BY <1>3, <3>1 DEF Stage
    <3> QED
      BY <1>1, <1>3, <2>2, <3>1, <3>2, <3>3, <3>4 DEF Stage, Registers, LogsIn
  <2> QED
    BY <2>1, <2>2
<1>7. SessionsAreOwn'
  <2> SUFFICES ASSUME NEW q \in Requests
               PROVE  /\ IsSession(q)' => /\ token'[q] \in Users
                                          /\ login'[token'[q]] = request'[q].login
                                          /\ password'[token'[q]] = request'[q].password
                      /\ at'[q] = "serve" => token'[q] = token'[request'[q].session]
    BY DEF SessionsAreOwn
  <2>1. CASE q = r
    BY <1>1, <1>3, <2>1
  <2>2. CASE q # r
    <3>1. IsSession(q)' => IsSession(q)
      BY <1>1, <1>3, <2>2 DEF IsSession
    <3>2. at[q] = "serve" => request[q].session \in Requests /\ request[q].session # r
      BY <1>4, RequestParts DEF Stage
    <3>3. at[q] = "serve" => token'[q] = token'[request[q].session]
      <4>1. at[q] = "serve" => token[q] = token[request[q].session]
        BY DEF SessionsAreOwn
      <4> HIDE DEF AccountsInv
      <4>2. token'[q] = token[q]
        BY <1>3, <2>2
      <4>3. at[q] = "serve" => token'[request[q].session] = token[request[q].session]
        BY <1>3, <3>2
      <4> QED
        BY <4>1, <4>2, <4>3
    <3>4. IsSession(q) => /\ token'[q] \in Users
                          /\ login'[token'[q]] = request[q].login
                          /\ password'[token'[q]] = request[q].password
      <4> HIDE DEF AccountsInv
      <4>1. token'[q] = token[q]
        BY <1>3, <2>2
      <4>2. ASSUME IsSession(q)
            PROVE  /\ token[q] \in Users /\ login[token[q]] # NoRow
                   /\ login[token[q]] = request[q].login /\ password[token[q]] = request[q].password
        BY <1>4, <4>2
      <4> QED
        BY <4>1, <4>2
    <3> QED
      BY <1>1, <1>3, <2>2, <3>1, <3>3, <3>4
  <2> QED
    BY <2>1, <2>2
<1>8. RegistrationsAreTrue'
  <2> SUFFICES ASSUME NEW q \in Requests, Registers(q), response'[q] \in {"ok", "conflict"}
               PROVE  request[q].login \in Rows'
    BY <1>1 DEF RegistrationsAreTrue, Registers
  <2>1. request[q].login \in Logins
    BY RequestParts DEF Registers
  <2>2. CASE q = r /\ a = "ok"
    BY <1>1, <1>3, <2>2 DEF IsSession, Registers, Rows
  <2>3. CASE q = r /\ a = "conflict"
    BY <1>5, <2>1, <2>3
  <2>4. CASE q # r
    BY <1>3, <1>5, <2>1, <2>4 DEF RegistrationsAreTrue
  <2> QED
    BY <1>3, <2>2, <2>3, <2>4
<1>9. RegistrationIsFinal'
  <2> SUFFICES ASSUME NEW p \in Requests, NEW q \in Requests, Registers(q),
                      request[p].kind \in {"register", "login"}, request[p].login = request[q].login
               PROVE  /\ Registers(p) /\ response'[p] = "ok" /\ response'[q] = "ok" => p = q
                      /\ Registers(p) /\ response'[q] = "conflict" /\ q \in before[p] => response'[p] # "ok"
                      /\ LogsIn(p) /\ response'[q] = "ok" /\ q \in before[p]
                           /\ request[p].password = request[q].password => response'[p] # "unauthorized"
    BY <1>1 DEF RegistrationIsFinal, Registers, LogsIn
  <2>1. q \in before[p] => q # r
    BY DEF Stage
  <2>2. Registers(p) /\ response'[p] = "ok" /\ response'[q] = "ok" => p = q
    BY <1>3 DEF RegistrationIsFinal, RegistrationsAreTrue
  <2>3. Registers(p) /\ response'[q] = "conflict" /\ q \in before[p] => response'[p] # "ok"
    BY <1>3, <2>1 DEF RegistrationIsFinal, RegistrationsAreTrue
  <2>4. ASSUME LogsIn(p), response'[q] = "ok", q \in before[p], request[p].password = request[q].password
        PROVE  response'[p] # "unauthorized"
    <3>1. response[q] = "ok" /\ IsSession(q)
      BY <1>3, <2>1, <2>4 DEF IsSession, Registers
    <3>2. CASE p = r
      BY <1>3, <1>4, <2>4, <3>1, <3>2
    <3>3. CASE p # r
      BY <1>3, <2>4, <3>1, <3>3 DEF RegistrationIsFinal
    <3> QED
      BY <3>2, <3>3
  <2> QED
    BY <2>2, <2>3, <2>4
<1> QED
  BY <1>2, <1>6, <1>7, <1>8, <1>9

\* The same when no row of users changes and the request gets no token.
LEMMA PlainAnswerInv ==
  ASSUME AccountsInv, NEW r \in Requests, at[r] \notin {"idle", "done"},
         NEW a \in Responses \ {"none"}, NEW v \in Views, Shows(r, a, v),
         RepoTypeOK', UNCHANGED <<conclusion, rowVars, token>>,
         a = "ok" => at[r] = "serve" \/ (at[r] = "check" /\ password[token[r]] = request[r].password),
         a = "conflict" => request[r].login \in Rows,
         LogsIn(r) /\ a = "unauthorized" =>
           \A u \in Users : login[u] = request[r].login => password[u] # request[r].password
  PROVE  AccountsInv'
<1> USE DEF AccountsInv
<1>1. /\ token' \in [Requests -> Users \cup {NoUser}] /\ \A q \in Requests \ {r} : token'[q] = token[q]
      /\ login' \in [Users -> Logins \cup {NoRow}] /\ password' \in [Users -> Passwords \cup {NoRow}]
      /\ \A u \in Users : login[u] # NoRow => login'[u] = login[u] /\ password'[u] = password[u]
      /\ LoginsAreUnique'
  BY DEF AccountsTypeOK, rowVars, LoginsAreUnique
<1>2. request' = request /\ response'[r] = a
  BY DEF Shows, AccountsTypeOK
<1>3. Stage(r)
  OBVIOUS
<1>4. at[r] = "serve" => ~Registers(r) /\ ~LogsIn(r)
  BY <1>3, RequestParts DEF Stage, Registers, LogsIn
<1>5. IsSession(r)' => /\ token'[r] \in Users
                       /\ login'[token'[r]] = request[r].login
                       /\ password'[token'[r]] = request[r].password
  BY <1>2, <1>3, <1>4 DEF IsSession, Stage, Registers, LogsIn, rowVars
<1>6. Registers(r) => a # "ok"
  BY <1>3, <1>4 DEF Stage, Registers, LogsIn
<1> QED
  BY <1>1, <1>5, <1>6, AnswerInv

\* A request that is refused for a reason no property speaks of.
LEMMA RefusalInv ==
  ASSUME AccountsInv, NEW r \in Requests, at[r] \notin {"idle", "done"},
         NEW a \in {"invalid", "failed", "expired", "insufficient"}, Responds(r, a),
         RepoTypeOK', UNCHANGED <<conclusion, rowVars, token>>
  PROVE  AccountsInv'
BY PlainAnswerInv, NoViewType DEF Responds, Responses

LEMMA RegisterRowsInv ==
  ASSUME AccountsInv, NEW r \in Requests, at[r] = "create", NEW u \in Users, CreateUser(u, r),
         UNCHANGED <<repoVars, conclusion>>, NEW a \in {"ok", "failed"}, Responds(r, a),
         IF a = "ok" THEN Holds(r, u) ELSE UNCHANGED token
  PROVE  AccountsInv'
<1> USE DEF AccountsInv
<1>1. Stage(r) /\ Registers(r) /\ request[r].login \in Logins /\ request[r].password \in Passwords
  BY RequestParts DEF Stage, Registers
<1>2. /\ request[r].login \notin Rows /\ login[u] = NoRow
      /\ login' = [login EXCEPT ![u] = request[r].login]
      /\ password' = [password EXCEPT ![u] = request[r].password]
  BY DEF CreateUser
<1>3. /\ login' \in [Users -> Logins \cup {NoRow}] /\ password' \in [Users -> Passwords \cup {NoRow}]
      /\ \A v \in Users : login[v] # NoRow => login'[v] = login[v] /\ password'[v] = password[v]
      /\ login'[u] = request[r].login /\ password'[u] = request[r].password
  BY <1>1, <1>2 DEF AccountsTypeOK
<1>4. LoginsAreUnique'
  BY <1>1, <1>2, <1>3 DEF LoginsAreUnique, AccountsTypeOK, Rows
<1>5. RepoTypeOK'
  BY RepoUnchangedType DEF AccountsTypeOK
<1>6. token' \in [Requests -> Users \cup {NoUser}] /\ \A q \in Requests \ {r} : token'[q] = token[q]
  BY DEF AccountsTypeOK, Holds
<1>7. response'[r] = a
  BY DEF Responds, Shows, AccountsTypeOK
<1>8. IsSession(r)' => /\ token'[r] \in Users
                       /\ login'[token'[r]] = request[r].login
                       /\ password'[token'[r]] = request[r].password
  BY <1>3, <1>7 DEF IsSession, Holds, AccountsTypeOK
<1>9. ~LogsIn(r)
  BY <1>1 DEF Registers, LogsIn
<1>10. Shows(r, a, NoView) /\ a \in Responses \ {"none"} /\ a # "conflict"
  BY DEF Responds, Responses
<1> QED
  BY <1>1, <1>2, <1>3, <1>4, <1>5, <1>6, <1>8, <1>9, <1>10, AnswerInv, NoViewType

LEMMA FindUserInv ==
  ASSUME AccountsInv, NEW r \in Requests, FindUser(r), UNCHANGED conclusion
  PROVE  AccountsInv'
<1> USE DEF AccountsInv
<1>1. PICK u \in Users : login[u] = request[r].login /\ token' = [token EXCEPT ![r] = u]
  BY DEF FindUser, Holds
<1>2. /\ UNCHANGED <<repoVars, login, password, request, before, response, view>>
      /\ at[r] = "lookup" /\ at' = [at EXCEPT ![r] = "check"]
  BY DEF FindUser, Goes, rowVars
<1>3. Stage(r) /\ LogsIn(r) /\ response[r] = "none"
  BY <1>2 DEF Stage
<1>4. AccountsTypeOK'
  BY <1>1, <1>2, RepoUnchangedType DEF AccountsTypeOK
<1>5. /\ \A q \in Requests \ {r} : at'[q] = at[q] /\ token'[q] = token[q]
      /\ at'[r] = "check" /\ token'[r] = u
  BY <1>1, <1>2 DEF AccountsTypeOK
<1>6. ASSUME NEW q \in Requests PROVE Stage(q)'
  <2>1. Stage(q) /\ before[q] \subseteq Requests
    BY DEF AccountsTypeOK
  <2>2. \A p \in before[q] : at'[p] = "done"
    BY <1>2, <1>5, <2>1 DEF Stage
  <2>3. \A p \in Requests : IsSession(p) => IsSession(p)'
    BY <1>2 DEF IsSession
  <2>4. at[q] = "serve" => IsSession(request[q].session)'
    <3>1. at[q] = "serve" => request[q] \in Authorized /\ IsSession(request[q].session)
      BY <2>1 DEF Stage
    <3>2. request' = request /\ response' = response
      BY <1>2
    <3> QED
      BY <3>1, <3>2 DEF IsSession
  <2>5. CASE q = r
    BY <1>1, <1>2, <1>3, <1>5, <2>2, <2>5 DEF Stage, LogsIn
  <2>6. CASE q # r
    BY <1>2, <1>5, <2>1, <2>2, <2>4, <2>6 DEF Stage, Registers, LogsIn
  <2> QED
    BY <2>5, <2>6
<1>7. SessionsAreOwn'
  <2> SUFFICES ASSUME NEW q \in Requests
               PROVE  /\ IsSession(q)' => /\ token'[q] \in Users
                                          /\ login'[token'[q]] = request'[q].login
                                          /\ password'[token'[q]] = request'[q].password
                      /\ at'[q] = "serve" => token'[q] = token'[request'[q].session]
    BY DEF SessionsAreOwn
  <2>1. CASE q = r
    BY <1>2, <1>3, <1>5, <2>1 DEF IsSession
  <2>2. CASE q # r
    <3>1. IsSession(q)' => IsSession(q)
      BY <1>2 DEF IsSession
    <3>2. at[q] = "serve" => request[q].session \in Requests /\ request[q].session # r
      BY <1>3, RequestParts DEF Stage, IsSession
    <3>3. at[q] = "serve" => token'[q] = token'[request[q].session]
      BY <1>5, <2>2, <3>2 DEF SessionsAreOwn
    <3> QED
      BY <1>2, <1>5, <2>2, <3>1, <3>3 DEF SessionsAreOwn
  <2> QED
    BY <2>1, <2>2
<1>8. LoginsAreUnique' /\ RegistrationsAreTrue' /\ RegistrationIsFinal'
  BY <1>2 DEF LoginsAreUnique, RegistrationsAreTrue, RegistrationIsFinal, Registers, LogsIn, Rows
<1> QED
  BY <1>4, <1>6, <1>7, <1>8

LEMMA CheckPasswordInv ==
  ASSUME AccountsInv, NEW r \in Requests, CheckPassword(r), UNCHANGED conclusion
  PROVE  AccountsInv'
<1> USE DEF AccountsInv
<1>1. /\ at[r] = "check" /\ UNCHANGED <<repoVars, rowVars, token>> /\ Stage(r)
      /\ Responds(r, IF password[token[r]] = request[r].password THEN "ok" ELSE "unauthorized")
  BY DEF CheckPassword
<1>2. RepoTypeOK'
  BY <1>1, RepoUnchangedType DEF AccountsTypeOK
<1>3. CASE password[token[r]] = request[r].password
  BY <1>1, <1>2, <1>3, PlainAnswerInv, NoViewType DEF Responds, Responses
<1>4. CASE password[token[r]] # request[r].password
  <2>1. \A u \in Users : login[u] = request[r].login => password[u] # request[r].password
    <3>1. request[r].login \in Logins
      BY <1>1, RequestParts DEF Stage, LogsIn
    <3> QED
      BY <1>1, <1>4, <3>1 DEF Stage, LoginsAreUnique
  <2> QED
    BY <1>1, <1>2, <1>4, <2>1, PlainAnswerInv, NoViewType DEF Responds, Responses
<1> QED
  BY <1>3, <1>4

\* The user whose account a request works on.
LEMMA ServesUser ==
  ASSUME AccountsInv, NEW r \in Requests, at[r] = "serve"
  PROVE  token[r] \in Users /\ request[r] \in Authorized
<1>1. Stage(r) /\ request[r] \in Authorized /\ IsSession(request[r].session)
  BY DEF AccountsInv, Stage
<1>2. request[r].session \in Requests
  BY <1>1, RequestParts DEF AccountsInv
<1> QED
  BY <1>1, <1>2 DEF AccountsInv, SessionsAreOwn

LEMMA WithdrawInv ==
  ASSUME AccountsInv, NEW r \in Requests, Withdraw(r), UNCHANGED conclusion
  PROVE  AccountsInv'
<1>1. /\ at[r] = "serve" /\ request[r].kind = "withdraw"
      /\ WithdrawBalance(token[r], FromFloat64(request[r].sum))
      /\ Responds(r, "ok") \/ Responds(r, "failed")
      /\ UNCHANGED <<rowVars, token>>
  BY DEF Withdraw, Serving, Refuses
<1>2. token[r] \in Users /\ FromFloat64(request[r].sum) \in Amounts
  BY <1>1, ServesUser, RequestParts DEF AccountsInv
<1>3. RepoTypeOK'
  BY <1>1, <1>2, WithdrawBalanceKeeps DEF AccountsInv, AccountsTypeOK
<1>4. Stage(r) /\ ~LogsIn(r)
  BY <1>1 DEF AccountsInv, LogsIn
<1>5. \E a \in {"ok", "failed"} : Shows(r, a, NoView)
  BY <1>1 DEF Responds
<1> QED
  BY <1>1, <1>3, <1>4, <1>5, PlainAnswerInv, NoViewType DEF Responses

LEMMA ReadInv ==
  ASSUME AccountsInv, NEW r \in Requests, Read(r), UNCHANGED conclusion
  PROVE  AccountsInv'
<1> DEFINE u == token[r]
<1>1. at[r] = "serve" /\ UNCHANGED <<repoVars, rowVars, token>>
  BY DEF Read, Serving
<1>2. u \in Users
  BY <1>1, ServesUser
<1>3. RepoTypeOK /\ RepoTypeOK'
  BY <1>1, RepoUnchangedType DEF AccountsInv, AccountsTypeOK
<1>4. GetBalance(u) \in Views
  <2>1. balance[u] \in Nat /\ withdrawn[u] \in Nat
    BY <1>2, <1>3 DEF RepoTypeOK
  <2> QED
    BY <2>1, NoViewType DEF GetBalance, Views, NoView
<1>5. GetWithdrawals(u) \in Views
  <2>1. transactions[u] \in Seq(Amounts)
    BY <1>2, <1>3 DEF RepoTypeOK
  <2> QED
    BY <2>1, NoViewType DEF GetWithdrawals, Views, NoView
<1>6. GetOrders(u) \in Views
  <2>1. [o \in Orders |-> IF owner[o] = u /\ status[o] = "PROCESSED" THEN accrual[o] ELSE 0] \in [Orders -> Nat]
    BY <1>3 DEF RepoTypeOK
  <2> QED
    BY <2>1, NoViewType DEF GetOrders, Views, NoView
<1>7. \E v \in Views : Shows(r, "ok", v)
  BY <1>4, <1>5, <1>6 DEF Read
<1> QED
  BY <1>1, <1>3, <1>7, PlainAnswerInv DEF Responses

\* What a worker has fetched of an order is a settlement.
LEMMA SettlePart ==
  ASSUME AccountsInv, NEW o \in Orders, Settle(o)
  PROVE  \E s \in Settlements : s \in Fetched(o) /\ UpdateOrderStatus(o, s[1], s[2])
<1>1. Fetched(o) \subseteq Settlements
  BY DEF Fetched, Conclusions, Settlements, AccountsInv, AccountsTypeOK
<1> QED
  BY <1>1 DEF Settle

LEMMA SettlementPair ==
  ASSUME NEW s \in Settlements
  PROVE  \E t \in Statuses, a \in Nat : s = <<t, a>>
<1>1. CASE s \in {"PROCESSING", "INVALID"} \X {0}
  <2>1. PICK t \in {"PROCESSING", "INVALID"}, a \in {0} : s = <<t, a>>
    BY <1>1
  <2> QED
    BY <2>1 DEF Statuses
<1>2. CASE s \in {"PROCESSED"} \X Amounts
  <2>1. PICK t \in {"PROCESSED"}, a \in Amounts : s = <<t, a>>
    BY <1>2
  <2> QED
    BY <2>1, AmountsAssumption DEF Statuses, AmountsAssumption
<1> QED
  BY <1>1, <1>2 DEF Settlements

LEMMA NextAccountsInv == AccountsInv /\ [AccountsNext]_accountsVars => AccountsInv'
<1> SUFFICES ASSUME AccountsInv, [AccountsNext]_accountsVars PROVE AccountsInv'
  OBVIOUS
<1>0. UNCHANGED conclusion
  BY DEF AccountsNext, accountsVars
<1>1. ASSUME NEW r \in Requests, Step(r) PROVE AccountsInv'
  <2>1. CASE UNCHANGED repoVars /\ (Reject(r) \/ Fail(r) \/ RefuseToken(r) \/ WithdrawTooMuch(r))
    <3>1. RepoTypeOK'
      BY <2>1, RepoUnchangedType DEF AccountsInv, AccountsTypeOK
    <3> QED
      BY <1>0, <2>1, <3>1, RefusalInv DEF Reject, Fail, RefuseToken, WithdrawTooMuch, Refuses, Serving
  <2>2. CASE Register(r)
    BY <1>0, <2>2, RegisterRowsInv DEF Register
  <2>3. CASE RegisterUnanswered(r)
    BY <1>0, <2>3, RegisterRowsInv DEF RegisterUnanswered, Refuses
  <2>4. CASE RegisterDuplicate(r) \/ MissUser(r)
    <3>1. RepoTypeOK' /\ Stage(r)
      BY <2>4, RepoUnchangedType DEF AccountsInv, AccountsTypeOK, RegisterDuplicate, MissUser
    <3>2. CASE RegisterDuplicate(r)
      BY <1>0, <3>1, <3>2, PlainAnswerInv, NoViewType DEF RegisterDuplicate, Responds, Responses
    <3>3. CASE MissUser(r)
      <4>1. \A u \in Users : login[u] # request[r].login
        BY <3>3 DEF MissUser, Rows
      <4> QED
        BY <1>0, <3>1, <3>3, <4>1, PlainAnswerInv, NoViewType DEF MissUser, Responds, Responses
    <3> QED
      BY <2>4, <3>2, <3>3
  <2>5. CASE Arrive(r) \/ FindUser(r) \/ CheckPassword(r) \/ Withdraw(r) \/ Read(r)
    BY <1>0, <2>5, ArriveInv, FindUserInv, CheckPasswordInv, WithdrawInv, ReadInv
  <2>6. Reject(r) \/ Fail(r) \/ RefuseToken(r) \/ WithdrawTooMuch(r) => UNCHANGED repoVars
    BY DEF Reject, Fail, RefuseToken, WithdrawTooMuch
  <2> QED
    BY <1>1, <2>1, <2>2, <2>3, <2>4, <2>5, <2>6 DEF Step
<1>2. ASSUME NEW u \in Users, NEW o \in Orders, Upload(u, o) PROVE AccountsInv'
  BY <1>0, <1>2, RepoStepInv, CreateOrderKeeps DEF Upload, AccountsInv, AccountsTypeOK
<1>3. ASSUME NEW o \in Orders, Settle(o) PROVE AccountsInv'
  <2>1. PICK x \in Settlements : UpdateOrderStatus(o, x[1], x[2])
    BY <1>3, SettlePart
  <2>2. x[1] \in Statuses /\ x[2] \in Nat
    BY SettlementParts
  <2>3. RepoTypeOK'
    BY <2>1, <2>2, UpdateOrderStatusKeeps DEF AccountsInv, AccountsTypeOK
  <2> QED
    BY <1>0, <1>3, <2>3, RepoStepInv DEF Settle
<1>4. CASE UNCHANGED accountsVars
  BY <1>4, RepoStepInv, RepoUnchangedType DEF accountsVars, AccountsInv, AccountsTypeOK
<1> QED
  BY <1>1, <1>2, <1>3, <1>4 DEF AccountsNext, AllServed

-----------------------------------------------------------------------------
(***************************************************************************)
(* However registrations, logins and requests overlap, the rows of users,  *)
(* the tokens and the stages of the handlers fit together, as AccountsInv  *)
(* says.                                                                   *)
(***************************************************************************)
THEOREM AccountsInvariant == AccountsSpec => []AccountsInv
<1> QED
  BY InitAccountsInv, NextAccountsInv, PTL DEF AccountsSpec

(***************************************************************************)
(* Every variable keeps its type: in particular no withdrawal of a session *)
(* takes a balance below zero.                                             *)
(***************************************************************************)
THEOREM AccountsTypeCorrect == AccountsSpec => []AccountsTypeOK
<1>1. AccountsInv => AccountsTypeOK
  BY DEF AccountsInv
<1> QED
  BY <1>1, AccountsInvariant, PTL

(***************************************************************************)
(* A token opens the account of the login and password it was given for,   *)
(* however many registrations and logins overlap.                          *)
(***************************************************************************)
THEOREM AccountsSessionsAreOwn == AccountsSpec => []SessionsAreOwn
<1>1. AccountsInv => SessionsAreOwn
  BY DEF AccountsInv
<1> QED
  BY <1>1, AccountsInvariant, PTL

(***************************************************************************)
(* A registration is final: one 200 per login, no 200 after a 409, and no  *)
(* 401 to the user who was registered.                                     *)
(***************************************************************************)
THEOREM AccountsRegistrationIsFinal == AccountsSpec => []RegistrationIsFinal
<1>1. AccountsInv => RegistrationIsFinal
  BY DEF AccountsInv
<1> QED
  BY <1>1, AccountsInvariant, PTL

-----------------------------------------------------------------------------
(* The requests use the repository's atomic operations and nothing else, so *)
(* what these keep holds here too.                                          *)

LEMMA StepUsesRepository ==
  ASSUME AccountsInv, [AccountsNext]_accountsVars
  PROVE  [RepoNext]_repoVars
<1>1. ASSUME NEW r \in Requests, Step(r) PROVE [RepoNext]_repoVars
  <2>1. CASE Withdraw(r)
    <3>1. at[r] = "serve" /\ request[r].kind = "withdraw"
          /\ WithdrawBalance(token[r], FromFloat64(request[r].sum))
      BY <2>1 DEF Withdraw, Serving
    <3>2. token[r] \in Users /\ FromFloat64(request[r].sum) \in Amounts
      BY <3>1, ServesUser, RequestParts DEF AccountsInv
    <3> QED
      BY <3>1, <3>2 DEF RepoNext
  <2>2. CASE UNCHANGED repoVars
    BY <2>2
  <2>3. Step(r) => Withdraw(r) \/ UNCHANGED repoVars
    BY DEF Step, Arrive, Reject, Fail, Register, RegisterUnanswered, RegisterDuplicate,
       FindUser, MissUser, CheckPassword, RefuseToken, WithdrawTooMuch, Read
  <2> QED
    BY <1>1, <2>1, <2>2, <2>3
<1>2. ASSUME NEW u \in Users, NEW o \in Orders, Upload(u, o) PROVE RepoNext
  BY <1>2 DEF Upload, RepoNext
<1>3. ASSUME NEW o \in Orders, Settle(o) PROVE RepoNext
  BY <1>3, SettlePart DEF RepoNext
<1>4. CASE UNCHANGED accountsVars
  BY <1>4 DEF accountsVars
<1> QED
  BY <1>1, <1>2, <1>3, <1>4 DEF AccountsNext, AllServed

(***************************************************************************)
(* Registrations, logins, withdrawals and readings act on the database as  *)
(* the atomic repository does; hence no session creates or loses a point,  *)
(* and every withdrawal of a session is on the list.                       *)
(***************************************************************************)
THEOREM AccountsUseRepository == AccountsSpec => RepoSpec
<1>1. AccountsInit => RepoInit
  BY DEF AccountsInit
<1> QED
  BY <1>1, StepUsesRepository, AccountsInvariant, PTL DEF AccountsSpec, RepoSpec

-----------------------------------------------------------------------------
(* What a step leaves alone.                                                *)

\* A step of a request that is there changes nothing of the others.
LEMMA StepOfOne ==
  ASSUME AccountsInv, NEW r \in Requests, Step(r), ~Arrive(r)
  PROVE  /\ at[r] \notin {"idle", "done"} /\ UNCHANGED <<request, before>>
         /\ \A p \in Requests \ {r} : /\ at'[p] = at[p] /\ token'[p] = token[p]
                                      /\ response'[p] = response[p] /\ view'[p] = view[p]
<1>1. ASSUME NEW a, NEW v, Shows(r, a, v)
      PROVE  /\ UNCHANGED <<request, before>>
             /\ \A p \in Requests \ {r} : at'[p] = at[p] /\ response'[p] = response[p] /\ view'[p] = view[p]
  BY <1>1 DEF Shows, AccountsInv, AccountsTypeOK
<1>2. ASSUME NEW u, Holds(r, u) PROVE \A p \in Requests \ {r} : token'[p] = token[p]
  BY <1>2 DEF Holds, AccountsInv, AccountsTypeOK
<1>3. CASE Register(r)
  BY <1>1, <1>2, <1>3 DEF Register, Responds
<1>4. CASE FindUser(r)
  BY <1>2, <1>4 DEF FindUser, Goes, AccountsInv, AccountsTypeOK
<1>5. CASE Reject(r) \/ Fail(r) \/ RegisterUnanswered(r) \/ RegisterDuplicate(r) \/ MissUser(r)
  BY <1>1, <1>5 DEF Reject, Fail, RegisterUnanswered, RegisterDuplicate, MissUser, Refuses, Responds
<1>6. CASE CheckPassword(r) \/ RefuseToken(r) \/ Withdraw(r) \/ WithdrawTooMuch(r) \/ Read(r)
  BY <1>1, <1>6 DEF CheckPassword, RefuseToken, Withdraw, WithdrawTooMuch, Read, Serving, Refuses, Responds
<1> QED
  BY <1>3, <1>4, <1>5, <1>6 DEF Step

LEMMA StepOrNot ==
  [AccountsNext]_accountsVars => (\E r \in Requests : Step(r)) \/ UNCHANGED callVars
BY DEF AccountsNext, AllServed, Upload, Settle, accountsVars

\* A request is not changed once it is there, and nothing of it once answered.
LEMMA RequestStays ==
  ASSUME AccountsInv, [AccountsNext]_accountsVars, NEW q \in Requests, at[q] # "idle"
  PROVE  /\ request'[q] = request[q] /\ before'[q] = before[q]
         /\ at[q] = "done" => /\ at'[q] = "done" /\ token'[q] = token[q]
                              /\ response'[q] = response[q] /\ view'[q] = view[q]
<1>1. ASSUME NEW r \in Requests, Arrive(r)
      PROVE  /\ request'[q] = request[q] /\ before'[q] = before[q] /\ at'[q] = at[q]
             /\ token'[q] = token[q] /\ response'[q] = response[q] /\ view'[q] = view[q]
  <2>1. q # r
    BY <1>1 DEF Arrive
  <2> QED
    BY <1>1, <2>1 DEF Arrive, Holds, AccountsInv, AccountsTypeOK
<1>2. ASSUME NEW r \in Requests, Step(r), ~Arrive(r)
      PROVE  /\ request'[q] = request[q] /\ before'[q] = before[q]
             /\ at[q] = "done" => /\ at'[q] = "done" /\ token'[q] = token[q]
                                  /\ response'[q] = response[q] /\ view'[q] = view[q]
  BY <1>2, StepOfOne
<1>3. CASE UNCHANGED callVars
  BY <1>3 DEF callVars
<1> QED
  BY <1>1, <1>2, <1>3, StepOrNot

\* Only an arrival changes what a request asks for.
LEMMA RequestsArrive ==
  ASSUME AccountsInv, [AccountsNext]_accountsVars, NEW q \in Requests,
         at[q] = "idle", at'[q] # "idle" \/ request'[q] # request[q]
  PROVE  Arrive(q)
<1>1. PICK r \in Requests : Step(r)
  BY StepOrNot DEF callVars
<1>2. Arrive(r)
  BY <1>1, StepOfOne
<1>3. r = q
  BY <1>2 DEF Arrive, AccountsInv, AccountsTypeOK
<1> QED
  BY <1>2, <1>3

\* A row of users keeps its login.
LEMMA RowStays ==
  ASSUME AccountsInv, [AccountsNext]_accountsVars, NEW u \in Users, login[u] # NoRow
  PROVE  login'[u] = login[u]
<1>1. ASSUME NEW r \in Requests, NEW v \in Users, CreateUser(v, r)
      PROVE  login'[u] = login[u]
  BY <1>1 DEF CreateUser, AccountsInv, AccountsTypeOK
<1>2. (\E r \in Requests, v \in Users : CreateUser(v, r)) \/ UNCHANGED login
  BY DEF AccountsNext, AllServed, Upload, Settle, accountsVars, rowVars, Step, Arrive, Reject, Fail,
     Register, RegisterUnanswered, RegisterDuplicate, FindUser, MissUser, CheckPassword,
     RefuseToken, Withdraw, WithdrawTooMuch, Read
<1> QED
  BY <1>1, <1>2

-----------------------------------------------------------------------------
(* The books: what requests asked for and were shown, and what the account  *)
(* holds.                                                                   *)

\* The account a request behind the middleware works on.
AccountOf(r) == token[request[r].session]

SessionsAreThere == \A r \in Requests : IsAuthorized(r) => IsSession(request[r].session)

\* Only finitely many requests and orders are there: what is summed up is finite.
FewAreThere ==
  /\ IsFiniteSet({r \in Requests : at[r] # "idle"})
  /\ IsFiniteSet({o \in Orders : owner[o] # NoUser})

\* Nobody withdraws from an account before it is opened.
NewAccountsAreUnused == \A u \in Users : login[u] = NoRow => withdrawn[u] = 0

\* The award of a PROCESSED order is the one the accrual service has concluded.
AwardsAreConcluded ==
  \A o \in Orders : status[o] = "PROCESSED" => conclusion[o] = <<"PROCESSED", accrual[o]>>

\* The awards on a user's list of orders were added to the user's balance.
AwardsAreEarned == \A u \in Users : Awarded(GetOrders(u).awards) <= balance[u] + withdrawn[u]

\* What a user was shown, the account can account for now.
ShownIsThere ==
  \A r \in Requests : response[r] = "ok" /\ IsAuthorized(r) =>
    /\ Earned(r) \in Nat /\ Spent(r) \in Nat
    /\ Earned(r) <= balance[AccountOf(r)] + withdrawn[AccountOf(r)]
    /\ Spent(r) <= withdrawn[AccountOf(r)]

BooksInv ==
  /\ AccountsInv
  /\ WithdrawnIsItemized
  /\ SessionsAreThere
  /\ FewAreThere
  /\ NewAccountsAreUnused
  /\ AwardsAreConcluded
  /\ AwardsAreEarned
  /\ ShownIsThere
  /\ ReadsNeverGoBack
  /\ SpendsAreAnswered

LEMMA AuthorizedParts ==
  ASSUME AccountsInv, SessionsAreThere, NEW r \in Requests, IsAuthorized(r)
  PROVE  /\ request[r] \in Authorized /\ request[r].session \in Requests
         /\ at[r] # "idle" /\ at[request[r].session] = "done"
         /\ AccountOf(r) \in Users /\ login[AccountOf(r)] = LoginOf(r) /\ LoginOf(r) # NoRow
         /\ at[r] = "serve" => token[r] = AccountOf(r)
<1>1. request[r] \in {Nothing} \cup Credentials \cup Authorized
  BY DEF AccountsInv, AccountsTypeOK
<1>2. request[r] \in Authorized
  BY <1>1 DEF IsAuthorized, Nothing, Credentials
<1>3. request[r].session \in Requests /\ IsSession(request[r].session)
  BY <1>2, RequestParts DEF AccountsInv, SessionsAreThere
<1>4. Stage(r) /\ Stage(request[r].session)
  BY <1>3 DEF AccountsInv
<1>5. at[r] # "idle" /\ at[request[r].session] = "done"
  BY <1>3, <1>4 DEF Stage, IsAuthorized, IsSession
<1>6. LoginOf(r) \in Logins
  BY <1>3, RequestParts DEF AccountsInv, LoginOf, IsSession
<1> QED
  BY <1>2, <1>3, <1>5, <1>6 DEF AccountsInv, SessionsAreOwn, AccountOf, LoginOf

\* The login and the account behind a request stay what they are.
LEMMA AccountStays ==
  ASSUME AccountsInv, SessionsAreThere, [AccountsNext]_accountsVars, NEW r \in Requests, IsAuthorized(r)
  PROVE  /\ request'[r] = request[r] /\ IsAuthorized(r)'
         /\ AccountOf(r)' = AccountOf(r) /\ LoginOf(r)' = LoginOf(r)
<1>1. at[r] # "idle" /\ request[r].session \in Requests /\ at[request[r].session] = "done"
  BY AuthorizedParts
<1>2. request'[r] = request[r]
  BY <1>1, RequestStays
<1>3. request'[request[r].session] = request[request[r].session] /\ token'[request[r].session] = token[request[r].session]
  BY <1>1, RequestStays
<1> QED
  BY <1>2, <1>3 DEF IsAuthorized, AccountOf, LoginOf

LEMMA SessionsAreThereInv ==
  ASSUME AccountsInv, SessionsAreThere, [AccountsNext]_accountsVars
  PROVE  SessionsAreThere'
<1> SUFFICES ASSUME NEW q \in Requests, IsAuthorized(q)' PROVE IsSession(request[q].session)'
  BY DEF SessionsAreThere
<1>1. PICK p \in Requests : IsSession(p) /\ request'[q].session = p
  <2>1. CASE IsAuthorized(q)
    BY <2>1, AuthorizedParts, AccountStays DEF SessionsAreThere
  <2>2. CASE ~IsAuthorized(q)
    <3>1. request'[q] # request[q]
      BY <2>2 DEF IsAuthorized
    <3>2. Arrive(q)
      BY <3>1, RequestStays, RequestsArrive
    <3>3. PICK a \in Credentials \cup Authorized :
            (a \in Authorized => IsSession(a.session)) /\ request'[q] = a
      BY <3>2 DEF Arrive, AccountsInv, AccountsTypeOK
    <3>4. a \in Authorized /\ a.session \in Requests
      BY <3>3 DEF IsAuthorized, Credentials, Authorized
    <3> QED
      BY <3>3, <3>4
  <2> QED
    BY <2>1, <2>2
<1>2. at[p] = "done"
  BY <1>1 DEF AccountsInv, Stage, IsSession
<1>3. IsSession(p)'
  BY <1>1, <1>2, RequestStays DEF IsSession
<1> QED
  BY <1>1, <1>3 DEF IsSession

LEMMA FewAreThereInv ==
  ASSUME AccountsInv, FewAreThere, [AccountsNext]_accountsVars
  PROVE  FewAreThere'
<1> DEFINE arrived == {r \in Requests : at[r] # "idle"}
           owned == {o \in Orders : owner[o] # NoUser}
<1>1. IsFiniteSet(arrived) /\ IsFiniteSet(owned)
  BY DEF FewAreThere
<1>2. arrived' \subseteq arrived \/ \E r \in Requests : arrived' \subseteq arrived \cup {r}
  <2>1. \A q \in arrived' \ arrived : Arrive(q)
    BY RequestsArrive
  <2>2. \A q, r \in Requests : Arrive(q) /\ Arrive(r) => q = r
    BY DEF Arrive, First, AccountsInv, AccountsTypeOK
  <2> QED
    BY <2>1, <2>2
<1>3. owned' \subseteq owned \/ \E o \in Orders : owned' \subseteq owned \cup {o}
  <2>1. ASSUME NEW u \in Users, NEW o \in Orders, CreateOrder(u, o) PROVE owned' \subseteq owned \cup {o}
    BY <2>1 DEF CreateOrder, AccountsInv, AccountsTypeOK, RepoTypeOK
  <2>2. CASE UNCHANGED owner
    BY <2>2
  <2>3. [RepoNext]_repoVars => UNCHANGED owner \/ \E u \in Users, o \in Orders : CreateOrder(u, o)
    BY DEF RepoNext, UpdateOrderStatus, WithdrawBalance, AddAccrual, repoVars, orderVars
  <2> QED
    BY <2>1, <2>2, <2>3, StepUsesRepository
<1> HIDE DEF arrived, owned
<1>4. IsFiniteSet(arrived') /\ IsFiniteSet(owned')
  BY <1>1, <1>2, <1>3, FS_AddElement, FS_Subset
<1> QED
  BY <1>4 DEF FewAreThere, arrived, owned

\* Only a withdrawal of a request changes what was withdrawn.
LEMMA OnlyWithdrawSpends ==
  ASSUME AccountsInv, [AccountsNext]_accountsVars
  PROVE  UNCHANGED withdrawn \/ \E r \in Requests : Withdraw(r)
<1>1. ASSUME NEW r \in Requests, Step(r) PROVE UNCHANGED repoVars \/ Withdraw(r)
  BY <1>1 DEF Step, Arrive, Reject, Fail, Register, RegisterUnanswered, RegisterDuplicate,
     FindUser, MissUser, CheckPassword, RefuseToken, WithdrawTooMuch, Read
<1>2. (\E r \in Requests : Step(r)) \/ UNCHANGED withdrawn
  BY DEF AccountsNext, AllServed, Upload, Settle, accountsVars, repoVars, userVars,
     CreateOrder, UpdateOrderStatus, AddToBalance
<1> QED
  BY <1>1, <1>2 DEF repoVars, userVars

\* A withdrawal takes the cents it asks for from the account of its session.
LEMMA WithdrawParts ==
  ASSUME AccountsInv, SessionsAreThere, NEW r \in Requests, Withdraw(r)
  PROVE  /\ request[r].kind = "withdraw" /\ at[r] = "serve" /\ response[r] = "none"
         /\ request[r].sum \in Sums /\ FromFloat64(request[r].sum) \in Amounts
         /\ WithdrawBalance(AccountOf(r), FromFloat64(request[r].sum))
         /\ response'[r] \in {"ok", "failed"} /\ view'[r] = NoView /\ UNCHANGED rowVars
<1>1. /\ request[r].kind = "withdraw" /\ at[r] = "serve"
      /\ WithdrawBalance(token[r], FromFloat64(request[r].sum)) /\ UNCHANGED rowVars
  BY DEF Withdraw, Serving
<1>2. response'[r] \in {"ok", "failed"} /\ view'[r] = NoView
  BY DEF Withdraw, Refuses, Responds, Shows, AccountsInv, AccountsTypeOK
<1>3. response[r] = "none" /\ IsAuthorized(r)
  BY <1>1 DEF AccountsInv, Stage, IsAuthorized
<1>4. token[r] = AccountOf(r) /\ request[r].sum \in Sums
  BY <1>1, <1>3, AuthorizedParts, RequestParts DEF AccountsInv
<1> QED
  BY <1>1, <1>2, <1>3, <1>4

LEMMA NewAccountsAreUnusedInv ==
  ASSUME AccountsInv, SessionsAreThere, NewAccountsAreUnused, [AccountsNext]_accountsVars
  PROVE  NewAccountsAreUnused'
<1> SUFFICES ASSUME NEW u \in Users, login'[u] = NoRow PROVE withdrawn'[u] = 0
  BY DEF NewAccountsAreUnused
<1>1. login[u] = NoRow /\ withdrawn[u] = 0
  BY RowStays DEF NewAccountsAreUnused
<1>2. ASSUME NEW r \in Requests, Withdraw(r) PROVE withdrawn'[u] = withdrawn[u]
  <2>1. IsAuthorized(r) /\ WithdrawBalance(AccountOf(r), FromFloat64(request[r].sum))
    BY <1>2, WithdrawParts DEF IsAuthorized
  <2>2. AccountOf(r) # u
    BY <1>1, <2>1, AuthorizedParts
  <2> QED
    BY <2>1, <2>2 DEF WithdrawBalance, AccountsInv, AccountsTypeOK, RepoTypeOK
<1> QED
  BY <1>1, <1>2, OnlyWithdrawSpends

-----------------------------------------------------------------------------
(* The list of orders.                                                      *)

Listed(u) == [o \in Orders |-> IF owner[o] = u /\ status[o] = "PROCESSED" THEN accrual[o] ELSE 0]

LEMMA ListedIsShown ==
  ASSUME NEW u
  PROVE  GetOrders(u).awards = Listed(u) /\ GetOrders(u)'.awards = Listed(u)'
BY DEF GetOrders, NoView, Listed

LEMMA ListedType ==
  ASSUME AccountsInv, FewAreThere, NEW u \in Users
  PROVE  /\ Listed(u) \in [Orders -> Nat]
         /\ IsFiniteSet({o \in Orders : Listed(u)[o] > 0})
<1>1. Listed(u) \in [Orders -> Nat]
  BY DEF Listed, AccountsInv, AccountsTypeOK, RepoTypeOK
<1>2. u # NoUser
  BY RepositoryAssumption DEF RepositoryAssumption
<1>3. {o \in Orders : Listed(u)[o] > 0} \subseteq {o \in Orders : owner[o] # NoUser}
  BY <1>2 DEF Listed
<1> QED
  BY <1>1, <1>3, FS_Subset DEF FewAreThere

\* An order whose award is listed for the first time adds it to the sum.
LEMMA AwardedMore ==
  ASSUME NEW f \in [Orders -> Nat], IsFiniteSet({x \in Orders : f[x] > 0}),
         NEW o \in Orders, f[o] = 0, NEW a \in Nat
  PROVE  /\ Awarded([f EXCEPT ![o] = a]) = Awarded(f) + a
         /\ Awarded(f) \in Nat
<1> DEFINE g == [f EXCEPT ![o] = a]
           S == {x \in Orders : f[x] > 0}
           T == {x \in Orders : g[x] > 0}
<1>1. /\ o \notin S /\ g[o] = a /\ T = (IF a > 0 THEN S \cup {o} ELSE S)
      /\ \A x \in S : f[x] \in Nat /\ f[x] \in Int /\ g[x] = f[x] /\ g[x] \in Int
  OBVIOUS
<1>2. Awarded(f) = SumFunctionOnSet(f, S) /\ Awarded(g) = SumFunctionOnSet(g, T) /\ IsFiniteSet(S)
  BY DEF Awarded
<1> HIDE DEF g, S, T
<1>3. SumFunctionOnSet(g, S) = SumFunctionOnSet(f, S) /\ SumFunctionOnSet(f, S) \in Nat
  BY <1>1, <1>2, SumAgree, SumOfNaturals
<1>4. CASE a > 0
  <2>1. SumFunctionOnSet(g, S \cup {o}) = SumFunctionOnSet(g, S) + g[o]
    BY <1>1, <1>2, SumAdd
  <2> QED
    BY <1>1, <1>2, <1>3, <1>4, <2>1 DEF g
<1>5. CASE a = 0
  BY <1>1, <1>2, <1>3, <1>5 DEF g
<1> QED
  BY <1>2, <1>3, <1>4, <1>5

\* Steps of requests change no order; uploads and settlements do.
LEMMA OrdersChange ==
  ASSUME [AccountsNext]_accountsVars
  PROVE  /\ UNCHANGED conclusion
         /\ \/ UNCHANGED orderVars
            \/ \E v \in Users, o \in Orders : Upload(v, o)
            \/ \E o \in Orders : Settle(o)
<1>1. (\E r \in Requests : Step(r)) => UNCHANGED orderVars
  BY DEF Step, Arrive, Reject, Fail, Register, RegisterUnanswered, RegisterDuplicate,
     FindUser, MissUser, CheckPassword, RefuseToken, Withdraw, WithdrawTooMuch, Read,
     WithdrawBalance, repoVars
<1> QED
  BY <1>1 DEF AccountsNext, AllServed, accountsVars, repoVars

LEMMA AwardsAreConcludedInv ==
  ASSUME AccountsInv, AwardsAreConcluded, [AccountsNext]_accountsVars
  PROVE  AwardsAreConcluded'
<1> SUFFICES ASSUME NEW p \in Orders, status'[p] = "PROCESSED"
             PROVE  conclusion[p] = <<"PROCESSED", accrual'[p]>>
  BY OrdersChange DEF AwardsAreConcluded
<1>1. RepoTypeOK
  BY DEF AccountsInv, AccountsTypeOK
<1>2. CASE UNCHANGED orderVars
  BY <1>2 DEF AwardsAreConcluded, orderVars
<1>3. ASSUME NEW v \in Users, NEW o \in Orders, Upload(v, o)
      PROVE  conclusion[p] = <<"PROCESSED", accrual'[p]>>
  BY <1>1, <1>3 DEF AwardsAreConcluded, Upload, CreateOrder, RepoTypeOK
<1>4. ASSUME NEW o \in Orders, Settle(o)
      PROVE  conclusion[p] = <<"PROCESSED", accrual'[p]>>
  <2>1. PICK s \in Settlements : s \in Fetched(o) /\ UpdateOrderStatus(o, s[1], s[2])
    BY <1>4, SettlePart
  <2>2. PICK t \in Statuses, a \in Nat : s = <<t, a>>
    BY SettlementPair
  <2>3. CASE p = o
    <3>1. status'[p] = t /\ accrual'[p] = a
      BY <1>1, <2>1, <2>2, <2>3 DEF UpdateOrderStatus, RepoTypeOK
    <3>2. s = conclusion[o]
      BY <2>1, <2>2, <2>3, <3>1 DEF Fetched
    <3> QED
      BY <2>2, <2>3, <3>1, <3>2
  <2>4. CASE p # o
    BY <1>1, <2>1, <2>4 DEF UpdateOrderStatus, RepoTypeOK, AwardsAreConcluded
  <2> QED
    BY <2>3, <2>4
<1> QED
  BY <1>2, <1>3, <1>4, OrdersChange

LEMMA AwardsAreEarnedInv ==
  ASSUME AccountsInv, FewAreThere, AwardsAreConcluded, AwardsAreEarned, [AccountsNext]_accountsVars
  PROVE  AwardsAreEarned'
<1> SUFFICES ASSUME NEW u \in Users
             PROVE  Awarded(Listed(u)') <= balance'[u] + withdrawn'[u]
  BY ListedIsShown DEF AwardsAreEarned
<1>1. Awarded(Listed(u)) <= balance[u] + withdrawn[u]
  BY ListedIsShown DEF AwardsAreEarned
<1>2. /\ balance[u] \in Nat /\ withdrawn[u] \in Nat /\ RepoTypeOK
      /\ balance'[u] + withdrawn'[u] >= balance[u] + withdrawn[u]
      /\ balance'[u] \in Nat /\ withdrawn'[u] \in Nat
  BY StepUsesRepository, RepoGrows, NextAccountsInv DEF AccountsInv, AccountsTypeOK, RepoTypeOK
<1>3. Listed(u) \in [Orders -> Nat] /\ IsFiniteSet({o \in Orders : Listed(u)[o] > 0})
  BY ListedType
<1>4. CASE Listed(u)' = Listed(u)
  <2>1. Awarded(Listed(u)) \in Nat
    BY <1>3, SumOfNaturals DEF Awarded
  <2> QED
    BY <1>1, <1>2, <1>4, <2>1
<1>5. ASSUME NEW o \in Orders, Settle(o), owner[o] = u
      PROVE  Awarded(Listed(u)') <= balance'[u] + withdrawn'[u]
  <2> DEFINE L == Listed(u)
  <2>1. PICK s \in Settlements : s \in Fetched(o) /\ UpdateOrderStatus(o, s[1], s[2])
    BY <1>5, SettlePart
  <2>0. PICK t \in Statuses, a \in Nat : s = <<t, a>>
    BY SettlementPair
  <2>2. /\ owner' = owner /\ status' = [status EXCEPT ![o] = t] /\ accrual' = [accrual EXCEPT ![o] = a]
        /\ AddsAward(status[o], t) => AddToBalance(u, a)
    BY <1>5, <2>0, <2>1 DEF UpdateOrderStatus
  <2>3. CASE t = "PROCESSED" /\ status[o] # "PROCESSED"
    <3>1. AddToBalance(u, a)
      BY <2>2, <2>3 DEF AddsAward
    <3>2. Listed(u)' = [L EXCEPT ![o] = a] /\ L[o] = 0
      BY <1>2, <1>5, <2>2, <2>3 DEF Listed, RepoTypeOK
    <3> HIDE DEF L
    <3>3. Awarded(Listed(u)') = Awarded(L) + a /\ Awarded(L) \in Nat
      <4>1. L \in [Orders -> Nat] /\ IsFiniteSet({x \in Orders : L[x] > 0})
        BY <1>3 DEF L
      <4> QED
        BY <3>2, <4>1, AwardedMore
    <3>4. balance'[u] = balance[u] + a /\ withdrawn'[u] = withdrawn[u]
      BY <1>2, <3>1 DEF AddToBalance, RepoTypeOK
    <3> QED
      BY <1>1, <1>2, <3>3, <3>4 DEF L
  <2>4. CASE t = "PROCESSED" /\ status[o] = "PROCESSED"
    <3>1. s = conclusion[o] /\ conclusion[o] = <<"PROCESSED", accrual[o]>>
      BY <2>0, <2>1, <2>4 DEF Fetched, AwardsAreConcluded
    <3>2. a = accrual[o]
      BY <2>0, <3>1
    <3> QED
      BY <1>2, <1>4, <2>2, <2>4, <3>2 DEF Listed, RepoTypeOK
  <2>5. CASE t # "PROCESSED"
    <3> DEFINE f == [L EXCEPT ![o] = 0]
    <3>1. Listed(u)' = f
      BY <1>2, <1>5, <2>2, <2>5 DEF Listed, RepoTypeOK
    <3> HIDE DEF L
    <3>0. L \in [Orders -> Nat]
      BY <1>3 DEF L
    <3>2. f \in [Orders -> Nat] /\ f[o] = 0 /\ L[o] \in Nat
          /\ {x \in Orders : f[x] > 0} \subseteq {x \in Orders : L[x] > 0}
      BY <3>0
    <3>5. L = [f EXCEPT ![o] = L[o]]
      <4>1. \A x \in Orders : L[x] = [f EXCEPT ![o] = L[o]][x]
        BY <3>0
      <4> QED
        BY <3>0, <3>2, <4>1
    <3> HIDE DEF f
    <3>3. IsFiniteSet({x \in Orders : f[x] > 0})
      BY <1>3, <3>2, FS_Subset DEF L
    <3>4. Awarded(L) = Awarded(f) + L[o] /\ Awarded(f) \in Nat
      BY <3>2, <3>3, <3>5, AwardedMore
    <3> QED
      BY <1>1, <1>2, <3>1, <3>2, <3>4 DEF L
  <2> QED
    BY <2>3, <2>4, <2>5
<1>6. ASSUME NEW o \in Orders, Settle(o), owner[o] # u
      PROVE  Listed(u)' = Listed(u)
  <2>1. owner' = owner /\ \A p \in Orders \ {o} : status'[p] = status[p] /\ accrual'[p] = accrual[p]
    BY <1>2, <1>6 DEF Settle, UpdateOrderStatus, RepoTypeOK
  <2> QED
    BY <1>6, <2>1 DEF Listed
<1>7. ASSUME NEW v \in Users, NEW o \in Orders, Upload(v, o)
      PROVE  Listed(u)' = Listed(u)
  <2>1. /\ owner[o] = NoUser /\ NoUser # u /\ status'[o] = "NEW"
        /\ \A p \in Orders \ {o} : owner'[p] = owner[p] /\ status'[p] = status[p] /\ accrual'[p] = accrual[p]
    BY <1>2, <1>7, RepositoryAssumption DEF Upload, CreateOrder, RepoTypeOK, RepositoryAssumption
  <2> QED
    BY <2>1 DEF Listed
<1>8. CASE UNCHANGED orderVars
  BY <1>4, <1>8 DEF Listed, orderVars
<1> QED
  BY <1>4, <1>5, <1>6, <1>7, <1>8, OrdersChange

-----------------------------------------------------------------------------
(* What the answers show.                                                   *)

\* Of the requests behind the middleware, withdrawals and readings are answered 200.
LEMMA AnswersComeFromHandlers ==
  ASSUME AccountsInv, SessionsAreThere, [AccountsNext]_accountsVars, NEW r \in Requests,
         at[r] # "done", response'[r] # "none", IsAuthorized(r)'
  PROVE  /\ at[r] = "serve" /\ request'[r] = request[r] /\ IsAuthorized(r) /\ response[r] = "none"
         /\ \/ Withdraw(r) \/ Read(r) \/ Fail(r)
            \/ response'[r] \in {"invalid", "expired", "insufficient"} /\ ~Withdraw(r)
<1>1. response[r] = "none" /\ Stage(r)
  BY DEF AccountsInv, Stage
<1>2. PICK q \in Requests : Step(q)
  BY <1>1, StepOrNot DEF callVars
<1>3. ~Arrive(q) /\ q = r
  BY <1>1, <1>2, StepOfOne DEF Arrive
<1>4. /\ at[r] \notin {"idle", "done"} /\ request'[r] = request[r] /\ IsAuthorized(r)
  BY <1>2, <1>3, StepOfOne DEF IsAuthorized
<1>5. at[r] = "serve"
  BY <1>1, <1>4 DEF AccountsInv, AccountsTypeOK, Stage, IsAuthorized, Registers, LogsIn
<1>6. Reject(r) \/ Fail(r) \/ RefuseToken(r) \/ Withdraw(r) \/ WithdrawTooMuch(r) \/ Read(r)
  BY <1>2, <1>3, <1>5 DEF Step, Register, RegisterUnanswered, RegisterDuplicate, FindUser, MissUser, CheckPassword
<1>7. CASE Reject(r) \/ RefuseToken(r) \/ WithdrawTooMuch(r)
  <2>1. response'[r] \in {"invalid", "expired", "insufficient"}
    BY <1>7 DEF Reject, RefuseToken, WithdrawTooMuch, Refuses, Responds, Shows, AccountsInv, AccountsTypeOK
  <2>2. ~Withdraw(r)
    BY <2>1, WithdrawParts
  <2> QED
    BY <1>1, <1>4, <1>5, <2>1, <2>2
<1> QED
  BY <1>1, <1>4, <1>5, <1>6, <1>7

LEMMA NothingShown == Awarded(NoView.awards) = 0 /\ SumFunction(NoView.sums) = 0
<1>1. {o \in Orders : NoView.awards[o] > 0} = {} /\ NoView.sums = <<>>
  BY DEF NoView
<1> QED
  BY <1>1, SumOfNothing, SumOfEmptySequence DEF Awarded

\* An answer shows no more than there is, and a balance shows all there is.
LEMMA FreshAnswer ==
  ASSUME AccountsInv, WithdrawnIsItemized, SessionsAreThere, FewAreThere, AwardsAreEarned,
         [AccountsNext]_accountsVars, NEW r \in Requests, IsAuthorized(r), at[r] = "serve",
         request'[r] = request[r], Withdraw(r) \/ Read(r), response'[r] = "ok"
  PROVE  LET u == AccountOf(r)
         IN /\ Earned(r)' \in Nat /\ Spent(r)' \in Nat
            /\ Earned(r)' <= balance[u] + withdrawn[u]
            /\ Spent(r)' <= withdrawn'[u]
            /\ ShowsEarned(r)' => Earned(r)' = balance[u] + withdrawn[u]
            /\ ShowsSpent(r)' => Spent(r)' = withdrawn[u]
<1> DEFINE u == AccountOf(r)
<1>1. /\ u \in Users /\ token[r] = u
      /\ balance[u] \in Nat /\ withdrawn[u] \in Nat
  BY AuthorizedParts DEF AccountsInv, AccountsTypeOK, RepoTypeOK
<1> HIDE DEF u
<1>2. CASE Withdraw(r)
  <2>1. request[r].kind = "withdraw" /\ view'[r] = NoView
        /\ FromFloat64(request[r].sum) \in Nat /\ WithdrawBalance(u, FromFloat64(request[r].sum))
    BY <1>2, WithdrawParts, AmountsAssumption DEF u, AmountsAssumption
  <2>2. withdrawn'[u] = withdrawn[u] + FromFloat64(request[r].sum)
    BY <1>1, <2>1 DEF WithdrawBalance, AccountsInv, AccountsTypeOK, RepoTypeOK
  <2>3. Earned(r)' = 0 /\ Spent(r)' = FromFloat64(request[r].sum) /\ ~ShowsEarned(r)' /\ ~ShowsSpent(r)'
    BY <2>1, NothingShown DEF Earned, Spent, ShowsEarned, ShowsSpent
  <2> QED
    BY <1>1, <2>1, <2>2, <2>3 DEF u
<1>3. CASE Read(r)
  <2>1. withdrawn' = withdrawn
    BY <1>3 DEF Read, repoVars, userVars
  <2>2. CASE request[r].kind = "balance"
    <3>1. view'[r] = GetBalance(u)
      BY <1>1, <1>3, <2>2 DEF Read, Serving, Shows, AccountsInv, AccountsTypeOK
    <3>2. GetBalance(u).current = balance[u] /\ GetBalance(u).withdrawn = withdrawn[u]
      BY DEF GetBalance, NoView
    <3>3. Earned(r)' = balance[u] + withdrawn[u] /\ Spent(r)' = withdrawn[u]
      BY <2>2, <3>1, <3>2 DEF Earned, Spent
    <3> QED
      BY <1>1, <2>1, <3>3 DEF u
  <2>3. CASE request[r].kind = "withdrawals"
    <3>1. view'[r] = GetWithdrawals(u)
      BY <1>1, <1>3, <2>3 DEF Read, Serving, Shows, AccountsInv, AccountsTypeOK
    <3>2. GetWithdrawals(u).sums = transactions[u] /\ GetWithdrawals(u).awards = NoView.awards
      BY DEF GetWithdrawals, NoView
    <3>3. SumFunction(transactions[u]) = withdrawn[u]
      BY <1>1 DEF WithdrawnIsItemized
    <3>4. Earned(r)' = 0 /\ Spent(r)' = withdrawn[u] /\ ~ShowsEarned(r)'
      BY <2>3, <3>1, <3>2, <3>3, NothingShown DEF Earned, Spent, ShowsEarned
    <3> QED
      BY <1>1, <2>1, <3>4 DEF u
  <2>4. CASE request[r].kind = "orders"
    <3>1. view'[r] = GetOrders(u)
      BY <1>1, <1>3, <2>4 DEF Read, Serving, Shows, AccountsInv, AccountsTypeOK
    <3>2. GetOrders(u).sums = NoView.sums
      BY DEF GetOrders, NoView
    <3>3. Earned(r)' = Awarded(GetOrders(u).awards) /\ Spent(r)' = 0 /\ ~ShowsEarned(r)' /\ ~ShowsSpent(r)'
      BY <2>4, <3>1, <3>2, NothingShown DEF Earned, Spent, ShowsEarned, ShowsSpent
    <3>4. Awarded(GetOrders(u).awards) \in Nat
      BY <1>1, ListedType, ListedIsShown, SumOfNaturals DEF Awarded
    <3> QED
      BY <1>1, <2>1, <3>3, <3>4 DEF u, AwardsAreEarned
  <2> QED
    BY <1>3, <2>2, <2>3, <2>4 DEF Read, Serving
<1> QED
  BY <1>2, <1>3

\* An answer that was given stays as it is.
LEMMA AnswerStays ==
  ASSUME AccountsInv, SessionsAreThere, [AccountsNext]_accountsVars, NEW r \in Requests,
         at[r] = "done", IsAuthorized(r)
  PROVE  /\ response'[r] = response[r] /\ Earned(r)' = Earned(r) /\ Spent(r)' = Spent(r)
         /\ ShowsEarned(r)' = ShowsEarned(r) /\ ShowsSpent(r)' = ShowsSpent(r)
<1>1. request'[r] = request[r] /\ response'[r] = response[r] /\ view'[r] = view[r]
  BY RequestStays
<1> QED
  BY <1>1 DEF Earned, Spent, ShowsEarned, ShowsSpent

\* The request was answered before the step, or is by this one.
LEMMA AnsweredNow ==
  ASSUME AccountsInv, SessionsAreThere, [AccountsNext]_accountsVars, NEW r \in Requests,
         response'[r] = "ok", IsAuthorized(r)'
  PROVE  /\ IsAuthorized(r) /\ request'[r] = request[r] /\ before'[r] = before[r]
         /\ AccountOf(r)' = AccountOf(r) /\ LoginOf(r)' = LoginOf(r) /\ AccountOf(r) \in Users
         /\ at[r] # "done" => at[r] = "serve" /\ (Withdraw(r) \/ Read(r))
<1>1. CASE at[r] = "done"
  <2>1. IsAuthorized(r)
    BY <1>1, RequestStays DEF IsAuthorized
  <2> QED
    BY <1>1, <2>1, RequestStays, AccountStays, AuthorizedParts
<1>2. CASE at[r] # "done"
  <2>1. Fail(r) => response'[r] = "failed"
    BY DEF Fail, Refuses, Responds, Shows, AccountsInv, AccountsTypeOK
  <2>2. at[r] = "serve" /\ IsAuthorized(r) /\ (Withdraw(r) \/ Read(r))
    BY <1>2, <2>1, AnswersComeFromHandlers
  <2> QED
    BY <2>2, RequestStays, AccountStays, AuthorizedParts
<1> QED
  BY <1>1, <1>2

LEMMA ShownIsThereInv ==
  ASSUME AccountsInv, WithdrawnIsItemized, SessionsAreThere, FewAreThere, AwardsAreEarned, ShownIsThere,
         [AccountsNext]_accountsVars
  PROVE  ShownIsThere'
<1> SUFFICES ASSUME NEW r \in Requests, response'[r] = "ok", IsAuthorized(r)'
             PROVE  /\ Earned(r)' \in Nat /\ Spent(r)' \in Nat
                    /\ Earned(r)' <= balance'[AccountOf(r)'] + withdrawn'[AccountOf(r)']
                    /\ Spent(r)' <= withdrawn'[AccountOf(r)']
  BY DEF ShownIsThere
<1> DEFINE u == AccountOf(r)
<1>1. /\ IsAuthorized(r) /\ request'[r] = request[r] /\ AccountOf(r)' = u /\ u \in Users
      /\ at[r] # "done" => at[r] = "serve" /\ (Withdraw(r) \/ Read(r))
  BY AnsweredNow
<1>2. /\ balance'[u] + withdrawn'[u] >= balance[u] + withdrawn[u] /\ withdrawn'[u] >= withdrawn[u]
      /\ balance[u] \in Nat /\ withdrawn[u] \in Nat /\ balance'[u] \in Nat /\ withdrawn'[u] \in Nat
  BY <1>1, StepUsesRepository, RepoGrows, NextAccountsInv DEF AccountsInv, AccountsTypeOK, RepoTypeOK
<1>3. CASE at[r] = "done"
  <2>1. response[r] = "ok" /\ Earned(r)' = Earned(r) /\ Spent(r)' = Spent(r)
    BY <1>1, <1>3, AnswerStays
  <2>2. Earned(r) \in Nat /\ Spent(r) \in Nat /\ Earned(r) <= balance[u] + withdrawn[u] /\ Spent(r) <= withdrawn[u]
    BY <1>1, <2>1 DEF ShownIsThere
  <2> HIDE DEF u
  <2> QED
    BY <1>1, <1>2, <2>1, <2>2
<1>4. CASE at[r] # "done"
  <2>1. /\ Earned(r)' \in Nat /\ Spent(r)' \in Nat
        /\ Earned(r)' <= balance[u] + withdrawn[u] /\ Spent(r)' <= withdrawn'[u]
    BY <1>1, <1>4, FreshAnswer
  <2> HIDE DEF u
  <2> QED
    BY <1>1, <1>2, <2>1
<1> QED
  BY <1>3, <1>4

LEMMA ReadsNeverGoBackInv ==
  ASSUME AccountsInv, WithdrawnIsItemized, SessionsAreThere, FewAreThere, AwardsAreEarned, ShownIsThere,
         ReadsNeverGoBack, [AccountsNext]_accountsVars
  PROVE  ReadsNeverGoBack'
<1> SUFFICES ASSUME NEW r \in Requests, NEW q \in before'[r],
                    response'[q] = "ok", SameUser(r, q)', response'[r] = "ok"
             PROVE  /\ ShowsEarned(r)' => Earned(r)' >= Earned(q)'
                    /\ ShowsSpent(r)' => Spent(r)' >= Spent(q)'
  BY DEF ReadsNeverGoBack, ShowsEarned, ShowsSpent
<1>1. /\ IsAuthorized(r) /\ request'[r] = request[r] /\ before'[r] = before[r]
      /\ LoginOf(r)' = LoginOf(r) /\ AccountOf(r) \in Users
      /\ at[r] # "done" => at[r] = "serve" /\ (Withdraw(r) \/ Read(r))
  BY AnsweredNow DEF SameUser
<1>2. q \in Requests /\ q \in before[r] /\ at[q] = "done"
  BY <1>1 DEF AccountsInv, AccountsTypeOK, Stage
<1>3. IsAuthorized(q) /\ LoginOf(q)' = LoginOf(q)
  BY <1>2, AnsweredNow DEF SameUser
<1>4. SameUser(r, q) /\ AccountOf(q) = AccountOf(r)
  <2>1. LoginOf(r) = LoginOf(q)
    BY <1>1, <1>3 DEF SameUser
  <2> QED
    BY <1>1, <1>2, <1>3, <2>1, AuthorizedParts DEF SameUser, AccountsInv, LoginsAreUnique
<1>5. response[q] = "ok" /\ Earned(q)' = Earned(q) /\ Spent(q)' = Spent(q)
  BY <1>2, <1>3, AnswerStays
<1>6. CASE at[r] = "done"
  BY <1>1, <1>2, <1>4, <1>5, <1>6, AnswerStays DEF ReadsNeverGoBack
<1>7. CASE at[r] # "done"
  <2> DEFINE u == AccountOf(r)
  <2>1. Earned(q) <= balance[u] + withdrawn[u] /\ Spent(q) <= withdrawn[u]
    BY <1>2, <1>3, <1>4, <1>5 DEF ShownIsThere
  <2>2. /\ ShowsEarned(r)' => Earned(r)' = balance[u] + withdrawn[u]
        /\ ShowsSpent(r)' => Spent(r)' = withdrawn[u]
    BY <1>1, <1>7, FreshAnswer
  <2> QED
    BY <1>5, <2>1, <2>2
<1> QED
  BY <1>6, <1>7

-----------------------------------------------------------------------------
(* What was charged.                                                        *)

LEMMA Rounding ==
  ASSUME NEW sum \in Nat
  PROVE  10 * FromFloat64(sum) \in sum - 5 .. sum + 5
BY DEF FromFloat64

\* One more request, one more sum.
LEMMA AskedMore ==
  ASSUME NEW R, IsFiniteSet(R), NEW q, q \notin R,
         \A r \in R : request[r].sum \in Nat /\ request'[r] = request[r],
         request[q].sum \in Nat, request'[q] = request[q]
  PROVE  /\ Asked(R) \in Nat /\ HalfCents(R) \in Nat
         /\ SumFunction([r \in R |-> request'[r].sum]) = Asked(R)
         /\ SumFunction([r \in R \cup {q} |-> request'[r].sum]) = Asked(R) + request[q].sum
         /\ HalfCents(R \cup {q}) = HalfCents(R) + 5
<1> DEFINE f == [r \in R |-> request[r].sum]  g == [r \in R \cup {q} |-> request'[r].sum]
<1>1. /\ DOMAIN f = R /\ DOMAIN g = R \cup {q} /\ g[q] = request[q].sum /\ g[q] \in Int
      /\ \A r \in R : f[r] \in Nat /\ f[r] \in Int /\ g[r] = f[r]
  OBVIOUS
<1>2. [r \in R |-> request'[r].sum] = f
  OBVIOUS
<1> HIDE DEF f, g
<1>3. SumFunction(f) \in Nat
  BY <1>1, SumOfNaturals DEF SumFunction
<1>4. SumFunction(g) = SumFunction(f) + g[q]
  BY <1>1, SumOfLonger
<1>5. Cardinality(R) \in Nat /\ Cardinality(R \cup {q}) = Cardinality(R) + 1
  BY FS_AddElement, FS_CardinalityType
<1> QED
  BY <1>1, <1>2, <1>3, <1>4, <1>5 DEF f, g, Asked, HalfCents

\* A step answers at most one withdrawal of an account, by charging it or not.
LEMMA WithdrawalsStep ==
  ASSUME AccountsInv, SessionsAreThere, [AccountsNext]_accountsVars,
         NEW u \in Users, login[u] # NoRow, NEW answers \in SUBSET {"ok", "failed"}
  PROVE  \/ WithdrawalsOf(login[u], answers)' = WithdrawalsOf(login[u], answers)
         \/ \E q \in Requests :
              /\ response[q] = "none" /\ request[q].kind = "withdraw" /\ AccountOf(q) = u
              /\ Withdraw(q) \/ Fail(q)
              /\ response'[q] \in answers
              /\ WithdrawalsOf(login[u], answers)' = WithdrawalsOf(login[u], answers) \cup {q}
<1> DEFINE W == WithdrawalsOf(login[u], answers)
<1>1. login'[u] = login[u]
  BY RowStays
<1>2. ASSUME NEW r \in W PROVE r \in W'
  <2>1. r \in Requests /\ IsAuthorized(r) /\ at[r] = "done"
    BY <1>2 DEF WithdrawalsOf, IsAuthorized, AccountsInv, Stage
  <2> QED
    BY <1>1, <1>2, <2>1, RequestStays, AccountStays DEF WithdrawalsOf
<1>3. ASSUME NEW r \in W', r \notin W
      PROVE  /\ r \in Requests /\ response[r] = "none" /\ request[r].kind = "withdraw" /\ AccountOf(r) = u
             /\ Withdraw(r) \/ Fail(r)
             /\ response'[r] \in answers
  <2>1. r \in Requests /\ request'[r].kind = "withdraw" /\ LoginOf(r)' = login[u] /\ response'[r] \in answers
    BY <1>1 DEF WithdrawalsOf
  <2>2. at[r] # "done"
    <3>1. SUFFICES ASSUME at[r] = "done" PROVE FALSE
      OBVIOUS
    <3>2. request'[r] = request[r] /\ response'[r] = response[r] /\ IsAuthorized(r)
      BY <2>1, <3>1, RequestStays DEF IsAuthorized
    <3> QED
      BY <1>3, <2>1, <3>2, AccountStays DEF WithdrawalsOf
  <2>3. /\ at[r] = "serve" /\ request'[r] = request[r] /\ IsAuthorized(r) /\ response[r] = "none"
        /\ Withdraw(r) \/ Read(r) \/ Fail(r)
    BY <2>1, <2>2, AnswersComeFromHandlers DEF IsAuthorized
  <2>4. LoginOf(r) = login[u] /\ AccountOf(r) = u
    BY <2>1, <2>3, AccountStays, AuthorizedParts DEF AccountsInv, LoginsAreUnique
  <2> QED
    BY <2>1, <2>3, <2>4 DEF Read, Serving
<1>4. ASSUME NEW q \in Requests, NEW r \in Requests, response[q] = "none", response[r] = "none",
             response'[q] # "none", response'[r] # "none"
      PROVE  q = r
  BY <1>4, StepOrNot, StepOfOne DEF callVars, Arrive
<1>5. CASE W' \subseteq W
  BY <1>2, <1>5
<1>6. CASE ~(W' \subseteq W)
  <2>1. PICK q \in W' : q \notin W
    BY <1>6
  <2>2. \A r \in W' : r \notin W => r = q
    BY <1>3, <1>4, <2>1
  <2>3. W' = W \cup {q}
    BY <1>2, <2>1, <2>2
  <2> QED
    BY <1>3, <2>1, <2>3
<1> QED
  BY <1>5, <1>6

\* Nobody asked for a withdrawal from an account before it was opened.
LEMMA NewAccountIsFree ==
  ASSUME AccountsInv, SessionsAreThere, NewAccountsAreUnused, [AccountsNext]_accountsVars,
         NEW u \in Users, login[u] = NoRow, login'[u] # NoRow, NEW answers \in SUBSET {"ok", "failed"}
  PROVE  withdrawn'[u] = 0 /\ WithdrawalsOf(login[u], answers)' = {}
<1>1. withdrawn' = withdrawn
  BY OnlyWithdrawSpends, WithdrawParts DEF rowVars
<1>2. ASSUME NEW r \in WithdrawalsOf(login[u], answers)' PROVE FALSE
  <2>1. /\ r \in Requests /\ request'[r].kind = "withdraw" /\ LoginOf(r)' = login'[u]
        /\ response'[r] \in {"ok", "failed"}
    BY DEF WithdrawalsOf
  <2>2. IsAuthorized(r)
    <3>1. CASE at[r] = "done"
      BY <2>1, <3>1, RequestStays DEF IsAuthorized
    <3>2. CASE at[r] # "done"
      BY <2>1, <3>2, AnswersComeFromHandlers DEF IsAuthorized
    <3> QED
      BY <3>1, <3>2
  <2>3. /\ AccountOf(r) \in Users /\ login[AccountOf(r)] # NoRow
        /\ login[AccountOf(r)] = LoginOf(r) /\ LoginOf(r)' = LoginOf(r)
    <3>1. /\ AccountOf(r) \in Users /\ login[AccountOf(r)] = LoginOf(r) /\ LoginOf(r) # NoRow
      BY <2>1, <2>2, AuthorizedParts
    <3>2. LoginOf(r)' = LoginOf(r)
      BY <2>1, <2>2, AccountStays
    <3> QED
      BY <3>1, <3>2
  <2>4. login'[AccountOf(r)] = login'[u]
    BY <2>1, <2>3, RowStays
  <2>5. LoginsAreUnique'
    BY NextAccountsInv DEF AccountsInv
  <2> QED
    BY <2>3, <2>4, <2>5 DEF LoginsAreUnique
<1> QED
  BY <1>1, <1>2 DEF NewAccountsAreUnused

LEMMA AskedNothing ==
  SumFunction([r \in {} |-> request'[r].sum]) = 0 /\ HalfCents({}) = 0
<1> DEFINE f == [r \in {} |-> request'[r].sum]
<1>1. DOMAIN f = {}
  OBVIOUS
<1> HIDE DEF f
<1>2. SumFunction(f) = 0
  BY <1>1, SumOfNothing DEF SumFunction
<1>3. Cardinality({}) = 0
  BY FS_EmptySet
<1> QED
  BY <1>2, <1>3 DEF f, HalfCents

\* What the withdrawals of an account sum up to, and that they stay as they are.
LEMMA WithdrawalsParts ==
  ASSUME AccountsInv, SessionsAreThere, FewAreThere, [AccountsNext]_accountsVars,
         NEW l, NEW answers \in SUBSET {"ok", "failed"}
  PROVE  LET R == WithdrawalsOf(l, answers)
         IN /\ IsFiniteSet(R)
            /\ \A r \in R : request[r].sum \in Nat /\ request'[r] = request[r] /\ response[r] # "none"
            /\ Asked(R) \in Nat /\ HalfCents(R) \in Nat
            /\ SumFunction([r \in R |-> request'[r].sum]) = Asked(R)
<1> DEFINE R == WithdrawalsOf(l, answers)
<1>1. R \subseteq {r \in Requests : at[r] # "idle"}
  BY DEF WithdrawalsOf, AccountsInv, Stage
<1>2. IsFiniteSet(R)
  BY <1>1, FS_Subset DEF FewAreThere
<1>3. ASSUME NEW r \in R
      PROVE  request[r].sum \in Nat /\ request'[r] = request[r] /\ response[r] # "none"
  <2>1. r \in Requests /\ request[r].kind = "withdraw" /\ IsAuthorized(r) /\ response[r] # "none"
    BY DEF WithdrawalsOf, IsAuthorized
  <2>2. request[r].sum \in Sums /\ request'[r] = request[r]
    BY <2>1, AuthorizedParts, RequestParts, AccountStays DEF AccountsInv
  <2> QED
    BY <2>1, <2>2
<1> HIDE DEF R
<1>4. Asked(R) \in Nat
  <2> DEFINE f == [r \in R |-> request[r].sum]
  <2>1. DOMAIN f = R /\ \A r \in R : f[r] \in Nat
    BY <1>3
  <2> HIDE DEF f
  <2>2. SumFunction(f) \in Nat
    BY <1>2, <2>1, SumOfNaturals DEF SumFunction
  <2> QED
    BY <2>2 DEF f, Asked
<1>5. HalfCents(R) \in Nat
  BY <1>2, FS_CardinalityType DEF HalfCents
<1>6. [r \in R |-> request'[r].sum] = [r \in R |-> request[r].sum]
  BY <1>3
<1> QED
  BY <1>2, <1>3, <1>4, <1>5, <1>6 DEF R, Asked

LEMMA SpendsAreAnsweredInv ==
  ASSUME AccountsInv, SessionsAreThere, FewAreThere, NewAccountsAreUnused, SpendsAreAnswered,
         [AccountsNext]_accountsVars
  PROVE  SpendsAreAnswered'
<1> SUFFICES ASSUME NEW u \in Users, login'[u] # NoRow
             PROVE  LET paid == WithdrawalsOf(login[u], {"ok"})
                        charged == WithdrawalsOf(login[u], {"ok", "failed"})
                    IN /\ 10 * withdrawn'[u] >= Asked(paid)' - HalfCents(paid)'
                       /\ 10 * withdrawn'[u] <= Asked(charged)' + HalfCents(charged)'
  BY DEF SpendsAreAnswered
<1> DEFINE paid == WithdrawalsOf(login[u], {"ok"})
           charged == WithdrawalsOf(login[u], {"ok", "failed"})
           AskedNow(R) == SumFunction([r \in R |-> request'[r].sum])
<1>0. Asked(paid)' = AskedNow(paid') /\ Asked(charged)' = AskedNow(charged')
      /\ HalfCents(paid)' = HalfCents(paid') /\ HalfCents(charged)' = HalfCents(charged')
  BY DEF Asked, HalfCents
<1> SUFFICES /\ 10 * withdrawn'[u] >= AskedNow(paid') - HalfCents(paid')
             /\ 10 * withdrawn'[u] <= AskedNow(charged') + HalfCents(charged')
  BY <1>0
<1>1. CASE login[u] = NoRow
  <2>1. withdrawn'[u] = 0 /\ paid' = {} /\ charged' = {}
    BY <1>1, NewAccountIsFree
  <2>2. AskedNow({}) = 0 /\ HalfCents({}) = 0
    BY AskedNothing
  <2> HIDE DEF paid, charged, AskedNow
  <2> QED
    BY <2>1, <2>2
<1>2. CASE login[u] # NoRow
  <2>1. /\ withdrawn[u] \in Nat
        /\ 10 * withdrawn[u] >= Asked(paid) - HalfCents(paid)
        /\ 10 * withdrawn[u] <= Asked(charged) + HalfCents(charged)
    BY <1>2 DEF SpendsAreAnswered, AccountsInv, AccountsTypeOK, RepoTypeOK
  <2>2. /\ IsFiniteSet(paid) /\ Asked(paid) \in Nat /\ HalfCents(paid) \in Nat
        /\ AskedNow(paid) = Asked(paid)
        /\ \A r \in paid : request[r].sum \in Nat /\ request'[r] = request[r] /\ response[r] # "none"
    BY WithdrawalsParts
  <2>3. /\ IsFiniteSet(charged) /\ Asked(charged) \in Nat /\ HalfCents(charged) \in Nat
        /\ AskedNow(charged) = Asked(charged)
        /\ \A r \in charged : request[r].sum \in Nat /\ request'[r] = request[r] /\ response[r] # "none"
    BY WithdrawalsParts
  <2>4. \/ paid' = paid
        \/ \E q \in Requests :
             /\ response[q] = "none" /\ request[q].kind = "withdraw" /\ AccountOf(q) = u
             /\ Withdraw(q) \/ Fail(q)
             /\ response'[q] = "ok"
             /\ paid' = paid \cup {q}
    BY <1>2, WithdrawalsStep
  <2>5. \/ charged' = charged
        \/ \E q \in Requests :
             /\ response[q] = "none" /\ request[q].kind = "withdraw" /\ AccountOf(q) = u
             /\ Withdraw(q) \/ Fail(q)
             /\ charged' = charged \cup {q}
    BY <1>2, WithdrawalsStep
  <2>6. paid \subseteq charged /\ paid' \subseteq charged'
    BY DEF WithdrawalsOf
  <2>7. ASSUME NEW R, R = paid \/ R = charged, NEW q \in Requests,
               response[q] = "none", request[q].kind = "withdraw", IsAuthorized(q)
        PROVE  /\ q \notin R
               /\ request[q].sum \in Nat
               /\ AskedNow(R \cup {q}) = Asked(R) + request[q].sum
               /\ HalfCents(R \cup {q}) = HalfCents(R) + 5
    <3>1. request[q].sum \in Sums /\ request'[q] = request[q]
      BY <2>7, AuthorizedParts, RequestParts, AccountStays DEF AccountsInv
    <3>2. request[q].sum \in Nat
      BY <3>1
    <3>3. q \notin R /\ IsFiniteSet(R) /\ \A r \in R : request[r].sum \in Nat /\ request'[r] = request[r]
      BY <2>2, <2>3, <2>7
    <3> HIDE DEF paid, charged
    <3> QED
      BY <3>1, <3>2, <3>3, AskedMore
  <2>8. CASE \E q \in Requests : Withdraw(q) /\ AccountOf(q) = u
    <3>1. PICK q \in Requests : Withdraw(q) /\ AccountOf(q) = u
      BY <2>8
    <3> DEFINE sum == request[q].sum  cents == FromFloat64(sum)
    <3>2. /\ request[q].kind = "withdraw" /\ response[q] = "none" /\ IsAuthorized(q) /\ sum \in Sums
          /\ WithdrawBalance(u, cents) /\ response'[q] \in {"ok", "failed"} /\ cents \in Amounts
      BY <3>1, WithdrawParts DEF IsAuthorized
    <3>3. withdrawn'[u] = withdrawn[u] + cents
      BY <3>2 DEF WithdrawBalance, AccountsInv, AccountsTypeOK, RepoTypeOK
    <3>4. sum \in Nat /\ cents \in Nat /\ 10 * cents \in sum - 5 .. sum + 5
      BY <3>2, Rounding, AmountsAssumption DEF AmountsAssumption
    <3>5. q \in charged' /\ q \notin charged
      <4>1. request'[q] = request[q] /\ LoginOf(q)' = LoginOf(q) /\ LoginOf(q) = login[u] /\ login'[u] = login[u]
        BY <1>2, <3>1, <3>2, AccountStays, AuthorizedParts, RowStays
      <4> QED
        BY <3>2, <4>1 DEF WithdrawalsOf
    <3>6. charged' = charged \cup {q}
      BY <2>5, <3>5
    <3>7. paid' = paid \/ paid' = paid \cup {q}
      <4>1. \A p \in paid' : p \in charged \/ p = q
        BY <2>6, <3>6
      <4>2. \A p \in charged : response[p] # "none"
        BY <2>3
      <4> HIDE DEF paid, charged
      <4> QED
        BY <2>4, <4>1, <4>2
    <3>8. /\ AskedNow(charged \cup {q}) = Asked(charged) + sum /\ HalfCents(charged \cup {q}) = HalfCents(charged) + 5
          /\ AskedNow(paid \cup {q}) = Asked(paid) + sum /\ HalfCents(paid \cup {q}) = HalfCents(paid) + 5
      <4> HIDE DEF paid, charged, AskedNow
      <4>1. AskedNow(charged \cup {q}) = Asked(charged) + request[q].sum /\ HalfCents(charged \cup {q}) = HalfCents(charged) + 5
        BY <2>7, <3>2
      <4>2. AskedNow(paid \cup {q}) = Asked(paid) + request[q].sum /\ HalfCents(paid \cup {q}) = HalfCents(paid) + 5
        BY <2>7, <3>2
      <4> QED
        BY <4>1, <4>2
    <3> HIDE DEF paid, charged, AskedNow, sum, cents
    <3>9. 10 * withdrawn'[u] >= AskedNow(paid') - HalfCents(paid')
      <4>1. CASE paid' = paid
        BY <2>1, <2>2, <3>3, <3>4, <4>1
      <4>2. CASE paid' = paid \cup {q}
        BY <2>1, <2>2, <3>3, <3>4, <3>8, <4>2
      <4> QED
        BY <3>7, <4>1, <4>2
    <3>10. 10 * withdrawn'[u] <= AskedNow(charged') + HalfCents(charged')
      BY <2>1, <2>3, <3>3, <3>4, <3>6, <3>8
    <3> QED
      BY <3>9, <3>10
  <2>9. CASE ~ \E q \in Requests : Withdraw(q) /\ AccountOf(q) = u
    <3>1. withdrawn'[u] = withdrawn[u]
      <4>1. ASSUME NEW r \in Requests, Withdraw(r) PROVE withdrawn'[u] = withdrawn[u]
        <5>1. AccountOf(r) # u /\ WithdrawBalance(AccountOf(r), FromFloat64(request[r].sum))
          BY <2>9, <4>1, WithdrawParts
        <5> QED
          BY <5>1 DEF WithdrawBalance, AccountsInv, AccountsTypeOK, RepoTypeOK
      <4> QED
        BY <4>1, OnlyWithdrawSpends
    <3>2. paid' = paid
      <4>1. ASSUME NEW q \in Requests, Fail(q) PROVE response'[q] = "failed"
        BY <4>1 DEF Fail, Refuses, Responds, Shows, AccountsInv, AccountsTypeOK
      <4> QED
        BY <2>4, <2>9, <4>1
    <3>3. /\ AskedNow(charged') \in Nat /\ HalfCents(charged') \in Nat
          /\ AskedNow(charged') + HalfCents(charged') >= Asked(charged) + HalfCents(charged)
      <4> DEFINE MoreAsked == /\ AskedNow(charged') \in Nat /\ HalfCents(charged') \in Nat
                              /\ AskedNow(charged') + HalfCents(charged') >= Asked(charged) + HalfCents(charged)
      <4>1. CASE charged' = charged
        <5> HIDE DEF paid, charged, AskedNow
        <5> QED
          BY <2>3, <4>1
      <4>2. ASSUME NEW q \in Requests, response[q] = "none", request[q].kind = "withdraw",
                   charged' = charged \cup {q}
            PROVE  MoreAsked
        <5>1. /\ AskedNow(charged \cup {q}) = Asked(charged) + request[q].sum
              /\ HalfCents(charged \cup {q}) = HalfCents(charged) + 5 /\ request[q].sum \in Nat
          BY <2>7, <4>2 DEF IsAuthorized
        <5> HIDE DEF paid, charged, AskedNow
        <5> QED
          BY <2>3, <4>2, <5>1
      <4> QED
        BY <2>5, <4>1, <4>2
    <3> HIDE DEF paid, charged, AskedNow
    <3>4. 10 * withdrawn'[u] >= AskedNow(paid') - HalfCents(paid')
      BY <2>1, <2>2, <3>1, <3>2
    <3>5. 10 * withdrawn'[u] <= AskedNow(charged') + HalfCents(charged')
      BY <2>1, <2>3, <3>1, <3>3
    <3> QED
      BY <3>4, <3>5
  <2> QED
    BY <2>8, <2>9
<1> QED
  BY <1>1, <1>2

-----------------------------------------------------------------------------
LEMMA InitBooksInv == AccountsInit => BooksInv
<1> SUFFICES ASSUME AccountsInit PROVE BooksInv
  OBVIOUS
<1>1. AccountsInv /\ WithdrawnIsItemized
  BY InitAccountsInv, RepoInitItemized DEF AccountsInit
<1>2. \A r \in Requests : request[r].kind = "none" /\ at[r] = "idle" /\ response[r] = "none" /\ before[r] = {}
  BY DEF AccountsInit, Nothing
<1>3. \A u \in Users : /\ login[u] = NoRow /\ withdrawn[u] = 0 /\ balance[u] \in Nat
                       /\ \A o \in Orders : owner[o] # u /\ owner[o] = NoUser
  BY <1>1, RepositoryAssumption DEF RepositoryAssumption, AccountsInit, RepoInit, AccountsInv, AccountsTypeOK, RepoTypeOK
<1>4. SessionsAreThere /\ ShownIsThere /\ ReadsNeverGoBack
  BY <1>2 DEF SessionsAreThere, ShownIsThere, ReadsNeverGoBack, IsAuthorized
<1>5. NewAccountsAreUnused /\ SpendsAreAnswered /\ AwardsAreConcluded
  BY <1>3 DEF NewAccountsAreUnused, SpendsAreAnswered, AwardsAreConcluded, AccountsInit, RepoInit
<1>6. FewAreThere
  <2>1. {r \in Requests : at[r] # "idle"} = {} /\ {o \in Orders : owner[o] # NoUser} = {}
    BY <1>2 DEF AccountsInit
  <2> QED
    BY <2>1, FS_EmptySet DEF FewAreThere
<1>7. AwardsAreEarned
  <2> SUFFICES ASSUME NEW u \in Users PROVE Awarded(Listed(u)) <= balance[u] + withdrawn[u]
    BY ListedIsShown DEF AwardsAreEarned
  <2>1. \A o \in Orders : Listed(u)[o] = 0
    BY <1>3 DEF Listed
  <2>2. {o \in Orders : Listed(u)[o] > 0} = {}
    BY <2>1
  <2>3. Awarded(Listed(u)) = 0
    BY <2>2, SumOfNothing DEF Awarded
  <2> QED
    BY <1>3, <2>3
<1> QED
  BY <1>1, <1>4, <1>5, <1>6, <1>7 DEF BooksInv

(***************************************************************************)
(* However requests overlap, the atomic repository under them does nothing *)
(* but its own operations, so what holds of it holds here.                 *)
(***************************************************************************)
THEOREM AccountsItemize == AccountsSpec => []WithdrawnIsItemized
BY AccountsUseRepository, RepoKeepsAccounts, PTL

LEMMA NextBooksInv ==
  ASSUME BooksInv, WithdrawnIsItemized', [AccountsNext]_accountsVars
  PROVE  BooksInv'
<1> USE DEF BooksInv
<1>1. AccountsInv' /\ SessionsAreThere' /\ FewAreThere'
  BY NextAccountsInv, SessionsAreThereInv, FewAreThereInv
<1>2. NewAccountsAreUnused' /\ AwardsAreConcluded' /\ AwardsAreEarned'
  BY NewAccountsAreUnusedInv, AwardsAreConcludedInv, AwardsAreEarnedInv
<1>3. ShownIsThere' /\ ReadsNeverGoBack' /\ SpendsAreAnswered'
  BY ShownIsThereInv, ReadsNeverGoBackInv, SpendsAreAnsweredInv
<1> QED
  BY <1>1, <1>2, <1>3

(***************************************************************************)
(* What requests asked for and were shown agrees with what the accounts    *)
(* hold, always: the invariant that makes the two promises below           *)
(* inductive.  The list of withdrawals, which the handlers only read, is   *)
(* carried over from the repository.                                       *)
(***************************************************************************)
THEOREM BooksInvariant == AccountsSpec => []BooksInv
<1>1. AccountsInit => BooksInv
  BY InitBooksInv
<1>2. BooksInv /\ WithdrawnIsItemized' /\ [AccountsNext]_accountsVars => BooksInv'
  BY NextBooksInv
<1> QED
  BY <1>1, <1>2, AccountsItemize, PTL DEF AccountsSpec

(***************************************************************************)
(* A user pays for the withdrawals that were answered with a 200, and for  *)
(* nothing that was answered otherwise but a 500, up to half a cent each,  *)
(* whatever sums are asked for by however many requests (Withdraw).        *)
(***************************************************************************)
THEOREM AccountsSpendsAreAnswered == AccountsSpec => []SpendsAreAnswered
BY BooksInvariant, PTL DEF BooksInv

(***************************************************************************)
(* No later balance or list of withdrawals takes back what an earlier      *)
(* answer has shown of the points earned and spent (GetBalance,            *)
(* GetWithdrawals, GetOrdersByUserID, Withdraw), though the workers may    *)
(* return an order to PROCESSING and add its award again (Settle), for any *)
(* users, orders and requests.                                             *)
(***************************************************************************)
THEOREM AccountsReadsNeverGoBack == AccountsSpec => []ReadsNeverGoBack
BY BooksInvariant, PTL DEF BooksInv
=============================================================================
