---------------------------- MODULE UploadContract ----------------------------
(***************************************************************************)
(* What POST /api/user/orders promises, one atomic step per request: a     *)
(* number is accepted once and from one user; every later upload of it is  *)
(* answered by whose it is.  OrderUpload is the handler call by call.      *)
(***************************************************************************)
CONSTANTS Requests, Users, NoUser, Orders, Malformed

VARIABLES
  request,    \* who uploads which number
  response,   \* what the request was answered
  owner       \* orders.user_id

contractVars == <<request, response, owner>>

Numbers == Orders \cup {Malformed}

\* 202, 200, 409, 422, and 500 or no answer at all.
Responses == {"none", "accepted", "repeated", "conflict", "invalid", "failed"}

ContractInit ==
  /\ request \in [Requests -> [user : Users, number : Numbers]]
  /\ response = [r \in Requests |-> "none"]
  /\ owner \in [Orders -> Users \cup {NoUser}]

Take(r) ==
  /\ request[r].number \in Orders
  /\ owner[request[r].number] = NoUser
  /\ owner' = [owner EXCEPT ![request[r].number] = request[r].user]

Answer(r, a) ==
  /\ response[r] = "none"
  /\ response' = [response EXCEPT ![r] = a]
  /\ UNCHANGED request

Accept(r) == Answer(r, "accepted") /\ Take(r)

TellOwner(r) ==
  /\ request[r].number \in Orders
  /\ \/ owner[request[r].number] = request[r].user /\ Answer(r, "repeated")
     \/ owner[request[r].number] \notin {NoUser, request[r].user} /\ Answer(r, "conflict")
  /\ UNCHANGED owner

RefuseMalformed(r) ==
  /\ request[r].number = Malformed
  /\ Answer(r, "invalid")
  /\ UNCHANGED owner

\* A failed upload may have taken the number.
FailUpload(r) == Answer(r, "failed") /\ (Take(r) \/ UNCHANGED owner)

ContractNext ==
  \E r \in Requests : Accept(r) \/ TellOwner(r) \/ RefuseMalformed(r) \/ FailUpload(r)

ContractSpec == ContractInit /\ [][ContractNext]_contractVars
=============================================================================
