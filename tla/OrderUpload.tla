------------------------------ MODULE OrderUpload ------------------------------
(***************************************************************************)
(* Uploads of order numbers: the handler and the service of                *)
(* POST /api/user/orders (handler/orders.go, service/order/service.go),    *)
(* which looks the number up, creates it when it is missing, and looks it  *)
(* up again when another request created it in between.  Requests of the   *)
(* same and of different users overlap at every call of the repository.    *)
(*                                                                         *)
(* A call of the repository may fail, also after the INSERT took effect,   *)
(* and the process may crash: the client then gets a 500, or no answer,    *)
(* both "failed" here.                                                     *)
(***************************************************************************)
EXTENDS Repository

CONSTANTS
  Requests,
  Malformed       \* a number that is empty or fails the Luhn check

ASSUME UploadAssumption == Malformed \notin Orders

VARIABLES
  request,    \* who uploads which number
  at,         \* the next call of the service
  response    \* what the handler answered

uploadVars == <<repoVars, request, at, response>>

Contract == INSTANCE UploadContract

UploadInit ==
  /\ RepoInit
  /\ request \in [Requests -> [user : Users, number : Orders \cup {Malformed}]]
  /\ at = [r \in Requests |-> "lookup"]
  /\ response = [r \in Requests |-> "none"]

Goes(r, p) ==
  /\ at' = [at EXCEPT ![r] = p]
  /\ UNCHANGED <<request, response>>

Responds(r, a) ==
  /\ at' = [at EXCEPT ![r] = "done"]
  /\ response' = [response EXCEPT ![r] = a]
  /\ UNCHANGED request

User(r) == request[r].user
Number(r) == request[r].number

\* The Luhn check comes before any call of the repository.
RefuseNumber(r) ==
  /\ at[r] = "lookup"
  /\ Number(r) = Malformed
  /\ Responds(r, "invalid")
  /\ UNCHANGED repoVars

\* Mutant of Existing: the user is not compared.
ExistingMutant(r) == "repeated"

\* ErrOrderAlreadyUploadedBySameUser (200) or ErrOrderUploadedByAnotherUser (409).
Existing(r) == IF owner[Number(r)] = User(r) THEN "repeated" ELSE "conflict"

\* Both calls of GetOrderByNumber, when they find the row.
FindOrder(r) ==
  /\ at[r] \in {"lookup", "resolve"}
  /\ Number(r) \in Orders
  /\ owner[Number(r)] # NoUser
  /\ Responds(r, Existing(r))
  /\ UNCHANGED repoVars

MissOrder(r) ==
  /\ at[r] = "lookup"
  /\ Number(r) \in Orders
  /\ owner[Number(r)] = NoUser
  /\ Goes(r, "create")
  /\ UNCHANGED repoVars

Create(r) ==
  /\ at[r] = "create"
  /\ CreateOrder(User(r), Number(r))
  /\ Responds(r, "accepted")

\* Mutant of CreateDuplicate: ErrOrderAlreadyExists is taken for success.
CreateDuplicateMutant(r) ==
  /\ at[r] = "create"
  /\ owner[Number(r)] # NoUser
  /\ Responds(r, "accepted")
  /\ UNCHANGED repoVars

\* ErrOrderAlreadyExists: another request was faster.
CreateDuplicate(r) ==
  /\ at[r] = "create"
  /\ owner[Number(r)] # NoUser
  /\ Goes(r, "resolve")
  /\ UNCHANGED repoVars

\* The INSERT took effect, and the error or the crash came after it.
CreateUnanswered(r) ==
  /\ at[r] = "create"
  /\ CreateOrder(User(r), Number(r))
  /\ Responds(r, "failed")

UploadFails(r) ==
  /\ at[r] # "done"
  /\ Responds(r, "failed")
  /\ UNCHANGED repoVars

AllAnswered == (\A r \in Requests : at[r] = "done") /\ UNCHANGED uploadVars

UploadNext ==
  \/ \E r \in Requests :
       \/ RefuseNumber(r) \/ FindOrder(r) \/ MissOrder(r)
       \/ Create(r) \/ CreateDuplicate(r) \/ CreateUnanswered(r) \/ UploadFails(r)
  \/ AllAnswered

UploadSpec == UploadInit /\ [][UploadNext]_uploadVars

-----------------------------------------------------------------------------
UploadTypeOK ==
  /\ RepoTypeOK
  /\ request \in [Requests -> [user : Users, number : Orders \cup {Malformed}]]
  /\ at \in [Requests -> {"lookup", "create", "resolve", "done"}]
  /\ response \in [Requests -> Contract!Responses]
  /\ \A r \in Requests : at[r] \in {"create", "resolve"} => Number(r) \in Orders

(***************************************************************************)
(* The handler implements the contract of one atomic step per request      *)
(* (Upload and resolveExistingOrder against the same step of              *)
(* UploadContract): however the lookups and the INSERTs of the requests    *)
(* interleave, each answer is true of the table when it is given.          *)
(***************************************************************************)
UploadsAreAtomic == Contract!ContractSpec

(***************************************************************************)
(* What an upload was told stays true: 202 and 200 mean that the number is *)
(* the user's and 409 that it is another user's, whichever requests came   *)
(* first and whatever the repository did in between.                       *)
(***************************************************************************)
AnswersStayTrue ==
  \A r \in Requests :
    /\ response[r] \in {"accepted", "repeated"} => Number(r) \in Orders /\ owner[Number(r)] = User(r)
    /\ response[r] = "conflict" => Number(r) \in Orders /\ owner[Number(r)] \notin {NoUser, User(r)}

(***************************************************************************)
(* A number is accepted (202) at most once, whoever uploads it and however *)
(* often.                                                                  *)
(***************************************************************************)
AcceptedOnce ==
  \A r, q \in Requests :
    response[r] = "accepted" /\ response[q] = "accepted" /\ Number(r) = Number(q) => r = q
=============================================================================
