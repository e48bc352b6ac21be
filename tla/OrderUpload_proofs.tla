--------------------------- MODULE OrderUpload_proofs ---------------------------
(***************************************************************************)
(* Uploads implement their contract, and what they answer stays true.  The *)
(* inductive invariant adds to the answers' truth that every accepted      *)
(* number had no owner before, which one acceptance per number rests on.   *)
(***************************************************************************)
EXTENDS OrderUpload, Repository_proofs

UploadInv == UploadTypeOK /\ AnswersStayTrue /\ AcceptedOnce

LEMMA RequestType == ASSUME UploadTypeOK, NEW r \in Requests
                     PROVE User(r) \in Users /\ Number(r) \in Orders \cup {Malformed}
BY DEF UploadTypeOK, User, Number

LEMMA InitUploadInv == UploadInit => UploadInv
<1> SUFFICES ASSUME UploadInit PROVE UploadInv
  OBVIOUS
<1>1. RepoTypeOK
  BY RepoInitType DEF UploadInit
<1>2. UploadTypeOK
  BY <1>1 DEF UploadInit, UploadTypeOK, Contract!Responses
<1>3. AnswersStayTrue /\ AcceptedOnce
  BY DEF UploadInit, AnswersStayTrue, AcceptedOnce
<1> QED
  BY <1>2, <1>3 DEF UploadInv

\* A step that leaves the repository alone keeps the answers already given.
LEMMA KeepsOwnersInv ==
  ASSUME UploadInv, NEW r \in Requests, UNCHANGED repoVars, NEW a \in Contract!Responses \ {"accepted"},
         Responds(r, a),
         a = "repeated" => Number(r) \in Orders /\ owner[Number(r)] = User(r),
         a = "conflict" => Number(r) \in Orders /\ owner[Number(r)] \notin {NoUser, User(r)}
  PROVE  UploadInv'
<1>1. UNCHANGED <<owner, request>> /\ RepoTypeOK'
  BY DEF repoVars, orderVars, userVars, UploadInv, UploadTypeOK, RepoTypeOK, Responds
<1>2. /\ at' = [at EXCEPT ![r] = "done"] /\ response' = [response EXCEPT ![r] = a]
      /\ response \in [Requests -> Contract!Responses]
  BY DEF Responds, UploadInv, UploadTypeOK
<1>3. UploadTypeOK'
  BY <1>1, <1>2 DEF UploadInv, UploadTypeOK, Number
<1>4. AnswersStayTrue'
  BY <1>1, <1>2 DEF UploadInv, AnswersStayTrue, Number, User
<1>5. AcceptedOnce'
  BY <1>1, <1>2 DEF UploadInv, AcceptedOnce, Number
<1> QED
  BY <1>3, <1>4, <1>5 DEF UploadInv

\* A step that only moves a request on.
LEMMA GoesInv ==
  ASSUME UploadInv, NEW r \in Requests, UNCHANGED repoVars, NEW p \in {"create", "resolve"},
         Goes(r, p), Number(r) \in Orders
  PROVE  UploadInv'
<1>1. UNCHANGED <<owner, request, response>> /\ RepoTypeOK'
  BY DEF repoVars, orderVars, userVars, UploadInv, UploadTypeOK, RepoTypeOK, Goes
<1>2. UploadTypeOK'
  BY <1>1 DEF UploadInv, UploadTypeOK, Number, Goes
<1>3. AnswersStayTrue' /\ AcceptedOnce'
  BY <1>1 DEF UploadInv, AnswersStayTrue, AcceptedOnce, Number, User
<1> QED
  BY <1>2, <1>3 DEF UploadInv

\* A number without an owner is created: no request was told anything about it.
LEMMA CreatesInv ==
  ASSUME UploadInv, NEW r \in Requests, at[r] = "create", CreateOrder(User(r), Number(r)),
         NEW a \in {"accepted", "failed"}, Responds(r, a)
  PROVE  UploadInv'
<1>1. /\ User(r) \in Users /\ Number(r) \in Orders
      /\ owner[Number(r)] = NoUser /\ owner' = [owner EXCEPT ![Number(r)] = User(r)]
      /\ owner \in [Orders -> Users \cup {NoUser}]
  BY RequestType DEF UploadInv, UploadTypeOK, CreateOrder, RepoTypeOK
<1>2. RepoTypeOK'
  BY <1>1, CreateOrderKeeps DEF UploadInv, UploadTypeOK
<1>3. /\ at' = [at EXCEPT ![r] = "done"] /\ response' = [response EXCEPT ![r] = a] /\ request' = request
      /\ response \in [Requests -> Contract!Responses] /\ a \in Contract!Responses
  BY DEF Responds, UploadInv, UploadTypeOK, Contract!Responses
<1>4. UploadTypeOK'
  BY <1>2, <1>3 DEF UploadInv, UploadTypeOK, Number
<1>5. \A q \in Requests : response[q] \in {"accepted", "repeated", "conflict"} => Number(q) # Number(r)
  BY <1>1, RequestType, RepositoryAssumption DEF UploadInv, AnswersStayTrue, UploadTypeOK
<1>6. AnswersStayTrue'
  BY <1>1, <1>3, <1>5, RepositoryAssumption DEF UploadInv, AnswersStayTrue, Number, User
<1>7. AcceptedOnce'
  BY <1>3, <1>5 DEF UploadInv, AcceptedOnce, Number
<1> QED
  BY <1>4, <1>6, <1>7 DEF UploadInv

LEMMA UploadStepInv == UploadInv /\ [UploadNext]_uploadVars => UploadInv'
<1> SUFFICES ASSUME UploadInv, [UploadNext]_uploadVars PROVE UploadInv'
  OBVIOUS
<1>1. CASE UNCHANGED uploadVars
  BY <1>1 DEF uploadVars, repoVars, orderVars, userVars, UploadInv, UploadTypeOK, RepoTypeOK,
              AnswersStayTrue, AcceptedOnce, Number, User
<1>2. ASSUME NEW r \in Requests, RefuseNumber(r) PROVE UploadInv'
  <2>1. Responds(r, "invalid") /\ UNCHANGED repoVars
    BY <1>2 DEF RefuseNumber
  <2> QED
    BY <2>1, KeepsOwnersInv DEF Contract!Responses
<1>3. ASSUME NEW r \in Requests, FindOrder(r) PROVE UploadInv'
  <2>1. /\ Responds(r, Existing(r)) /\ UNCHANGED repoVars
        /\ Number(r) \in Orders /\ owner[Number(r)] # NoUser
    BY <1>3 DEF FindOrder
  <2>2. CASE owner[Number(r)] = User(r)
    <3>1. Existing(r) = "repeated"
      BY <2>2 DEF Existing
    <3> QED
      BY <2>1, <2>2, <3>1, KeepsOwnersInv DEF Contract!Responses
  <2>3. CASE owner[Number(r)] # User(r)
    <3>1. Existing(r) = "conflict"
      BY <2>3 DEF Existing
    <3> QED
      BY <2>1, <2>3, <3>1, KeepsOwnersInv DEF Contract!Responses
  <2> QED
    BY <2>2, <2>3
<1>4. ASSUME NEW r \in Requests, MissOrder(r) PROVE UploadInv'
  <2>1. Goes(r, "create") /\ UNCHANGED repoVars /\ Number(r) \in Orders
    BY <1>4 DEF MissOrder
  <2> QED
    BY <2>1, GoesInv
<1>5. ASSUME NEW r \in Requests, Create(r) PROVE UploadInv'
  <2>1. at[r] = "create" /\ CreateOrder(User(r), Number(r)) /\ Responds(r, "accepted")
    BY <1>5 DEF Create
  <2> QED
    BY <2>1, CreatesInv
<1>6. ASSUME NEW r \in Requests, CreateDuplicate(r) PROVE UploadInv'
  <2>1. Goes(r, "resolve") /\ UNCHANGED repoVars /\ Number(r) \in Orders
    BY <1>6 DEF CreateDuplicate, UploadInv, UploadTypeOK
  <2> QED
    BY <2>1, GoesInv
<1>7. ASSUME NEW r \in Requests, CreateUnanswered(r) PROVE UploadInv'
  <2>1. at[r] = "create" /\ CreateOrder(User(r), Number(r)) /\ Responds(r, "failed")
    BY <1>7 DEF CreateUnanswered
  <2> QED
    BY <2>1, CreatesInv
<1>8. ASSUME NEW r \in Requests, UploadFails(r) PROVE UploadInv'
  <2>1. Responds(r, "failed") /\ UNCHANGED repoVars
    BY <1>8 DEF UploadFails
  <2> QED
    BY <2>1, KeepsOwnersInv DEF Contract!Responses
<1> QED
  BY <1>1, <1>2, <1>3, <1>4, <1>5, <1>6, <1>7, <1>8 DEF UploadNext, AllAnswered

(***************************************************************************)
(* Uploads keep their types, and a request reaches the INSERT only with a  *)
(* number that passed the check.                                           *)
(***************************************************************************)
THEOREM UploadInvariant == UploadSpec => []UploadInv
BY InitUploadInv, UploadStepInv, PTL DEF UploadSpec

(***************************************************************************)
(* Every variable keeps its type: only a number that passed the check is   *)
(* ever created or looked up again.                                        *)
(***************************************************************************)
THEOREM UploadTypeCorrect == UploadSpec => []UploadTypeOK
<1>1. UploadInv => UploadTypeOK
  BY DEF UploadInv
<1> QED
  BY <1>1, UploadInvariant, PTL

(***************************************************************************)
(* 202, 200 and 409 stay true for ever, for any number of requests.        *)
(***************************************************************************)
THEOREM UploadAnswersStayTrue == UploadSpec => []AnswersStayTrue
<1>1. UploadInv => AnswersStayTrue
  BY DEF UploadInv
<1> QED
  BY <1>1, UploadInvariant, PTL

(***************************************************************************)
(* A number is accepted once, for any number of requests and users.        *)
(***************************************************************************)
THEOREM UploadAcceptsOnce == UploadSpec => []AcceptedOnce
<1>1. UploadInv => AcceptedOnce
  BY DEF UploadInv
<1> QED
  BY <1>1, UploadInvariant, PTL

(***************************************************************************)
(* An upload reaches the database through CreateOrder only, so a number    *)
(* once created keeps its owner and no account changes (Upload and         *)
(* resolveExistingOrder).                                                  *)
(***************************************************************************)
THEOREM UploadsUseRepository == UploadSpec => RepoSpec
<1>1. UploadInit => RepoInit
  BY DEF UploadInit
<1>2. ASSUME UploadInv, [UploadNext]_uploadVars PROVE [RepoNext]_repoVars
  <2>1. ASSUME NEW r \in Requests, Create(r) \/ CreateUnanswered(r) PROVE RepoNext
    <3>1. User(r) \in Users /\ Number(r) \in Orders /\ CreateOrder(User(r), Number(r))
      BY <1>2, <2>1, RequestType DEF Create, CreateUnanswered, UploadInv, UploadTypeOK
    <3> QED
      BY <3>1 DEF RepoNext
  <2>2. ASSUME NEW r \in Requests,
               RefuseNumber(r) \/ FindOrder(r) \/ MissOrder(r) \/ CreateDuplicate(r) \/ UploadFails(r)
        PROVE  UNCHANGED repoVars
    BY <2>2 DEF RefuseNumber, FindOrder, MissOrder, CreateDuplicate, UploadFails
  <2>3. AllAnswered \/ UNCHANGED uploadVars => UNCHANGED repoVars
    BY DEF AllAnswered, uploadVars
  <2> QED
    BY <1>2, <2>1, <2>2, <2>3 DEF UploadNext
<1> QED
  BY <1>1, <1>2, UploadInvariant, PTL DEF UploadSpec, RepoSpec

-----------------------------------------------------------------------------
(* The refinement: an answer is one step of the contract, a lookup without  *)
(* an answer is a stutter.  A request is unanswered until it is done.       *)

AnsweredWhenDone == \A r \in Requests : response[r] # "none" => at[r] = "done"

LEMMA AnsweredWhenDoneInvariant == UploadSpec => []AnsweredWhenDone
<1>1. UploadInit => AnsweredWhenDone
  BY DEF UploadInit, AnsweredWhenDone
<1>2. UploadInv /\ AnsweredWhenDone /\ [UploadNext]_uploadVars => AnsweredWhenDone'
  BY DEF UploadInv, UploadTypeOK, AnsweredWhenDone, UploadNext, uploadVars, RefuseNumber, FindOrder, MissOrder,
         Create, CreateDuplicate, CreateUnanswered, UploadFails, AllAnswered, Goes, Responds
<1> QED
  BY <1>1, <1>2, UploadInvariant, PTL DEF UploadSpec

LEMMA UploadStepRefines ==
  UploadInv /\ AnsweredWhenDone /\ [UploadNext]_uploadVars => [Contract!ContractNext]_(Contract!contractVars)
<1> SUFFICES ASSUME UploadInv, AnsweredWhenDone, [UploadNext]_uploadVars
             PROVE  Contract!ContractNext \/ UNCHANGED Contract!contractVars
  OBVIOUS
<1>a. ASSUME NEW r \in Requests, NEW a, Responds(r, a), at[r] # "done" PROVE Contract!Answer(r, a)
  <2>1. response[r] = "none"
    BY <1>a DEF AnsweredWhenDone
  <2> QED
    BY <1>a, <2>1 DEF Contract!Answer, Responds
<1>b. ASSUME UNCHANGED repoVars PROVE UNCHANGED owner
  BY <1>b DEF repoVars, orderVars
<1>1. CASE UNCHANGED uploadVars
  BY <1>1 DEF uploadVars, repoVars, orderVars, Contract!contractVars
<1>2. ASSUME NEW r \in Requests, RefuseNumber(r) PROVE Contract!RefuseMalformed(r)
  BY <1>2, <1>a, <1>b DEF RefuseNumber, Contract!RefuseMalformed, Number
<1>3. ASSUME NEW r \in Requests, FindOrder(r) PROVE Contract!TellOwner(r)
  <2>1. Contract!Answer(r, Existing(r)) /\ UNCHANGED owner /\ Number(r) \in Orders /\ owner[Number(r)] # NoUser
    BY <1>3, <1>a, <1>b DEF FindOrder
  <2> QED
    BY <2>1 DEF Existing, Contract!TellOwner, Number, User
<1>4. ASSUME NEW r \in Requests, MissOrder(r) \/ CreateDuplicate(r) PROVE UNCHANGED Contract!contractVars
  BY <1>4, <1>b DEF MissOrder, CreateDuplicate, Goes, Contract!contractVars
<1>5. ASSUME NEW r \in Requests, Create(r) PROVE Contract!Accept(r)
  <2>1. Contract!Answer(r, "accepted") /\ CreateOrder(User(r), Number(r)) /\ Number(r) \in Orders
    BY <1>5, <1>a DEF Create, UploadInv, UploadTypeOK
  <2> QED
    BY <2>1 DEF Contract!Accept, Contract!Take, CreateOrder, Number, User
<1>6. ASSUME NEW r \in Requests, CreateUnanswered(r) PROVE Contract!FailUpload(r)
  <2>1. Contract!Answer(r, "failed") /\ CreateOrder(User(r), Number(r)) /\ Number(r) \in Orders
    BY <1>6, <1>a DEF CreateUnanswered, UploadInv, UploadTypeOK
  <2> QED
    BY <2>1 DEF Contract!FailUpload, Contract!Take, CreateOrder, Number, User
<1>7. ASSUME NEW r \in Requests, UploadFails(r) PROVE Contract!FailUpload(r)
  BY <1>7, <1>a, <1>b DEF UploadFails, Contract!FailUpload
<1> QED
  BY <1>1, <1>2, <1>3, <1>4, <1>5, <1>6, <1>7 DEF UploadNext, AllAnswered, Contract!ContractNext

(***************************************************************************)
(* The upload, call by call, implements the atomic one of UploadContract.  *)
(***************************************************************************)
THEOREM UploadsImplementContract == UploadSpec => UploadsAreAtomic
<1>1. UploadInit => Contract!ContractInit
  BY DEF UploadInit, RepoInit, Contract!ContractInit, Contract!Numbers
<1> QED
  BY <1>1, UploadStepRefines, UploadInvariant, AnsweredWhenDoneInvariant, PTL
     DEF UploadSpec, UploadsAreAtomic, Contract!ContractSpec
=============================================================================
