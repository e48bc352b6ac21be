CONSTANTS
  Users = {u1, u2}
  Orders = {o1, o2}
  Amounts = {1}
  NoUser = NoUser
  StartBalances = {0}
  Requests = {r1, r2, r3, r4}
  Malformed = Malformed
SYMMETRY MCUploadSymmetry
SPECIFICATION UploadSpec
INVARIANTS UploadTypeOK AnswersStayTrue AcceptedOnce
PROPERTY UploadsAreAtomic
