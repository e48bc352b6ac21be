CONSTANTS
  Users = {u1, u2}
  Orders = {o1}
  Amounts = {1}
  NoUser = NoUser
  StartBalances = {0}
  Requests = {1, 2, 3, 4}
  Logins = {l1, l2}
  NoRow = NoRow
  Passwords = {p1, p2}
  Sums = {7}
  MaxInFlight = 2
  MayFail = {2}
  MaxCredits = 2
SYMMETRY MCAccountsSymmetry
SPECIFICATION MCAccountsSpec
CONSTRAINT RegistersFirst
INVARIANTS AccountsTypeOK SessionsAreOwn RegistrationIsFinal SpendsAreAnswered ReadsNeverGoBack
