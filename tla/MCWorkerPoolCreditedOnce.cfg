CONSTANTS
  Users = {u1}
  Orders = {o1}
  Amounts = {2}
  NoUser = NoUser
  StartBalances = {0}
  Workers = {w1, w2}
  NoOrder = NoOrder
  Delays = {1}
  JobsPerWorker = 2
  MaxStops = 0
SPECIFICATION Spec
INVARIANT CreditedOnce
