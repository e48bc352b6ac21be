CONSTANTS
  Users = {u1}
  Orders = {o1}
  Amounts = {2}
  NoUser = NoUser
  StartBalances = {0}
  Workers = {w1, w2}
  NoOrder = NoOrder
  Delays = {0, 1}
  JobsPerWorker = 2
  MaxStops = 1
SYMMETRY MCWorkerSymmetry
SPECIFICATION Spec
INVARIANTS PoolTypeOK SettledAsCalculated CreditsBounded
