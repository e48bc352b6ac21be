CONSTANTS
  Users = {u1}
  Orders = {o1}
  Amounts = {2}
  NoUser = NoUser
  StartBalances = {0}
  Workers = {w1}
  NoOrder = NoOrder
  Delays = {1}
  JobsPerWorker = 2
  MaxStops = 1
SPECIFICATION FairPollingSpec
INVARIANTS PollingTypeOK PauseIsBounded
PROPERTIES PollingRefinesPool OrdersAreSettled PoolStops
