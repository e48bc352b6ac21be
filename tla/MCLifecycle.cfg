CONSTANTS
  Workers = {w1, w2}
  Puller = Puller
  Requests = {q1, q2}
  LastMigration = 3
  MaxStarts = 3
SPECIFICATION FairLifecycleSpec
CHECK_DEADLOCK FALSE
INVARIANTS LifecycleTypeOK ServesOnCompleteSchema RequestsAreAnswered
PROPERTIES CloseWaitsForPool SignalEndsProcess
