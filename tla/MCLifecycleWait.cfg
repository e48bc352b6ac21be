CONSTANTS
  Workers = {w1}
  Puller = Puller
  Requests = {}
  LastMigration = 1
  MaxStarts = 1
SPECIFICATION LifecycleSpec
CHECK_DEADLOCK FALSE
INVARIANT PoolEndsBeforeClose
