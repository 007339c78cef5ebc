\* a message to begin with and one that is produced later
CONSTANTS
  PoolSize = 2
  Subscriptions <- MCSubscriptions
  FirstLog = 1
  MaxLog = 2
  MaxRestarts = 1
  MaxRebalances = 1
SPECIFICATION FairSpec
CHECK_DEADLOCK FALSE
INVARIANTS
  CommittedIsHandled
  PipelineInOrder
PROPERTIES
  EveryMessageHandled
  GoroutinesEnd
