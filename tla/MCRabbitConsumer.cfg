CONSTANTS
  Subscriptions = 2
  Messages = {m1, m2}
  Deduped = {m1}
  Options <- MCOptions
  MaxFaults = 1
  MaxRestarts = 1
  None = None
SPECIFICATION FairSpec
CHECK_DEADLOCK FALSE
INVARIANTS
  NoMessageLost
  WorkedOnce
PROPERTIES
  EveryMessageSettled
  LoopsEnd
