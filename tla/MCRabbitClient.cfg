CONSTANTS
  Publisher = {p1, p2}
  Opener = {o1}
  MaxFaults = 2
  MaxCloses = 1
SPECIFICATION FairSpec
CHECK_DEADLOCK FALSE
INVARIANTS
  OneConnection
  ChannelOnConnection
  NoLeakedChannel
  StaleChannelIsNoticed
  PanicNeedsClose
PROPERTIES
  EveryPublishEnds
