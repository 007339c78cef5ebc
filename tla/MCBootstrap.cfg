CONSTANTS
  NoFile = NoFile
  Scenarios <- MCScenarios
  Hosts <- MCHosts
SPECIFICATION FairSpec
CHECK_DEADLOCK FALSE
INVARIANTS
  LoadedAsWritten
  StartedIsReady
  PanicHasCause
PROPERTIES
  BootEnds
