\* a Publish and a SyncPublish whose context may end
CONSTANTS
  Call = {c1, c2}
  Sync = {c2}
  Cancellable = {c2}
  None = None
SPECIFICATION FairSpec
CHECK_DEADLOCK FALSE
INVARIANTS
  SyncNilIsDelivered
  ClosedIsReported
  NoCallbackAfterClose
  NoLeakedProducer
  PanicCauses
PROPERTIES
  CloseReturns
  SyncReturns
