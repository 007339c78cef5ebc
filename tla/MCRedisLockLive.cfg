SPECIFICATION FairSpec
CONSTANTS
    c1 = c1
    c2 = c2
    c3 = c3
    p1 = p1
    p2 = p2
    None = None
    Call = {c1, c2, c3}
    Process = {p1, p2}
    Home <- MCHome
    ApiOf <- MCApiOfLive
    AutoRefresh = {c1}
    Cancellable = {}
    Crashable = {p1, p2}
    MaxRetries = 1
    Faults = {"expire"}
INVARIANTS
    FailedLeavesNoKey
PROPERTIES
    EveryCallReturns
    RefreshStops
