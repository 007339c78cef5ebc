SPECIFICATION Spec
CONSTANTS
    c1 = c1
    c2 = c2
    c3 = c3
    p1 = p1
    p2 = p2
    None = None
    Call = {c1, c2, c3}
    Process = {p1, p2}
    Home <- MCHome
    ApiOf <- MCApiOfLive
    AutoRefresh = {c1}
    Cancellable = {c2}
    Crashable = {}
    MaxRetries = 1
    Faults = {"expire", "backend", "lost", "panic", "entropy"}
INVARIANTS
    TypeOK
    MutualExclusion
    CriticalHasKey
    FinalizedLeavesNoKey OneCallPerProcess
CHECK_DEADLOCK FALSE
