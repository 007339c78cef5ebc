SPECIFICATION FairSpec
CONSTANTS
    c1 = c1
    c2 = c2
    c3 = c3
    p1 = p1
    p2 = p2
    None = None
    Call = {c1, c3}
    Process = {p1, p2}
    Home <- MCHome
    ApiOf <- MCApiOf
    AutoRefresh = {c1}
    Cancellable = {c1}
    Crashable = {}
    MaxRetries = 1
    Faults = {}
PROPERTIES
    RefreshStops
CHECK_DEADLOCK FALSE
