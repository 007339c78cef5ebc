SPECIFICATION FairSpec
CONSTANTS
    c1 = c1
    c2 = c2
    c3 = c3
    c4 = c4
    c5 = c5
    k1 = k1
    k2 = k2
    Call = {c1, c2, c3}
    Key = {k1}
    KeyOf <- MCKeyOf
    Cancellable = {c2}
PROPERTY
    EveryWaiterReturns
CHECK_DEADLOCK FALSE
