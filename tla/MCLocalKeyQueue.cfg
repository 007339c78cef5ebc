SPECIFICATION Spec
CONSTANTS
    c1 = c1
    c2 = c2
    c3 = c3
    c4 = c4
    c5 = c5
    k1 = k1
    k2 = k2
    Call = {c1, c2, c3, c4, c5}
    Key = {k1, k2}
    KeyOf <- MCKeyOf
    Cancellable = {c1, c2, c3, c4, c5}
SYMMETRY MCSymmetry
INVARIANTS
    SlotInv
    MutualExclusion
PROPERTY
    ImplementsFifo
CHECK_DEADLOCK FALSE
