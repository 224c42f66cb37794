\* Two batches on a ring of two entries with indexes modulo four.
CONSTANTS
    Batches = {b1, b2}
    N = 2
    IdxWidth = 4
    HeadWidth = 8
    MaxPkts = 7
    Large = {3}
    Huge = {5}
    Free = Free
SPECIFICATION Spec
INVARIANTS IndexOrder
PROPERTIES RingIsFifo RingEmpties
CHECK_DEADLOCK FALSE
