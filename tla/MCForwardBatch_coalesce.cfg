\* Reordered, overlapping and interleaved segments of three flows over two slots.
CONSTANTS
    a = a
    b = b
    c = c
    d = d
    ts1 = ts1
    ts2 = ts2
    Flows = {a, b, c, d}
    Packets <- Mixed
    SeqMod = 8
    MaxSlots = 2
    MaxSegs = 3
    MaxBytes = 5
    FlushIdle = 1
    ReapIdle = 2
    NoCoalesce = FALSE
    SockCap = 1
    MaxBurst = 1
    MaxPkts = 4
    NIL = NIL
SPECIFICATION FairSpec
PROPERTY SlotsGo
INVARIANTS WithinLimits OpenExact CutsBack
CHECK_DEADLOCK FALSE
