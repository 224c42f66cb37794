\* Reordered, duplicated, lost and overlapping segments; sequence numbers wrap.
CONSTANTS
    SeqSpace = 8
    ISNs = {6}
    Segments <- Stream
    Window = 2
    MaxAge = 1
    MaxPush = 5
SPECIFICATION RFairSpec
INVARIANTS NothingLost InOrder WindowKept
PROPERTY BufferDrains
CHECK_DEADLOCK FALSE
