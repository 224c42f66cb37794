\* Allocation, replies, collection and a restart; the map is large enough never to evict.
CONSTANTS
    f1 = f1
    f2 = f2
    f3 = f3
    d1 = d1
    Flows = {f1, f2, f3}
    Dsts = {d1}
    DstOf <- OneDst
    PortMin = 1
    PortMax = 3
    MaxEntries = 4
    Idle = 1
    MaxTime = 2
    MaxBoots = 1
    NIL = NIL
SPECIFICATION FairSpec
INVARIANTS ReturnPath FlowsApart PortsPerFlow
PROPERTY QuietEntriesGo
CHECK_DEADLOCK FALSE
