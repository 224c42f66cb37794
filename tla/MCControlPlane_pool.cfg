\* The address pool: three clients, four addresses, batches of two, PUT /dhcp with a smaller range.
CONSTANTS
    Names = {a, b, c}
    ResourceNames = {}
    MaxId = 5
    MaxBatch = 2
    PoolFirst = 2
    PoolLast = 5
    ResetRanges <- SmallerPool
    NULL = NULL
    NoTx = NoTx
SPECIFICATION PoolSpec
SYMMETRY NameSym
INVARIANTS TypeOK AddressesUnique PoolPartition RangesMerged
CHECK_DEADLOCK FALSE
