\* Roles, resources and links under id reuse, with PUT /dhcp.
CONSTANTS
    Names = {a, b}
    ResourceNames = {x}
    MaxId = 3
    MaxBatch = 2
    PoolFirst = 2
    PoolLast = 3
    ResetRanges <- SamePool
    NULL = NULL
    NoTx = NoTx
SPECIFICATION Spec
INVARIANTS LinksResolve DefaultRoleFollows
PROPERTIES NewRowsStartBare BatchAllOrNothing
CHECK_DEADLOCK FALSE
