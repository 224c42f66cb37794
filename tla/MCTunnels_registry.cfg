\* Two tunnels of a client that bonds two, and a dispatch goroutine that sends.
CONSTANTS
    Conns = {c1, c2}
    Addrs = {a}
    MaxTun = 2
    ChanCap = 1
    TunSenders = {}
    XdpSenders = {x}
    NIL = NIL
SPECIFICATION Spec
SYMMETRY ConnSym
INVARIANTS TypeOK RegistryExact RoutesOpen
CHECK_DEADLOCK FALSE
