\* A client that reconnects while its old tunnel is torn down.
CONSTANTS
    Conns = {c1, c2}
    Addrs = {a}
    MaxTun = 2
    ChanCap = 1
    TunSenders = {}
    XdpSenders = {}
    NIL = NIL
SPECIFICATION Spec
INVARIANT LiveClientRouted
CHECK_DEADLOCK FALSE
