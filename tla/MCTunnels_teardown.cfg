\* Liveness of the teardown.
CONSTANTS
    Conns = {c1}
    Addrs = {a}
    MaxTun = 2
    ChanCap = 2
    TunSenders = {t}
    XdpSenders = {x}
    NIL = NIL
SPECIFICATION FairSpec
PROPERTIES HandlerReturns NoGoroutineLeft
CHECK_DEADLOCK FALSE
