\* One connection, one forward writer, one dispatch goroutine, two queues.
CONSTANTS
    x = x
    y = y
    c1 = c1
    w1 = w1
    Addrs = {x, y}
    Macs = {m}
    NoMac = NoMac
    Dispatchers = {d1}
    Writers = {w1}
    ProbeTries = 1
    MaxLearn = 1
    MaxForget = 1
    ArpAddrs = {y}
    Free = Free
    QuicConns = {c1}
    PeerOf <- Peers
    HashOf <- Hashes
    GwMac = GwMac
    NumQueues = 2
    QueueLen = 1
    PumpBatch = 2
    BatchCap = 2
    SockCap = 1
    TxDescs = 1
    MaxFrames = 2
SPECIFICATION Spec
INVARIANTS NeighExact FlowOrder
PROPERTIES PumpIsFifo PumpsRun ProbesEnd
CHECK_DEADLOCK FALSE
