\* Three QUIC flows on three queues of two NICs, and a forwarded flow.
CONSTANTS
    n1 = n1
    n2 = n2
    f1 = f1
    f2 = f2
    f3 = f3
    f4 = f4
    Nics = {n1, n2}
    ShardsOf <- Shards
    Flows = {f1, f2, f3, f4}
    QueueOf <- Hashed
    Kind <- Kinds
    Descs = 2
    ShardCap = 1
    ChCap = 1
    MaxFrames = 3
    MayClose = {n2}
    FirstNic = n1
    NoNic = NoNic
SPECIFICATION Spec
INVARIANTS RxExact AnswersRouted
PROPERTIES NoFrameSleeps
CHECK_DEADLOCK FALSE
