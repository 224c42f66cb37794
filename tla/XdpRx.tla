-------------------------------- MODULE XdpRx --------------------------------
(***************************************************************************)
(* The receive side of the AF_XDP connections (xdp/conn.go) and their      *)
(* merger (xdp/multiconn.go). One dispatch goroutine per NIC queue takes   *)
(* frames from its ring, copies QUIC frames out of the shared memory, puts *)
(* them into the queue's shard and leaves a token in a one-slot channel.   *)
(* The reader of a NIC sweeps all its shards, hands the frames on one by   *)
(* one, and sleeps on the token. MultiConn merges the NICs into one        *)
(* channel and remembers where each client came in.                        *)
(***************************************************************************)
EXTENDS Integers, Sequences, FiniteSetsExt

CONSTANTS
    Nics,       \* listening NICs (two or more)
    ShardsOf,   \* ShardsOf[n]: the queues of NIC n in the order of their index
    Flows,      \* remote address and port
    QueueOf,    \* QueueOf[f]: the queue the NIC hashes flow f to
    Kind,       \* Kind[f]: "quic" (UDP to 443), "fwd" (other IP), "other" (ARP, too short)
    Descs,      \* frames of a queue's receive memory
    ShardCap,   \* quicShardCap
    ChCap,      \* capacity of rxCh
    MaxFrames,  \* bound: frames received
    MayClose,   \* bound: NICs whose Conn is closed
    FirstNic,   \* conns[0]
    NoNic       \* no NIC recorded

Queues == UNION {{ShardsOf[n][i] : i \in DOMAIN ShardsOf[n]} : n \in Nics}

ASSUME RxAssumption ==
    /\ \A n \in Nics : Len(ShardsOf[n]) \in Nat \ {0} /\ DOMAIN ShardsOf[n] = 1..Len(ShardsOf[n])
    /\ \A n, m \in Nics : \A i \in DOMAIN ShardsOf[n], j \in DOMAIN ShardsOf[m] :
        ShardsOf[n][i] = ShardsOf[m][j] => n = m /\ i = j
    /\ QueueOf \in [Flows -> Queues] /\ Kind \in [Flows -> {"quic", "fwd", "other"}]
    /\ Descs \in Nat /\ ShardCap \in Nat \ {0} /\ ChCap \in Nat \ {0} /\ MaxFrames \in Nat
    /\ MayClose \subseteq Nics /\ FirstNic \in Nics /\ NoNic \notin Nics

VARIABLES
    fill,        \* fill[q]: descriptors the kernel may write frames to
    umem,        \* umem[q][d]: the frame in descriptor d
    rx,          \* rx[q]: received descriptors
    hand,        \* hand[q]: descriptors the dispatch goroutine took from rx
    dpc,         \* dpc[q]: "ring", "late", "frame", "append", "notify", "ended"
    desc,        \* desc[q]: the descriptor of the QUIC frame being dispatched, or 0
    copied,      \* copied[q]: frames copied out and not yet in the shard
    shard,       \* shard[q]: quicShards[q]
    rxNotify,    \* rxNotify[n]: the token of NIC n
    pending,     \* pending[n]: rxPending from rxPendIdx on
    rpc,         \* rpc[n]: "read", "send", "sweep", "wait", "ended"
    pos,         \* pos[n]: next shard of the sweep
    rxCh,        \* the merged channel
    addrToConn,  \* flow -> NIC, or NoNic
    closed,      \* closed[n]: done is closed
    open,        \* open[n]: the AF_XDP sockets are
    got,         \* history: frames quic-go has read
    count,       \* count[f]: frames of f that reached the NIC
    dropped      \* frames dropped because a shard was full (quicChDrops counts them)

dispatch == <<fill, umem, rx, hand, dpc, desc, copied>>
reader == <<pending, rpc, pos>>
merged == <<rxCh, addrToConn, got>>
vars == <<dispatch, shard, rxNotify, reader, merged, closed, open, count, dropped>>

NicOf(q) == CHOOSE n \in Nics : \E i \in DOMAIN ShardsOf[n] : ShardsOf[n][i] = q
Frame(f, k) == [flow |-> f, num |-> k]
NoFrame == [flow |-> "none", num |-> 0]

Init ==
    /\ fill = [q \in Queues |-> [i \in 1..Descs |-> i]]
    /\ umem = [q \in Queues |-> [d \in 1..Descs |-> NoFrame]]
    /\ rx = [q \in Queues |-> <<>>] /\ hand = [q \in Queues |-> <<>>]
    /\ dpc = [q \in Queues |-> "ring"] /\ copied = [q \in Queues |-> <<>>]
    /\ desc = [q \in Queues |-> 0]
    /\ shard = [q \in Queues |-> <<>>]
    /\ rxNotify = [n \in Nics |-> FALSE]
    /\ pending = [n \in Nics |-> <<>>] /\ rpc = [n \in Nics |-> "read"]
    /\ pos = [n \in Nics |-> 1]
    /\ rxCh = <<>> /\ addrToConn = [f \in Flows |-> NoNic]
    /\ closed = [n \in Nics |-> FALSE] /\ open = [n \in Nics |-> TRUE]
    /\ got = <<>> /\ count = [f \in Flows |-> 0] /\ dropped = {}
-----------------------------------------------------------------------------
(***************************************************************************)
(* The NIC and the dispatch goroutine of queue q.                          *)
(***************************************************************************)

\* The kernel writes a frame into the first descriptor of the fill ring; without one it drops it.
Arrive(f) ==
    LET q == QueueOf[f] IN
    /\ open[NicOf(q)] /\ fill[q] # <<>> /\ MapThenSumSet(LAMBDA e : count[e], Flows) < MaxFrames
    /\ count' = [count EXCEPT ![f] = @ + 1]
    /\ umem' = [umem EXCEPT ![q][Head(fill[q])] = Frame(f, count'[f])]
    /\ rx' = [rx EXCEPT ![q] = Append(@, Head(fill[q]))]
    /\ fill' = [fill EXCEPT ![q] = Tail(@)]
    /\ UNCHANGED <<hand, dpc, desc, copied, shard, rxNotify, reader, merged, closed, open, dropped>>

\* Top of the loop: done ends it.
DispatchEnd(q) ==
    /\ dpc[q] = "ring" /\ closed[NicOf(q)]
    /\ dpc' = [dpc EXCEPT ![q] = "ended"]
    /\ UNCHANGED <<fill, umem, rx, hand, desc, copied, shard, rxNotify, reader, merged, closed, open, count, dropped>>

\* Otherwise all frames that are ready are received; a goroutine that is past its check when
\* done is closed ("late") still does so, or finds nothing and comes to its check again.
Receive(q) ==
    /\ \/ dpc[q] = "ring" /\ ~closed[NicOf(q)] /\ rx[q] # <<>>
       \/ dpc[q] = "late"
    /\ hand' = [hand EXCEPT ![q] = rx[q]] /\ rx' = [rx EXCEPT ![q] = <<>>]
    /\ dpc' = [dpc EXCEPT ![q] = IF rx[q] = <<>> THEN "ring" ELSE "frame"]
    /\ UNCHANGED <<fill, umem, desc, copied, shard, rxNotify, reader, merged, closed, open, count, dropped>>

\* A call on the closed socket ends the goroutine: poll returns an error; an access to the
\* rings or the memory behind them may fault, which ends the process.
SocketGone(q) ==
    /\ dpc[q] \in {"late", "frame"} /\ ~open[NicOf(q)]
    /\ dpc' = [dpc EXCEPT ![q] = "ended"]
    /\ UNCHANGED <<fill, umem, rx, hand, desc, copied, shard, rxNotify, reader, merged, closed, open, count, dropped>>

\* Where the loop over the received descriptors goes on.
Rest(q) == IF hand[q] = <<>> THEN "ring" ELSE "frame"

\* dispatchFrame on the first descriptor: a QUIC frame is copied, any other is handed to the
\* session table or dropped; then the descriptor goes back to the fill ring.
dispatchFrame(q) ==
    LET d == Head(hand[q])
        f == umem[q][d]
        quic == Kind[f.flow] = "quic"
    IN  /\ dpc[q] = "frame"
        /\ hand' = [hand EXCEPT ![q] = Tail(@)]
        /\ copied' = [copied EXCEPT ![q] = IF quic THEN <<f>> ELSE <<>>]
        /\ desc' = [desc EXCEPT ![q] = IF quic THEN d ELSE 0]
        /\ fill' = [fill EXCEPT ![q] = Append(@, d)]
        /\ dpc' = [dpc EXCEPT ![q] = IF quic THEN "append" ELSE IF Tail(hand[q]) = <<>> THEN "ring" ELSE "frame"]
        /\ UNCHANGED <<umem, rx, shard, rxNotify, reader, merged, closed, open, count, dropped>>

\* Mutant: the payload is not copied; the shard gets what the descriptor holds by then.
FromUmem(q) == <<umem[q][desc[q]]>>

Payload(q) == copied[q]

\* Under the shard's lock: drop when full, else append.
AppendShard(q) ==
    /\ dpc[q] = "append"
    /\ IF Len(shard[q]) >= ShardCap
       THEN /\ dropped' = dropped \cup {Payload(q)[1]}
            /\ dpc' = [dpc EXCEPT ![q] = Rest(q)]
            /\ UNCHANGED shard
       ELSE /\ shard' = [shard EXCEPT ![q] = @ \o Payload(q)]
            /\ dpc' = [dpc EXCEPT ![q] = "notify"]
            /\ UNCHANGED dropped
    /\ copied' = [copied EXCEPT ![q] = <<>>] /\ desc' = [desc EXCEPT ![q] = 0]
    /\ UNCHANGED <<fill, umem, rx, hand, rxNotify, reader, merged, closed, open, count>>

\* Mutant: an unbuffered channel: the token is there only for a reader that already waits.
TokenIfWaiting(n) == rxNotify[n] \/ rpc[n] = "wait"

\* A send to a channel with one slot, with a default.
Token(n) == TRUE

Notify(q) ==
    /\ dpc[q] = "notify"
    /\ rxNotify' = [rxNotify EXCEPT ![NicOf(q)] = Token(NicOf(q))]
    /\ dpc' = [dpc EXCEPT ![q] = Rest(q)]
    /\ UNCHANGED <<fill, umem, rx, hand, desc, copied, shard, reader, merged, closed, open, count, dropped>>
-----------------------------------------------------------------------------
(***************************************************************************)
(* rxLoop of a NIC: ReadFrom, then the merged channel. ReadFrom serves the *)
(* local batch; when that is used up it sweeps the shards one lock at a    *)
(* time, and when there was nothing it waits.                              *)
(***************************************************************************)

\* addrToConn.Store(addr, c)
Record(f, n) == [addrToConn EXCEPT ![f] = n]

\* Mutant: the frame is sent first and its NIC stored after that.
SendThenStore(n) ==
    /\ pending[n] # <<>>
    /\ \/ /\ rpc[n] = "read" /\ Len(rxCh) < ChCap
          /\ rxCh' = Append(rxCh, Head(pending[n]))
          /\ rpc' = [rpc EXCEPT ![n] = "send"]
          /\ UNCHANGED <<pending, addrToConn>>
       \/ /\ rpc[n] = "send"
          /\ addrToConn' = Record(Head(pending[n]).flow, n)
          /\ pending' = [pending EXCEPT ![n] = Tail(@)]
          /\ rpc' = [rpc EXCEPT ![n] = "read"]
          /\ UNCHANGED rxCh
    /\ UNCHANGED <<dispatch, shard, rxNotify, pos, got, closed, open, count, dropped>>

\* The next frame of the batch: its NIC is stored, then it is sent to rxCh, which may block.
\* Between the two it is the first of pending.
HandOn(n) ==
    /\ pending[n] # <<>>
    /\ \/ /\ rpc[n] = "read"
          /\ addrToConn' = Record(Head(pending[n]).flow, n)
          /\ rpc' = [rpc EXCEPT ![n] = "send"]
          /\ UNCHANGED <<pending, rxCh>>
       \/ /\ rpc[n] = "send" /\ Len(rxCh) < ChCap
          /\ rxCh' = Append(rxCh, Head(pending[n]))
          /\ pending' = [pending EXCEPT ![n] = Tail(@)]
          /\ rpc' = [rpc EXCEPT ![n] = "read"]
          /\ UNCHANGED addrToConn
    /\ UNCHANGED <<dispatch, shard, rxNotify, pos, got, closed, open, count, dropped>>

\* One shard under its lock; after the last one, serve or wait.
Sweep(n) ==
    LET q == ShardsOf[n][pos[n]]
        last == pos[n] = Len(ShardsOf[n])
        swept == pending[n] \o shard[q]
    IN  /\ rpc[n] = "sweep" \/ (rpc[n] = "read" /\ pending[n] = <<>>)
        /\ pending' = [pending EXCEPT ![n] = swept]
        /\ shard' = [shard EXCEPT ![q] = <<>>]
        /\ pos' = [pos EXCEPT ![n] = IF last THEN 1 ELSE @ + 1]
        /\ rpc' = [rpc EXCEPT ![n] = IF ~last THEN "sweep" ELSE IF swept = <<>> THEN "wait" ELSE "read"]
        /\ UNCHANGED <<dispatch, rxNotify, merged, closed, open, count, dropped>>

\* The select: a token, or done.
Wait(n) ==
    /\ rpc[n] = "wait"
    /\ \/ /\ rxNotify[n]
          /\ rxNotify' = [rxNotify EXCEPT ![n] = FALSE]
          /\ rpc' = [rpc EXCEPT ![n] = "read"]
       \/ closed[n] /\ rpc' = [rpc EXCEPT ![n] = "ended"] /\ UNCHANGED rxNotify
    /\ UNCHANGED <<dispatch, shard, pending, pos, merged, closed, open, count, dropped>>

\* MultiConn.ReadFrom, called by quic-go.
QuicRead ==
    /\ rxCh # <<>>
    /\ got' = Append(got, Head(rxCh)) /\ rxCh' = Tail(rxCh)
    /\ UNCHANGED <<dispatch, shard, rxNotify, reader, addrToConn, closed, open, count, dropped>>

\* MultiConn.WriteTo: the NIC a datagram to f leaves through.
WriteTo(f) == IF addrToConn[f] # NoNic THEN addrToConn[f] ELSE FirstNic

\* The deferred Closes when the server ends run one after the other, the first NIC's last.
\* Each closes done, then the sockets. Of the dispatch goroutines at the top of their loop
\* some have made their check of done already.
Close(n) ==
    /\ n \in MayClose /\ ~closed[n] /\ closed' = [closed EXCEPT ![n] = TRUE]
    /\ \A m \in Nics : closed[m] => ~open[m]
    /\ n = FirstNic => \A m \in Nics \ {n} : closed[m]
    /\ \E late \in SUBSET {q \in Queues : NicOf(q) = n /\ dpc[q] = "ring"} :
         dpc' = [q \in Queues |-> IF q \in late THEN "late" ELSE dpc[q]]
    /\ UNCHANGED <<fill, umem, rx, hand, desc, copied, shard, rxNotify, reader, merged, open, count, dropped>>

CloseSockets(n) ==
    /\ closed[n] /\ open[n] /\ open' = [open EXCEPT ![n] = FALSE]
    /\ UNCHANGED <<dispatch, shard, rxNotify, reader, merged, closed, count, dropped>>
-----------------------------------------------------------------------------
Dispatch(q) == \/ DispatchEnd(q) \/ Receive(q) \/ SocketGone(q)
               \/ dispatchFrame(q) \/ AppendShard(q) \/ Notify(q)
Reader(n) == HandOn(n) \/ Sweep(n) \/ Wait(n)

Next ==
    \/ \E f \in Flows : Arrive(f)
    \/ \E q \in Queues : Dispatch(q)
    \/ \E n \in Nics : Reader(n) \/ Close(n) \/ CloseSockets(n)
    \/ QuicRead

\* The scheduler runs the dispatch and reader goroutines and a Close that has begun;
\* quic-go keeps reading.
Fairness ==
    /\ \A q \in Queues : WF_vars(Dispatch(q))
    /\ \A n \in Nics : WF_vars(Reader(n)) /\ WF_vars(CloseSockets(n))
    /\ WF_vars(QuicRead)

Spec == Init /\ [][Next]_vars /\ Fairness
-----------------------------------------------------------------------------
\* The frames the descriptors of a ring hold.
In(q, descs) == [i \in DOMAIN descs |-> umem[q][descs[i]]]

\* All places between queue q and quic-go, first the oldest frames.
Path(q) ==
    got \o rxCh \o pending[NicOf(q)] \o shard[q] \o copied[q] \o In(q, hand[q]) \o In(q, rx[q])

\* Every QUIC frame is in exactly one place between the NIC and quic-go, or was dropped
\* by a full shard; a flow's frames are in order along the way, and no frame changes
\* when its descriptor is given back.
RxExact ==
    \A f \in Flows : Kind[f] = "quic" =>
        LET p == Path(QueueOf[f])
            mine == {i \in DOMAIN p : p[i].flow = f}
            lost == {k \in 1..count[f] : Frame(f, k) \in dropped}
        IN  /\ \A i, j \in mine : i < j => p[i].num < p[j].num
            /\ {p[i].num : i \in mine} = 1..count[f] \ lost

\* What quic-go answers leaves through the NIC it came in by: rxLoop stores the NIC of a
\* packet before it sends the packet, so that a packet quic-go has read has its NIC on
\* record, however soon quic-go reads and answers and while other NICs' readers store.
AnswersRouted == \A i \in DOMAIN got : WriteTo(got[i].flow) = NicOf(QueueOf[got[i].flow])

\* No frame sleeps in a shard while the reader waits for a token, and after Close the
\* goroutines of the NIC end.
Settled(n) ==
    IF closed[n] THEN rpc[n] = "ended" /\ \A i \in DOMAIN ShardsOf[n] : dpc[ShardsOf[n][i]] = "ended"
    ELSE pending[n] = <<>> /\ \A i \in DOMAIN ShardsOf[n] : shard[ShardsOf[n][i]] = <<>>

NoFrameSleeps == []<>(\A n \in Nics : Settled(n))
=============================================================================
