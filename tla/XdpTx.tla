-------------------------------- MODULE XdpTx --------------------------------
(***************************************************************************)
(* The transmit side of one AF_XDP Conn (xdp/conn.go, xdp/txpump.go,       *)
(* utility/xdp_batch.go): QUIC connections call WriteTo and WriteBatch,    *)
(* forward writers resolve the next hop on the link (Neighbours), collect  *)
(* a ForwardBatch and flush it. All of them submit frames to the pumps,    *)
(* each of which alone drives the transmit ring of one NIC queue; a        *)
(* writer's small packets and those other than TCP and UDP go around the   *)
(* pumps by a raw socket.                                                  *)
(***************************************************************************)
EXTENDS Neighbours

CONSTANTS
    QuicConns,   \* QUIC connections: one send loop each
    PeerOf,      \* PeerOf[p]: the address a producer's frames go to
    HashOf,      \* HashOf[c]: FNV hash of a connection's remote address
    GwMac,       \* gwMAC of the Conn
    NumQueues,   \* sockets of the Conn
    QueueLen,    \* txPumpQueueLen
    PumpBatch,   \* txPumpBatch
    BatchCap,    \* MaxXDPBatchSize
    SockCap,     \* MaxSocketBatchSize
    TxDescs,     \* transmit frames of a socket's UMEM
    MaxFrames    \* bound: packets per producer

ASSUME TxAssumption ==
    /\ QuicConns \cap Writers = {}
    /\ PeerOf \in [QuicConns \cup Writers -> Addrs]
    /\ HashOf \in [QuicConns -> Nat]
    /\ NumQueues \in Nat \ {0} /\ QueueLen \in Nat \ {0} /\ PumpBatch \in Nat \ {0}
    /\ BatchCap \in Nat \ {0} /\ SockCap \in Nat \ {0} /\ TxDescs \in Nat /\ MaxFrames \in Nat

VARIABLES
    txIdx,      \* round-robin counter of ForwardPump
    pump,       \* pump[w]: the queue writer w was given, or -1 before its set-up
    wpc,        \* wpc[p]: "ready", "arp" (looking at the ARP table), "learn", "flush", "crashed"
    hop,        \* hop[w]: the MAC LanNextHopMAC will return once it is learned
    batch,      \* batch[p]: frames built and not submitted
    sock,       \* sock[w]: numbers of the packets in the SocketBatch
    next,       \* next[p]: number of the producer's next packet
    ch,         \* ch[q]: the pump's channel
    taken,      \* taken[q]: the pump's batch
    ppc,        \* ppc[q]: "block", "drain", "ended"
    kern,       \* kern[q]: descriptors with the kernel; the others are free or completed
    drops,      \* drops[q]: the pump's counter
    closed,     \* done is closed
    open,       \* the AF_XDP sockets are
    sent,       \* history: sent[q], frames handed to the ring
    wire,       \* history: all frames handed to a ring, in time order
    raw,        \* history: raw[w], numbers of the packets sent by the raw socket, in order
    cold        \* history: cold[w], numbers of the packets left to the kernel for lack of a MAC

producers == <<txIdx, pump, wpc, hop, batch, sock, next, raw, cold>>
pumps == <<ch, taken, ppc, kern, drops, sent, wire>>
vars == <<nvars, producers, pumps, closed, open>>

Producers == QuicConns \cup Writers
Queues == 0..NumQueues - 1
Frames == [from : Producers, num : 1..MaxFrames, mac : Macs \cup {GwMac}]

Init ==
    /\ NInit
    /\ txIdx = 0 /\ pump = [w \in Writers |-> -1]
    /\ wpc = [p \in Producers |-> "ready"]
    /\ hop = [w \in Writers |-> NoMac]
    /\ batch = [p \in Producers |-> <<>>] /\ sock = [w \in Writers |-> <<>>] /\ next = [p \in Producers |-> 1]
    /\ ch = [q \in Queues |-> <<>>] /\ taken = [q \in Queues |-> <<>>]
    /\ ppc = [q \in Queues |-> "block"]
    /\ kern = [q \in Queues |-> 0]
    /\ drops = [q \in Queues |-> 0] /\ closed = FALSE /\ open = TRUE
    /\ sent = [q \in Queues |-> <<>>] /\ wire = <<>>
    /\ raw = [w \in Writers |-> <<>>] /\ cold = [w \in Writers |-> {}]
-----------------------------------------------------------------------------
(***************************************************************************)
(* QUIC: the stable queue of a connection and the learned next hop.        *)
(***************************************************************************)

\* Mutant: round-robin over the queues, per packet.
RoundRobin(c) == next[c] % NumQueues

txSocketIdx(c) == HashOf[c] % NumQueues

\* NextHopMACForIP: learned, or the gateway.
NextHop(a) == IF neigh[a] # NoMac THEN neigh[a] ELSE GwMac

Built(p, n, m) == [from |-> p, num |-> n, mac |-> m]

\* WriteBatch of n packets, refused once the Conn is closed.
WriteBatch(c, n) ==
    /\ wpc[c] = "ready" /\ ~closed /\ next[c] + n <= MaxFrames + 1
    /\ batch' = [batch EXCEPT ![c] = [i \in 1..n |-> Built(c, next[c] + i - 1, NextHop(PeerOf[c]))]]
    /\ next' = [next EXCEPT ![c] = @ + n]
    /\ wpc' = [wpc EXCEPT ![c] = "flush"]
    /\ UNCHANGED <<nvars, txIdx, pump, hop, sock, raw, cold, pumps, closed, open>>

\* The same steps for one packet.
WriteTo(c) == WriteBatch(c, 1)
-----------------------------------------------------------------------------
(***************************************************************************)
(* A forward writer: ForwardPump at set-up; per packet LanNextHopMAC, then *)
(* ForwardBatch.Add, or the kernel while the next hop is unknown; Flush.   *)
(***************************************************************************)

ForwardPump(w) ==
    /\ pump[w] = -1
    /\ txIdx' = txIdx + 1
    /\ pump' = [pump EXCEPT ![w] = txIdx' % NumQueues]
    /\ UNCHANGED <<nvars, wpc, hop, batch, sock, next, raw, cold, pumps, closed, open>>

\* XDPBatch.Add with MAC m: an error, counted by the caller, when the batch is full.
AddXdp(w, m) ==
    /\ batch' = IF Len(batch[w]) >= BatchCap THEN batch
                ELSE [batch EXCEPT ![w] = Append(@, Built(w, next[w], m))]
    /\ wpc' = [wpc EXCEPT ![w] = "ready"]
    /\ UNCHANGED sock

\* SocketBatch.Add: past its last buffer the index panics, and the process is gone.
AddSock(w) ==
    /\ IF Len(sock[w]) < SockCap
       THEN /\ sock' = [sock EXCEPT ![w] = Append(@, next[w])]
            /\ wpc' = [wpc EXCEPT ![w] = "ready"]
       ELSE wpc' = [wpc EXCEPT ![w] = "crashed"] /\ UNCHANGED sock
    /\ UNCHANGED batch

\* ForwardBatch.Add: to the pump, or to the raw socket when the packet is neither TCP nor UDP
\* or is smaller than 128 bytes.
Add(w, m) ==
    /\ AddXdp(w, m) \/ AddSock(w)
    /\ next' = [next EXCEPT ![w] = @ + 1]
    /\ UNCHANGED <<raw, cold>>

Lookup(w) ==
    /\ wpc[w] = "ready" /\ pump[w] # -1 /\ next[w] <= MaxFrames
    /\ IF neigh[PeerOf[w]] # NoMac
       THEN Add(w, neigh[PeerOf[w]])
       ELSE wpc' = [wpc EXCEPT ![w] = "arp"] /\ UNCHANGED <<batch, sock, next, raw, cold>>
    /\ UNCHANGED <<nvars, txIdx, pump, hop, pumps, closed, open>>

\* On a miss: learn what the kernel knows, or start the probe and leave the packet to the kernel.
LookupArp(w) ==
    LET a == PeerOf[w] IN
    /\ wpc[w] = "arp"
    /\ \/ /\ arp[a] # NoMac
          /\ BeginLearn(w, a, arp[a])
          /\ wpc' = [wpc EXCEPT ![w] = "learn"]
          /\ hop' = [hop EXCEPT ![w] = arp[a]]
          /\ UNCHANGED <<arpPending, tries, batch, next, cold>>
       \/ /\ arp[a] = NoMac
          /\ StartProbe(a)
          /\ wpc' = [wpc EXCEPT ![w] = "ready"]
          /\ cold' = [cold EXCEPT ![w] = @ \cup {next[w]}]
          /\ next' = [next EXCEPT ![w] = @ + 1]
          /\ UNCHANGED <<lrn, hop, batch>>
    /\ UNCHANGED <<neigh, neighMu, arp, news, lost, stored, txIdx, pump, sock, raw, pumps, closed, open>>

Learned(w) ==
    /\ wpc[w] = "learn" /\ lrn[w] = Off
    /\ Add(w, hop[w])
    /\ hop' = [hop EXCEPT ![w] = NoMac]
    /\ UNCHANGED <<nvars, txIdx, pump, pumps, closed, open>>

\* ForwardBatch.Flush, unless both batches are empty: the frames one by one, then the socket.
Flush(w) ==
    /\ wpc[w] = "ready" /\ (batch[w] # <<>> \/ sock[w] # <<>>)
    /\ wpc' = [wpc EXCEPT ![w] = "flush"]
    /\ UNCHANGED <<nvars, txIdx, pump, hop, batch, sock, next, raw, cold, pumps, closed, open>>

\* SocketBatch.Flush: sendmmsg sends them all or stops on the way; the rest is not kept.
SockFlush(w) ==
    /\ wpc[w] = "flush" /\ batch[w] = <<>>
    /\ \E k \in 0..Len(sock[w]) : raw' = [raw EXCEPT ![w] = @ \o SubSeq(sock[w], 1, k)]
    /\ sock' = [sock EXCEPT ![w] = <<>>]
    /\ wpc' = [wpc EXCEPT ![w] = "ready"]
    /\ UNCHANGED <<nvars, txIdx, pump, hop, batch, next, cold, pumps, closed, open>>
-----------------------------------------------------------------------------
(***************************************************************************)
(* Submit: a select over the channel, done and a default.                  *)
(***************************************************************************)

QueueOf(p) == IF p \in Writers THEN pump[p] ELSE txSocketIdx(p)

Submit(p) ==
    LET q == QueueOf(p) IN
    /\ wpc[p] = "flush" /\ batch[p] # <<>>
    /\ batch' = [batch EXCEPT ![p] = Tail(@)]
    /\ \/ /\ Len(ch[q]) < QueueLen
          /\ ch' = [ch EXCEPT ![q] = Append(@, Head(batch[p]))]
          /\ UNCHANGED drops
       \/ closed /\ UNCHANGED <<ch, drops>>
       \/ /\ Len(ch[q]) >= QueueLen /\ ~closed
          /\ drops' = [drops EXCEPT ![q] = @ + 1]
          /\ UNCHANGED ch
    /\ wpc' = [wpc EXCEPT ![p] = IF p \in QuicConns /\ Len(batch[p]) = 1 THEN "ready" ELSE "flush"]
    /\ UNCHANGED <<nvars, txIdx, pump, hop, sock, next, raw, cold, taken, ppc, kern, sent, wire, closed, open>>
-----------------------------------------------------------------------------
(***************************************************************************)
(* The pump: block for a frame or done, drain, transmit what descriptors   *)
(* there are, drop the rest.                                               *)
(***************************************************************************)

\* Mutant: the pump waits for a frame only.
BlockForFrame(q) ==
    /\ ppc[q] = "block" /\ ch[q] # <<>>
    /\ taken' = [taken EXCEPT ![q] = <<Head(ch[q])>>]
    /\ ch' = [ch EXCEPT ![q] = Tail(@)]
    /\ ppc' = [ppc EXCEPT ![q] = "drain"]
    /\ UNCHANGED <<nvars, producers, kern, drops, sent, wire, closed, open>>

Block(q) ==
    /\ ppc[q] = "block"
    /\ \/ /\ closed
          /\ ppc' = [ppc EXCEPT ![q] = "ended"]
          /\ UNCHANGED <<ch, taken>>
       \/ /\ ch[q] # <<>>
          /\ taken' = [taken EXCEPT ![q] = <<Head(ch[q])>>]
          /\ ch' = [ch EXCEPT ![q] = Tail(@)]
          /\ ppc' = [ppc EXCEPT ![q] = "drain"]
    /\ UNCHANGED <<nvars, producers, kern, drops, sent, wire, closed, open>>

Drain(q) ==
    /\ ppc[q] = "drain" /\ ch[q] # <<>> /\ Len(taken[q]) < PumpBatch
    /\ taken' = [taken EXCEPT ![q] = Append(@, Head(ch[q]))]
    /\ ch' = [ch EXCEPT ![q] = Tail(@)]
    /\ UNCHANGED <<nvars, producers, ppc, kern, drops, sent, wire, closed, open>>

\* Mutant: the last frames of a batch get the descriptors, not the first.
LastOf(s, k) == SubSeq(s, Len(s) - k + 1, Len(s))

FirstOf(s, k) == SubSeq(s, 1, k)

\* Once the batch is full or the channel empty: Complete, GetDescs, Transmit, count the rest.
Transmit(q) ==
    LET free == TxDescs - kern[q]
        got == IF free < Len(taken[q]) THEN free ELSE Len(taken[q])
    IN  /\ ppc[q] = "drain"
        /\ Len(taken[q]) = PumpBatch \/ ch[q] = <<>>
        /\ kern' = [kern EXCEPT ![q] = @ + got]
        /\ sent' = [sent EXCEPT ![q] = @ \o FirstOf(taken[q], got)]
        /\ wire' = wire \o FirstOf(taken[q], got)
        /\ drops' = [drops EXCEPT ![q] = @ + Len(taken[q]) - got]
        /\ taken' = [taken EXCEPT ![q] = <<>>]
        /\ ppc' = [ppc EXCEPT ![q] = "block"]
        /\ UNCHANGED <<nvars, producers, ch, closed, open>>

\* The kernel finishes a frame it was given.
KernelSends(q) ==
    /\ open /\ kern[q] > 0
    /\ kern' = [kern EXCEPT ![q] = @ - 1]
    /\ UNCHANGED <<nvars, producers, ch, taken, ppc, drops, sent, wire, closed, open>>

\* A pump that drains when the sockets are closed gets through its calls or faults in a ring
\* that is no longer mapped, which ends the process.
SocketGone(q) ==
    /\ ppc[q] = "drain" /\ ~open
    /\ ppc' = [ppc EXCEPT ![q] = "ended"]
    /\ UNCHANGED <<nvars, producers, ch, taken, kern, drops, sent, wire, closed, open>>

\* Close closes done, then the sockets.
Close ==
    /\ ~closed /\ closed' = TRUE
    /\ UNCHANGED <<nvars, producers, pumps, open>>

CloseSockets ==
    /\ closed /\ open /\ open' = FALSE
    /\ UNCHANGED <<nvars, producers, pumps, closed>>
-----------------------------------------------------------------------------
Next ==
    \/ (Goroutines \/ Kernel \/ (open /\ Arrivals)) /\ UNCHANGED <<producers, pumps, closed, open>>
    \/ \E c \in QuicConns : WriteTo(c) \/ \E n \in 2..MaxFrames : WriteBatch(c, n)
    \/ \E w \in Writers : ForwardPump(w) \/ Lookup(w) \/ LookupArp(w) \/ Learned(w) \/ Flush(w) \/ SockFlush(w)
    \/ \E p \in Producers : Submit(p)
    \/ \E q \in Queues : Block(q) \/ Drain(q) \/ Transmit(q) \/ KernelSends(q) \/ SocketGone(q)
    \/ Close \/ CloseSockets

\* The scheduler runs goroutines that can run, and neighMu is handed on; a probe's sleeps
\* end. Nothing makes a peer send, the kernel resolve or anyone close.
Fairness ==
    /\ WF_vars(Goroutines /\ UNCHANGED <<producers, pumps, closed, open>>)
    /\ WF_vars((\E p \in Producers : Submit(p)) \/ (\E w \in Writers : SockFlush(w)))
    /\ \A q \in Queues : WF_vars(Block(q) \/ Drain(q) \/ Transmit(q) \/ SocketGone(q))

Spec == Init /\ [][Next]_vars /\ Fairness
-----------------------------------------------------------------------------
TypeOK ==
    /\ NTypeOK
    /\ txIdx \in Nat /\ pump \in [Writers -> Queues \cup {-1}]
    /\ wpc \in [Producers -> {"ready", "arp", "learn", "flush", "crashed"}]
    /\ hop \in [Writers -> Macs \cup {NoMac}]
    /\ batch \in [Producers -> Seq(Frames)] /\ next \in [Producers -> 1..MaxFrames + 1]
    /\ ch \in [Queues -> Seq(Frames)] /\ taken \in [Queues -> Seq(Frames)]
    /\ ppc \in [Queues -> {"block", "drain", "ended"}]
    /\ kern \in [Queues -> 0..TxDescs] /\ drops \in [Queues -> Nat] /\ closed \in BOOLEAN
    /\ sent \in [Queues -> Seq(Frames)] /\ wire \in Seq(Frames)
    /\ sock \in [Writers -> Seq(1..MaxFrames)] /\ raw \in [Writers -> Seq(1..MaxFrames)]
    /\ cold \in [Writers -> SUBSET (1..MaxFrames)] /\ open \in BOOLEAN

\* Numbers of the packets of writer w that Add took for the pump, wherever they are.
Fast(w) == {f.num : f \in {g \in UNION {{s[i] : i \in DOMAIN s} : s \in {batch[w], wire}
                             \cup {ch[q] : q \in Queues} \cup {taken[q] : q \in Queues}} : g.from = w}}

\* The same for the raw socket.
Around(w) == {sock[w][i] : i \in DOMAIN sock[w]} \cup {raw[w][i] : i \in DOMAIN raw[w]}

\* A producer's packets keep their order on each of the ways they leave by, and take one of
\* them once, whatever queues there are and whoever else submits: its frames on the wire, and
\* what its raw socket sends. Across the two a small packet may overtake a frame that waits in
\* a batch or at the pump. A forward flow whose next hop is known does not fall back to the
\* tun: what the kernel was left for lack of a MAC comes before all that Add has taken.
FlowOrder ==
    /\ \A i, j \in DOMAIN wire : i < j /\ wire[i].from = wire[j].from => wire[i].num < wire[j].num
    /\ \A w \in Writers :
        /\ \A i, j \in DOMAIN raw[w] : i < j => raw[w][i] < raw[w][j]
        /\ Fast(w) \cap Around(w) = {}
        /\ \A k \in cold[w], n \in Fast(w) \cup Around(w) : k < n

\* Each pump is a FIFO with counted drops: submitted frames are handed to the ring in
\* order, or counted, also when descriptors run out in the middle of a batch.
Fifo(q) == INSTANCE LossyFifo WITH
    Items <- Frames, queue <- taken[q] \o ch[q], out <- sent[q], drops <- drops[q]

PumpIsFifo ==
    /\ \A q \in Queues : Fifo(q)!Init
    /\ [][\A q \in Queues : [Fifo(q)!Next]_(Fifo(q)!fifo)]_vars

\* Nothing waits for a pump, or it has ended as Close asks.
AtRest(q) == ppc[q] = "ended" \/ (~closed /\ ch[q] = <<>> /\ taken[q] = <<>>)

\* When producers pause, every frame has left its channel; after Close every pump ends.
PumpsRun == []<>(\A q \in Queues : AtRest(q))

\* A probe ends, resolved or not, and gives way to the next one.
ProbesEnd == []<>(arpPending = {})
=============================================================================
