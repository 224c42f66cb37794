----------------------------- MODULE XdpTxProofs -----------------------------
(***************************************************************************)
(* For any number of dispatch goroutines, writers, probes, addresses,      *)
(* queues and producers: the neighbour map loses nothing any learner       *)
(* stored, each transmit pump is a lossy fifo, and the frames of a flow    *)
(* keep their order from the writer to the wire.                           *)
(***************************************************************************)
EXTENDS XdpTx, SequenceTheorems, TLAPS

\* The learner about to store holds neighMu, and its clone is of the map as it is.
HolderStores ==
    \A l \in Learners : lrn[l].pc = "store" => neighMu = l /\ lrn[l].old = neigh

\* A writer has a call of learnNeighbour open only while it is in LanNextHopMAC.
WritersLearn == \A w \in Writers : wpc[w] # "learn" => lrn[w] = Off

NeighInv ==
    /\ DOMAIN lrn = Learners /\ DOMAIN wpc = Producers
    /\ HolderStores /\ WritersLearn /\ NeighExact

\* learnNeighbour, whoever calls it, leaves the map with what was last stored.
LEMMA LearnKeepsMap ==
    ASSUME NeighInv, NEW l \in Learners, LockAndLoad(l) \/ StoreClone(l),
           UNCHANGED wpc
    PROVE  NeighInv'
<1>1. lrn[l] # Off
  BY DEF LockAndLoad, StoreClone, Off
<1>2. CASE LockAndLoad(l)
  <2>1. Free \notin Learners
    BY NeighboursAssumption DEF Learners
  <2>2. \A k \in Learners : lrn[k].pc # "store"
    BY <1>2, <2>1 DEF LockAndLoad, MuFree, NeighInv, HolderStores
  <2>3. HolderStores'
    BY <1>2, <2>2 DEF LockAndLoad, NeighInv, HolderStores, Off
  <2>4. WritersLearn'
    <3>1. \A k \in Learners \ {l} : lrn'[k] = lrn[k]
      BY <1>2 DEF LockAndLoad, NeighInv
    <3>2. l \in Writers => wpc[l] = "learn"
      BY <1>1 DEF NeighInv, WritersLearn
    <3> QED BY <3>1, <3>2 DEF NeighInv, WritersLearn, Learners
  <2> QED BY <1>2, <2>3, <2>4 DEF LockAndLoad, NeighInv, NeighExact
<1>3. CASE StoreClone(l)
  <2>1. lrn[l].old = neigh /\ neighMu = l
    BY <1>3 DEF StoreClone, NeighInv, HolderStores
  <2>2. NeighExact'
    BY <1>3, <2>1 DEF StoreClone, NeighInv, NeighExact
  <2>3. HolderStores'
    BY <1>3, <2>1 DEF StoreClone, NeighInv, HolderStores, Off
  <2>4. WritersLearn'
    BY <1>1, <1>3 DEF StoreClone, NeighInv, WritersLearn
  <2> QED BY <1>3, <2>2, <2>3, <2>4 DEF StoreClone, NeighInv
<1> QED BY <1>2, <1>3

\* A call that begins has not loaded the map yet.
LEMMA BeginKeepsHolder ==
    ASSUME NeighInv, NEW l \in Learners, lrn[l] = Off, NEW a, NEW m, BeginLearn(l, a, m),
           UNCHANGED <<neigh, neighMu>>
    PROVE  DOMAIN lrn' = Learners /\ HolderStores' /\ \A k \in Learners \ {l} : lrn'[k] = lrn[k]
BY DEF BeginLearn, NeighInv, HolderStores, Off

\* The steps of Neighbours, none of which moves a writer's program counter.
LEMMA NeighboursKeepMap ==
    ASSUME NeighInv, NNext, UNCHANGED wpc PROVE NeighInv'
<1>1. ASSUME NEW l \in Learners, LockAndLoad(l) \/ StoreClone(l) PROVE NeighInv'
  BY <1>1, LearnKeepsMap
<1>2. ASSUME NEW d \in Dispatchers, NEW a \in Addrs, NEW m \in Macs, LearnFrame(d, a, m)
      PROVE NeighInv'
  <2>1. d \in Learners /\ d \notin Writers
    BY NeighboursAssumption DEF Learners
  <2>2. DOMAIN lrn' = Learners /\ HolderStores' /\ \A k \in Learners \ {d} : lrn'[k] = lrn[k]
    BY <1>2, <2>1, BeginKeepsHolder DEF LearnFrame
  <2>3. WritersLearn'
    BY <2>1, <2>2 DEF NeighInv, WritersLearn, Learners
  <2> QED BY <1>2, <2>2, <2>3 DEF LearnFrame, NeighInv, NeighExact
<1>3. ASSUME NEW a \in Addrs, ProbeLook(a) PROVE NeighInv'
  <2>1. a \in Learners /\ a \notin Writers
    BY NeighboursAssumption DEF Learners
  <2>2. DOMAIN lrn' = Learners /\ HolderStores' /\ \A k \in Learners \ {a} : lrn'[k] = lrn[k]
    <3>1. CASE arp[a] # NoMac
      BY <1>3, <2>1, <3>1, BeginKeepsHolder DEF ProbeLook
    <3>2. CASE arp[a] = NoMac
      BY <1>3, <3>2 DEF ProbeLook, NeighInv, HolderStores
    <3> QED BY <3>1, <3>2
  <2>3. WritersLearn'
    BY <2>1, <2>2 DEF NeighInv, WritersLearn, Learners
  <2> QED BY <1>3, <2>2, <2>3 DEF ProbeLook, NeighInv, NeighExact
<1>4. ASSUME NEW a \in Addrs, ProbeReturn(a) \/ KernelForgets(a) \/ \E m \in Macs : KernelLearns(a, m)
      PROVE NeighInv'
  BY <1>4 DEF ProbeReturn, KernelForgets, KernelLearns, NeighInv, HolderStores, WritersLearn, NeighExact
<1> QED BY <1>1, <1>2, <1>3, <1>4, NeighboursAssumption DEF NNext, Goroutines, Arrivals, Kernel

\* Producers' steps that leave the calls of learnNeighbour alone and end none early.
LEMMA OthersKeepMap ==
    ASSUME NeighInv, UNCHANGED <<lrn, neigh, neighMu, stored>>, DOMAIN wpc' = Producers,
           \A w \in Writers : wpc'[w] # "learn" => wpc[w] # "learn" \/ lrn[w] = Off
    PROVE  NeighInv'
BY DEF NeighInv, HolderStores, WritersLearn, NeighExact

\* A step of the pump of queue q, or of the kernel and the sockets under it.
PumpStep(q) == Block(q) \/ Drain(q) \/ Transmit(q) \/ KernelSends(q) \/ SocketGone(q)

\* Every step of the system keeps the invariant of the map.
LEMMA NeighStep == ASSUME NeighInv, [Next]_vars PROVE NeighInv'
<1> USE DEF producers, pumps, nvars
<1>1. CASE NNext /\ UNCHANGED <<producers, pumps, closed, open>>
  BY <1>1, NeighboursKeepMap
<1>2. ASSUME NEW c \in QuicConns, NEW n, WriteBatch(c, n) PROVE NeighInv'
  <2>1. wpc' = [wpc EXCEPT ![c] = "flush"] /\ c \notin Writers
    BY <1>2, TxAssumption DEF WriteBatch
  <2>2. DOMAIN wpc' = Producers /\ \A w \in Writers : wpc'[w] = wpc[w]
    BY <2>1 DEF NeighInv, Producers
  <2>3. UNCHANGED <<lrn, neigh, neighMu, stored>>
    BY <1>2 DEF WriteBatch
  <2> QED BY <2>2, <2>3, OthersKeepMap
<1>3. ASSUME NEW w \in Writers, ForwardPump(w) \/ Lookup(w) \/ Flush(w) \/ SockFlush(w) PROVE NeighInv'
  <2>1. UNCHANGED <<lrn, neigh, neighMu, stored>>
    BY <1>3 DEF ForwardPump, Lookup, Flush, SockFlush
  <2>2. UNCHANGED wpc \/ (wpc[w] # "learn" /\ \E x : wpc' = [wpc EXCEPT ![w] = x])
    BY <1>3 DEF ForwardPump, Lookup, Flush, SockFlush, Add, AddXdp, AddSock
  <2>3. DOMAIN wpc' = Producers
    BY <2>2 DEF NeighInv
  <2>4. \A k \in Writers : wpc'[k] # "learn" => wpc[k] # "learn" \/ lrn[k] = Off
    BY <2>2 DEF NeighInv, Producers
  <2> QED BY <2>1, <2>3, <2>4, OthersKeepMap
<1>4. ASSUME NEW w \in Writers, LookupArp(w) PROVE NeighInv'
  <2>1. w \in Learners /\ w \in Producers /\ lrn[w] = Off
    BY <1>4 DEF LookupArp, NeighInv, WritersLearn, Learners, Producers
  <2>2. CASE arp[PeerOf[w]] # NoMac
    <3>1. DOMAIN lrn' = Learners /\ HolderStores' /\ \A k \in Learners \ {w} : lrn'[k] = lrn[k]
      BY <1>4, <2>1, <2>2, BeginKeepsHolder DEF LookupArp
    <3>2. wpc' = [wpc EXCEPT ![w] = "learn"]
      BY <1>4, <2>2 DEF LookupArp
    <3>3. WritersLearn'
      BY <2>1, <3>1, <3>2 DEF NeighInv, WritersLearn, Learners, Producers
    <3> QED BY <1>4, <3>1, <3>2, <3>3 DEF LookupArp, NeighInv, NeighExact
  <2>3. CASE arp[PeerOf[w]] = NoMac
    <3>1. UNCHANGED <<lrn, neigh, neighMu, stored>> /\ wpc' = [wpc EXCEPT ![w] = "ready"]
      BY <1>4, <2>3 DEF LookupArp
    <3>2. DOMAIN wpc' = Producers /\ \A k \in Writers \ {w} : wpc'[k] = wpc[k]
      BY <3>1 DEF NeighInv, Producers
    <3> QED BY <2>1, <3>1, <3>2, OthersKeepMap
  <2> QED BY <2>2, <2>3
<1>5. ASSUME NEW w \in Writers, Learned(w) PROVE NeighInv'
  <2>1. UNCHANGED <<lrn, neigh, neighMu, stored>> /\ lrn[w] = Off
    BY <1>5 DEF Learned
  <2>2. \E x : wpc' = [wpc EXCEPT ![w] = x]
    BY <1>5 DEF Learned, Add, AddXdp, AddSock
  <2>3. DOMAIN wpc' = Producers /\ \A k \in Writers \ {w} : wpc'[k] = wpc[k]
    BY <2>2 DEF NeighInv, Producers
  <2> QED BY <2>1, <2>3, OthersKeepMap
<1>6. ASSUME NEW p \in Producers, Submit(p) PROVE NeighInv'
  BY <1>6, OthersKeepMap DEF Submit, NeighInv
<1>7. ASSUME NEW q \in Queues, PumpStep(q) PROVE NeighInv'
  BY <1>7, OthersKeepMap DEF PumpStep, Block, Drain, Transmit, KernelSends, SocketGone, NeighInv
<1>8. CASE Close \/ CloseSockets
  BY <1>8, OthersKeepMap DEF Close, CloseSockets, NeighInv
<1>9. CASE UNCHANGED vars
  BY <1>9, OthersKeepMap DEF vars, NeighInv
<1> QED BY <1>1, <1>2, <1>3, <1>4, <1>5, <1>6, <1>7, <1>8, <1>9 DEF Next, WriteTo, NNext, PumpStep

\* Nothing learned is lost (learnNeighbour): the map holds for every address what was last
\* stored for it, for any number of concurrent learners.
THEOREM NothingLearnedIsLost == Spec => []NeighExact
<1>1. Init => NeighInv
  BY DEF Init, NInit, NeighInv, HolderStores, WritersLearn, NeighExact, Off, Learners
<1>2. NeighInv /\ [Next]_vars => NeighInv'
  BY NeighStep
<1>3. NeighInv => NeighExact
  BY DEF NeighInv
<1> QED BY <1>1, <1>2, <1>3, PTL DEF Spec
-----------------------------------------------------------------------------
(***************************************************************************)
(* Types.                                                                  *)
(***************************************************************************)

\* A writer in LanNextHopMAC has a packet in hand, and a MAC once it is learning.
InHand ==
    \A w \in Writers :
        /\ wpc[w] \in {"arp", "learn"} => next[w] <= MaxFrames
        /\ wpc[w] = "learn" => hop[w] # NoMac

\* A writer without a pump has not begun: it looks nothing up and has no frames.
PumpFirst == \A w \in Writers : pump[w] = -1 => wpc[w] = "ready" /\ batch[w] = <<>> /\ sock[w] = <<>>

\* A pump that waits for a frame holds none.
TakenInDrain == \A q \in Queues : ppc[q] = "block" => taken[q] = <<>>

TxInv == NeighInv /\ TypeOK /\ InHand /\ PumpFirst /\ TakenInDrain

LEMMA QueuesFacts == NumQueues \in Nat \ {0} /\ (\A i \in Nat : i % NumQueues \in Queues) /\ -1 \notin Queues
<1>1. NumQueues \in Nat \ {0}
  BY TxAssumption
<1>2. ASSUME NEW i \in Nat PROVE i % NumQueues \in Queues
  <2>1. i % NumQueues \in 0..NumQueues - 1
    BY <1>1
  <2> QED BY <2>1 DEF Queues
<1> QED BY <1>1, <1>2 DEF Queues

\* The steps of the neighbour map.
LEMMA NeighTypes == ASSUME NTypeOK, NNext PROVE NTypeOK'
<1> DEFINE Calls == {Off} \cup [pc : {"lock"}, addr : Addrs, mac : Macs]
                         \cup [pc : {"store"}, addr : Addrs, mac : Macs, old : Table]
<1>0. /\ neigh \in Table /\ stored \in Table /\ arp \in Table /\ neighMu \in Learners \cup {Free}
      /\ lrn \in [Learners -> Calls] /\ arpPending \subseteq Addrs /\ tries \in [Addrs -> 0..ProbeTries]
      /\ news \in 0..MaxLearn /\ lost \in 0..MaxForget /\ Off \in Calls
  BY DEF NTypeOK
<1>a. \A a \in Addrs, m \in Macs : [pc |-> "lock", addr |-> a, mac |-> m] \in Calls
  OBVIOUS
<1>b. \A a \in Addrs, m \in Macs, o \in Table : [pc |-> "store", addr |-> a, mac |-> m, old |-> o] \in Calls
  OBVIOUS
<1>c. \A l \in Learners :
        /\ lrn[l].pc = "lock" => lrn[l].addr \in Addrs /\ lrn[l].mac \in Macs
        /\ lrn[l].pc = "store" => lrn[l].addr \in Addrs /\ lrn[l].mac \in Macs /\ lrn[l].old \in Table
  BY <1>0 DEF Off
<1> HIDE DEF Calls
<1>1. ASSUME NEW l \in Learners, LockAndLoad(l) PROVE NTypeOK'
  <2>1. lrn' \in [Learners -> Calls]
    <3>1. [pc |-> "store", addr |-> lrn[l].addr, mac |-> lrn[l].mac, old |-> neigh] \in Calls
      BY <1>0, <1>1, <1>b, <1>c DEF LockAndLoad
    <3> DEFINE r == [pc |-> "store", addr |-> lrn[l].addr, mac |-> lrn[l].mac, old |-> neigh]
    <3>2. lrn' = [lrn EXCEPT ![l] = Off] \/ lrn' = [lrn EXCEPT ![l] = r]
      BY <1>1 DEF LockAndLoad
    <3> HIDE DEF r
    <3>3. r \in Calls
      BY <3>1 DEF r
    <3> QED BY <1>0, <3>2, <3>3
  <2>2. neighMu' \in Learners \cup {Free} /\ UNCHANGED <<neigh, arpPending, tries, arp, news, lost, stored>>
    BY <1>0, <1>1 DEF LockAndLoad
  <2> QED BY <1>0, <2>1, <2>2 DEF NTypeOK, Calls
<1>2. ASSUME NEW l \in Learners, StoreClone(l) PROVE NTypeOK'
  <2>1. lrn' \in [Learners -> Calls] /\ neighMu' = Free /\ UNCHANGED <<arpPending, tries, arp, news, lost>>
    BY <1>0, <1>2 DEF StoreClone
  <2>2. neigh' \in Table /\ stored' \in Table
    BY <1>0, <1>2, <1>c DEF StoreClone, Table
  <2> QED BY <1>0, <2>1, <2>2 DEF NTypeOK, Calls
<1>3. ASSUME NEW l \in Learners, NEW a \in Addrs, NEW m \in Macs, BeginLearn(l, a, m) PROVE lrn' \in [Learners -> Calls]
  BY <1>0, <1>3, <1>a DEF BeginLearn
<1>4. ASSUME NEW d \in Dispatchers, NEW a \in Addrs, NEW m \in Macs, LearnFrame(d, a, m) PROVE NTypeOK'
  <2>1. lrn' \in [Learners -> Calls]
    BY <1>3, <1>4 DEF LearnFrame, Learners
  <2>2. news' \in 0..MaxLearn
    BY <1>0, <1>4, NeighboursAssumption DEF LearnFrame
  <2> QED BY <1>0, <1>4, <2>1, <2>2 DEF LearnFrame, NTypeOK, Calls
<1>5. ASSUME NEW a \in Addrs, ProbeLook(a) PROVE NTypeOK'
  <2>1. lrn' \in [Learners -> Calls]
    <3>1. CASE arp[a] # NoMac
      <4>1. arp[a] \in Macs
        BY <1>0, <3>1 DEF Table
      <4> QED BY <1>3, <1>5, <3>1, <4>1 DEF ProbeLook, Learners
    <3>2. CASE arp[a] = NoMac
      BY <1>0, <1>5, <3>2 DEF ProbeLook
    <3> QED BY <3>1, <3>2
  <2>2. tries' \in [Addrs -> 0..ProbeTries]
    <3>1. tries[a] \in 0..ProbeTries /\ tries[a] > 0 /\ ProbeTries \in Nat
      BY <1>0, <1>5, NeighboursAssumption DEF ProbeLook
    <3>2. tries[a] - 1 \in 0..ProbeTries /\ 0 \in 0..ProbeTries
      BY <3>1
    <3> QED BY <1>0, <1>5, <3>2 DEF ProbeLook
  <2> QED BY <1>0, <1>5, <2>1, <2>2 DEF ProbeLook, NTypeOK, Calls
<1>6. ASSUME NEW a \in Addrs, ProbeReturn(a) PROVE NTypeOK'
  BY <1>0, <1>6 DEF ProbeReturn, ForgetProbe, NTypeOK
<1>7. ASSUME NEW a \in Addrs, KernelForgets(a) PROVE NTypeOK'
  <2>1. arp' \in Table /\ lost' \in 0..MaxForget
    BY <1>0, <1>7, NeighboursAssumption DEF KernelForgets, Table
  <2> QED BY <1>0, <1>7, <2>1 DEF KernelForgets, NTypeOK, Calls
<1>8. ASSUME NEW a \in Addrs, NEW m \in Macs, KernelLearns(a, m) PROVE NTypeOK'
  <2>1. arp' \in Table
    BY <1>0, <1>8 DEF KernelLearns, Table
  <2> QED BY <1>0, <1>8, <2>1 DEF KernelLearns, NTypeOK, Calls
<1> QED BY <1>1, <1>2, <1>4, <1>5, <1>6, <1>7, <1>8, NeighboursAssumption DEF NNext, Goroutines, Arrivals, Kernel

\* Where a producer is.
WriterAt == {"ready", "arp", "learn", "flush", "crashed"}

USE DEF WriterAt

\* The state of the producers, and of the pumps.
ProducerTypes ==
    /\ txIdx \in Nat /\ pump \in [Writers -> Queues \cup {-1}]
    /\ wpc \in [Producers -> WriterAt]
    /\ hop \in [Writers -> Macs \cup {NoMac}]
    /\ batch \in [Producers -> Seq(Frames)] /\ next \in [Producers -> 1..MaxFrames + 1]
    /\ sock \in [Writers -> Seq(1..MaxFrames)] /\ raw \in [Writers -> Seq(1..MaxFrames)]
    /\ cold \in [Writers -> SUBSET (1..MaxFrames)]
    /\ InHand /\ PumpFirst

PumpTypes ==
    /\ ch \in [Queues -> Seq(Frames)] /\ taken \in [Queues -> Seq(Frames)]
    /\ ppc \in [Queues -> {"block", "drain", "ended"}]
    /\ kern \in [Queues -> 0..TxDescs] /\ drops \in [Queues -> Nat]
    /\ sent \in [Queues -> Seq(Frames)] /\ wire \in Seq(Frames)
    /\ TakenInDrain

LEMMA TypeParts ==
    TypeOK /\ InHand /\ PumpFirst /\ TakenInDrain
      <=> NTypeOK /\ ProducerTypes /\ PumpTypes /\ closed \in BOOLEAN /\ open \in BOOLEAN
BY DEF TypeOK, ProducerTypes, PumpTypes

\* A frame that XDPBatch.Add or WriteBatch builds.
LEMMA BuiltFrame ==
    ASSUME NEW p \in Producers, NEW n \in 1..MaxFrames, NEW m \in Macs \cup {GwMac}
    PROVE  Built(p, n, m) \in Frames /\ Built(p, n, m).from = p /\ Built(p, n, m).num = n
BY DEF Built, Frames

\* WriteBatch.
LEMMA WriteBatchTypes ==
    ASSUME NTypeOK, ProducerTypes, NEW c \in QuicConns, NEW n \in Nat, WriteBatch(c, n)
    PROVE  ProducerTypes'
<1> DEFINE b == [i \in 1..n |-> Built(c, next[c] + i - 1, NextHop(PeerOf[c]))]
<1>1. c \in Producers /\ c \notin Writers /\ PeerOf[c] \in Addrs /\ MaxFrames \in Nat
  BY TxAssumption DEF Producers
<1>2. NextHop(PeerOf[c]) \in Macs \cup {GwMac}
  BY <1>1 DEF NextHop, NTypeOK, Table
<1>3. next[c] \in 1..MaxFrames + 1 /\ next[c] + n <= MaxFrames + 1
  BY <1>1 DEF ProducerTypes, WriteBatch
<1>4. \A i \in 1..n : next[c] + i - 1 \in 1..MaxFrames
  BY <1>1, <1>3
<1>5. \A i \in 1..n : Built(c, next[c] + i - 1, NextHop(PeerOf[c])) \in Frames
  BY <1>1, <1>2, <1>4, BuiltFrame
<1>6. b \in Seq(Frames)
  <2>1. b \in [1..n -> Frames]
    BY <1>5
  <2> HIDE DEF b
  <2> QED BY <2>1, SeqDef
<1>7. batch' = [batch EXCEPT ![c] = b] /\ next' = [next EXCEPT ![c] = @ + n] /\ wpc' = [wpc EXCEPT ![c] = "flush"]
      /\ UNCHANGED <<txIdx, pump, hop, sock, raw, cold>>
  BY DEF WriteBatch
<1> HIDE DEF b
<1>8. next[c] + n \in 1..MaxFrames + 1
  BY <1>1, <1>3
<1>9. batch' \in [Producers -> Seq(Frames)] /\ next' \in [Producers -> 1..MaxFrames + 1]
      /\ wpc' \in [Producers -> WriterAt]
  BY <1>6, <1>7, <1>8 DEF ProducerTypes
<1>10. \A w \in Writers : w \in Producers /\ wpc'[w] = wpc[w] /\ next'[w] = next[w] /\ batch'[w] = batch[w]
  BY <1>1, <1>7 DEF ProducerTypes, Producers
<1>11. InHand' /\ PumpFirst'
  BY <1>7, <1>10 DEF ProducerTypes, InHand, PumpFirst
<1> QED BY <1>7, <1>9, <1>11 DEF ProducerTypes

\* ForwardBatch.Add of the packet in hand: to the batch, to the socket's, or to neither.
LEMMA AddCases ==
    ASSUME ProducerTypes, NEW w \in Writers, NEW m \in Macs, Add(w, m)
    PROVE  /\ \/ batch' = [batch EXCEPT ![w] = Append(@, Built(w, next[w], m))] /\ UNCHANGED sock
              \/ sock' = [sock EXCEPT ![w] = Append(@, next[w])] /\ UNCHANGED batch
              \/ UNCHANGED <<batch, sock>>
           /\ next' = [next EXCEPT ![w] = @ + 1]
           /\ wpc'[w] \in {"ready", "crashed"} /\ \A v \in Writers \ {w} : wpc'[v] = wpc[v]
           /\ wpc' \in [Producers -> WriterAt]
           /\ UNCHANGED <<raw, cold>>
<1>1. w \in Producers
  BY DEF Producers
<1>2. \E x \in {"ready", "crashed"} : wpc' = [wpc EXCEPT ![w] = x]
  BY DEF Add, AddXdp, AddSock
<1>3. /\ wpc'[w] \in {"ready", "crashed"} /\ \A v \in Writers \ {w} : wpc'[v] = wpc[v]
      /\ wpc' \in [Producers -> WriterAt]
  BY <1>1, <1>2 DEF ProducerTypes, Producers
<1>4. CASE AddXdp(w, m)
  BY <1>3, <1>4 DEF Add, AddXdp
<1>5. CASE AddSock(w)
  BY <1>3, <1>5 DEF Add, AddSock
<1> QED BY <1>4, <1>5 DEF Add

LEMMA AddTypes ==
    ASSUME ProducerTypes, NEW w \in Writers, NEW m \in Macs, Add(w, m), next[w] <= MaxFrames,
           UNCHANGED <<txIdx, pump>>, hop' \in [Writers -> Macs \cup {NoMac}], pump[w] # -1,
           \A v \in Writers \ {w} : hop'[v] = hop[v]
    PROVE  ProducerTypes'
<1>1. w \in Producers /\ MaxFrames \in Nat
  BY TxAssumption DEF Producers
<1>2. next[w] \in 1..MaxFrames /\ next[w] + 1 \in 1..MaxFrames + 1
  BY <1>1 DEF ProducerTypes
<1> DEFINE f == Built(w, next[w], m)
<1>3. f \in Frames
  BY <1>1, <1>2, BuiltFrame
<1>4. /\ \/ batch' = [batch EXCEPT ![w] = Append(@, f)] /\ UNCHANGED sock
         \/ sock' = [sock EXCEPT ![w] = Append(@, next[w])] /\ UNCHANGED batch
         \/ UNCHANGED <<batch, sock>>
      /\ next' = [next EXCEPT ![w] = @ + 1]
      /\ wpc'[w] \in {"ready", "crashed"} /\ \A v \in Writers \ {w} : wpc'[v] = wpc[v]
      /\ wpc' \in [Producers -> WriterAt]
      /\ UNCHANGED <<raw, cold>>
  BY AddCases
<1> HIDE DEF f
<1>5. batch' \in [Producers -> Seq(Frames)] /\ \A v \in Writers \ {w} : batch'[v] = batch[v]
  <2>1. Append(batch[w], f) \in Seq(Frames)
    BY <1>1, <1>3, AppendProperties DEF ProducerTypes
  <2>2. UNCHANGED batch \/ batch' = [batch EXCEPT ![w] = Append(@, f)]
    BY <1>4
  <2> QED BY <1>1, <2>1, <2>2 DEF ProducerTypes, Producers
<1>6. sock' \in [Writers -> Seq(1..MaxFrames)] /\ \A v \in Writers \ {w} : sock'[v] = sock[v]
  <2>1. Append(sock[w], next[w]) \in Seq(1..MaxFrames)
    BY <1>2, AppendProperties DEF ProducerTypes
  <2>2. UNCHANGED sock \/ sock' = [sock EXCEPT ![w] = Append(@, next[w])]
    BY <1>4
  <2> QED BY <2>1, <2>2 DEF ProducerTypes
<1>7. next' \in [Producers -> 1..MaxFrames + 1] /\ \A v \in Writers \ {w} : next'[v] = next[v]
  BY <1>1, <1>2, <1>4 DEF ProducerTypes, Producers
<1>8. InHand' /\ PumpFirst'
  BY <1>4, <1>5, <1>6, <1>7 DEF ProducerTypes, InHand, PumpFirst
<1> QED BY <1>4, <1>5, <1>6, <1>7, <1>8 DEF ProducerTypes

\* Sequences of packet numbers: in order, and what a flush of the socket makes of them.
Climbs(s) == \A i, j \in DOMAIN s : i < j => s[i] < s[j]

LEMMA NumbersFlush ==
    ASSUME NEW s \in Seq(1..MaxFrames), NEW t \in Seq(1..MaxFrames), NEW k \in 0..Len(t)
    PROVE  /\ s \o SubSeq(t, 1, k) \in Seq(1..MaxFrames)
           /\ Range(s \o SubSeq(t, 1, k)) \subseteq Range(s) \cup Range(t)
           /\ Climbs(s) /\ Climbs(t) /\ (\A m \in Range(s), n \in Range(t) : m < n)
                => Climbs(s \o SubSeq(t, 1, k))
<1> DEFINE u == SubSeq(t, 1, k)
           v == s \o u
<1>1. Len(s) \in Nat /\ DOMAIN s = 1..Len(s) /\ Len(t) \in Nat /\ DOMAIN t = 1..Len(t)
  BY LenProperties
<1>2. k \in Nat /\ \A i \in 1..k : t[i] \in 1..MaxFrames
  <2>1. k \in Nat /\ \A i \in 1..k : i \in 1..Len(t)
    BY <1>1
  <2> QED BY <2>1, ElementOfSeq
<1>3. u \in Seq(1..MaxFrames) /\ Len(u) = k /\ \A i \in 1..k : u[i] = t[i]
  <2>1. /\ u \in Seq(1..MaxFrames) /\ Len(u) = (IF 1 <= k THEN k - 1 + 1 ELSE 0)
        /\ \A i \in 1..k - 1 + 1 : u[i] = t[1 + i - 1]
    BY <1>2, SubSeqProperties
  <2> HIDE DEF u
  <2> QED BY <1>2, <2>1
<1> HIDE DEF u
<1>4. /\ v \in Seq(1..MaxFrames) /\ Len(v) = Len(s) + k
      /\ \A i \in 1..Len(s) + k : v[i] = IF i <= Len(s) THEN s[i] ELSE u[i - Len(s)]
  BY <1>3, ConcatProperties
<1>5. DOMAIN v = 1..Len(s) + k
  BY <1>4, LenProperties
<1> HIDE DEF v
<1>6. \A i \in DOMAIN v : \/ i \in DOMAIN s /\ v[i] = s[i]
                          \/ i - Len(s) \in DOMAIN t /\ v[i] = t[i - Len(s)] /\ i > Len(s)
  <2> SUFFICES ASSUME NEW i \in DOMAIN v
               PROVE  \/ i \in DOMAIN s /\ v[i] = s[i]
                      \/ i - Len(s) \in DOMAIN t /\ v[i] = t[i - Len(s)] /\ i > Len(s)
    OBVIOUS
  <2>1. CASE i <= Len(s)
    BY <1>1, <1>4, <1>5, <2>1
  <2>2. CASE i > Len(s)
    <3>1. i - Len(s) \in 1..k /\ i - Len(s) \in 1..Len(t) /\ ~(i <= Len(s))
      BY <1>1, <1>2, <1>5, <2>2
    <3> QED BY <1>1, <1>3, <1>4, <1>5, <2>2, <3>1
  <2> QED BY <1>1, <1>5, <2>1, <2>2
<1>7. Range(v) \subseteq Range(s) \cup Range(t)
  BY <1>6 DEF Range
<1>8. ASSUME Climbs(s), Climbs(t), \A m \in Range(s), n \in Range(t) : m < n,
             NEW i \in DOMAIN v, NEW j \in DOMAIN v, i < j
      PROVE  v[i] < v[j]
  <2>0. i \in Int /\ j \in Int /\ (j \in DOMAIN s => j <= Len(s)) /\ Len(s) \in Nat
    BY <1>1, <1>5
  <2>1. CASE i \in DOMAIN s /\ j \in DOMAIN s /\ v[i] = s[i] /\ v[j] = s[j]
    BY <1>8, <2>1 DEF Climbs
  <2>2. CASE i \in DOMAIN s /\ v[i] = s[i] /\ j - Len(s) \in DOMAIN t /\ v[j] = t[j - Len(s)]
    BY <1>8, <2>2 DEF Range
  <2>3. CASE /\ i - Len(s) \in DOMAIN t /\ v[i] = t[i - Len(s)]
             /\ j - Len(s) \in DOMAIN t /\ v[j] = t[j - Len(s)]
    <3>1. i - Len(s) < j - Len(s)
      BY <1>8, <2>0
    <3> QED BY <1>8, <2>3, <3>1 DEF Climbs
  <2>4. CASE i > Len(s) /\ j \in DOMAIN s
    BY <1>8, <2>0, <2>4
  <2> QED BY <1>6, <2>1, <2>2, <2>3, <2>4
<1> QED BY <1>4, <1>7, <1>8 DEF u, v, Climbs

LEMMA NumbersAppend ==
    ASSUME NEW s \in Seq(1..MaxFrames), NEW x \in 1..MaxFrames
    PROVE  /\ Range(Append(s, x)) = Range(s) \cup {x}
           /\ Climbs(s) /\ (\A m \in Range(s) : m < x) => Climbs(Append(s, x))
<1> DEFINE a == Append(s, x)
<1>1. Len(s) \in Nat /\ DOMAIN s = 1..Len(s)
  BY LenProperties
<1>2. a \in Seq(1..MaxFrames) /\ Len(a) = Len(s) + 1 /\ (\A i \in 1..Len(s) : a[i] = s[i]) /\ a[Len(s) + 1] = x
  BY AppendProperties
<1>3. DOMAIN a = 1..Len(s) + 1
  BY <1>2, LenProperties
<1> HIDE DEF a
<1>4. Range(a) = Range(s) \cup {x}
  <2>1. \A i \in DOMAIN a : a[i] \in Range(s) \cup {x}
    BY <1>1, <1>2, <1>3 DEF Range
  <2>2. \A i \in DOMAIN s : i \in DOMAIN a /\ s[i] = a[i]
    BY <1>1, <1>2, <1>3
  <2>3. Len(s) + 1 \in DOMAIN a
    BY <1>1, <1>3
  <2> QED BY <1>2, <2>1, <2>2, <2>3 DEF Range
<1>5. ASSUME Climbs(s), \A m \in Range(s) : m < x, NEW i \in DOMAIN a, NEW j \in DOMAIN a, i < j
      PROVE  a[i] < a[j]
  <2>1. i \in 1..Len(s) /\ a[i] = s[i] /\ s[i] \in Range(s)
    BY <1>1, <1>2, <1>3, <1>5 DEF Range
  <2>2. CASE j \in 1..Len(s)
    BY <1>1, <1>2, <1>5, <2>1, <2>2 DEF Climbs
  <2>3. CASE j = Len(s) + 1
    BY <1>2, <1>5, <2>1, <2>3
  <2> QED BY <1>1, <1>3, <2>2, <2>3
<1> QED BY <1>4, <1>5 DEF a, Climbs

\* The steps of a forward writer other than Submit.
WriterStep(w) == ForwardPump(w) \/ Lookup(w) \/ LookupArp(w) \/ Learned(w) \/ Flush(w) \/ SockFlush(w)

LEMMA WriterTypes ==
    ASSUME NTypeOK, ProducerTypes, NEW w \in Writers,
           WriterStep(w)
    PROVE  NTypeOK' /\ ProducerTypes'
<1>1. w \in Producers /\ MaxFrames \in Nat /\ PeerOf[w] \in Addrs /\ w \in Learners
  BY TxAssumption DEF Producers, Learners
<1>2. next[w] \in 1..MaxFrames + 1
  BY <1>1 DEF ProducerTypes
<1>a. (UNCHANGED nvars) => NTypeOK'
  BY DEF nvars, NTypeOK
<1>3. CASE ForwardPump(w)
  <2>1. txIdx' = txIdx + 1 /\ pump' = [pump EXCEPT ![w] = (txIdx + 1) % NumQueues]
        /\ UNCHANGED <<nvars, wpc, hop, batch, sock, next, raw, cold>>
    BY <1>3 DEF ForwardPump
  <2>2. txIdx + 1 \in Nat
    BY DEF ProducerTypes
  <2>3. (txIdx + 1) % NumQueues \in Queues
    BY <2>2, QueuesFacts
  <2> DEFINE q == (txIdx + 1) % NumQueues
  <2>4. q \in Queues /\ pump' = [pump EXCEPT ![w] = q] /\ q # -1
    BY <2>1, <2>3, QueuesFacts
  <2> HIDE DEF q
  <2>5. pump' \in [Writers -> Queues \cup {-1}]
    BY <2>4 DEF ProducerTypes
  <2>6. InHand' /\ PumpFirst'
    BY <2>1, <2>4 DEF ProducerTypes, InHand, PumpFirst
  <2> QED BY <1>a, <2>1, <2>2, <2>5, <2>6 DEF ProducerTypes
<1>4. CASE Lookup(w)
  <2>1. CASE neigh[PeerOf[w]] # NoMac
    <3>1. neigh[PeerOf[w]] \in Macs
      BY <1>1, <2>1 DEF NTypeOK, Table
    <3>2. Add(w, neigh[PeerOf[w]]) /\ next[w] <= MaxFrames /\ pump[w] # -1 /\ UNCHANGED <<nvars, txIdx, pump, hop>>
      BY <1>4, <2>1 DEF Lookup
    <3>3. hop' \in [Writers -> Macs \cup {NoMac}] /\ \A v \in Writers \ {w} : hop'[v] = hop[v]
      BY <3>2 DEF ProducerTypes
    <3> QED BY <1>a, <3>1, <3>2, <3>3, AddTypes
  <2>2. CASE neigh[PeerOf[w]] = NoMac
    <3>1. wpc' = [wpc EXCEPT ![w] = "arp"] /\ next[w] <= MaxFrames /\ pump[w] # -1
          /\ UNCHANGED <<nvars, txIdx, pump, hop, batch, sock, next, raw, cold>>
      BY <1>4, <2>2 DEF Lookup
    <3>2. wpc' \in [Producers -> WriterAt]
      BY <3>1 DEF ProducerTypes
    <3>3. wpc'[w] = "arp" /\ \A v \in Writers \ {w} : wpc'[v] = wpc[v]
      BY <1>1, <3>1 DEF ProducerTypes, Producers
    <3>4. InHand' /\ PumpFirst'
      BY <3>1, <3>3 DEF ProducerTypes, InHand, PumpFirst
    <3> QED BY <1>a, <3>1, <3>2, <3>4 DEF ProducerTypes
  <2> QED BY <2>1, <2>2
<1>5. CASE LookupArp(w)
  <2> DEFINE a == PeerOf[w]
  <2>1. next[w] <= MaxFrames /\ pump[w] # -1
    BY <1>5 DEF LookupArp, ProducerTypes, InHand, PumpFirst
  <2>2. CASE arp[a] # NoMac
    <3>1. arp[a] \in Macs
      BY <1>1, <2>2 DEF NTypeOK, Table
    <3>2. /\ BeginLearn(w, a, arp[a]) /\ wpc' = [wpc EXCEPT ![w] = "learn"] /\ hop' = [hop EXCEPT ![w] = arp[a]]
          /\ UNCHANGED <<arpPending, tries, batch, next, cold>>
          /\ UNCHANGED <<neigh, neighMu, arp, news, lost, stored, txIdx, pump, sock, raw>>
      BY <1>5, <2>2 DEF LookupArp
    <3>3. NTypeOK'
      <4> DEFINE r == [pc |-> "lock", addr |-> a, mac |-> arp[a]]
      <4>1. r \in [pc : {"lock"}, addr : Addrs, mac : Macs]
        BY <1>1, <3>1
      <4>2. UNCHANGED lrn \/ lrn' = [lrn EXCEPT ![w] = r]
        BY <3>2 DEF BeginLearn
      <4> HIDE DEF r
      <4> QED BY <3>2, <4>1, <4>2 DEF NTypeOK
    <3>4. /\ wpc' \in [Producers -> WriterAt] /\ hop' \in [Writers -> Macs \cup {NoMac}]
          /\ hop'[w] = arp[a] /\ \A v \in Writers \ {w} : wpc'[v] = wpc[v] /\ hop'[v] = hop[v]
      BY <1>1, <3>1, <3>2 DEF ProducerTypes, Producers
    <3>5. InHand' /\ PumpFirst'
      BY <2>1, <2>2, <3>2, <3>4 DEF ProducerTypes, InHand, PumpFirst
    <3> QED BY <3>2, <3>3, <3>4, <3>5 DEF ProducerTypes
  <2>3. CASE arp[a] = NoMac
    <3>1. /\ StartProbe(a) /\ wpc' = [wpc EXCEPT ![w] = "ready"]
          /\ cold' = [cold EXCEPT ![w] = @ \cup {next[w]}] /\ next' = [next EXCEPT ![w] = @ + 1]
          /\ UNCHANGED <<lrn, hop, batch>> /\ UNCHANGED <<neigh, neighMu, arp, news, lost, stored, txIdx, pump, sock, raw>>
      BY <1>5, <2>3 DEF LookupArp
    <3>2. NTypeOK'
      <4>1. ProbeTries \in 0..ProbeTries
        BY NeighboursAssumption
      <4>2. arpPending' \subseteq Addrs /\ tries' \in [Addrs -> 0..ProbeTries]
        BY <1>1, <3>1, <4>1 DEF StartProbe, NTypeOK
      <4> QED BY <3>1, <4>2 DEF NTypeOK
    <3>3. next[w] \in 1..MaxFrames /\ next[w] + 1 \in 1..MaxFrames + 1
      BY <1>1, <1>2, <2>1
    <3>4. /\ cold' \in [Writers -> SUBSET (1..MaxFrames)] /\ next' \in [Producers -> 1..MaxFrames + 1]
          /\ wpc' \in [Producers -> WriterAt]
      BY <1>1, <3>1, <3>3 DEF ProducerTypes
    <3>5. wpc'[w] = "ready" /\ \A v \in Writers \ {w} : wpc'[v] = wpc[v] /\ next'[v] = next[v]
      BY <1>1, <3>1 DEF ProducerTypes, Producers
    <3>6. InHand' /\ PumpFirst'
      BY <3>1, <3>5 DEF ProducerTypes, InHand, PumpFirst
    <3> QED BY <3>1, <3>2, <3>4, <3>6 DEF ProducerTypes
  <2> QED BY <2>2, <2>3
<1>6. CASE Learned(w)
  <2>1. /\ Add(w, hop[w]) /\ next[w] <= MaxFrames /\ UNCHANGED <<nvars, txIdx, pump>> /\ hop[w] # NoMac
        /\ hop' = [hop EXCEPT ![w] = NoMac] /\ wpc[w] = "learn"
    BY <1>6 DEF Learned, ProducerTypes, InHand
  <2>2. hop[w] \in Macs /\ hop' \in [Writers -> Macs \cup {NoMac}] /\ \A v \in Writers \ {w} : hop'[v] = hop[v]
    BY <2>1 DEF ProducerTypes
  <2>3. pump[w] # -1
    BY <2>1 DEF ProducerTypes, PumpFirst
  <2> QED BY <1>a, <2>1, <2>2, <2>3, AddTypes
<1>7. CASE Flush(w)
  <2>1. wpc' = [wpc EXCEPT ![w] = "flush"] /\ UNCHANGED <<nvars, txIdx, pump, hop, batch, sock, next, raw, cold>>
    BY <1>7 DEF Flush
  <2>2. wpc' \in [Producers -> WriterAt]
    BY <2>1 DEF ProducerTypes
  <2>3. wpc'[w] = "flush" /\ \A v \in Writers \ {w} : wpc'[v] = wpc[v]
    BY <1>1, <2>1 DEF ProducerTypes, Producers
  <2>4. InHand' /\ PumpFirst'
    BY <1>7, <2>1, <2>3 DEF Flush, ProducerTypes, InHand, PumpFirst
  <2> QED BY <1>a, <2>1, <2>2, <2>4 DEF ProducerTypes
<1>8. CASE SockFlush(w)
  <2>1. PICK k \in 0..Len(sock[w]) : raw' = [raw EXCEPT ![w] = @ \o SubSeq(sock[w], 1, k)]
    BY <1>8 DEF SockFlush
  <2>2. /\ sock' = [sock EXCEPT ![w] = <<>>] /\ wpc' = [wpc EXCEPT ![w] = "ready"]
        /\ UNCHANGED <<nvars, txIdx, pump, hop, batch, next, cold>>
    BY <1>8 DEF SockFlush
  <2>3. wpc' \in [Producers -> WriterAt]
    BY <2>2 DEF ProducerTypes
  <2>4. wpc'[w] = "ready" /\ \A v \in Writers \ {w} : wpc'[v] = wpc[v]
    BY <1>1, <2>2 DEF ProducerTypes, Producers
  <2>5. raw[w] \o SubSeq(sock[w], 1, k) \in Seq(1..MaxFrames)
    BY NumbersFlush DEF ProducerTypes
  <2>6. raw' \in [Writers -> Seq(1..MaxFrames)]
    BY <2>1, <2>5 DEF ProducerTypes
  <2>7. sock' \in [Writers -> Seq(1..MaxFrames)] /\ sock'[w] = <<>> /\ \A v \in Writers \ {w} : sock'[v] = sock[v]
    BY <2>2 DEF ProducerTypes
  <2>8. InHand' /\ PumpFirst'
    BY <2>2, <2>4, <2>7 DEF ProducerTypes, InHand, PumpFirst
  <2> QED BY <1>a, <2>2, <2>3, <2>6, <2>7, <2>8 DEF ProducerTypes
<1> QED BY <1>3, <1>4, <1>5, <1>6, <1>7, <1>8 DEF WriterStep

\* Where a frame is submitted.
LEMMA QueueOfType ==
    ASSUME ProducerTypes, NEW p \in Producers, p \in Writers => pump[p] # -1
    PROVE  QueueOf(p) \in Queues
<1>1. CASE p \in Writers
  BY <1>1 DEF QueueOf, ProducerTypes
<1>2. CASE p \notin Writers
  <2>1. HashOf[p] \in Nat
    BY <1>2, TxAssumption DEF Producers
  <2> QED BY <1>2, <2>1, QueuesFacts DEF QueueOf, txSocketIdx
<1> QED BY <1>1, <1>2

LEMMA SubmitQueue ==
    ASSUME ProducerTypes, NEW p \in Producers, Submit(p) PROVE QueueOf(p) \in Queues
BY QueueOfType DEF Submit, ProducerTypes, PumpFirst

LEMMA SubmitTypes ==
    ASSUME ProducerTypes, PumpTypes, NEW p \in Producers, Submit(p)
    PROVE  ProducerTypes' /\ PumpTypes'
<1> DEFINE q == QueueOf(p)
<1>1. q \in Queues
  BY SubmitQueue
<1>2. /\ batch' = [batch EXCEPT ![p] = Tail(@)] /\ batch[p] # <<>>
      /\ \/ ch' = [ch EXCEPT ![q] = Append(@, Head(batch[p]))] /\ UNCHANGED drops
         \/ UNCHANGED <<ch, drops>>
         \/ drops' = [drops EXCEPT ![q] = @ + 1] /\ UNCHANGED ch
      /\ \E x \in {"ready", "flush"} : wpc' = [wpc EXCEPT ![p] = x]
      /\ UNCHANGED <<txIdx, pump, hop, sock, next, raw, cold, taken, ppc, kern, sent, wire>>
      /\ wpc[p] = "flush"
  BY DEF Submit
<1> HIDE DEF q
<1>3. Tail(batch[p]) \in Seq(Frames) /\ Head(batch[p]) \in Frames
  BY <1>2, HeadTailProperties DEF ProducerTypes
<1>4. batch' \in [Producers -> Seq(Frames)] /\ wpc' \in [Producers -> WriterAt]
  BY <1>2, <1>3 DEF ProducerTypes
<1>5. /\ \A v \in Writers \ {p} : wpc'[v] = wpc[v] /\ batch'[v] = batch[v]
      /\ wpc'[p] \in {"ready", "flush"}
  BY <1>2 DEF ProducerTypes, Producers
<1>6. InHand' /\ PumpFirst'
  BY <1>2, <1>5 DEF ProducerTypes, InHand, PumpFirst
<1>7. ProducerTypes'
  BY <1>2, <1>4, <1>6 DEF ProducerTypes
<1>8. Append(ch[q], Head(batch[p])) \in Seq(Frames) /\ drops[q] + 1 \in Nat
  BY <1>1, <1>3, AppendProperties DEF PumpTypes
<1>9. ch' \in [Queues -> Seq(Frames)] /\ drops' \in [Queues -> Nat]
  BY <1>1, <1>2, <1>8 DEF PumpTypes
<1> QED BY <1>2, <1>7, <1>9 DEF PumpTypes, TakenInDrain

\* How many of the frames that were taken find a descriptor.
Got(q) == IF TxDescs - kern[q] < Len(taken[q]) THEN TxDescs - kern[q] ELSE Len(taken[q])

LEMMA GotBounds ==
    ASSUME PumpTypes, NEW q \in Queues
    PROVE  /\ Got(q) \in 0..Len(taken[q]) /\ kern[q] + Got(q) \in 0..TxDescs /\ Len(taken[q]) \in Nat
           /\ Len(taken[q]) - Got(q) \in Nat
           /\ FirstOf(taken[q], Got(q)) \in Seq(Frames)
<1>1. kern[q] \in 0..TxDescs /\ Len(taken[q]) \in Nat /\ taken[q] \in Seq(Frames) /\ TxDescs \in Nat
  BY LenProperties, TxAssumption DEF PumpTypes
<1>2. Got(q) \in 0..Len(taken[q]) /\ kern[q] + Got(q) \in 0..TxDescs /\ Len(taken[q]) - Got(q) \in Nat
  BY <1>1 DEF Got
<1>3. \A i \in 1..Got(q) : taken[q][i] \in Frames
  BY <1>1, <1>2, ElementOfSeq
<1>4. FirstOf(taken[q], Got(q)) \in Seq(Frames)
  BY <1>1, <1>2, <1>3, SubSeqProperties DEF FirstOf
<1> QED BY <1>1, <1>2, <1>4

LEMMA PumpStepTypes ==
    ASSUME PumpTypes, NEW q \in Queues, PumpStep(q)
    PROVE  PumpTypes'
<1>1. ASSUME ch[q] # <<>>
      PROVE  /\ <<Head(ch[q])>> \in Seq(Frames) /\ Append(taken[q], Head(ch[q])) \in Seq(Frames)
             /\ Tail(ch[q]) \in Seq(Frames)
  <2>1. Head(ch[q]) \in Frames /\ Tail(ch[q]) \in Seq(Frames)
    BY <1>1, HeadTailProperties DEF PumpTypes
  <2> QED BY <2>1, AppendProperties DEF PumpTypes
<1>2. CASE Block(q)
  <2>1. /\ ch' \in [Queues -> Seq(Frames)] /\ taken' \in [Queues -> Seq(Frames)]
        /\ ppc' \in [Queues -> {"block", "drain", "ended"}]
    <3>1. CASE ch[q] # <<>>
      <4> DEFINE h == <<Head(ch[q])>>
                 u == Tail(ch[q])
      <4>1. h \in Seq(Frames) /\ u \in Seq(Frames)
        BY <1>1, <3>1
      <4>2. /\ \/ ch' = ch /\ taken' = taken
               \/ ch' = [ch EXCEPT ![q] = u] /\ taken' = [taken EXCEPT ![q] = h]
            /\ ppc' = [ppc EXCEPT ![q] = "ended"] \/ ppc' = [ppc EXCEPT ![q] = "drain"]
        <5>1. CASE closed /\ ppc' = [ppc EXCEPT ![q] = "ended"] /\ ch' = ch /\ taken' = taken
          BY <5>1
        <5>2. CASE taken' = [taken EXCEPT ![q] = h] /\ ch' = [ch EXCEPT ![q] = u] /\ ppc' = [ppc EXCEPT ![q] = "drain"]
          BY <5>2
        <5> QED BY <1>2, <5>1, <5>2 DEF Block
      <4> HIDE DEF h, u
      <4>3. /\ ch \in [Queues -> Seq(Frames)] /\ taken \in [Queues -> Seq(Frames)]
            /\ ppc \in [Queues -> {"block", "drain", "ended"}]
        BY DEF PumpTypes
      <4>4. ch' \in [Queues -> Seq(Frames)] /\ taken' \in [Queues -> Seq(Frames)]
        BY <4>1, <4>2, <4>3
      <4>5. ppc' \in [Queues -> {"block", "drain", "ended"}]
        BY <4>2, <4>3
      <4> QED BY <4>4, <4>5
    <3>2. CASE ch[q] = <<>>
      BY <1>2, <3>2 DEF Block, PumpTypes
    <3> QED BY <3>1, <3>2
  <2>2. UNCHANGED <<kern, drops, sent, wire>> /\ TakenInDrain'
    BY <1>2 DEF Block, PumpTypes, TakenInDrain
  <2> QED BY <2>1, <2>2 DEF PumpTypes
<1>3. CASE Drain(q)
  <2>1. ch' \in [Queues -> Seq(Frames)] /\ taken' \in [Queues -> Seq(Frames)]
    BY <1>1, <1>3 DEF Drain, PumpTypes
  <2>2. UNCHANGED <<ppc, kern, drops, sent, wire>> /\ TakenInDrain'
    BY <1>3 DEF Drain, PumpTypes, TakenInDrain
  <2> QED BY <2>1, <2>2 DEF PumpTypes
<1>4. CASE Transmit(q)
  <2> DEFINE s == FirstOf(taken[q], Got(q))
  <2>1. /\ kern' = [kern EXCEPT ![q] = @ + Got(q)]
        /\ sent' = [sent EXCEPT ![q] = @ \o s]
        /\ wire' = wire \o s
        /\ drops' = [drops EXCEPT ![q] = @ + Len(taken[q]) - Got(q)]
        /\ taken' = [taken EXCEPT ![q] = <<>>]
        /\ ppc' = [ppc EXCEPT ![q] = "block"]
        /\ UNCHANGED ch
    BY <1>4 DEF Transmit, Got
  <2>2. s \in Seq(Frames) /\ kern[q] + Got(q) \in 0..TxDescs /\ drops[q] + Len(taken[q]) - Got(q) \in Nat
    BY GotBounds DEF PumpTypes
  <2> HIDE DEF s
  <2>3. sent[q] \o s \in Seq(Frames) /\ wire' \in Seq(Frames)
    BY <2>1, <2>2, ConcatProperties DEF PumpTypes
  <2>4. <<>> \in Seq(Frames)
    OBVIOUS
  <2>5. sent' \in [Queues -> Seq(Frames)] /\ taken' \in [Queues -> Seq(Frames)]
    BY <2>1, <2>3, <2>4 DEF PumpTypes
  <2>6. kern' \in [Queues -> 0..TxDescs] /\ drops' \in [Queues -> Nat]
    BY <2>1, <2>2 DEF PumpTypes
  <2>7. ppc' \in [Queues -> {"block", "drain", "ended"}]
    BY <2>1 DEF PumpTypes
  <2>8. TakenInDrain'
    BY <2>1 DEF PumpTypes, TakenInDrain
  <2> QED BY <2>1, <2>3, <2>5, <2>6, <2>7, <2>8 DEF PumpTypes
<1>5. CASE KernelSends(q)
  <2>1. kern[q] \in 0..TxDescs /\ kern[q] > 0 /\ TxDescs \in Nat
    BY <1>5, TxAssumption DEF KernelSends, PumpTypes
  <2>2. kern[q] - 1 \in 0..TxDescs
    BY <2>1
  <2> QED BY <1>5, <2>2 DEF KernelSends, PumpTypes, TakenInDrain
<1>6. CASE SocketGone(q)
  BY <1>6 DEF SocketGone, PumpTypes, TakenInDrain
<1> QED BY <1>2, <1>3, <1>4, <1>5, <1>6 DEF PumpStep

\* TxInv is inductive.
LEMMA TxInit == ASSUME Init PROVE TxInv
<1>1. NeighInv
  BY DEF Init, NInit, NeighInv, HolderStores, WritersLearn, NeighExact, Off, Learners
<1>2. NTypeOK
  BY NeighboursAssumption DEF Init, NInit, NTypeOK, Empty, Table
<1>3. ProducerTypes
  <2>1. 1 \in 1..MaxFrames + 1 /\ MaxFrames \in Nat
    BY TxAssumption
  <2>2. <<>> \in Seq(Frames)
    OBVIOUS
  <2>3. /\ txIdx \in Nat /\ pump \in [Writers -> Queues \cup {-1}]
        /\ wpc \in [Producers -> WriterAt]
        /\ hop \in [Writers -> Macs \cup {NoMac}]
        /\ sock \in [Writers -> Seq(1..MaxFrames)] /\ raw \in [Writers -> Seq(1..MaxFrames)]
        /\ cold \in [Writers -> SUBSET (1..MaxFrames)]
    BY DEF Init
  <2>4. batch \in [Producers -> Seq(Frames)] /\ next \in [Producers -> 1..MaxFrames + 1]
    BY <2>1, <2>2 DEF Init
  <2>5. InHand /\ PumpFirst
    BY DEF Init, InHand, PumpFirst, Producers
  <2> QED BY <2>3, <2>4, <2>5 DEF ProducerTypes
<1>4. PumpTypes
  BY TxAssumption DEF Init, PumpTypes, TakenInDrain
<1> QED BY <1>1, <1>2, <1>3, <1>4, TypeParts DEF TxInv, Init

LEMMA TxStep == ASSUME TxInv, [Next]_vars PROVE TxInv'
<1>1. NeighInv'
  BY NeighStep DEF TxInv
<1>2. NTypeOK /\ ProducerTypes /\ PumpTypes /\ closed \in BOOLEAN /\ open \in BOOLEAN
  BY TypeParts DEF TxInv
<1> DEFINE Kept == NTypeOK' /\ ProducerTypes' /\ PumpTypes' /\ closed' \in BOOLEAN /\ open' \in BOOLEAN
<1>n. (UNCHANGED nvars) => NTypeOK'
  BY <1>2 DEF nvars, NTypeOK
<1>p. (UNCHANGED producers) => ProducerTypes'
  BY <1>2 DEF producers, ProducerTypes, InHand, PumpFirst
<1>q. (UNCHANGED pumps) => PumpTypes'
  BY <1>2 DEF pumps, PumpTypes, TakenInDrain
<1>3. ASSUME NNext, UNCHANGED <<producers, pumps, closed, open>> PROVE Kept
  BY <1>2, <1>3, <1>p, <1>q, NeighTypes
<1>4. ASSUME NEW c \in QuicConns, NEW n \in Nat, WriteBatch(c, n) PROVE Kept
  <2>1. ProducerTypes'
    BY <1>2, <1>4, WriteBatchTypes
  <2> QED BY <1>2, <1>4, <1>n, <1>q, <2>1 DEF WriteBatch
<1>5. ASSUME NEW w \in Writers, WriterStep(w) PROVE Kept
  <2>1. NTypeOK' /\ ProducerTypes'
    BY <1>2, <1>5, WriterTypes
  <2>2. UNCHANGED pumps /\ UNCHANGED closed /\ UNCHANGED open
    BY <1>5 DEF WriterStep, ForwardPump, Lookup, LookupArp, Learned, Flush, SockFlush
  <2> QED BY <1>2, <1>q, <2>1, <2>2
<1>6. ASSUME NEW p \in Producers, Submit(p) PROVE Kept
  <2>1. UNCHANGED nvars /\ UNCHANGED closed /\ UNCHANGED open
    BY <1>6 DEF Submit
  <2> QED BY <1>2, <1>6, <1>n, <2>1, SubmitTypes
<1>7. ASSUME NEW q \in Queues, PumpStep(q) PROVE Kept
  <2>1. UNCHANGED nvars /\ UNCHANGED producers /\ UNCHANGED closed /\ UNCHANGED open
    BY <1>7 DEF PumpStep, Block, Drain, Transmit, KernelSends, SocketGone
  <2> QED BY <1>2, <1>7, <1>n, <1>p, <2>1, PumpStepTypes
<1>8. ASSUME Close \/ CloseSockets PROVE Kept
  BY <1>2, <1>8, <1>n, <1>p, <1>q DEF Close, CloseSockets
<1>9. ASSUME UNCHANGED vars PROVE Kept
  BY <1>2, <1>9, <1>n, <1>p, <1>q DEF vars
<1>10. Kept
  <2>1. \A n \in 2..MaxFrames : n \in Nat
    OBVIOUS
  <2> QED BY <1>3, <1>4, <1>5, <1>6, <1>7, <1>8, <1>9, <2>1 DEF Next, WriteTo, NNext, WriterStep, PumpStep
<1>11. (TypeOK /\ InHand /\ PumpFirst /\ TakenInDrain)'
  <2>1. (NTypeOK /\ ProducerTypes /\ PumpTypes /\ closed \in BOOLEAN /\ open \in BOOLEAN)'
          => (TypeOK /\ InHand /\ PumpFirst /\ TakenInDrain)'
    BY DEF TypeOK, ProducerTypes, PumpTypes
  <2> QED BY <1>10, <2>1
<1> QED BY <1>1, <1>11 DEF TxInv

\* The types hold whatever the numbers of producers, queues and frames: in particular a
\* pump never has more than its UMEM's descriptors with the kernel (GetDescs), a writer
\* submits to a queue there is, and no counter goes below zero.
THEOREM TypesHold == Spec => []TypeOK
<1>1. TxInv => TypeOK
  BY DEF TxInv
<1> QED BY <1>1, TxInit, TxStep, PTL DEF Spec
-----------------------------------------------------------------------------
(***************************************************************************)
(* Each pump is a FIFO.                                                    *)
(***************************************************************************)

\* The first item of one sequence moved to the end of the sequence before it.
LEMMA MoveHead ==
    ASSUME NEW S, NEW s \in Seq(S), NEW t \in Seq(S), t # <<>>
    PROVE  Append(s, Head(t)) \o Tail(t) = s \o t
<1>1. Head(t) \in S /\ Tail(t) \in Seq(S) /\ Len(Tail(t)) = Len(t) - 1 /\ \A i \in 1..Len(Tail(t)) : Tail(t)[i] = t[i + 1]
  BY HeadTailProperties
<1>2. Head(t) = t[1] /\ Len(t) \in Nat \ {0} /\ Len(s) \in Nat
  BY EmptySeq, LenProperties
<1> DEFINE a == Append(s, Head(t))
           u == Tail(t)
           l == a \o u
           r == s \o t
<1>3. a \in Seq(S) /\ Len(a) = Len(s) + 1 /\ (\A i \in 1..Len(s) : a[i] = s[i]) /\ a[Len(s) + 1] = t[1]
  BY <1>1, <1>2, AppendProperties
<1> HIDE DEF a
<1>4. u \in Seq(S) /\ Len(u) = Len(t) - 1 /\ \A i \in 1..Len(u) : u[i] = t[i + 1]
  BY <1>1
<1> HIDE DEF u
<1>5. l \in Seq(S) /\ Len(l) = Len(a) + Len(u) /\ \A i \in 1..Len(a) + Len(u) : l[i] = IF i <= Len(a) THEN a[i] ELSE u[i - Len(a)]
  BY <1>3, <1>4, ConcatProperties
<1>6. r \in Seq(S) /\ Len(r) = Len(s) + Len(t) /\ \A i \in 1..Len(s) + Len(t) : r[i] = IF i <= Len(s) THEN s[i] ELSE t[i - Len(s)]
  BY ConcatProperties
<1> HIDE DEF l, r
<1>7. Len(l) = Len(r)
  BY <1>2, <1>3, <1>4, <1>5, <1>6
<1>8. ASSUME NEW i \in 1..Len(l) PROVE l[i] = r[i]
  <2>0. i \in 1..Len(a) + Len(u) /\ i \in 1..Len(s) + Len(t)
    BY <1>5, <1>6, <1>7
  <2>1. CASE i <= Len(s)
    BY <1>2, <1>3, <1>5, <1>6, <2>0, <2>1
  <2>2. CASE i = Len(s) + 1
    <3>1. i <= Len(a) /\ ~(i <= Len(s)) /\ i - Len(s) = 1
      BY <1>2, <1>3, <2>2
    <3> QED BY <1>3, <1>5, <1>6, <2>0, <2>2, <3>1
  <2>3. CASE i > Len(s) + 1
    <3>1. ~(i <= Len(a)) /\ ~(i <= Len(s)) /\ i - Len(a) \in 1..Len(u) /\ i - Len(a) + 1 = i - Len(s)
      BY <1>2, <1>3, <1>4, <2>0, <2>3
    <3>2. u[i - Len(a)] = t[i - Len(s)]
      BY <1>4, <3>1
    <3> QED BY <1>5, <1>6, <2>0, <3>1, <3>2
  <2> QED BY <1>2, <2>1, <2>2, <2>3
<1>9. l = r
  BY <1>5, <1>6, <1>7, <1>8, SeqEqual
<1> QED BY <1>9 DEF l, r, a, u

LEMMA AppendToConcat ==
    \A s, t \in Seq(Frames), x \in Frames : Append(s \o t, x) = s \o Append(t, x)
<1> SUFFICES ASSUME NEW s \in Seq(Frames), NEW t \in Seq(Frames), NEW x \in Frames
             PROVE  Append(s \o t, x) = s \o Append(t, x)
  OBVIOUS
<1>1. <<x>> \in Seq(Frames) /\ s \o t \in Seq(Frames)
  BY ConcatProperties
<1>2. Append(s \o t, x) = (s \o t) \o <<x>> /\ Append(t, x) = t \o <<x>>
  BY <1>1, AppendIsConcat
<1> QED BY <1>1, <1>2, ConcatAssociative

\* The two parts of a concatenation, cut out of it.
LEMMA CutConcat ==
    ASSUME NEW S, NEW s \in Seq(S), NEW t \in Seq(S), NEW k \in 0..Len(s)
    PROVE  /\ SubSeq(s \o t, 1, k) = SubSeq(s, 1, k)
           /\ SubSeq(s \o t, Len(s) + 1, Len(s \o t)) = t
<1>1. Len(s) \in Nat /\ Len(t) \in Nat /\ s \o t \in Seq(S) /\ Len(s \o t) = Len(s) + Len(t)
  BY LenProperties, ConcatProperties
<1>2. SubSeq(s \o t, 1, k) = SubSeq(s, 1, k)
  <2>1. CASE k = 0
    <3>1. \A z : SubSeq(z, 1, k) = <<>>
      BY <2>1, SubSeqEmpty
    <3> QED BY <3>1
  <2>2. CASE k # 0
    <3>1. 1 \in 1..Len(s) /\ k \in 1..Len(s)
      BY <1>1, <2>2
    <3> QED BY <3>1, SubSeqOfConcat1
  <2> QED BY <2>1, <2>2
<1>3. SubSeq(s \o t, Len(s) + 1, Len(s \o t)) = t
  <2>1. CASE Len(t) = 0
    <3>1. Len(s \o t) < Len(s) + 1 /\ t = <<>> /\ Len(s \o t) \in Int /\ Len(s) + 1 \in Int
      BY <1>1, <2>1, EmptySeq
    <3> QED BY <3>1, SubSeqEmpty
  <2>2. CASE Len(t) # 0
    <3>1. Len(s) + 1 \in Len(s) + 1..Len(s) + Len(t) /\ Len(s) + Len(t) \in Len(s) + 1..Len(s) + Len(t)
      BY <1>1, <2>2
    <3>2. SubSeq(s \o t, Len(s) + 1, Len(s) + Len(t)) = SubSeq(t, Len(s) + 1 - Len(s), Len(s) + Len(t) - Len(s))
      BY <3>1, SubSeqOfConcat2
    <3>3. Len(s) + 1 - Len(s) = 1 /\ Len(s) + Len(t) - Len(s) = Len(t)
      BY <1>1
    <3> QED BY <1>1, <3>2, <3>3, SubSeqFull
  <2> QED BY <2>1, <2>2
<1> QED BY <1>2, <1>3

FifoStep(q) == [Fifo(q)!Next]_(Fifo(q)!fifo)

\* A step that leaves the sequence of a queue's frames alone.
LEMMA PumpStutter ==
    ASSUME NEW q \in Queues, (taken[q] \o ch[q])' = taken[q] \o ch[q],
           sent'[q] = sent[q], drops'[q] = drops[q]
    PROVE  FifoStep(q)
BY DEF FifoStep, Fifo!fifo

\* Submit: the frame is accepted, silently discarded after Close, or counted.
LEMMA SubmitFifo ==
    ASSUME TxInv, NEW p \in Producers, Submit(p), NEW q \in Queues
    PROVE  FifoStep(q)
<1> DEFINE r == QueueOf(p)
           x == Head(batch[p])
<1>0. ProducerTypes /\ PumpTypes
  BY TypeParts DEF TxInv
<1>1. r \in Queues /\ x \in Frames
  <2>1. batch[p] \in Seq(Frames) /\ batch[p] # <<>>
    BY <1>0 DEF Submit, ProducerTypes
  <2> QED BY <1>0, <2>1, SubmitQueue, HeadTailProperties
<1>2. /\ UNCHANGED <<taken, sent>>
      /\ \/ ch' = [ch EXCEPT ![r] = Append(@, x)] /\ UNCHANGED drops
         \/ UNCHANGED <<ch, drops>>
         \/ drops' = [drops EXCEPT ![r] = @ + 1] /\ UNCHANGED ch
  BY DEF Submit
<1> HIDE DEF r, x
<1>3. CASE q # r
  BY <1>0, <1>1, <1>2, <1>3, PumpStutter DEF PumpTypes
<1>4. CASE q = r /\ UNCHANGED <<ch, drops>>
  BY <1>2, <1>4, PumpStutter
<1>5. CASE q = r /\ ch' = [ch EXCEPT ![r] = Append(@, x)] /\ UNCHANGED drops
  <2>1. ch'[q] = Append(ch[q], x)
    BY <1>0, <1>5 DEF PumpTypes
  <2>2. Append(taken[q] \o ch[q], x) = taken[q] \o Append(ch[q], x)
    <3>1. taken[q] \in Seq(Frames) /\ ch[q] \in Seq(Frames) /\ x \in Frames
      BY <1>0, <1>1 DEF PumpTypes
    <3> QED BY <3>1, AppendToConcat, Zenon
  <2>3. Fifo(q)!Accept(x)
    BY <1>2, <1>5, <2>1, <2>2 DEF Fifo!Accept
  <2> QED BY <1>1, <2>3 DEF FifoStep, Fifo!Next
<1>6. CASE q = r /\ drops' = [drops EXCEPT ![r] = @ + 1] /\ UNCHANGED ch
  <2>1. drops'[q] = drops[q] + 1
    BY <1>0, <1>6 DEF PumpTypes
  <2>2. Fifo(q)!Refuse
    BY <1>2, <1>6, <2>1 DEF Fifo!Refuse
  <2> QED BY <2>2 DEF FifoStep, Fifo!Next
<1> QED BY <1>2, <1>3, <1>4, <1>5, <1>6

\* The pump: taking a frame off the channel moves it within the queue; Transmit serves.
LEMMA PumpFifo ==
    ASSUME TxInv, NEW r \in Queues, PumpStep(r), NEW q \in Queues
    PROVE  FifoStep(q)
<1>0. PumpTypes
  BY TypeParts DEF TxInv
<1>1. taken[r] \in Seq(Frames) /\ ch[r] \in Seq(Frames)
  BY <1>0 DEF PumpTypes
<1>2. CASE q # r
  <2>1. ch'[q] = ch[q] /\ taken'[q] = taken[q] /\ sent'[q] = sent[q] /\ drops'[q] = drops[q]
    BY <1>0, <1>2 DEF PumpStep, Block, Drain, Transmit, KernelSends, SocketGone, PumpTypes
  <2> QED BY <2>1, PumpStutter
<1>3. CASE q = r /\ Block(r)
  <2>1. taken[r] = <<>>
    BY <1>0, <1>3 DEF Block, PumpTypes, TakenInDrain
  <2>2. CASE UNCHANGED <<ch, taken>>
    BY <1>3, <2>2, PumpStutter DEF Block
  <2>3. CASE ch[r] # <<>> /\ taken' = [taken EXCEPT ![r] = <<Head(ch[r])>>] /\ ch' = [ch EXCEPT ![r] = Tail(@)]
    <3>1. Append(<<>>, Head(ch[r])) = <<Head(ch[r])>>
      OBVIOUS
    <3>2. taken'[r] = Append(taken[r], Head(ch[r])) /\ ch'[r] = Tail(ch[r])
      BY <1>0, <2>1, <2>3, <3>1 DEF PumpTypes
    <3>3. Append(taken[r], Head(ch[r])) \o Tail(ch[r]) = taken[r] \o ch[r]
      BY <1>1, <2>3, MoveHead
    <3> QED BY <1>3, <3>2, <3>3, PumpStutter DEF Block
  <2> QED BY <1>3, <2>2, <2>3 DEF Block
<1>4. CASE q = r /\ Drain(r)
  <2>1. taken'[r] = Append(taken[r], Head(ch[r])) /\ ch'[r] = Tail(ch[r]) /\ ch[r] # <<>>
    BY <1>0, <1>4 DEF Drain, PumpTypes
  <2>2. Append(taken[r], Head(ch[r])) \o Tail(ch[r]) = taken[r] \o ch[r]
    BY <1>1, <2>1, MoveHead
  <2> QED BY <1>4, <2>1, <2>2, PumpStutter DEF Drain
<1>5. CASE q = r /\ Transmit(r)
  <2> DEFINE k == Got(q)
             d == Len(taken[q]) - k
             s == taken[q] \o ch[q]
  <2>1. /\ sent'[q] = sent[q] \o FirstOf(taken[q], k) /\ drops'[q] = drops[q] + Len(taken[q]) - k
        /\ taken'[q] = <<>> /\ ch'[q] = ch[q]
    BY <1>0, <1>5 DEF Transmit, Got, PumpTypes
  <2>2. k \in 0..Len(taken[q]) /\ d \in Nat /\ Len(taken[q]) \in Nat /\ drops[q] \in Nat
    BY <1>0, GotBounds DEF PumpTypes
  <2>3. Len(s) = Len(taken[q]) + Len(ch[q]) /\ Len(ch[q]) \in Nat
    BY <1>1, <1>5, ConcatProperties, LenProperties
  <2>4. SubSeq(s, 1, k) = SubSeq(taken[q], 1, k) /\ SubSeq(s, Len(taken[q]) + 1, Len(s)) = ch[q]
    <3>1. k \in 0..Len(taken[q]) /\ taken[q] \in Seq(Frames) /\ ch[q] \in Seq(Frames)
      BY <1>1, <1>5, <2>2
    <3> HIDE DEF k
    <3> QED BY <3>1, CutConcat
  <2>5. taken'[q] \o ch'[q] = ch[q]
    BY <1>1, <1>5, <2>1, ConcatEmptySeq
  <2>6. k + d = Len(taken[q]) /\ drops'[q] = drops[q] + d
    <3> HIDE DEF k
    <3> QED BY <2>1, <2>2
  <2>7. k \in 0..Len(s) /\ d \in 0..Len(s) /\ k + d <= Len(s)
    <3>1. k \in 0..Len(taken[q]) /\ Len(taken[q]) \in Nat /\ Len(ch[q]) \in Nat /\ Len(s) = Len(taken[q]) + Len(ch[q])
      BY <2>2, <2>3
    <3> DEFINE n == Len(taken[q])
               m == Len(ch[q])
               z == Len(s)
    <3> HIDE DEF k, s, n, m, z
    <3>2. k \in 0..n /\ n \in Nat /\ m \in Nat /\ z = n + m
      BY <3>1 DEF n, m, z
    <3>3. k \in 0..z /\ n - k \in 0..z /\ k + (n - k) <= z
      BY <3>2
    <3> QED BY <3>3 DEF n, z
  <2>8. Fifo(q)!Serve(k, d)
    <3>1. (taken[q] \o ch[q])' = SubSeq(s, k + d + 1, Len(s))
      BY <2>4, <2>5, <2>6
    <3>2. sent'[q] = sent[q] \o SubSeq(s, 1, k)
      BY <2>1, <2>4 DEF FirstOf
    <3> HIDE DEF k, d
    <3> QED BY <2>6, <2>7, <3>1, <3>2 DEF Fifo!Serve
  <2> HIDE DEF k, d
  <2> QED BY <2>7, <2>8 DEF FifoStep, Fifo!Next
<1>6. CASE q = r /\ (KernelSends(r) \/ SocketGone(r))
  BY <1>6, PumpStutter DEF KernelSends, SocketGone
<1> QED BY <1>2, <1>3, <1>4, <1>5, <1>6 DEF PumpStep

LEMMA TxFifoStep == ASSUME TxInv, [Next]_vars PROVE \A q \in Queues : FifoStep(q)
<1> SUFFICES ASSUME NEW q \in Queues PROVE FifoStep(q)
  OBVIOUS
<1>1. ASSUME UNCHANGED <<ch, taken, sent, drops>> PROVE FifoStep(q)
  BY <1>1, PumpStutter
<1>2. ASSUME NEW c \in QuicConns, NEW n, WriteBatch(c, n) PROVE FifoStep(q)
  BY <1>1, <1>2 DEF WriteBatch, pumps
<1>3. ASSUME NEW w \in Writers, WriterStep(w) PROVE FifoStep(q)
  BY <1>1, <1>3 DEF WriterStep, ForwardPump, Lookup, LookupArp, Learned, Flush, SockFlush, pumps
<1>4. ASSUME NEW p \in Producers, Submit(p) PROVE FifoStep(q)
  BY <1>4, SubmitFifo
<1>5. ASSUME NEW r \in Queues, PumpStep(r) PROVE FifoStep(q)
  BY <1>5, PumpFifo
<1>6. CASE (NNext /\ UNCHANGED <<producers, pumps, closed, open>>) \/ Close \/ CloseSockets \/ UNCHANGED vars
  BY <1>1, <1>6 DEF Close, CloseSockets, pumps, vars
<1> QED BY <1>2, <1>3, <1>4, <1>5, <1>6 DEF Next, WriteTo, NNext, WriterStep, PumpStep

\* Each pump implements the lossy FIFO (Submit, run, the descriptors it gets): whatever
\* the batch sizes and wherever descriptors run out, the frames a queue accepted reach its
\* ring in order and once, or are counted.
THEOREM PumpsAreFifos == Spec => PumpIsFifo
<1>1. Init => \A q \in Queues : Fifo(q)!Init
  <2> SUFFICES ASSUME Init, NEW q \in Queues PROVE Fifo(q)!Init
    OBVIOUS
  <2>1. <<>> \o <<>> = <<>>
    OBVIOUS
  <2> QED BY <2>1 DEF Init, Fifo!Init
<1>2. TxInv /\ [Next]_vars => [\A q \in Queues : [Fifo(q)!Next]_(Fifo(q)!fifo)]_vars
  BY TxFifoStep DEF FifoStep
<1> QED BY <1>1, <1>2, TxInit, TxStep, PTL DEF Spec, PumpIsFifo
-----------------------------------------------------------------------------
(***************************************************************************)
(* The order of a flow, from the producer's batch to the wire.             *)
(*                                                                         *)
(* FlowOrder speaks of the wire only.  Inductive is the order of all the   *)
(* places a frame passes: the wire is before the frames a pump has taken,  *)
(* those before its channel, that before the batches, each in itself in    *)
(* order, and a producer's frames are with one pump.  What takes the raw   *)
(* socket is numbered apart from all of these.                             *)
(***************************************************************************)

\* S comes before T in every flow.
Before(S, T) == \A f \in S, g \in T : f.from = g.from => f.num < g.num

Ordered(s) == \A i, j \in DOMAIN s : i < j /\ s[i].from = s[j].from => s[i].num < s[j].num

PlacesOrdered ==
    /\ Ordered(wire) /\ \A p \in Producers : Ordered(batch[p])
    /\ \A q \in Queues : Ordered(taken[q]) /\ Ordered(ch[q])

PumpOrder ==
    \A q \in Queues :
        /\ Before(Range(wire), Range(taken[q]) \cup Range(ch[q]))
        /\ Before(Range(taken[q]), Range(ch[q]))

BatchesLast ==
    \A p \in Producers :
        /\ Before(Range(wire), Range(batch[p]))
        /\ \A q \in Queues : Before(Range(taken[q]) \cup Range(ch[q]), Range(batch[p]))

\* A producer's frames are with its own queue's pump and in its own batch.
OwnPlaces ==
    /\ \A q \in Queues : \A f \in Range(taken[q]) \cup Range(ch[q]) : QueueOf(f.from) = q
    /\ \A p \in Producers : \A f \in Range(batch[p]) : f.from = p

InFlight ==
    {f \in Frames :
        \/ f \in Range(wire)
        \/ \E q \in Queues : f \in Range(taken[q]) \cup Range(ch[q])
        \/ \E p \in Producers : f \in Range(batch[p])}

\* A frame's number is past, and a writer that built one knows its next hop for good.
Numbered == \A f \in InFlight : f.num < next[f.from]

OnFastPath ==
    \A f \in InFlight : f.from \in Writers =>
        /\ neigh[PeerOf[f.from]] # NoMac /\ wpc[f.from] # "arp"
        /\ \A k \in cold[f.from] : k < f.num

KernelNumbered == \A w \in Writers : \A k \in cold[w] : k < next[w]

\* So are the packets of the raw socket: each has a number that is past and no frame has, and
\* its writer knows the next hop.
AroundInv ==
    \A w \in Writers : \A n \in Around(w) :
        /\ n < next[w] /\ neigh[PeerOf[w]] # NoMac /\ wpc[w] # "arp"
        /\ \A k \in cold[w] : k < n
        /\ \A f \in InFlight : f.from = w => f.num # n

\* The socket's batch comes after what the socket has sent.
SockOrder ==
    \A w \in Writers :
        /\ Climbs(raw[w]) /\ Climbs(sock[w])
        /\ \A m \in Range(raw[w]), n \in Range(sock[w]) : m < n

\* The call of learnNeighbour in LanNextHopMAC is about the peer, and leaves an entry.
LearnsPeer ==
    \A w \in Writers : wpc[w] = "learn" =>
        IF lrn[w] = Off THEN neigh[PeerOf[w]] # NoMac ELSE lrn[w].addr = PeerOf[w]

OrderInv == PlacesOrdered /\ PumpOrder /\ BatchesLast /\ OwnPlaces
WayInv == Numbered /\ OnFastPath /\ KernelNumbered /\ AroundInv
PathInv == WayInv /\ LearnsPeer

\* What the sequence operations do to the order.
LEMMA OrderedEmpty == Ordered(<<>>) /\ Range(<<>>) = {}
<1>1. DOMAIN <<>> = {}
  OBVIOUS
<1> QED BY <1>1 DEF Ordered, Range

LEMMA OrderedAppend ==
    ASSUME NEW s \in Seq(Frames), NEW x \in Frames
    PROVE  /\ Range(Append(s, x)) = Range(s) \cup {x}
           /\ Ordered(s) /\ Before(Range(s), {x}) => Ordered(Append(s, x))
<1> DEFINE a == Append(s, x)
<1>1. Len(s) \in Nat /\ DOMAIN s = 1..Len(s)
  BY LenProperties
<1>2. a \in Seq(Frames) /\ Len(a) = Len(s) + 1 /\ (\A i \in 1..Len(s) : a[i] = s[i]) /\ a[Len(s) + 1] = x
  BY AppendProperties
<1>3. DOMAIN a = 1..Len(s) + 1
  BY <1>2, LenProperties
<1> HIDE DEF a
<1>4. Range(a) = Range(s) \cup {x}
  <2>1. \A i \in DOMAIN a : a[i] \in Range(s) \cup {x}
    BY <1>1, <1>2, <1>3 DEF Range
  <2>2. \A i \in DOMAIN s : i \in DOMAIN a /\ s[i] = a[i]
    BY <1>1, <1>2, <1>3
  <2>3. Len(s) + 1 \in DOMAIN a
    BY <1>1, <1>3
  <2> QED BY <1>2, <2>1, <2>2, <2>3 DEF Range
<1>5. ASSUME Ordered(s), Before(Range(s), {x}), NEW i \in DOMAIN a, NEW j \in DOMAIN a, i < j, a[i].from = a[j].from
      PROVE  a[i].num < a[j].num
  <2>1. i \in 1..Len(s) /\ a[i] = s[i] /\ s[i] \in Range(s)
    BY <1>1, <1>2, <1>3, <1>5 DEF Range
  <2>2. CASE j \in 1..Len(s)
    BY <1>1, <1>2, <1>5, <2>1, <2>2 DEF Ordered
  <2>3. CASE j = Len(s) + 1
    BY <1>2, <1>5, <2>1, <2>3 DEF Before
  <2> QED BY <1>1, <1>3, <2>2, <2>3
<1>6. Ordered(s) /\ Before(Range(s), {x}) => Ordered(a)
  BY <1>5 DEF Ordered
<1> QED BY <1>4, <1>6 DEF a

LEMMA OrderedTail ==
    ASSUME NEW s \in Seq(Frames), s # <<>>
    PROVE  /\ Head(s) \in Range(s) /\ Head(s) \in Frames
           /\ Range(Tail(s)) \subseteq Range(s) /\ Tail(s) \in Seq(Frames)
           /\ Ordered(s) => Ordered(Tail(s)) /\ Before({Head(s)}, Range(Tail(s)))
<1> DEFINE t == Tail(s)
           h == Head(s)
<1>1. Len(s) \in Nat \ {0} /\ DOMAIN s = 1..Len(s)
  BY LenProperties, EmptySeq
<1>2. t \in Seq(Frames) /\ Len(t) = Len(s) - 1 /\ (\A i \in 1..Len(t) : t[i] = s[i + 1]) /\ h \in Frames
  BY HeadTailProperties
<1>3. h = s[1]
  OBVIOUS
<1>4. DOMAIN t = 1..Len(s) - 1
  BY <1>2, LenProperties
<1> HIDE DEF t, h
<1>5. \A i \in DOMAIN t : i + 1 \in DOMAIN s /\ t[i] = s[i + 1] /\ 1 < i + 1
  BY <1>1, <1>2, <1>4
<1>6. 1 \in DOMAIN s
  BY <1>1
<1>7. h \in Range(s) /\ Range(t) \subseteq Range(s)
  BY <1>3, <1>5, <1>6 DEF Range
<1>8. ASSUME Ordered(s) PROVE Ordered(t)
  <2>1. \A i, j \in DOMAIN t : i < j => i + 1 < j + 1
    BY <1>1, <1>4
  <2> QED BY <1>5, <1>8, <2>1 DEF Ordered
<1>9. ASSUME Ordered(s) PROVE Before({h}, Range(t))
  BY <1>3, <1>5, <1>6, <1>9 DEF Ordered, Before, Range
<1> QED BY <1>2, <1>7, <1>8, <1>9 DEF t, h

LEMMA OrderedFirst ==
    ASSUME NEW s \in Seq(Frames), NEW k \in 0..Len(s)
    PROVE  /\ FirstOf(s, k) \in Seq(Frames) /\ Range(FirstOf(s, k)) \subseteq Range(s)
           /\ Ordered(s) => Ordered(FirstOf(s, k))
<1> DEFINE t == SubSeq(s, 1, k)
<1>1. Len(s) \in Nat /\ DOMAIN s = 1..Len(s) /\ \A i \in 1..Len(s) : s[i] \in Frames
  BY LenProperties, ElementOfSeq
<1>2. k \in Int /\ 1 \in Int /\ \A i \in 1..k : s[i] \in Frames
  BY <1>1
<1>3. t \in Seq(Frames) /\ Len(t) = (IF 1 <= k THEN k - 1 + 1 ELSE 0) /\ \A i \in 1..k - 1 + 1 : t[i] = s[1 + i - 1]
  BY <1>2, SubSeqProperties
<1>4. DOMAIN t = 1..Len(t)
  BY <1>3, LenProperties
<1> HIDE DEF t
<1>5. \A i \in DOMAIN t : i \in DOMAIN s /\ t[i] = s[i]
  BY <1>1, <1>3, <1>4
<1>6. Range(t) \subseteq Range(s) /\ (Ordered(s) => Ordered(t))
  BY <1>5 DEF Range, Ordered
<1> QED BY <1>3, <1>6 DEF t, FirstOf

LEMMA OrderedConcat ==
    ASSUME NEW s \in Seq(Frames), NEW t \in Seq(Frames), Ordered(s), Ordered(t), Before(Range(s), Range(t))
    PROVE  Ordered(s \o t)
<1> DEFINE u == s \o t
<1>1. Len(s) \in Nat /\ Len(t) \in Nat /\ DOMAIN s = 1..Len(s) /\ DOMAIN t = 1..Len(t)
  BY LenProperties
<1>2. u \in Seq(Frames) /\ Len(u) = Len(s) + Len(t)
      /\ \A i \in 1..Len(s) + Len(t) : u[i] = IF i <= Len(s) THEN s[i] ELSE t[i - Len(s)]
  BY ConcatProperties
<1>3. DOMAIN u = 1..Len(s) + Len(t)
  BY <1>2, LenProperties
<1> HIDE DEF u
<1>4. SUFFICES ASSUME NEW i \in DOMAIN u, NEW j \in DOMAIN u, i < j, u[i].from = u[j].from
               PROVE  u[i].num < u[j].num
  BY DEF Ordered, u
<1>5. CASE j <= Len(s)
  <2>1. i \in DOMAIN s /\ j \in DOMAIN s /\ u[i] = s[i] /\ u[j] = s[j]
    BY <1>1, <1>2, <1>3, <1>4, <1>5
  <2> QED BY <1>4, <2>1 DEF Ordered
<1>6. CASE i > Len(s)
  <2>1. i - Len(s) \in DOMAIN t /\ j - Len(s) \in DOMAIN t /\ u[i] = t[i - Len(s)] /\ u[j] = t[j - Len(s)]
        /\ i - Len(s) < j - Len(s)
    BY <1>1, <1>2, <1>3, <1>4, <1>6
  <2> QED BY <1>4, <2>1 DEF Ordered
<1>7. CASE i <= Len(s) /\ j > Len(s)
  <2>1. i \in DOMAIN s /\ j - Len(s) \in DOMAIN t /\ u[i] = s[i] /\ u[j] = t[j - Len(s)]
    BY <1>1, <1>2, <1>3, <1>4, <1>7
  <2>2. u[i] \in Range(s) /\ u[j] \in Range(t)
    BY <2>1 DEF Range
  <2> QED BY <1>4, <2>2 DEF Before
<1> QED BY <1>1, <1>3, <1>5, <1>6, <1>7

\* Submit: the frame goes from the head of the batch to the end of the channel, or nowhere.
LEMMA SubmitOrder ==
    ASSUME TxInv, OrderInv, NEW p \in Producers, Submit(p)
    PROVE  OrderInv' /\ InFlight' \subseteq InFlight
<1> DEFINE r == QueueOf(p)
           h == Head(batch[p])
<1>0. ProducerTypes /\ PumpTypes
  BY TypeParts DEF TxInv
<1>1. r \in Queues
  BY <1>0, SubmitQueue
<1>2. batch[p] \in Seq(Frames) /\ batch[p] # <<>> /\ Ordered(batch[p])
  BY <1>0 DEF Submit, ProducerTypes, OrderInv, PlacesOrdered
<1>3. /\ h \in Range(batch[p]) /\ h \in Frames /\ Range(Tail(batch[p])) \subseteq Range(batch[p])
      /\ Ordered(Tail(batch[p])) /\ Before({h}, Range(Tail(batch[p])))
  BY <1>2, OrderedTail
<1>4. /\ UNCHANGED <<taken, wire, pump>>
      /\ batch' = [batch EXCEPT ![p] = Tail(@)]
      /\ (ch' = [ch EXCEPT ![r] = Append(@, h)]) \/ UNCHANGED ch
  BY DEF Submit
<1>5. h.from = p
  BY <1>3 DEF OrderInv, OwnPlaces
<1> HIDE DEF r, h
<1>6. /\ batch'[p] = Tail(batch[p]) /\ \A o \in Producers \ {p} : batch'[o] = batch[o]
      /\ \A o \in Producers : Ordered(batch'[o]) /\ Range(batch'[o]) \subseteq Range(batch[o])
  BY <1>0, <1>3, <1>4 DEF ProducerTypes, OrderInv, PlacesOrdered
<1>7. \A q \in Queues :
        /\ Ordered(ch'[q]) /\ Range(ch[q]) \subseteq Range(ch'[q])
        /\ \A f \in Range(ch'[q]) : f \in Range(ch[q]) \/ (f = h /\ q = r)
  <2>1. CASE UNCHANGED ch
    BY <2>1 DEF OrderInv, PlacesOrdered
  <2>2. CASE ch' = [ch EXCEPT ![r] = Append(@, h)]
    <3>1. ch[r] \in Seq(Frames) /\ Ordered(ch[r])
      BY <1>0, <1>1 DEF PumpTypes, OrderInv, PlacesOrdered
    <3>2. Before(Range(ch[r]), {h})
      BY <1>1, <1>3 DEF OrderInv, BatchesLast, Before
    <3>3. Range(Append(ch[r], h)) = Range(ch[r]) \cup {h} /\ Ordered(Append(ch[r], h))
      BY <1>3, <3>1, <3>2, OrderedAppend
    <3>4. ch'[r] = Append(ch[r], h) /\ \A q \in Queues \ {r} : ch'[q] = ch[q]
      BY <1>0, <1>1, <2>2 DEF PumpTypes
    <3> QED BY <3>3, <3>4 DEF OrderInv, PlacesOrdered
  <2> QED BY <1>4, <2>1, <2>2
<1>8. PlacesOrdered'
  BY <1>4, <1>6, <1>7 DEF OrderInv, PlacesOrdered
<1>9. PumpOrder'
  BY <1>3, <1>4, <1>7 DEF OrderInv, PumpOrder, BatchesLast, Before
<1>10. OwnPlaces'
  <2>1. \A q \in Queues : \A f \in Range(taken[q]) \cup Range(ch'[q]) : QueueOf(f.from) = q
    BY <1>5, <1>7 DEF OrderInv, OwnPlaces, r
  <2>2. \A o \in Producers : \A f \in Range(batch'[o]) : f.from = o
    BY <1>6 DEF OrderInv, OwnPlaces
  <2>3. \A f : QueueOf(f)' = QueueOf(f)
    BY <1>4 DEF QueueOf, txSocketIdx
  <2> QED BY <1>4, <2>1, <2>2, <2>3 DEF OwnPlaces
<1>11. BatchesLast'
  <2>1. ASSUME NEW o \in Producers PROVE Before(Range(wire), Range(batch'[o]))
    BY <1>6 DEF OrderInv, BatchesLast, Before
  <2>2. ASSUME NEW o \in Producers, NEW q \in Queues PROVE Before(Range(taken[q]) \cup Range(ch'[q]), Range(batch'[o]))
    <3> SUFFICES ASSUME NEW f \in Range(taken[q]) \cup Range(ch'[q]), NEW g \in Range(batch'[o]), f.from = g.from
                 PROVE  f.num < g.num
      BY DEF Before
    <3>1. CASE f \in Range(taken[q]) \cup Range(ch[q])
      BY <1>6, <3>1 DEF OrderInv, BatchesLast, Before
    <3>2. CASE f = h
      <4>1. o = p
        BY <1>5, <1>6, <3>2 DEF OrderInv, OwnPlaces
      <4> QED BY <1>3, <1>6, <3>2, <4>1 DEF Before
    <3> QED BY <1>7, <3>1, <3>2
  <2> QED BY <1>4, <2>1, <2>2 DEF BatchesLast
<1>12. InFlight' \subseteq InFlight
  BY <1>3, <1>4, <1>6, <1>7 DEF InFlight
<1> QED BY <1>8, <1>9, <1>10, <1>11, <1>12 DEF OrderInv

\* Block and Drain: the frame goes from the head of the channel to the end of the pump's batch.
LEMMA TakeOrder ==
    ASSUME TxInv, OrderInv, NEW r \in Queues, ch[r] # <<>>,
           taken' = [taken EXCEPT ![r] = Append(@, Head(ch[r]))], ch' = [ch EXCEPT ![r] = Tail(@)],
           UNCHANGED <<wire, batch, pump>>
    PROVE  OrderInv' /\ InFlight' \subseteq InFlight
<1> DEFINE h == Head(ch[r])
<1>0. ProducerTypes /\ PumpTypes
  BY TypeParts DEF TxInv
<1>1. ch[r] \in Seq(Frames) /\ taken[r] \in Seq(Frames) /\ Ordered(ch[r]) /\ Ordered(taken[r])
  BY <1>0 DEF PumpTypes, OrderInv, PlacesOrdered
<1>2. /\ h \in Range(ch[r]) /\ h \in Frames /\ Range(Tail(ch[r])) \subseteq Range(ch[r])
      /\ Ordered(Tail(ch[r])) /\ Before({h}, Range(Tail(ch[r])))
  BY <1>1, OrderedTail
<1>3. /\ taken'[r] = Append(taken[r], h) /\ ch'[r] = Tail(ch[r])
      /\ \A q \in Queues \ {r} : taken'[q] = taken[q] /\ ch'[q] = ch[q]
  BY <1>0 DEF PumpTypes
<1> HIDE DEF h
<1>4. Before(Range(taken[r]), {h})
  BY <1>2 DEF OrderInv, PumpOrder, Before
<1>5. Range(Append(taken[r], h)) = Range(taken[r]) \cup {h} /\ Ordered(Append(taken[r], h))
  BY <1>1, <1>2, <1>4, OrderedAppend
<1>6. \A q \in Queues : Ordered(taken'[q]) /\ Ordered(ch'[q])
  BY <1>2, <1>3, <1>5 DEF OrderInv, PlacesOrdered
<1>7. \A q \in Queues : Range(taken'[q]) \cup Range(ch'[q]) \subseteq Range(taken[q]) \cup Range(ch[q])
  BY <1>2, <1>3, <1>5
<1>8. \A q \in Queues : Before(Range(taken'[q]), Range(ch'[q]))
  BY <1>2, <1>3, <1>5 DEF OrderInv, PumpOrder, Before
<1>9. PlacesOrdered'
  BY <1>6 DEF OrderInv, PlacesOrdered
<1>10. PumpOrder'
  BY <1>7, <1>8 DEF OrderInv, PumpOrder, Before
<1>11. BatchesLast'
  BY <1>7 DEF OrderInv, BatchesLast, Before
<1>12. OwnPlaces'
  <2>1. \A q \in Queues : \A f \in Range(taken'[q]) \cup Range(ch'[q]) : QueueOf(f.from) = q
    BY <1>7 DEF OrderInv, OwnPlaces
  <2>2. \A f : QueueOf(f)' = QueueOf(f)
    BY DEF QueueOf, txSocketIdx
  <2> QED BY <2>1, <2>2 DEF OrderInv, OwnPlaces
<1>13. InFlight' \subseteq InFlight
  BY <1>7 DEF InFlight
<1> QED BY <1>9, <1>10, <1>11, <1>12, <1>13 DEF OrderInv

\* Transmit: the first frames of the batch go to the end of the wire.
LEMMA TransmitOrder ==
    ASSUME TxInv, OrderInv, NEW r \in Queues, Transmit(r)
    PROVE  OrderInv' /\ InFlight' \subseteq InFlight
<1> DEFINE s == FirstOf(taken[r], Got(r))
<1>0. ProducerTypes /\ PumpTypes
  BY TypeParts DEF TxInv
<1>1. taken[r] \in Seq(Frames) /\ Ordered(taken[r]) /\ Got(r) \in 0..Len(taken[r])
  BY <1>0, GotBounds DEF PumpTypes, OrderInv, PlacesOrdered
<1>2. s \in Seq(Frames) /\ Range(s) \subseteq Range(taken[r]) /\ Ordered(s)
  BY <1>1, OrderedFirst
<1>3. wire' = wire \o s /\ taken' = [taken EXCEPT ![r] = <<>>] /\ UNCHANGED <<ch, batch, pump>>
  BY DEF Transmit, Got, producers
<1> HIDE DEF s
<1>4. wire \in Seq(Frames) /\ Ordered(wire) /\ Before(Range(wire), Range(s))
  BY <1>0, <1>2 DEF PumpTypes, OrderInv, PlacesOrdered, PumpOrder, Before
<1>5. Ordered(wire') /\ Range(wire') = Range(wire) \cup Range(s)
  BY <1>2, <1>3, <1>4, OrderedConcat, RangeConcatenation
<1>6. taken'[r] = <<>> /\ \A q \in Queues \ {r} : taken'[q] = taken[q]
  BY <1>0, <1>3 DEF PumpTypes
<1>7. \A q \in Queues : Ordered(taken'[q]) /\ Range(taken'[q]) \subseteq Range(taken[q])
  BY <1>6, OrderedEmpty DEF OrderInv, PlacesOrdered
<1>8. PlacesOrdered'
  BY <1>3, <1>5, <1>7 DEF OrderInv, PlacesOrdered
<1>9. PumpOrder'
  <2>1. ASSUME NEW q \in Queues PROVE Before(Range(wire'), Range(taken'[q]) \cup Range(ch[q]))
    <3> SUFFICES ASSUME NEW f \in Range(wire'), NEW g \in Range(taken'[q]) \cup Range(ch[q]), f.from = g.from
                 PROVE  f.num < g.num
      BY DEF Before
    <3>1. CASE f \in Range(wire)
      BY <1>7, <3>1 DEF OrderInv, PumpOrder, Before
    <3>2. CASE f \in Range(taken[r])
      <4>1. q = r
        BY <1>7, <3>2 DEF OrderInv, OwnPlaces
      <4>2. g \in Range(ch[r])
        BY <1>6, <4>1, OrderedEmpty
      <4> QED BY <3>2, <4>2 DEF OrderInv, PumpOrder, Before
    <3> QED BY <1>2, <1>5, <3>1, <3>2
  <2>2. ASSUME NEW q \in Queues PROVE Before(Range(taken'[q]), Range(ch[q]))
    BY <1>7 DEF OrderInv, PumpOrder, Before
  <2> QED BY <1>3, <2>1, <2>2 DEF PumpOrder
<1>10. BatchesLast'
  BY <1>2, <1>3, <1>5, <1>7 DEF OrderInv, BatchesLast, Before
<1>11. OwnPlaces'
  <2>1. \A q \in Queues : \A f \in Range(taken'[q]) \cup Range(ch[q]) : QueueOf(f.from) = q
    BY <1>7 DEF OrderInv, OwnPlaces
  <2>2. \A f : QueueOf(f)' = QueueOf(f)
    BY <1>3 DEF QueueOf, txSocketIdx
  <2> QED BY <1>3, <2>1, <2>2 DEF OrderInv, OwnPlaces
<1>12. InFlight' \subseteq InFlight
  BY <1>2, <1>3, <1>5, <1>7 DEF InFlight
<1> QED BY <1>8, <1>9, <1>10, <1>11, <1>12 DEF OrderInv

LEMMA PlacesFrames ==
    ASSUME TxInv
    PROVE  /\ Range(wire) \subseteq InFlight /\ InFlight \subseteq Frames
           /\ \A q \in Queues : Range(taken[q]) \cup Range(ch[q]) \subseteq InFlight
           /\ \A p \in Producers : Range(batch[p]) \subseteq InFlight
<1>0. ProducerTypes /\ PumpTypes
  BY TypeParts DEF TxInv
<1>1. \A s \in Seq(Frames) : Range(s) \subseteq Frames
  BY RangeOfSeq
<1>2. /\ Range(wire) \subseteq Frames
      /\ \A q \in Queues : Range(taken[q]) \subseteq Frames /\ Range(ch[q]) \subseteq Frames
      /\ \A p \in Producers : Range(batch[p]) \subseteq Frames
  BY <1>0, <1>1 DEF ProducerTypes, PumpTypes
<1> QED BY <1>2 DEF InFlight

\* A producer's batch after WriteBatch or Add: the new frames have the numbers from next on.
LEMMA BuildOrder ==
    ASSUME TxInv, OrderInv, Numbered, NEW p \in Producers, NEW b \in Seq(Frames), Ordered(b),
           \A g \in Range(b) : g.from = p /\ (g \in Range(batch[p]) \/ g.num >= next[p]),
           batch' = [batch EXCEPT ![p] = b], UNCHANGED <<wire, taken, ch, pump>>
    PROVE  OrderInv' /\ \A f \in InFlight' : f \in InFlight \/ f \in Range(b)
<1>0. ProducerTypes /\ PumpTypes
  BY TypeParts DEF TxInv
<1>1. batch'[p] = b /\ \A o \in Producers \ {p} : batch'[o] = batch[o]
  BY <1>0 DEF ProducerTypes
<1>2. next[p] \in Int
  BY <1>0, TxAssumption DEF ProducerTypes
<1>3. \A g \in Range(b) : g.num \in Int
  <2>1. Range(b) \subseteq Frames
    BY RangeOfSeq
  <2> QED BY <2>1 DEF Frames
<1>4. ASSUME NEW f \in InFlight, NEW g \in Range(b), f.from = g.from, g \notin Range(batch[p]) PROVE f.num < g.num
  <2>1. f.num \in Int /\ f.num < next[p] /\ g.num >= next[p]
    BY <1>4, PlacesFrames DEF Numbered, Frames
  <2> QED BY <1>2, <1>3, <2>1
<1>5. PlacesOrdered'
  BY <1>1 DEF OrderInv, PlacesOrdered
<1>6. PumpOrder'
  BY DEF OrderInv, PumpOrder
<1>7. OwnPlaces'
  <2>1. \A f : QueueOf(f)' = QueueOf(f)
    BY DEF QueueOf, txSocketIdx
  <2> QED BY <1>1, <2>1 DEF OrderInv, OwnPlaces
<1>8. BatchesLast'
  <2>1. Before(Range(wire), Range(b))
    <3>1. Range(wire) \subseteq InFlight
      BY PlacesFrames
    <3> QED BY <1>4, <3>1 DEF OrderInv, BatchesLast, Before
  <2>2. ASSUME NEW q \in Queues PROVE Before(Range(taken[q]) \cup Range(ch[q]), Range(b))
    <3>1. Range(taken[q]) \cup Range(ch[q]) \subseteq InFlight
      BY PlacesFrames
    <3> QED BY <1>4, <3>1 DEF OrderInv, BatchesLast, Before
  <2> QED BY <1>1, <2>1, <2>2 DEF OrderInv, BatchesLast
<1>9. \A f \in InFlight' : f \in InFlight \/ f \in Range(b)
  BY <1>1 DEF InFlight
<1> QED BY <1>5, <1>6, <1>7, <1>8, <1>9 DEF OrderInv

\* SocketBatch.Add: the packet in hand gets its number and is in no frame.
TakesSocket(w) ==
    /\ Around(w)' \subseteq Around(w) \cup {next[w]} /\ next'[w] = next[w] + 1
    /\ neigh[PeerOf[w]] # NoMac /\ wpc'[w] # "arp" /\ cold'[w] = cold[w]
    /\ InFlight' \subseteq InFlight

LEMMA AroundNumbers == ASSUME TxInv, NEW w \in Writers PROVE Around(w) = Range(sock[w]) \cup Range(raw[w]) /\ Around(w) \subseteq Int
<1>0. ProducerTypes
  BY TypeParts DEF TxInv
<1>1. Range(sock[w]) \subseteq 1..MaxFrames /\ Range(raw[w]) \subseteq 1..MaxFrames
  BY <1>0, RangeOfSeq DEF ProducerTypes
<1>2. Around(w) = Range(sock[w]) \cup Range(raw[w])
  BY DEF Around, Range
<1> QED BY <1>1, <1>2

\* What a step may do to numbers, next hops and the shares of the kernel and the socket.
LEMMA PathStep ==
    ASSUME TxInv, PathInv,
           \A f \in InFlight' : f \in InFlight \/
               /\ next[f.from] <= f.num /\ f.num < next'[f.from] /\ f.num \in Int
               /\ f.from \in Writers =>
                    neigh'[PeerOf[f.from]] # NoMac /\ wpc'[f.from] # "arp" /\ \A k \in cold'[f.from] : k < f.num,
           \A p \in Producers : next'[p] \in Int /\ next[p] <= next'[p],
           \A w \in Writers :
               /\ neigh[PeerOf[w]] # NoMac => neigh'[PeerOf[w]] # NoMac
               /\ cold'[w] = cold[w] \/
                    (wpc[w] = "arp" /\ cold'[w] = cold[w] \cup {next[w]} /\ next'[w] = next[w] + 1)
               /\ wpc'[w] = "arp" => wpc[w] = "arp" \/ neigh[PeerOf[w]] = NoMac
               /\ Around(w)' \subseteq Around(w) \/ TakesSocket(w)
    PROVE  WayInv'
<1>0. ProducerTypes
  BY TypeParts DEF TxInv
<1>1. \A p \in Producers : next[p] \in Int /\ next[p] < next[p] + 1
  BY <1>0, TxAssumption DEF ProducerTypes
<1>2. \A f \in InFlight : f.num \in Int /\ f.from \in Producers
  BY PlacesFrames DEF Frames
<1>3. Numbered'
  <2> SUFFICES ASSUME NEW f \in InFlight' PROVE f.num < next'[f.from]
    BY DEF Numbered
  <2>1. CASE f \in InFlight
    <3>1. f.num < next[f.from] /\ f.num \in Int /\ next[f.from] \in Int /\ next'[f.from] \in Int /\ next[f.from] <= next'[f.from]
      BY <1>1, <1>2, <2>1 DEF PathInv, WayInv, Numbered
    <3> QED BY <3>1
  <2> QED BY <2>1
<1>4. OnFastPath'
  <2> SUFFICES ASSUME NEW f \in InFlight', f.from \in Writers
               PROVE  neigh'[PeerOf[f.from]] # NoMac /\ wpc'[f.from] # "arp" /\ \A k \in cold'[f.from] : k < f.num
    BY DEF OnFastPath
  <2>1. CASE f \in InFlight
    BY <2>1 DEF PathInv, WayInv, OnFastPath
  <2> QED BY <2>1
<1>5. KernelNumbered'
  <2> SUFFICES ASSUME NEW w \in Writers, NEW k \in cold'[w] PROVE k < next'[w]
    BY DEF KernelNumbered
  <2>1. w \in Producers
    BY DEF Producers
  <2>2. CASE k \in cold[w]
    <3>1. cold[w] \subseteq 1..MaxFrames
      BY <1>0 DEF ProducerTypes
    <3>2. k \in Int /\ k < next[w] /\ next[w] \in Int /\ next'[w] \in Int /\ next[w] <= next'[w]
      BY <1>1, <2>1, <2>2, <3>1 DEF PathInv, WayInv, KernelNumbered
    <3> QED BY <3>2
  <2>3. CASE k = next[w] /\ next'[w] = next[w] + 1
    BY <1>1, <2>1, <2>3
  <2> QED BY <2>2, <2>3
<1>6. AroundInv'
  <2> SUFFICES ASSUME NEW w \in Writers, NEW n \in Around(w)'
               PROVE  /\ n < next'[w] /\ neigh'[PeerOf[w]] # NoMac /\ wpc'[w] # "arp"
                      /\ \A k \in cold'[w] : k < n
                      /\ \A f \in InFlight' : f.from = w => f.num # n
    BY DEF AroundInv
  <2>1. w \in Producers /\ next[w] \in Int /\ next'[w] \in Int /\ next[w] <= next'[w]
    BY <1>1 DEF Producers
  <2>2. CASE n \in Around(w)
    <3>1. /\ n < next[w] /\ neigh[PeerOf[w]] # NoMac /\ wpc[w] # "arp" /\ n \in Int
          /\ \A k \in cold[w] : k < n
          /\ \A f \in InFlight : f.from = w => f.num # n
      BY <2>2, AroundNumbers DEF PathInv, WayInv, AroundInv
    <3>2. n < next'[w]
      BY <2>1, <3>1
    <3>3. neigh'[PeerOf[w]] # NoMac /\ wpc'[w] # "arp" /\ \A k \in cold'[w] : k < n
      BY <3>1 DEF TakesSocket
    <3>4. ASSUME NEW f \in InFlight', f.from = w PROVE f.num # n
      <4>1. CASE f \in InFlight
        BY <3>1, <3>4, <4>1
      <4>2. CASE next[w] <= f.num /\ f.num \in Int
        BY <2>1, <3>1, <4>2
      <4> QED BY <3>4, <4>1, <4>2
    <3> QED BY <3>2, <3>3, <3>4
  <2>3. CASE n = next[w] /\ TakesSocket(w)
    <3>1. n < next'[w]
      BY <2>1, <2>3 DEF TakesSocket
    <3>2. neigh'[PeerOf[w]] # NoMac /\ wpc'[w] # "arp" /\ \A k \in cold'[w] : k < n
      BY <2>3 DEF TakesSocket, PathInv, WayInv, KernelNumbered
    <3>3. ASSUME NEW f \in InFlight', f.from = w PROVE f.num # n
      <4>1. f \in InFlight
        BY <2>3 DEF TakesSocket
      <4>2. f.num < next[w] /\ f.num \in Int
        BY <1>2, <3>3, <4>1 DEF PathInv, WayInv, Numbered
      <4> QED BY <2>1, <2>3, <4>2
    <3> QED BY <3>1, <3>2, <3>3
  <2> QED BY <2>2, <2>3 DEF TakesSocket
<1> QED BY <1>3, <1>4, <1>5, <1>6 DEF WayInv

FlowInv == OrderInv /\ PathInv /\ SockOrder

\* A packet's number is taken.
LEMMA NextGrows ==
    ASSUME ProducerTypes, NEW w \in Producers, next'[w] = next[w] + 1, \A p \in Producers \ {w} : next'[p] = next[p]
    PROVE  \A p \in Producers : next'[p] \in Int /\ next[p] <= next'[p]
<1>1. \A p \in Producers : next[p] \in Int
  BY TxAssumption DEF ProducerTypes
<1>2. \A p \in Producers : next[p] <= next[p] /\ next[p] + 1 \in Int /\ next[p] <= next[p] + 1
  BY <1>1
<1> QED BY <1>1, <1>2

\* The socket's packets unchanged.
LEMMA SockKept ==
    ASSUME SockOrder, UNCHANGED <<sock, raw>> PROVE SockOrder' /\ \A w \in Writers : Around(w)' = Around(w)
BY DEF SockOrder, Around

\* Steps that build no frame and leave the next hops alone.
LEMMA PathKept ==
    ASSUME TxInv, PathInv, InFlight' \subseteq InFlight, UNCHANGED <<next, neigh, lrn, cold>>,
           \A w \in Writers : Around(w)' \subseteq Around(w),
           \A w \in Writers : /\ wpc'[w] = "arp" => wpc[w] = "arp" \/ neigh[PeerOf[w]] = NoMac
                              /\ wpc'[w] = "learn" => wpc[w] = "learn"
    PROVE  PathInv'
<1>0. ProducerTypes
  BY TypeParts DEF TxInv
<1>1. \A p \in Producers : next'[p] \in Int /\ next[p] <= next'[p]
  BY <1>0, TxAssumption DEF ProducerTypes
<1>2. WayInv'
  BY <1>1, PathStep
<1>3. LearnsPeer'
  BY DEF PathInv, LearnsPeer
<1> QED BY <1>2, <1>3 DEF PathInv

\* The places of frames unchanged.
LEMMA OrderKept ==
    ASSUME OrderInv, UNCHANGED <<wire, taken, ch, batch, pump>>
    PROVE  OrderInv' /\ InFlight' = InFlight
<1>1. \A f : QueueOf(f)' = QueueOf(f)
  BY DEF QueueOf, txSocketIdx
<1>2. OwnPlaces'
  BY <1>1 DEF OrderInv, OwnPlaces
<1>3. (PlacesOrdered /\ PumpOrder /\ BatchesLast)'
  BY DEF OrderInv, PlacesOrdered, PumpOrder, BatchesLast
<1> QED BY <1>2, <1>3 DEF OrderInv, InFlight

\* The neighbour map gains entries and loses none, and a call of learnNeighbour ends
\* with an entry for the address it was called with.
LEMMA NeighboursFlow ==
    ASSUME TxInv, FlowInv, NNext, UNCHANGED <<producers, pumps>>
    PROVE  FlowInv'
<1>0. NTypeOK /\ ProducerTypes /\ NeighInv
  BY TypeParts DEF TxInv
<1>a. NoMac \notin Macs /\ \A w \in Writers : PeerOf[w] \in Addrs /\ w \in Learners
  BY NeighboursAssumption, TxAssumption DEF Learners
<1>b. \A l \in Learners :
        /\ lrn[l].pc = "lock" => lrn[l].addr \in Addrs /\ lrn[l].mac \in Macs
        /\ lrn[l].pc = "store" => lrn[l].addr \in Addrs /\ lrn[l].mac \in Macs /\ lrn[l].old = neigh
  BY <1>0 DEF NTypeOK, Off, NeighInv, HolderStores
<1>c. neigh \in [Addrs -> Macs \cup {NoMac}] /\ DOMAIN lrn = Learners
  BY <1>0 DEF NTypeOK, Table
<1> DEFINE Goal ==
        /\ \A a \in Addrs : neigh[a] # NoMac => neigh'[a] # NoMac
        /\ \A w \in Writers : wpc[w] = "learn" =>
             IF lrn'[w] = Off THEN neigh'[PeerOf[w]] # NoMac ELSE lrn'[w].addr = PeerOf[w]
<1>1. ASSUME NEW l \in Learners, LockAndLoad(l) PROVE Goal
  <2>1. neigh' = neigh /\ lrn[l].pc = "lock" /\ lrn[l] # Off
    BY <1>1 DEF LockAndLoad, Off
  <2>2. CASE neigh[lrn[l].addr] = lrn[l].mac
    <3>1. lrn' = [lrn EXCEPT ![l] = Off]
      BY <1>1, <2>2 DEF LockAndLoad
    <3>2. lrn'[l] = Off /\ \A w \in Learners \ {l} : lrn'[w] = lrn[w]
      BY <1>c, <3>1
    <3>3. neigh[lrn[l].addr] # NoMac
      BY <1>a, <1>b, <2>1, <2>2
    <3> QED BY <1>a, <2>1, <3>2, <3>3 DEF FlowInv, PathInv, LearnsPeer
  <2>3. CASE neigh[lrn[l].addr] # lrn[l].mac
    <3> DEFINE r == [pc |-> "store", addr |-> lrn[l].addr, mac |-> lrn[l].mac, old |-> neigh]
    <3>1. lrn' = [lrn EXCEPT ![l] = r]
      BY <1>1, <2>3 DEF LockAndLoad
    <3>2. r.pc = "store" /\ r.addr = lrn[l].addr /\ r # Off
      BY DEF Off
    <3> HIDE DEF r
    <3>3. lrn'[l] = r /\ \A w \in Learners \ {l} : lrn'[w] = lrn[w]
      BY <1>c, <3>1
    <3> QED BY <1>a, <2>1, <3>2, <3>3 DEF FlowInv, PathInv, LearnsPeer
  <2> QED BY <2>2, <2>3
<1>2. ASSUME NEW l \in Learners, StoreClone(l) PROVE Goal
  <2>1. /\ lrn[l].pc = "store" /\ lrn[l] # Off /\ lrn' = [lrn EXCEPT ![l] = Off]
        /\ neigh' = [neigh EXCEPT ![lrn[l].addr] = lrn[l].mac]
    BY <1>2, <1>b DEF StoreClone, Off
  <2>2. lrn[l].addr \in Addrs /\ lrn[l].mac # NoMac
    BY <1>a, <1>b, <2>1
  <2>3. neigh'[lrn[l].addr] # NoMac /\ \A a \in Addrs : neigh[a] # NoMac => neigh'[a] # NoMac
    BY <1>c, <2>1, <2>2
  <2>4. lrn'[l] = Off /\ \A w \in Learners \ {l} : lrn'[w] = lrn[w]
    BY <1>c, <2>1
  <2> QED BY <1>a, <2>1, <2>3, <2>4 DEF FlowInv, PathInv, LearnsPeer
<1>3. ASSUME neigh' = neigh, \A w \in Writers : lrn'[w] = lrn[w] PROVE Goal
  BY <1>3 DEF FlowInv, PathInv, LearnsPeer
<1>4. ASSUME NEW d \in Learners \ Writers, NEW a, NEW m, BeginLearn(d, a, m) PROVE \A w \in Writers : lrn'[w] = lrn[w]
  BY <1>4, <1>a, <1>c DEF BeginLearn
<1>5. ASSUME NEW d \in Dispatchers, NEW a \in Addrs, NEW m \in Macs, LearnFrame(d, a, m) PROVE Goal
  <2>1. d \in Learners \ Writers
    BY NeighboursAssumption DEF Learners
  <2> QED BY <1>3, <1>4, <1>5, <2>1 DEF LearnFrame
<1>6. ASSUME NEW a \in Addrs, ProbeLook(a) PROVE Goal
  <2>1. a \in Learners \ Writers
    BY NeighboursAssumption DEF Learners
  <2>2. \A w \in Writers : lrn'[w] = lrn[w]
    BY <1>4, <1>6, <2>1 DEF ProbeLook
  <2> QED BY <1>3, <1>6, <2>2 DEF ProbeLook
<1>7. ASSUME NEW a \in Addrs, ProbeReturn(a) \/ KernelForgets(a) \/ \E m \in Macs : KernelLearns(a, m) PROVE Goal
  BY <1>3, <1>7 DEF ProbeReturn, KernelForgets, KernelLearns
<1>8. Goal
  <2> HIDE DEF Goal
  <2> QED BY <1>1, <1>2, <1>5, <1>6, <1>7, NeighboursAssumption DEF NNext, Goroutines, Arrivals, Kernel
<1>9. UNCHANGED <<wire, taken, ch, batch, pump, next, wpc, cold, sock, raw>>
  BY DEF producers, pumps
<1>10. OrderInv' /\ InFlight' = InFlight
  BY <1>9, OrderKept DEF FlowInv
<1>11. \A p \in Producers : next'[p] \in Int /\ next[p] <= next'[p]
  BY <1>0, <1>9, TxAssumption DEF ProducerTypes
<1>s. SockOrder' /\ \A w \in Writers : Around(w)' = Around(w)
  BY <1>9, SockKept DEF FlowInv
<1>12. WayInv'
  BY <1>8, <1>9, <1>10, <1>11, <1>a, <1>s, PathStep DEF FlowInv
<1>13. LearnsPeer'
  BY <1>8, <1>9 DEF LearnsPeer
<1> QED BY <1>10, <1>12, <1>13, <1>s DEF FlowInv, PathInv

LEMMA WriteBatchFlow ==
    ASSUME TxInv, FlowInv, NEW c \in QuicConns, NEW n \in Nat, WriteBatch(c, n)
    PROVE  FlowInv'
<1> DEFINE e(i) == Built(c, next[c] + i - 1, NextHop(PeerOf[c]))
           b == [i \in 1..n |-> e(i)]
<1>0. NTypeOK /\ ProducerTypes
  BY TypeParts DEF TxInv
<1>1. c \in Producers /\ c \notin Writers /\ PeerOf[c] \in Addrs /\ MaxFrames \in Nat
  BY TxAssumption DEF Producers
<1>2. next[c] \in 1..MaxFrames + 1 /\ next[c] + n <= MaxFrames + 1
  BY <1>0, <1>1 DEF ProducerTypes, WriteBatch
<1>3. \A i \in 1..n : next[c] + i - 1 \in 1..MaxFrames /\ next[c] + i - 1 >= next[c] /\ next[c] + i - 1 < next[c] + n
  BY <1>1, <1>2
<1>4. NextHop(PeerOf[c]) \in Macs \cup {GwMac}
  BY <1>0, <1>1 DEF NextHop, NTypeOK, Table
<1>5. \A i \in 1..n : e(i) \in Frames /\ e(i).from = c /\ e(i).num = next[c] + i - 1
  BY <1>1, <1>3, <1>4, BuiltFrame
<1> HIDE DEF e
<1>6. b \in [1..n -> Frames] /\ DOMAIN b = 1..n /\ \A i \in 1..n : b[i] = e(i)
  BY <1>5
<1>7. b \in Seq(Frames)
  <2> HIDE DEF b
  <2> QED BY <1>6, SeqDef
<1>8. batch' = [batch EXCEPT ![c] = b] /\ next' = [next EXCEPT ![c] = @ + n] /\ wpc' = [wpc EXCEPT ![c] = "flush"]
      /\ UNCHANGED <<wire, taken, ch, pump, cold, neigh, lrn, sock, raw>>
  BY DEF WriteBatch, nvars, pumps, e
<1> HIDE DEF b
<1>9. \A g \in Range(b) : g.from = c /\ g.num >= next[c] /\ g.num < next[c] + n
  BY <1>3, <1>5, <1>6 DEF Range
<1>10. Ordered(b)
  <2>1. \A i, j \in 1..n : i < j => next[c] + i - 1 < next[c] + j - 1
    BY <1>1, <1>2
  <2> QED BY <1>5, <1>6, <2>1 DEF Ordered
<1>11. OrderInv' /\ \A f \in InFlight' : f \in InFlight \/ f \in Range(b)
  BY <1>1, <1>7, <1>8, <1>9, <1>10, BuildOrder DEF FlowInv, PathInv, WayInv
<1>12. next'[c] = next[c] + n /\ \A p \in Producers \ {c} : next'[p] = next[p]
  BY <1>0, <1>1, <1>8 DEF ProducerTypes
<1>13. \A p \in Producers : next'[p] \in Int /\ next[p] <= next'[p]
  BY <1>0, <1>1, <1>2, <1>12 DEF ProducerTypes
<1>14. \A w \in Writers : wpc'[w] = wpc[w]
  BY <1>0, <1>1, <1>8 DEF ProducerTypes, Producers
<1>15. \A f \in Range(b) : next[f.from] <= f.num /\ f.num < next'[f.from] /\ f.num \in Int /\ f.from \notin Writers
  <2>1. Range(b) \subseteq Frames
    BY <1>7, RangeOfSeq
  <2>2. \A f \in Range(b) : f.num \in Int
    BY <2>1 DEF Frames
  <2> QED BY <1>1, <1>2, <1>9, <1>12, <2>2
<1>s. SockOrder' /\ \A w \in Writers : Around(w)' = Around(w)
  BY <1>8, SockKept DEF FlowInv
<1>16. WayInv'
  BY <1>8, <1>11, <1>13, <1>14, <1>15, <1>s, PathStep DEF FlowInv
<1>17. LearnsPeer'
  BY <1>8, <1>14 DEF FlowInv, PathInv, LearnsPeer
<1> QED BY <1>11, <1>16, <1>17, <1>s DEF FlowInv, PathInv

\* ForwardBatch.Add, once the next hop is in the map.
LEMMA AddFlow ==
    ASSUME TxInv, FlowInv, NEW w \in Writers, NEW m \in Macs, Add(w, m), next[w] <= MaxFrames,
           neigh[PeerOf[w]] # NoMac, UNCHANGED <<wire, taken, ch, pump, neigh, lrn>>
    PROVE  FlowInv'
<1> DEFINE x == Built(w, next[w], m)
<1>0. ProducerTypes
  BY TypeParts DEF TxInv
<1>1. w \in Producers /\ MaxFrames \in Nat
  BY TxAssumption DEF Producers
<1>2. next[w] \in 1..MaxFrames
  BY <1>0, <1>1 DEF ProducerTypes
<1>3. x \in Frames /\ x.from = w /\ x.num = next[w]
  BY <1>1, <1>2, BuiltFrame
<1>4. /\ \/ batch' = [batch EXCEPT ![w] = Append(@, x)] /\ UNCHANGED sock
         \/ sock' = [sock EXCEPT ![w] = Append(@, next[w])] /\ UNCHANGED batch
         \/ UNCHANGED <<batch, sock>>
      /\ next' = [next EXCEPT ![w] = @ + 1]
      /\ wpc'[w] \in {"ready", "crashed"} /\ \A v \in Writers \ {w} : wpc'[v] = wpc[v]
      /\ UNCHANGED <<raw, cold>>
  BY <1>0, AddCases
<1> HIDE DEF x
<1>6. next'[w] = next[w] + 1 /\ \A p \in Producers \ {w} : next'[p] = next[p]
  BY <1>0, <1>1, <1>4 DEF ProducerTypes
<1>7. \A p \in Producers : next'[p] \in Int /\ next[p] <= next'[p]
  BY <1>0, <1>1, <1>6, NextGrows
<1>8. wpc'[w] # "arp" /\ wpc'[w] # "learn"
  BY <1>4
<1>9. next[x.from] <= x.num /\ x.num < next'[x.from] /\ x.num \in Int
  BY <1>1, <1>2, <1>3, <1>6
<1>10. \A k \in cold'[w] : k < x.num
  BY <1>3, <1>4 DEF FlowInv, PathInv, WayInv, KernelNumbered
<1>11. OrderInv' /\ WayInv' /\ SockOrder'
  <2>1. CASE UNCHANGED <<batch, sock>>
    <3>1. OrderInv' /\ InFlight' = InFlight
      BY <2>1, OrderKept DEF FlowInv
    <3>2. SockOrder' /\ \A v \in Writers : Around(v)' = Around(v)
      BY <1>4, <2>1, SockKept DEF FlowInv
    <3>3. WayInv'
      BY <1>4, <1>7, <1>8, <3>1, <3>2, PathStep DEF FlowInv
    <3> QED BY <3>1, <3>2, <3>3
  <2>2. CASE batch' = [batch EXCEPT ![w] = Append(@, x)] /\ UNCHANGED sock
    <3> DEFINE b == Append(batch[w], x)
    <3>1. batch[w] \in Seq(Frames) /\ Ordered(batch[w])
      BY <1>0, <1>1 DEF ProducerTypes, FlowInv, OrderInv, PlacesOrdered
    <3>2. Before(Range(batch[w]), {x})
      <4>1. \A f \in Range(batch[w]) : f \in InFlight
        BY <1>1, PlacesFrames
      <4> QED BY <1>3, <4>1 DEF Before, FlowInv, PathInv, WayInv, Numbered
    <3>3. Range(b) = Range(batch[w]) \cup {x} /\ Ordered(b) /\ b \in Seq(Frames)
      BY <1>3, <3>1, <3>2, OrderedAppend, AppendProperties
    <3>4. batch' = [batch EXCEPT ![w] = b]
      BY <2>2
    <3> HIDE DEF b
    <3>5. \A g \in Range(b) : g.from = w /\ (g \in Range(batch[w]) \/ g.num >= next[w])
      BY <1>1, <1>2, <1>3, <3>3 DEF FlowInv, OrderInv, OwnPlaces
    <3>6. OrderInv' /\ \A f \in InFlight' : f \in InFlight \/ f \in Range(b)
      BY <1>1, <3>3, <3>4, <3>5, BuildOrder DEF FlowInv, PathInv, WayInv
    <3>7. \A f \in Range(batch[w]) : f \in InFlight
      BY <1>1, PlacesFrames
    <3>8. \A f \in InFlight' : f \in InFlight \/ f = x
      BY <3>3, <3>6, <3>7
    <3>9. SockOrder' /\ \A v \in Writers : Around(v)' = Around(v)
      BY <1>4, <2>2, SockKept DEF FlowInv
    <3>10. WayInv'
      BY <1>3, <1>4, <1>7, <1>8, <1>9, <1>10, <3>8, <3>9, PathStep DEF FlowInv
    <3> QED BY <3>6, <3>9, <3>10
  <2>3. CASE sock' = [sock EXCEPT ![w] = Append(@, next[w])] /\ UNCHANGED batch
    <3>1. OrderInv' /\ InFlight' = InFlight
      BY <2>3, OrderKept DEF FlowInv
    <3>2. sock[w] \in Seq(1..MaxFrames) /\ sock'[w] = Append(sock[w], next[w]) /\ \A v \in Writers \ {w} : sock'[v] = sock[v]
      BY <1>0, <2>3 DEF ProducerTypes
    <3>3. \A n \in Range(sock[w]) \cup Range(raw[w]) : n < next[w]
      BY AroundNumbers DEF FlowInv, PathInv, WayInv, AroundInv
    <3>4. Range(sock'[w]) = Range(sock[w]) \cup {next[w]} /\ Climbs(sock'[w])
      BY <1>2, <3>2, <3>3, NumbersAppend DEF FlowInv, SockOrder
    <3>5. SockOrder'
      BY <1>4, <3>2, <3>3, <3>4 DEF FlowInv, SockOrder
    <3>6. Around(w)' \subseteq Around(w) \cup {next[w]} /\ \A v \in Writers \ {w} : Around(v)' = Around(v)
      <4>1. \A v \in Writers : Around(v)' = Range(sock'[v]) \cup Range(raw'[v]) /\ Around(v) = Range(sock[v]) \cup Range(raw[v])
        BY DEF Around, Range
      <4> QED BY <1>4, <3>2, <3>4, <4>1
    <3>7. TakesSocket(w)
      BY <1>4, <1>6, <1>8, <3>1, <3>6 DEF TakesSocket
    <3>8. WayInv'
      BY <1>4, <1>7, <1>8, <3>1, <3>6, <3>7, PathStep DEF FlowInv
    <3> QED BY <3>1, <3>5, <3>8
  <2> QED BY <1>4, <2>1, <2>2, <2>3
<1>12. LearnsPeer'
  BY <1>4, <1>8 DEF FlowInv, PathInv, LearnsPeer
<1> QED BY <1>11, <1>12 DEF FlowInv, PathInv

LEMMA WriterFlow ==
    ASSUME TxInv, FlowInv, NEW w \in Writers, WriterStep(w)
    PROVE  FlowInv'
<1>0. NTypeOK /\ ProducerTypes /\ NeighInv
  BY TypeParts DEF TxInv
<1>1. w \in Producers /\ PeerOf[w] \in Addrs /\ w \in Learners
  BY TxAssumption DEF Producers, Learners
<1>2. CASE ForwardPump(w)
  <2>1. /\ pump[w] = -1 /\ UNCHANGED <<wire, taken, ch, batch, next, wpc, neigh, lrn, cold, sock, raw>>
        /\ \E q : pump' = [pump EXCEPT ![w] = q]
    BY <1>2 DEF ForwardPump, nvars, pumps
  <2>2. \A o \in Writers \ {w} : pump'[o] = pump[o]
    BY <1>0, <2>1 DEF ProducerTypes
  <2>3. ASSUME NEW q \in Queues, NEW f \in Range(taken[q]) \cup Range(ch[q]) PROVE QueueOf(f.from)' = q
    <3>1. QueueOf(f.from) = q
      BY DEF FlowInv, OrderInv, OwnPlaces
    <3>2. f.from # w
      BY <2>1, <3>1, QueuesFacts DEF QueueOf
    <3> QED BY <2>2, <3>1, <3>2 DEF QueueOf, txSocketIdx
  <2>4. OwnPlaces'
    BY <2>1, <2>3 DEF FlowInv, OrderInv, OwnPlaces
  <2>5. (PlacesOrdered /\ PumpOrder /\ BatchesLast)' /\ InFlight' = InFlight
    BY <2>1 DEF FlowInv, OrderInv, PlacesOrdered, PumpOrder, BatchesLast, InFlight
  <2>s. SockOrder' /\ \A v \in Writers : Around(v)' = Around(v)
    BY <2>1, SockKept DEF FlowInv
  <2>6. PathInv'
    BY <2>1, <2>5, <2>s, PathKept DEF FlowInv
  <2> QED BY <2>4, <2>5, <2>6, <2>s DEF FlowInv, OrderInv
<1>3. CASE Lookup(w)
  <2>1. UNCHANGED <<wire, taken, ch, pump, neigh, lrn>> /\ next[w] <= MaxFrames
    BY <1>3 DEF Lookup, nvars, pumps
  <2>2. CASE neigh[PeerOf[w]] # NoMac
    <3>1. neigh[PeerOf[w]] \in Macs
      BY <1>0, <1>1, <2>2 DEF NTypeOK, Table
    <3> QED BY <1>3, <2>1, <2>2, <3>1, AddFlow DEF Lookup
  <2>3. CASE neigh[PeerOf[w]] = NoMac
    <3>1. wpc' = [wpc EXCEPT ![w] = "arp"] /\ UNCHANGED <<batch, next, cold, sock, raw>>
      BY <1>3, <2>3 DEF Lookup
    <3>2. wpc'[w] = "arp" /\ \A v \in Writers \ {w} : wpc'[v] = wpc[v]
      BY <1>0, <1>1, <3>1 DEF ProducerTypes, Producers
    <3>3. OrderInv' /\ InFlight' = InFlight
      BY <2>1, <3>1, OrderKept DEF FlowInv
    <3>s. SockOrder' /\ \A v \in Writers : Around(v)' = Around(v)
      BY <3>1, SockKept DEF FlowInv
    <3> QED BY <2>1, <2>3, <3>1, <3>2, <3>3, <3>s, PathKept DEF FlowInv
  <2> QED BY <2>2, <2>3
<1>4. CASE LookupArp(w)
  <2> DEFINE a == PeerOf[w]
  <2>1. UNCHANGED <<wire, taken, ch, pump, neigh, batch, sock, raw>> /\ wpc[w] = "arp"
    BY <1>4 DEF LookupArp, pumps
  <2>2. OrderInv' /\ InFlight' = InFlight
    BY <2>1, OrderKept DEF FlowInv
  <2>s. SockOrder' /\ \A v \in Writers : Around(v)' = Around(v)
    BY <2>1, SockKept DEF FlowInv
  <2>3. CASE arp[a] # NoMac
    <3>1. /\ BeginLearn(w, a, arp[a]) /\ wpc' = [wpc EXCEPT ![w] = "learn"]
          /\ UNCHANGED <<next, cold>>
      BY <1>4, <2>3 DEF LookupArp
    <3>2. wpc'[w] = "learn" /\ \A v \in Writers \ {w} : wpc'[v] = wpc[v]
      BY <1>0, <1>1, <3>1 DEF ProducerTypes, Producers
    <3>3. \A p \in Producers : next'[p] \in Int /\ next[p] <= next'[p]
      BY <1>0, <3>1, TxAssumption DEF ProducerTypes
    <3>4. WayInv'
      BY <2>1, <2>2, <2>s, <3>1, <3>2, <3>3, PathStep DEF FlowInv
    <3>5. lrn[w] = Off
      BY <2>1 DEF TxInv, NeighInv, WritersLearn
    <3>6. LearnsPeer'
      <4>1. CASE neigh[a] = arp[a]
        <5>1. lrn' = lrn
          BY <3>1, <4>1 DEF BeginLearn
        <5> QED BY <2>1, <2>3, <3>2, <3>5, <4>1, <5>1 DEF FlowInv, PathInv, LearnsPeer
      <4>2. CASE neigh[a] # arp[a]
        <5> DEFINE r == [pc |-> "lock", addr |-> a, mac |-> arp[a]]
        <5>1. lrn' = [lrn EXCEPT ![w] = r]
          BY <3>1, <4>2 DEF BeginLearn
        <5>2. r.addr = a /\ r # Off
          BY DEF Off
        <5> HIDE DEF r
        <5>3. lrn'[w] = r /\ \A v \in Learners \ {w} : lrn'[v] = lrn[v]
          BY <1>0, <1>1, <5>1 DEF NTypeOK
        <5> QED BY <2>1, <3>2, <5>2, <5>3 DEF FlowInv, PathInv, LearnsPeer, Learners
      <4> QED BY <4>1, <4>2
    <3> QED BY <2>2, <2>s, <3>4, <3>6 DEF FlowInv, PathInv
  <2>4. CASE arp[a] = NoMac
    <3>1. /\ wpc' = [wpc EXCEPT ![w] = "ready"] /\ cold' = [cold EXCEPT ![w] = @ \cup {next[w]}]
          /\ next' = [next EXCEPT ![w] = @ + 1] /\ UNCHANGED lrn
      BY <1>4, <2>4 DEF LookupArp
    <3>2. wpc'[w] = "ready" /\ \A v \in Writers \ {w} : wpc'[v] = wpc[v]
      BY <1>0, <1>1, <3>1 DEF ProducerTypes, Producers
    <3>3. next'[w] = next[w] + 1 /\ \A p \in Producers \ {w} : next'[p] = next[p]
      BY <1>0, <1>1, <3>1 DEF ProducerTypes
    <3>4. \A p \in Producers : next'[p] \in Int /\ next[p] <= next'[p]
      BY <1>0, <1>1, <3>3, NextGrows
    <3>5. cold'[w] = cold[w] \cup {next[w]} /\ \A v \in Writers \ {w} : cold'[v] = cold[v]
      BY <1>0, <3>1 DEF ProducerTypes
    <3>6. WayInv'
      BY <2>1, <2>2, <2>s, <3>2, <3>3, <3>4, <3>5, PathStep DEF FlowInv
    <3>7. LearnsPeer'
      BY <2>1, <3>1, <3>2 DEF FlowInv, PathInv, LearnsPeer
    <3> QED BY <2>2, <2>s, <3>6, <3>7 DEF FlowInv, PathInv
  <2> QED BY <2>3, <2>4
<1>5. CASE Learned(w)
  <2>1. /\ UNCHANGED <<wire, taken, ch, pump, neigh, lrn>> /\ Add(w, hop[w])
        /\ wpc[w] = "learn" /\ lrn[w] = Off
    BY <1>5 DEF Learned, nvars, pumps
  <2>2. neigh[PeerOf[w]] # NoMac
    BY <2>1 DEF FlowInv, PathInv, LearnsPeer
  <2>3. hop[w] \in Macs /\ next[w] <= MaxFrames
    BY <1>0, <2>1 DEF ProducerTypes, InHand
  <2> QED BY <2>1, <2>2, <2>3, AddFlow
<1>6. CASE Flush(w)
  <2>1. wpc' = [wpc EXCEPT ![w] = "flush"] /\ UNCHANGED <<wire, taken, ch, pump, batch, next, neigh, lrn, cold, sock, raw>>
    BY <1>6 DEF Flush, nvars, pumps
  <2>2. wpc'[w] = "flush" /\ \A v \in Writers \ {w} : wpc'[v] = wpc[v]
    BY <1>0, <1>1, <2>1 DEF ProducerTypes, Producers
  <2>3. OrderInv' /\ InFlight' = InFlight
    BY <2>1, OrderKept DEF FlowInv
  <2>4. SockOrder' /\ \A v \in Writers : Around(v)' = Around(v)
    BY <2>1, SockKept DEF FlowInv
  <2> QED BY <2>1, <2>2, <2>3, <2>4, PathKept DEF FlowInv
<1>7. CASE SockFlush(w)
  <2>1. /\ sock' = [sock EXCEPT ![w] = <<>>] /\ wpc' = [wpc EXCEPT ![w] = "ready"]
        /\ UNCHANGED <<wire, taken, ch, pump, batch, next, neigh, lrn, cold>>
    BY <1>7 DEF SockFlush, nvars, pumps
  <2>2. PICK k \in 0..Len(sock[w]) : raw' = [raw EXCEPT ![w] = @ \o SubSeq(sock[w], 1, k)]
    BY <1>7 DEF SockFlush
  <2> DEFINE r == raw[w] \o SubSeq(sock[w], 1, k)
  <2>3. Range(r) \subseteq Range(raw[w]) \cup Range(sock[w]) /\ Climbs(r)
    BY <1>0, NumbersFlush DEF ProducerTypes, FlowInv, SockOrder
  <2>4. raw' = [raw EXCEPT ![w] = r]
    BY <2>2
  <2> HIDE DEF r
  <2>5. raw'[w] = r /\ sock'[w] = <<>> /\ \A v \in Writers \ {w} : raw'[v] = raw[v] /\ sock'[v] = sock[v]
    BY <1>0, <2>1, <2>4 DEF ProducerTypes
  <2>6. Range(<<>>) = {} /\ Climbs(<<>>)
    BY OrderedEmpty DEF Climbs
  <2>7. SockOrder'
    BY <2>3, <2>5, <2>6 DEF FlowInv, SockOrder
  <2>8. \A v \in Writers : Around(v)' \subseteq Around(v)
    <3>1. \A v \in Writers : Around(v)' = Range(sock'[v]) \cup Range(raw'[v]) /\ Around(v) = Range(sock[v]) \cup Range(raw[v])
      BY DEF Around, Range
    <3> QED BY <2>3, <2>5, <2>6, <3>1
  <2>9. wpc'[w] = "ready" /\ \A v \in Writers \ {w} : wpc'[v] = wpc[v]
    BY <1>0, <1>1, <2>1 DEF ProducerTypes, Producers
  <2>10. OrderInv' /\ InFlight' = InFlight
    BY <2>1, OrderKept DEF FlowInv
  <2> QED BY <2>1, <2>7, <2>8, <2>9, <2>10, PathKept DEF FlowInv
<1> QED BY <1>2, <1>3, <1>4, <1>5, <1>6, <1>7 DEF WriterStep

LEMMA SubmitFlow ==
    ASSUME TxInv, FlowInv, NEW p \in Producers, Submit(p)
    PROVE  FlowInv'
<1>0. ProducerTypes
  BY TypeParts DEF TxInv
<1>1. OrderInv' /\ InFlight' \subseteq InFlight
  BY SubmitOrder DEF FlowInv
<1>2. UNCHANGED <<next, neigh, lrn, cold, sock, raw>> /\ \E x \in {"ready", "flush"} : wpc' = [wpc EXCEPT ![p] = x]
  BY DEF Submit, nvars
<1>3. \A w \in Writers : wpc'[w] = wpc[w] \/ wpc'[w] \in {"ready", "flush"}
  BY <1>0, <1>2 DEF ProducerTypes, Producers
<1>4. SockOrder' /\ \A w \in Writers : Around(w)' = Around(w)
  BY <1>2, SockKept DEF FlowInv
<1> QED BY <1>1, <1>2, <1>3, <1>4, PathKept DEF FlowInv

LEMMA PumpFlow ==
    ASSUME TxInv, FlowInv, NEW q \in Queues, PumpStep(q)
    PROVE  FlowInv'
<1>0. PumpTypes
  BY TypeParts DEF TxInv
<1>1. UNCHANGED <<batch, pump, next, wpc, cold, neigh, lrn, sock, raw>>
  BY DEF PumpStep, Block, Drain, Transmit, KernelSends, SocketGone, nvars, producers
<1>2. OrderInv' /\ InFlight' \subseteq InFlight
  <2>1. CASE Block(q) /\ UNCHANGED <<ch, taken>>
    BY <1>1, <2>1, OrderKept DEF Block, FlowInv
  <2>2. CASE Block(q) /\ ~UNCHANGED <<ch, taken>>
    <3>1. /\ ch[q] # <<>> /\ taken' = [taken EXCEPT ![q] = <<Head(ch[q])>>] /\ ch' = [ch EXCEPT ![q] = Tail(@)]
          /\ UNCHANGED wire
      BY <2>2 DEF Block
    <3>2. taken[q] = <<>>
      BY <1>0, <2>2 DEF Block, PumpTypes, TakenInDrain
    <3>3. Append(taken[q], Head(ch[q])) = <<Head(ch[q])>>
      BY <3>2
    <3>4. taken' = [taken EXCEPT ![q] = Append(@, Head(ch[q]))]
      BY <1>0, <3>1, <3>3 DEF PumpTypes
    <3> QED BY <1>1, <3>1, <3>4, TakeOrder DEF FlowInv
  <2>3. CASE Drain(q)
    BY <1>1, <2>3, TakeOrder DEF Drain, FlowInv
  <2>4. CASE Transmit(q)
    BY <2>4, TransmitOrder DEF FlowInv
  <2>5. CASE KernelSends(q) \/ SocketGone(q)
    BY <1>1, <2>5, OrderKept DEF KernelSends, SocketGone, FlowInv
  <2> QED BY <2>1, <2>2, <2>3, <2>4, <2>5 DEF PumpStep
<1>3. SockOrder' /\ \A w \in Writers : Around(w)' = Around(w)
  BY <1>1, SockKept DEF FlowInv
<1> QED BY <1>1, <1>2, <1>3, PathKept DEF FlowInv

LEMMA FlowStep == ASSUME TxInv, FlowInv, [Next]_vars PROVE FlowInv'
<1>1. ASSUME NNext, UNCHANGED <<producers, pumps, closed, open>> PROVE FlowInv'
  BY <1>1, NeighboursFlow
<1>2. ASSUME NEW c \in QuicConns, NEW n \in Nat, WriteBatch(c, n) PROVE FlowInv'
  BY <1>2, WriteBatchFlow
<1>3. ASSUME NEW w \in Writers, WriterStep(w) PROVE FlowInv'
  BY <1>3, WriterFlow
<1>4. ASSUME NEW p \in Producers, Submit(p) PROVE FlowInv'
  BY <1>4, SubmitFlow
<1>5. ASSUME NEW q \in Queues, PumpStep(q) PROVE FlowInv'
  BY <1>5, PumpFlow
<1>6. ASSUME Close \/ CloseSockets \/ UNCHANGED vars PROVE FlowInv'
  <2>1. UNCHANGED <<wire, taken, ch, batch, pump, next, wpc, cold, neigh, lrn, sock, raw>>
    BY <1>6 DEF Close, CloseSockets, vars, nvars, producers, pumps
  <2>2. OrderInv' /\ InFlight' = InFlight
    BY <2>1, OrderKept DEF FlowInv
  <2>3. SockOrder' /\ \A w \in Writers : Around(w)' = Around(w)
    BY <2>1, SockKept DEF FlowInv
  <2> QED BY <2>1, <2>2, <2>3, PathKept DEF FlowInv
<1>7. \A n \in 2..MaxFrames : n \in Nat
  OBVIOUS
<1> QED BY <1>1, <1>2, <1>3, <1>4, <1>5, <1>6, <1>7 DEF Next, WriteTo, NNext, WriterStep, PumpStep

\* On each way out a producer's packets leave in its order and once, whatever the number of
\* producers, queues and pumps and wherever frames are dropped: by the pump (the stable queue
\* of txSocketIdx and ForwardPump, XDPBatch, Submit, run) and by the raw socket (SocketBatch),
\* although a packet on one may overtake one on the other; and a forward flow that Add has
\* taken a packet of never goes back to the tun (LanNextHopMAC with the copy-on-write map,
\* which forgets no address while the kernel's table may).
THEOREM FlowsStayOrdered == Spec => []FlowOrder
<1>1. Init => FlowInv
  <2> SUFFICES ASSUME Init PROVE FlowInv
    OBVIOUS
  <2>1. /\ Range(wire) = {} /\ \A q \in Queues : Range(taken[q]) = {} /\ Range(ch[q]) = {}
        /\ \A p \in Producers : Range(batch[p]) = {}
    BY OrderedEmpty DEF Init
  <2>2. PlacesOrdered
    BY OrderedEmpty DEF Init, PlacesOrdered
  <2>3. PumpOrder /\ BatchesLast /\ OwnPlaces
    BY <2>1 DEF PumpOrder, BatchesLast, OwnPlaces, Before
  <2>4. InFlight = {}
    BY <2>1 DEF InFlight
  <2>5. KernelNumbered /\ LearnsPeer
    BY DEF Init, KernelNumbered, LearnsPeer, Producers
  <2>6. SockOrder /\ \A w \in Writers : Around(w) = {}
    <3>1. \A w \in Writers : sock[w] = <<>> /\ raw[w] = <<>>
      BY DEF Init
    <3>2. Range(<<>>) = {} /\ Climbs(<<>>) /\ DOMAIN <<>> = {}
      BY OrderedEmpty DEF Climbs
    <3> QED BY <3>1, <3>2 DEF SockOrder, Around
  <2> QED BY <2>2, <2>3, <2>4, <2>5, <2>6 DEF FlowInv, OrderInv, PathInv, WayInv, Numbered, OnFastPath, AroundInv
<1>2. TxInv /\ FlowInv /\ [Next]_vars => FlowInv'
  BY FlowStep
<1>3. TxInv /\ FlowInv => FlowOrder
  <2> SUFFICES ASSUME TxInv, FlowInv PROVE FlowOrder
    OBVIOUS
  <2>1. ASSUME NEW w \in Writers, NEW n \in Fast(w) PROVE \E f \in InFlight : f.from = w /\ f.num = n
    <3>1. PICK f : /\ f.from = w /\ f.num = n
                   /\ \E s \in {batch[w], wire} \cup {ch[q] : q \in Queues} \cup {taken[q] : q \in Queues} : f \in Range(s)
      BY DEF Fast, Range
    <3>2. w \in Producers
      BY DEF Producers
    <3>3. f \in InFlight
      BY <3>1, <3>2, PlacesFrames
    <3> QED BY <3>1, <3>3
  <2>2. ASSUME NEW w \in Writers PROVE Fast(w) \cap Around(w) = {} /\ \A k \in cold[w], n \in Fast(w) \cup Around(w) : k < n
    BY <2>1 DEF FlowInv, PathInv, WayInv, OnFastPath, AroundInv
  <2>3. \A w \in Writers : \A i, j \in DOMAIN raw[w] : i < j => raw[w][i] < raw[w][j]
    BY DEF FlowInv, SockOrder, Climbs
  <2>4. \A i, j \in DOMAIN wire : i < j /\ wire[i].from = wire[j].from => wire[i].num < wire[j].num
    BY DEF FlowInv, OrderInv, PlacesOrdered, Ordered
  <2> QED BY <2>2, <2>3, <2>4 DEF FlowOrder
<1> QED BY <1>1, <1>2, <1>3, TxInit, TxStep, PTL DEF Spec
=============================================================================
