----------------------------- MODULE XdpRxProofs -----------------------------
(***************************************************************************)
(* The receive side of the AF_XDP connections, for any number of NICs,     *)
(* queues, flows, descriptors and any capacities: answers leave through    *)
(* the NIC the client came in by, and between the NIC and quic-go no QUIC  *)
(* frame is lost, doubled, reordered within its flow or overwritten.       *)
(***************************************************************************)
EXTENDS XdpRx, SequenceTheorems, TLAPS

-----------------------------------------------------------------------------
(***************************************************************************)
(* The inductive invariant.                                                *)
(***************************************************************************)
FrameSet == [flow : Flows, num : Nat]
DispatchAt == {"ring", "late", "frame", "append", "notify", "ended"}
ReadAt == {"read", "send", "sweep", "wait", "ended"}

RxTypes ==
    /\ fill \in [Queues -> Seq(1..Descs)] /\ rx \in [Queues -> Seq(1..Descs)]
    /\ hand \in [Queues -> Seq(1..Descs)]
    /\ umem \in [Queues -> [1..Descs -> FrameSet \cup {NoFrame}]]
    /\ dpc \in [Queues -> DispatchAt]
    /\ copied \in [Queues -> Seq(FrameSet)] /\ shard \in [Queues -> Seq(FrameSet)]
    /\ pending \in [Nics -> Seq(FrameSet)] /\ rpc \in [Nics -> ReadAt]
    /\ pos \in [Nics -> Nat] /\ \A n \in Nics : pos[n] \in DOMAIN ShardsOf[n]
    /\ rxCh \in Seq(FrameSet) /\ got \in Seq(FrameSet)
    /\ addrToConn \in [Flows -> Nics \cup {NoNic}]
    /\ count \in [Flows -> Nat] /\ dropped \subseteq FrameSet

\* The dispatch goroutine has the frames its program counter says.
DispatchShape ==
    \A q \in Queues :
        /\ dpc[q] = "frame" => hand[q] # <<>>
        /\ dpc[q] \in {"ring", "late"} => hand[q] = <<>>
        /\ IF dpc[q] = "append" THEN \E x \in FrameSet : copied[q] = <<x>> ELSE copied[q] = <<>>

\* A descriptor is in one ring, once.
Apart(s) == \A i, j \in DOMAIN s : s[i] = s[j] => i = j
DescsApart ==
    \A q \in Queues :
        /\ Apart(fill[q]) /\ Apart(rx[q]) /\ Apart(hand[q])
        /\ Range(fill[q]) \cap Range(rx[q]) = {} /\ Range(fill[q]) \cap Range(hand[q]) = {}
        /\ Range(rx[q]) \cap Range(hand[q]) = {}

H(q) == In(q, hand[q])
X(q) == In(q, rx[q])

\* A frame is on its flow's queue and NIC.
OwnPlaces ==
    /\ \A q \in Queues : \A x \in Range(shard[q]) \cup Range(copied[q]) \cup Range(H(q)) \cup Range(X(q)) :
         x \in FrameSet /\ QueueOf[x.flow] = q
    /\ \A n \in Nics : \A x \in Range(pending[n]) : NicOf(QueueOf[x.flow]) = n

\* A frame that has reached the merged channel has its NIC on record, and so has one that
\* its reader is about to send: no other reader stores a NIC for that frame's flow.
Recorded ==
    /\ \A x \in Range(got) \cup Range(rxCh) : addrToConn[x.flow] = NicOf(QueueOf[x.flow])
    /\ \A n \in Nics : rpc[n] = "send" => pending[n] # <<>> /\ addrToConn[Head(pending[n]).flow] = n

RxInv == RxTypes /\ DispatchShape /\ DescsApart /\ OwnPlaces /\ Recorded

Before(S, T) == \A x \in S, y \in T : x.flow = y.flow => x.num < y.num
Ordered(s) == \A i, j \in DOMAIN s : i < j /\ s[i].flow = s[j].flow => s[i].num < s[j].num

Chain(G, R, P, S, C, D, E) ==
    /\ Before(G, R) /\ Before(G \cup R, P) /\ Before(G \cup R \cup P, S)
    /\ Before(G \cup R \cup P \cup S, C) /\ Before(G \cup R \cup P \cup S \cup C, D)
    /\ Before(G \cup R \cup P \cup S \cup C \cup D, E)

PlacesOrdered ==
    /\ Ordered(got) /\ Ordered(rxCh) /\ \A n \in Nics : Ordered(pending[n])
    /\ \A q \in Queues : Ordered(shard[q]) /\ Ordered(H(q)) /\ Ordered(X(q))

WayOrdered ==
    \A q \in Queues : Chain(Range(got), Range(rxCh), Range(pending[NicOf(q)]), Range(shard[q]),
                            Range(copied[q]), Range(H(q)), Range(X(q)))

OnWay(q) == Range(got) \cup Range(rxCh) \cup Range(pending[NicOf(q)]) \cup Range(shard[q])
              \cup Range(copied[q]) \cup Range(H(q)) \cup Range(X(q))

\* Frames are numbered as they arrive, and a QUIC frame is on its way or was dropped.
Numbered ==
    /\ \A q \in Queues : \A x \in OnWay(q) : x.num \in 1..count[x.flow] /\ x \notin dropped
    /\ \A x \in dropped : x.num \in 1..count[x.flow]

NoneMissing ==
    \A f \in Flows : Kind[f] = "quic" =>
        \A k \in 1..count[f] : Frame(f, k) \in dropped \cup OnWay(QueueOf[f])

WayInv == PlacesOrdered /\ WayOrdered /\ Numbered /\ NoneMissing
-----------------------------------------------------------------------------
(***************************************************************************)
(* What the sequence operations do to ranges, order and distinctness.      *)
(***************************************************************************)
LEMMA EmptyFacts == Range(<<>>) = {} /\ Ordered(<<>>) /\ Apart(<<>>)
<1>1. DOMAIN <<>> = {}
  OBVIOUS
<1> QED BY <1>1 DEF Ordered, Range, Apart

LEMMA SingleFacts == ASSUME NEW x PROVE Range(<<x>>) = {x} /\ Ordered(<<x>>)
<1>1. DOMAIN <<x>> = 1..1 /\ <<x>>[1] = x
  OBVIOUS
<1>2. \A i \in DOMAIN <<x>> : i = 1
  BY <1>1
<1>3. 1 \in DOMAIN <<x>>
  BY <1>1
<1>4. \A i, j \in DOMAIN <<x>> : ~(i < j)
  BY <1>2
<1>5. Range(<<x>>) = {x}
  BY <1>1, <1>2, <1>3 DEF Range
<1> QED BY <1>4, <1>5 DEF Ordered

LEMMA AppendFacts ==
    ASSUME NEW T, NEW s \in Seq(T), NEW x \in T
    PROVE  /\ Append(s, x) \in Seq(T) /\ Range(Append(s, x)) = Range(s) \cup {x}
           /\ Ordered(s) /\ Before(Range(s), {x}) => Ordered(Append(s, x))
<1> DEFINE a == Append(s, x)
<1>1. Len(s) \in Nat /\ DOMAIN s = 1..Len(s)
  BY LenProperties
<1>2. a \in Seq(T) /\ Len(a) = Len(s) + 1 /\ (\A i \in 1..Len(s) : a[i] = s[i]) /\ a[Len(s) + 1] = x
  BY AppendProperties
<1>3. DOMAIN a = 1..Len(s) + 1
  BY <1>2, LenProperties
<1> HIDE DEF a
<1>4. Range(a) = Range(s) \cup {x}
  <2>1. \A i \in DOMAIN a : a[i] \in Range(s) \cup {x}
    BY <1>1, <1>2, <1>3 DEF Range
  <2>2. \A i \in DOMAIN s : i \in DOMAIN a /\ s[i] = a[i]
    BY <1>1, <1>2, <1>3
  <2>3. Len(s) + 1 \in DOMAIN a
    BY <1>1, <1>3
  <2> QED BY <1>2, <2>1, <2>2, <2>3 DEF Range
<1>5. \A i \in DOMAIN a : (i \in DOMAIN s /\ a[i] = s[i] /\ s[i] \in Range(s)) \/ (i = Len(s) + 1 /\ a[i] = x)
  BY <1>1, <1>2, <1>3 DEF Range
<1>6. \A i, j \in DOMAIN a : i < j => i \in DOMAIN s
  BY <1>1, <1>3
<1>7. ASSUME Ordered(s), Before(Range(s), {x}), NEW i \in DOMAIN a, NEW j \in DOMAIN a, i < j, a[i].flow = a[j].flow
      PROVE  a[i].num < a[j].num
  <2>1. i \in DOMAIN s /\ a[i] = s[i] /\ s[i] \in Range(s)
    BY <1>1, <1>5, <1>6, <1>7
  <2>2. CASE j \in DOMAIN s /\ a[j] = s[j]
    BY <1>7, <2>1, <2>2 DEF Ordered
  <2>3. CASE a[j] = x
    BY <1>7, <2>1, <2>3 DEF Before
  <2> QED BY <1>5, <2>2, <2>3
<1>8. Ordered(s) /\ Before(Range(s), {x}) => Ordered(a)
  BY <1>7 DEF Ordered
<1> QED BY <1>2, <1>4, <1>8 DEF a

LEMMA AppendApart ==
    ASSUME NEW T, NEW s \in Seq(T), NEW x \in T, Apart(s), x \notin Range(s)
    PROVE  Append(s, x) \in Seq(T) /\ Range(Append(s, x)) = Range(s) \cup {x} /\ Apart(Append(s, x))
<1>1. Append(s, x) \in Seq(T)
  OBVIOUS
<1> DEFINE a == Append(s, x)
<1>2. Len(s) \in Nat /\ DOMAIN s = 1..Len(s) /\ DOMAIN a = 1..Len(s) + 1
      /\ (\A i \in 1..Len(s) : a[i] = s[i]) /\ a[Len(s) + 1] = x
  BY LenProperties, AppendProperties
<1> HIDE DEF a
<1>3. \A i \in DOMAIN a : (i \in DOMAIN s /\ a[i] = s[i] /\ s[i] \in Range(s)) \/ (i = Len(s) + 1 /\ a[i] = x)
  BY <1>2 DEF Range
<1>4. Apart(a)
  BY <1>2, <1>3 DEF Apart
<1>5. Range(a) = Range(s) \cup {x}
  <2>1. \A i \in DOMAIN s : i \in DOMAIN a /\ s[i] = a[i]
    BY <1>2
  <2>2. Len(s) + 1 \in DOMAIN a
    BY <1>2
  <2> QED BY <1>2, <1>3, <2>1, <2>2 DEF Range
<1> QED BY <1>1, <1>4, <1>5 DEF a

LEMMA TailFacts ==
    ASSUME NEW T, NEW s \in Seq(T), s # <<>>
    PROVE  /\ Head(s) \in T /\ Tail(s) \in Seq(T)
           /\ Range(s) = {Head(s)} \cup Range(Tail(s))
           /\ Ordered(s) => Ordered(Tail(s)) /\ Before({Head(s)}, Range(Tail(s)))
           /\ Apart(s) => Apart(Tail(s)) /\ Head(s) \notin Range(Tail(s))
<1> DEFINE t == Tail(s)
           h == Head(s)
<1>1. Len(s) \in Nat \ {0} /\ DOMAIN s = 1..Len(s)
  BY LenProperties, EmptySeq
<1>2. t \in Seq(T) /\ Len(t) = Len(s) - 1 /\ (\A i \in 1..Len(t) : t[i] = s[i + 1]) /\ h \in T
  BY HeadTailProperties
<1>3. h = s[1]
  OBVIOUS
<1>4. DOMAIN t = 1..Len(s) - 1
  BY <1>2, LenProperties
<1> HIDE DEF t, h
<1>5. \A i \in DOMAIN t : i + 1 \in DOMAIN s /\ t[i] = s[i + 1] /\ 1 < i + 1
  BY <1>1, <1>2, <1>4
<1>6. 1 \in DOMAIN s /\ \A i \in DOMAIN s : i = 1 \/ (i - 1 \in DOMAIN t /\ t[i - 1] = s[i])
  <2>1. \A i \in DOMAIN s : i = 1 \/ (i - 1 \in DOMAIN t /\ i - 1 + 1 = i)
    BY <1>1, <1>4
  <2> QED BY <1>1, <1>5, <2>1
<1>7. Range(s) = {h} \cup Range(t)
  <2>1. \A y \in Range(s) : y \in {h} \cup Range(t)
    BY <1>3, <1>6 DEF Range
  <2>2. \A y \in Range(t) : y \in Range(s)
    BY <1>5 DEF Range
  <2>3. h \in Range(s)
    BY <1>3, <1>6 DEF Range
  <2> QED BY <2>1, <2>2, <2>3
<1>8. ASSUME Ordered(s) PROVE Ordered(t)
  <2>1. \A i, j \in DOMAIN t : i < j => i + 1 < j + 1
    BY <1>1, <1>4
  <2> QED BY <1>5, <1>8, <2>1 DEF Ordered
<1>9. ASSUME Ordered(s) PROVE Before({h}, Range(t))
  BY <1>3, <1>5, <1>6, <1>9 DEF Ordered, Before, Range
<1>10. ASSUME Apart(s) PROVE Apart(t) /\ h \notin Range(t)
  <2>1. \A i, j \in DOMAIN t : i + 1 = j + 1 => i = j
    BY <1>1, <1>4
  <2>2. Apart(t)
    BY <1>5, <1>10, <2>1 DEF Apart
  <2>3. \A i \in DOMAIN t : i + 1 # 1
    BY <1>1, <1>4
  <2> QED BY <1>3, <1>5, <1>6, <1>10, <2>2, <2>3 DEF Apart, Range
<1> QED BY <1>2, <1>7, <1>8, <1>9, <1>10 DEF t, h

LEMMA ConcatFacts ==
    ASSUME NEW T, NEW s \in Seq(T), NEW t \in Seq(T)
    PROVE  /\ s \o t \in Seq(T) /\ Range(s \o t) = Range(s) \cup Range(t)
           /\ Ordered(s) /\ Ordered(t) /\ Before(Range(s), Range(t)) => Ordered(s \o t)
<1> DEFINE u == s \o t
<1>1. Len(s) \in Nat /\ Len(t) \in Nat /\ DOMAIN s = 1..Len(s) /\ DOMAIN t = 1..Len(t)
  BY LenProperties
<1>2. u \in Seq(T) /\ Len(u) = Len(s) + Len(t)
      /\ \A i \in 1..Len(s) + Len(t) : u[i] = IF i <= Len(s) THEN s[i] ELSE t[i - Len(s)]
  BY ConcatProperties
<1>3. DOMAIN u = 1..Len(s) + Len(t)
  BY <1>2, LenProperties
<1>4. Range(u) = Range(s) \cup Range(t)
  BY RangeConcatenation
<1> HIDE DEF u
<1>5. ASSUME Ordered(s), Ordered(t), Before(Range(s), Range(t)),
             NEW i \in DOMAIN u, NEW j \in DOMAIN u, i < j, u[i].flow = u[j].flow
      PROVE  u[i].num < u[j].num
  <2>1. CASE j <= Len(s)
    <3>1. i \in DOMAIN s /\ j \in DOMAIN s /\ u[i] = s[i] /\ u[j] = s[j]
      BY <1>1, <1>2, <1>3, <1>5, <2>1
    <3> QED BY <1>5, <3>1 DEF Ordered
  <2>2. CASE i > Len(s)
    <3>1. i - Len(s) \in DOMAIN t /\ j - Len(s) \in DOMAIN t /\ u[i] = t[i - Len(s)] /\ u[j] = t[j - Len(s)]
          /\ i - Len(s) < j - Len(s)
      BY <1>1, <1>2, <1>3, <1>5, <2>2
    <3> QED BY <1>5, <3>1 DEF Ordered
  <2>3. CASE i <= Len(s) /\ j > Len(s)
    <3>1. i \in DOMAIN s /\ j - Len(s) \in DOMAIN t /\ u[i] = s[i] /\ u[j] = t[j - Len(s)]
      BY <1>1, <1>2, <1>3, <1>5, <2>3
    <3>2. u[i] \in Range(s) /\ u[j] \in Range(t)
      BY <3>1 DEF Range
    <3> QED BY <1>5, <3>2 DEF Before
  <2> QED BY <1>1, <1>3, <2>1, <2>2, <2>3
<1>6. Ordered(s) /\ Ordered(t) /\ Before(Range(s), Range(t)) => Ordered(u)
  BY <1>5 DEF Ordered
<1> QED BY <1>2, <1>4, <1>6 DEF u

\* Reading the frames of a ring's descriptors.
Cells == FrameSet \cup {NoFrame}
Read(m, s) == [i \in DOMAIN s |-> m[s[i]]]

LEMMA ReadFacts ==
    ASSUME NEW m \in [1..Descs -> Cells], NEW s \in Seq(1..Descs)
    PROVE  /\ Read(m, s) \in Seq(Cells) /\ Len(Read(m, s)) = Len(s) /\ DOMAIN Read(m, s) = 1..Len(s)
           /\ Len(s) \in Nat /\ \A i \in 1..Len(s) : Read(m, s)[i] = m[s[i]]
           /\ Range(Read(m, s)) = {m[d] : d \in Range(s)} /\ Range(s) \subseteq 1..Descs
<1>1. Len(s) \in Nat /\ DOMAIN s = 1..Len(s) /\ \A i \in 1..Len(s) : s[i] \in 1..Descs
  BY LenProperties, ElementOfSeq
<1> DEFINE r == Read(m, s)
<1>2. r \in [1..Len(s) -> Cells] /\ DOMAIN r = 1..Len(s) /\ \A i \in 1..Len(s) : r[i] = m[s[i]]
  BY <1>1 DEF Read
<1> HIDE DEF r
<1>3. r \in Seq(Cells)
  BY <1>1, <1>2, SeqDef
<1>4. Len(r) = Len(s)
  BY <1>1, <1>2, <1>3, LenProperties
<1>5. Range(r) = {m[d] : d \in Range(s)}
  BY <1>1, <1>2 DEF Range
<1>6. Range(s) \subseteq 1..Descs
  BY <1>1 DEF Range
<1> QED BY <1>1, <1>2, <1>3, <1>4, <1>5, <1>6 DEF r

LEMMA ReadAppend ==
    ASSUME NEW m \in [1..Descs -> Cells], NEW s \in Seq(1..Descs), NEW d \in 1..Descs
    PROVE  Read(m, Append(s, d)) = Append(Read(m, s), m[d])
<1> DEFINE a == Append(s, d)
           l == Read(m, a)
           b == Read(m, s)
           r == Append(b, m[d])
<1>1. a \in Seq(1..Descs) /\ Len(a) = Len(s) + 1 /\ (\A i \in 1..Len(s) : a[i] = s[i]) /\ a[Len(s) + 1] = d
  BY AppendProperties
<1> HIDE DEF a
<1>2. l \in Seq(Cells) /\ Len(l) = Len(a) /\ \A i \in 1..Len(a) : l[i] = m[a[i]]
  BY <1>1, ReadFacts
<1>3. b \in Seq(Cells) /\ Len(b) = Len(s) /\ Len(s) \in Nat /\ \A i \in 1..Len(s) : b[i] = m[s[i]]
  BY ReadFacts
<1>4. m[d] \in Cells
  OBVIOUS
<1> HIDE DEF l, b
<1>5. r \in Seq(Cells) /\ Len(r) = Len(b) + 1 /\ (\A i \in 1..Len(b) : r[i] = b[i]) /\ r[Len(b) + 1] = m[d]
  BY <1>3, <1>4, AppendProperties
<1> HIDE DEF r
<1>6. Len(l) = Len(r)
  BY <1>1, <1>2, <1>3, <1>5
<1>7. ASSUME NEW i \in 1..Len(l) PROVE l[i] = r[i]
  <2>1. CASE i \in 1..Len(s)
    <3>1. i \in 1..Len(a) /\ i \in 1..Len(b)
      <4>1. Len(l) = Len(a) /\ Len(b) = Len(s)
        BY <1>2, <1>3
      <4> QED BY <2>1, <4>1
    <3>2. l[i] = m[a[i]]
      BY <1>2, <3>1
    <3>3. a[i] = s[i]
      BY <1>1, <2>1
    <3>4. r[i] = b[i]
      BY <1>5, <3>1
    <3>5. b[i] = m[s[i]]
      BY <1>3, <2>1
    <3> QED BY <3>2, <3>3, <3>4, <3>5
  <2>2. CASE i = Len(s) + 1
    BY <1>1, <1>2, <1>3, <1>5, <2>2
  <2> QED BY <1>1, <1>2, <1>3, <2>1, <2>2
<1>8. l = r
  BY <1>2, <1>5, <1>6, <1>7, SeqEqual
<1> QED BY <1>8 DEF l, r, b, a

LEMMA ReadTail ==
    ASSUME NEW m \in [1..Descs -> Cells], NEW s \in Seq(1..Descs), s # <<>>
    PROVE  /\ Read(m, s) # <<>> /\ Head(Read(m, s)) = m[Head(s)]
           /\ Read(m, Tail(s)) = Tail(Read(m, s))
<1> DEFINE t == Tail(s)
           l == Read(m, t)
           b == Read(m, s)
           r == Tail(b)
<1>1. t \in Seq(1..Descs) /\ Len(t) = Len(s) - 1 /\ (\A i \in 1..Len(t) : t[i] = s[i + 1]) /\ Len(s) \in Nat \ {0} /\ Head(s) = s[1]
  BY HeadTailProperties, EmptySeq
<1> HIDE DEF t
<1>2. l \in Seq(Cells) /\ Len(l) = Len(t) /\ \A i \in 1..Len(t) : l[i] = m[t[i]]
  BY <1>1, ReadFacts
<1>3. b \in Seq(Cells) /\ Len(b) = Len(s) /\ \A i \in 1..Len(s) : b[i] = m[s[i]]
  BY ReadFacts
<1>a. Len(<<>>) = 0
  OBVIOUS
<1> HIDE DEF l, b
<1>4. b # <<>>
  BY <1>1, <1>3, <1>a
<1>5. r \in Seq(Cells) /\ Len(r) = Len(b) - 1 /\ \A i \in 1..Len(r) : r[i] = b[i + 1]
  BY <1>3, <1>4, HeadTailProperties
<1>6. Head(b) = b[1]
  BY <1>3, <1>4
<1>b. Head(b) = m[Head(s)]
  BY <1>1, <1>3, <1>6
<1> HIDE DEF r
<1>7. Len(l) = Len(r)
  BY <1>1, <1>2, <1>3, <1>5
<1>8. ASSUME NEW i \in 1..Len(l) PROVE l[i] = r[i]
  <2>1. i \in 1..Len(t) /\ i \in 1..Len(r) /\ i + 1 \in 1..Len(s)
    BY <1>1, <1>2, <1>7
  <2>2. l[i] = m[t[i]]
    BY <1>2, <2>1
  <2>3. t[i] = s[i + 1]
    BY <1>1, <2>1
  <2>4. r[i] = b[i + 1]
    BY <1>5, <2>1
  <2>5. b[i + 1] = m[s[i + 1]]
    BY <1>3, <2>1
  <2> QED BY <2>2, <2>3, <2>4, <2>5
<1>9. l = r
  BY <1>2, <1>5, <1>7, <1>8, SeqEqual
<1> QED BY <1>4, <1>9, <1>b DEF l, r, b, t

LEMMA ReadSame ==
    ASSUME NEW m, NEW k, NEW s, \A d \in Range(s) : k[d] = m[d]
    PROVE  Read(k, s) = Read(m, s)
BY DEF Read, Range

LEMMA ReadEmpty == ASSUME NEW m \in [1..Descs -> Cells] PROVE Read(m, <<>>) = <<>>
<1>1. <<>> \in Seq(1..Descs) /\ Len(<<>>) = 0
  OBVIOUS
<1> DEFINE r == Read(m, <<>>)
<1>2. r \in Seq(Cells) /\ Len(r) = 0
  BY <1>1, ReadFacts
<1> HIDE DEF r
<1>3. r = <<>>
  BY <1>2, EmptySeq
<1> QED BY <1>3 DEF r

LEMMA Rings == ASSUME NEW q PROVE H(q) = Read(umem[q], hand[q]) /\ X(q) = Read(umem[q], rx[q])
BY DEF H, X, In, Read

\* A queue belongs to one NIC.
LEMMA NicFacts ==
    /\ \A q \in Queues : NicOf(q) \in Nics
    /\ \A n \in Nics : \A i \in DOMAIN ShardsOf[n] : ShardsOf[n][i] \in Queues /\ NicOf(ShardsOf[n][i]) = n
<1>1. ASSUME NEW q \in Queues PROVE NicOf(q) \in Nics /\ \E i \in DOMAIN ShardsOf[NicOf(q)] : ShardsOf[NicOf(q)][i] = q
  <2>1. \E n \in Nics : \E i \in DOMAIN ShardsOf[n] : ShardsOf[n][i] = q
    BY DEF Queues
  <2> QED BY <2>1 DEF NicOf
<1>2. ASSUME NEW n \in Nics, NEW i \in DOMAIN ShardsOf[n] PROVE ShardsOf[n][i] \in Queues /\ NicOf(ShardsOf[n][i]) = n
  <2>1. ShardsOf[n][i] \in Queues
    BY DEF Queues
  <2> DEFINE q == ShardsOf[n][i]
  <2>2. NicOf(q) \in Nics /\ \E j \in DOMAIN ShardsOf[NicOf(q)] : ShardsOf[NicOf(q)][j] = q
    BY <1>1, <2>1
  <2> QED BY <2>1, <2>2, RxAssumption
<1> QED BY <1>1, <1>2
-----------------------------------------------------------------------------
(***************************************************************************)
(* The steps.  Inv is what is proved inductive.                            *)
(***************************************************************************)
Inv == RxInv /\ WayInv

\* Only frames of the flows are on the way.
LEMMA WayOfFrames == ASSUME RxInv, NEW q \in Queues PROVE OnWay(q) \subseteq FrameSet
<1>1. Range(got) \subseteq FrameSet /\ Range(rxCh) \subseteq FrameSet
  BY RangeOfSeq DEF RxInv, RxTypes
<1>2. pending[NicOf(q)] \in Seq(FrameSet)
  BY NicFacts DEF RxInv, RxTypes
<1>3. Range(pending[NicOf(q)]) \subseteq FrameSet
  BY <1>2, RangeOfSeq
<1>4. Range(shard[q]) \cup Range(copied[q]) \cup Range(H(q)) \cup Range(X(q)) \subseteq FrameSet
  BY DEF RxInv, OwnPlaces
<1> QED BY <1>1, <1>3, <1>4 DEF OnWay

\* Steps that move no frame: DispatchEnd, SocketGone, Notify, Wait, Close, CloseSockets.
LEMMA QuietStep ==
    ASSUME Inv, UNCHANGED <<fill, umem, rx, hand, copied, shard, pending, pos, merged, count, dropped>>,
           dpc' \in [Queues -> DispatchAt],
           rpc' \in [Nics -> ReadAt], \A n \in Nics : rpc'[n] = "send" => rpc[n] = "send", DispatchShape'
    PROVE  Inv'
<1>1. RxTypes'
  BY DEF Inv, RxInv, RxTypes, merged
<1>2. DescsApart'
  BY DEF Inv, RxInv, DescsApart
<1>3. \A q : H(q)' = H(q) /\ X(q)' = X(q)
  BY DEF H, X, In
<1>4. (OwnPlaces /\ Recorded)'
  BY <1>3 DEF Inv, RxInv, OwnPlaces, Recorded, merged
<1>5. (PlacesOrdered /\ WayOrdered)'
  BY <1>3 DEF Inv, WayInv, PlacesOrdered, WayOrdered, merged
<1>6. (Numbered /\ NoneMissing)'
  BY <1>3 DEF Inv, WayInv, Numbered, NoneMissing, OnWay, merged
<1> QED BY <1>1, <1>2, <1>4, <1>5, <1>6 DEF Inv, RxInv, WayInv

\* MultiConn.ReadFrom: from the head of the channel to what quic-go has read.
LEMMA QuicReadStep == ASSUME Inv, QuicRead PROVE Inv'
<1> DEFINE x == Head(rxCh)
<1>1. /\ got' = Append(got, x) /\ rxCh' = Tail(rxCh) /\ rxCh # <<>>
      /\ UNCHANGED <<fill, umem, rx, hand, dpc, copied, shard, pending, rpc, pos, addrToConn, count, dropped>>
  BY DEF QuicRead, dispatch, reader
<1>2. got \in Seq(FrameSet) /\ rxCh \in Seq(FrameSet) /\ Ordered(got) /\ Ordered(rxCh)
  BY DEF Inv, RxInv, RxTypes, WayInv, PlacesOrdered
<1>3. /\ x \in FrameSet /\ rxCh' \in Seq(FrameSet) /\ Range(rxCh) = {x} \cup Range(rxCh')
      /\ Ordered(rxCh') /\ Before({x}, Range(rxCh'))
  BY <1>1, <1>2, TailFacts
<1>4. \A q \in Queues : Before(Range(got), Range(rxCh))
  BY DEF Inv, WayInv, WayOrdered, Chain
<1>5. Before(Range(got), {x})
  <2>1. x.flow \in Flows /\ QueueOf[x.flow] \in Queues
    BY <1>3, RxAssumption DEF FrameSet
  <2> QED BY <1>3, <1>4, <2>1 DEF Before
<1> HIDE DEF x
<1>6. got' \in Seq(FrameSet) /\ Range(got') = Range(got) \cup {x} /\ Ordered(got')
  BY <1>1, <1>2, <1>3, <1>5, AppendFacts
<1>7. \A q : H(q)' = H(q) /\ X(q)' = X(q)
  BY <1>1 DEF H, X, In
<1>8. RxTypes'
  BY <1>1, <1>3, <1>6 DEF Inv, RxInv, RxTypes
<1>9. (DispatchShape /\ DescsApart)'
  BY <1>1 DEF Inv, RxInv, DispatchShape, DescsApart
<1>10. (OwnPlaces /\ Recorded)'
  BY <1>1, <1>3, <1>6, <1>7 DEF Inv, RxInv, OwnPlaces, Recorded
<1>11. PlacesOrdered'
  BY <1>1, <1>3, <1>6, <1>7 DEF Inv, WayInv, PlacesOrdered
<1>12. Range(got') \cup Range(rxCh') = Range(got) \cup Range(rxCh)
  BY <1>3, <1>6
<1>13. WayOrdered'
  <2> SUFFICES ASSUME NEW q \in Queues
               PROVE  Chain(Range(got'), Range(rxCh'), Range(pending[NicOf(q)]), Range(shard[q]),
                            Range(copied[q]), Range(H(q)), Range(X(q)))
    BY <1>1, <1>7 DEF WayOrdered
  <2>1. Chain(Range(got), Range(rxCh), Range(pending[NicOf(q)]), Range(shard[q]), Range(copied[q]), Range(H(q)), Range(X(q)))
    BY DEF Inv, WayInv, WayOrdered
  <2>2. Before(Range(got'), Range(rxCh'))
    BY <1>3, <1>6, <2>1 DEF Chain, Before
  <2> QED BY <1>12, <2>1, <2>2 DEF Chain
<1>14. \A q : OnWay(q)' = OnWay(q)
  BY <1>1, <1>7, <1>12 DEF OnWay
<1>15. (Numbered /\ NoneMissing)'
  BY <1>1, <1>14 DEF Inv, WayInv, Numbered, NoneMissing
<1> QED BY <1>8, <1>9, <1>10, <1>11, <1>13, <1>15 DEF Inv, RxInv, WayInv

\* rxLoop, first: the NIC of the next frame is stored. Frames of other flows keep theirs, and
\* frames of this flow have come in by the same NIC.
LEMMA StoreStep == ASSUME Inv, NEW n \in Nics, HandOn(n), rpc[n] = "read" PROVE Inv'
<1> DEFINE x == Head(pending[n])
<1>1. /\ addrToConn' = [addrToConn EXCEPT ![x.flow] = n] /\ rpc' = [rpc EXCEPT ![n] = "send"] /\ pending[n] # <<>>
      /\ UNCHANGED <<fill, umem, rx, hand, dpc, copied, shard, pending, pos, rxCh, got, count, dropped>>
  BY DEF HandOn, dispatch, Record
<1>2. pending \in [Nics -> Seq(FrameSet)] /\ rpc \in [Nics -> ReadAt] /\ addrToConn \in [Flows -> Nics \cup {NoNic}]
  BY DEF Inv, RxInv, RxTypes
<1>3. x \in Range(pending[n]) /\ \A k \in Nics : pending[k] # <<>> => Head(pending[k]) \in FrameSet /\ Head(pending[k]) \in Range(pending[k])
  <2>1. \A k \in Nics : pending[k] \in Seq(FrameSet)
    BY <1>2
  <2>2. \A k \in Nics : pending[k] # <<>> => Head(pending[k]) \in FrameSet /\ Range(pending[k]) = {Head(pending[k])} \cup Range(Tail(pending[k]))
    BY <2>1, TailFacts
  <2> QED BY <1>1, <2>2
<1>4. x.flow \in Flows /\ NicOf(QueueOf[x.flow]) = n
  BY <1>1, <1>3 DEF Inv, RxInv, OwnPlaces, FrameSet
<1> HIDE DEF x
<1>5. addrToConn'[x.flow] = n /\ \A f \in Flows \ {x.flow} : addrToConn'[f] = addrToConn[f]
  BY <1>1, <1>2, <1>4
<1>6. addrToConn' \in [Flows -> Nics \cup {NoNic}] /\ rpc' \in [Nics -> ReadAt]
  BY <1>1, <1>2 DEF ReadAt
<1>7. \A y \in FrameSet : addrToConn[y.flow] = NicOf(QueueOf[y.flow]) => addrToConn'[y.flow] = NicOf(QueueOf[y.flow])
  BY <1>4, <1>5 DEF FrameSet
<1>8. RxTypes'
  BY <1>1, <1>6 DEF Inv, RxInv, RxTypes
<1>9. (DispatchShape /\ DescsApart)'
  BY <1>1 DEF Inv, RxInv, DispatchShape, DescsApart
<1>10. \A q : H(q)' = H(q) /\ X(q)' = X(q)
  BY <1>1 DEF H, X, In
<1>11. OwnPlaces'
  BY <1>1, <1>10 DEF Inv, RxInv, OwnPlaces
<1>12. Recorded'
  <2>1. Range(got) \subseteq FrameSet /\ Range(rxCh) \subseteq FrameSet
    BY RangeOfSeq DEF Inv, RxInv, RxTypes
  <2>2. \A y \in Range(got') \cup Range(rxCh') : addrToConn'[y.flow] = NicOf(QueueOf[y.flow])
    BY <1>1, <1>7, <2>1 DEF Inv, RxInv, Recorded
  <2>3. ASSUME NEW k \in Nics, rpc'[k] = "send" PROVE pending'[k] # <<>> /\ addrToConn'[Head(pending'[k]).flow] = k
    <3>1. CASE k = n
      BY <1>1, <1>5, <3>1 DEF x
    <3>2. CASE k # n
      <4>1. rpc[k] = "send"
        BY <1>1, <1>2, <2>3, <3>2
      <4>2. pending[k] # <<>> /\ addrToConn[Head(pending[k]).flow] = k
        BY <4>1 DEF Inv, RxInv, Recorded
      <4>3. Head(pending[k]) \in FrameSet /\ NicOf(QueueOf[Head(pending[k]).flow]) = k
        BY <1>3, <4>2 DEF Inv, RxInv, OwnPlaces
      <4> QED BY <1>1, <1>7, <4>2, <4>3
    <3> QED BY <3>1, <3>2
  <2> QED BY <2>2, <2>3 DEF Recorded
<1>13. (PlacesOrdered /\ WayOrdered)'
  BY <1>1, <1>10 DEF Inv, WayInv, PlacesOrdered, WayOrdered
<1>14. (Numbered /\ NoneMissing)'
  BY <1>1, <1>10 DEF Inv, WayInv, Numbered, NoneMissing, OnWay
<1> QED BY <1>8, <1>9, <1>11, <1>12, <1>13, <1>14 DEF Inv, RxInv, WayInv

\* rxLoop, then: from the head of the reader's batch to the merged channel.
LEMMA SendStep == ASSUME Inv, NEW n \in Nics, HandOn(n), rpc[n] = "send" PROVE Inv'
<1> DEFINE x == Head(pending[n])
           qx == QueueOf[x.flow]
<1>1. /\ rpc' = [rpc EXCEPT ![n] = "read"] /\ rxCh' = Append(rxCh, x)
      /\ pending' = [pending EXCEPT ![n] = Tail(@)] /\ pending[n] # <<>>
      /\ UNCHANGED <<fill, umem, rx, hand, dpc, copied, shard, addrToConn, pos, got, count, dropped>>
  BY DEF HandOn, dispatch
<1>2. rxCh \in Seq(FrameSet) /\ pending[n] \in Seq(FrameSet) /\ Ordered(rxCh) /\ Ordered(pending[n]) /\ pending \in [Nics -> Seq(FrameSet)]
  BY DEF Inv, RxInv, RxTypes, WayInv, PlacesOrdered
<1>3. /\ x \in FrameSet /\ Tail(pending[n]) \in Seq(FrameSet) /\ Range(pending[n]) = {x} \cup Range(Tail(pending[n]))
      /\ Ordered(Tail(pending[n])) /\ Before({x}, Range(Tail(pending[n])))
  BY <1>1, <1>2, TailFacts
<1>4. x.flow \in Flows /\ qx \in Queues /\ NicOf(qx) = n
  BY <1>3, RxAssumption DEF Inv, RxInv, OwnPlaces, FrameSet
<1>5. Before(Range(got) \cup Range(rxCh), {x})
  BY <1>3, <1>4 DEF Inv, WayInv, WayOrdered, Chain, Before
<1> HIDE DEF x, qx
<1>6. rxCh' \in Seq(FrameSet) /\ Range(rxCh') = Range(rxCh) \cup {x} /\ Ordered(rxCh')
  <2>1. Before(Range(rxCh), {x})
    BY <1>5 DEF Before
  <2> QED BY <1>1, <1>2, <1>3, <2>1, AppendFacts
<1>7. pending'[n] = Tail(pending[n]) /\ \A k \in Nics \ {n} : pending'[k] = pending[k]
  BY <1>1, <1>2
<1>8. \A q : H(q)' = H(q) /\ X(q)' = X(q)
  BY <1>1 DEF H, X, In
<1>9. RxTypes'
  <2>1. rpc' \in [Nics -> ReadAt]
    BY <1>1 DEF Inv, RxInv, RxTypes, ReadAt
  <2>2. pending' \in [Nics -> Seq(FrameSet)]
    BY <1>1, <1>2, <1>3
  <2> QED BY <1>1, <1>6, <2>1, <2>2 DEF Inv, RxInv, RxTypes
<1>10. (DispatchShape /\ DescsApart)'
  BY <1>1 DEF Inv, RxInv, DispatchShape, DescsApart
<1>11. OwnPlaces'
  BY <1>1, <1>3, <1>7, <1>8 DEF Inv, RxInv, OwnPlaces
<1>12. Recorded'
  <2>1. addrToConn[x.flow] = NicOf(QueueOf[x.flow])
    BY <1>4 DEF Inv, RxInv, Recorded, x, qx
  <2>2. \A y \in Range(got') \cup Range(rxCh') : addrToConn'[y.flow] = NicOf(QueueOf[y.flow])
    BY <1>1, <1>6, <2>1 DEF Inv, RxInv, Recorded
  <2>3. rpc \in [Nics -> ReadAt]
    BY DEF Inv, RxInv, RxTypes
  <2>4. \A k \in Nics : rpc'[k] = "send" => k # n /\ rpc[k] = "send"
    BY <1>1, <2>3
  <2>5. \A k \in Nics : rpc'[k] = "send" => pending'[k] # <<>> /\ addrToConn'[Head(pending'[k]).flow] = k
    BY <1>1, <1>7, <2>4 DEF Inv, RxInv, Recorded
  <2> QED BY <2>2, <2>5 DEF Recorded
<1>13. PlacesOrdered'
  BY <1>1, <1>3, <1>6, <1>7, <1>8 DEF Inv, WayInv, PlacesOrdered
<1>14. WayOrdered'
  <2> SUFFICES ASSUME NEW q \in Queues
               PROVE  Chain(Range(got), Range(rxCh'), Range(pending'[NicOf(q)]), Range(shard[q]),
                            Range(copied[q]), Range(H(q)), Range(X(q)))
    BY <1>1, <1>8 DEF WayOrdered
  <2>1. Chain(Range(got), Range(rxCh), Range(pending[NicOf(q)]), Range(shard[q]), Range(copied[q]), Range(H(q)), Range(X(q)))
    BY DEF Inv, WayInv, WayOrdered
  <2>2. Before(Range(got), Range(rxCh'))
    BY <1>5, <1>6, <2>1 DEF Chain, Before
  <2>3. CASE NicOf(q) = n
    <3>1. Range(rxCh') \cup Range(pending'[n]) = Range(rxCh) \cup Range(pending[n])
      BY <1>3, <1>6, <1>7
    <3>2. Before(Range(got) \cup Range(rxCh'), Range(pending'[n]))
      BY <1>3, <1>6, <1>7, <2>1, <2>3 DEF Chain, Before
    <3>3. Range(got) \cup Range(rxCh') \cup Range(pending'[n]) = Range(got) \cup Range(rxCh) \cup Range(pending[n])
      BY <3>1
    <3> QED BY <2>1, <2>2, <2>3, <3>2, <3>3 DEF Chain
  <2>4. CASE NicOf(q) # n
    <3>0. NicOf(q) \in Nics
      BY NicFacts
    <3>1. pending'[NicOf(q)] = pending[NicOf(q)]
      BY <1>7, <2>4, <3>0
    <3>2. \A y \in Range(pending[NicOf(q)]) \cup Range(shard[q]) \cup Range(copied[q]) \cup Range(H(q)) \cup Range(X(q)) :
            y.flow # x.flow
      BY <1>4, <2>4, <3>0 DEF Inv, RxInv, OwnPlaces, qx
    <3> QED BY <1>6, <2>1, <2>2, <3>1, <3>2 DEF Chain, Before
  <2> QED BY <2>3, <2>4
<1>15. \A q \in Queues : OnWay(q) \subseteq OnWay(q)' /\ \A y \in OnWay(q)' : y \in OnWay(q) \/ y \in OnWay(qx)
  <2>1. x \in OnWay(qx)
    BY <1>3, <1>4 DEF OnWay
  <2>2. \A q \in Queues : NicOf(q) \in Nics
    BY NicFacts
  <2>3. \A k \in Nics : Range(pending'[k]) \subseteq Range(pending[k]) /\ Range(pending[k]) \subseteq Range(pending'[k]) \cup {x}
    BY <1>3, <1>7
  <2> TAKE q \in Queues
  <2>4. OnWay(q)' = Range(got) \cup Range(rxCh') \cup Range(pending'[NicOf(q)]) \cup Range(shard[q])
                      \cup Range(copied[q]) \cup Range(H(q)) \cup Range(X(q))
    BY <1>1, <1>8 DEF OnWay
  <2>5. /\ Range(pending'[NicOf(q)]) \subseteq Range(pending[NicOf(q)])
        /\ Range(pending[NicOf(q)]) \subseteq Range(pending'[NicOf(q)]) \cup {x}
    BY <2>2, <2>3
  <2> QED BY <1>6, <2>1, <2>4, <2>5 DEF OnWay
<1>16. Numbered'
  BY <1>1, <1>4, <1>15 DEF Inv, WayInv, Numbered
<1>17. NoneMissing'
  BY <1>1, <1>15, RxAssumption DEF Inv, WayInv, NoneMissing
<1> QED BY <1>9, <1>10, <1>11, <1>12, <1>13, <1>14, <1>16, <1>17 DEF Inv, RxInv, WayInv

\* ReadFrom: a shard moves behind the batch of its NIC.
LEMMA SweepStep == ASSUME Inv, NEW n \in Nics, Sweep(n) PROVE Inv'
<1> DEFINE q0 == ShardsOf[n][pos[n]]
           swept == pending[n] \o shard[q0]
<1>1. /\ pending' = [pending EXCEPT ![n] = swept] /\ shard' = [shard EXCEPT ![q0] = <<>>]
      /\ pos' = [pos EXCEPT ![n] = IF pos[n] = Len(ShardsOf[n]) THEN 1 ELSE @ + 1]
      /\ rpc' \in [Nics -> ReadAt] /\ \A k \in Nics : rpc'[k] = "send" => k # n /\ rpc[k] = "send"
      /\ UNCHANGED <<fill, umem, rx, hand, dpc, copied, rxCh, addrToConn, got, count, dropped>>
  <2>1. rpc \in [Nics -> ReadAt]
    BY DEF Inv, RxInv, RxTypes
  <2>2. rpc' \in [Nics -> ReadAt] /\ \A k \in Nics : rpc'[k] = "send" => k # n /\ rpc[k] = "send"
    BY <2>1 DEF Sweep, ReadAt
  <2> QED BY <2>2 DEF Sweep, dispatch, merged
<1>2. /\ pending \in [Nics -> Seq(FrameSet)] /\ shard \in [Queues -> Seq(FrameSet)]
      /\ pos \in [Nics -> Nat] /\ \A k \in Nics : pos[k] \in DOMAIN ShardsOf[k]
  BY DEF Inv, RxInv, RxTypes
<1>3. q0 \in Queues /\ NicOf(q0) = n
  BY <1>2, NicFacts
<1> HIDE DEF q0
<1>4. /\ pending[n] \in Seq(FrameSet) /\ shard[q0] \in Seq(FrameSet) /\ Ordered(pending[n]) /\ Ordered(shard[q0])
      /\ Before(Range(pending[n]), Range(shard[q0]))
  BY <1>2, <1>3 DEF Inv, WayInv, PlacesOrdered, WayOrdered, Chain, Before
<1>5. swept \in Seq(FrameSet) /\ Range(swept) = Range(pending[n]) \cup Range(shard[q0]) /\ Ordered(swept)
  BY <1>4, ConcatFacts
<1> HIDE DEF swept
<1>6. pending'[n] = swept /\ \A k \in Nics \ {n} : pending'[k] = pending[k]
  BY <1>1, <1>2
<1>7. shard'[q0] = <<>> /\ \A k \in Queues \ {q0} : shard'[k] = shard[k]
  BY <1>1, <1>2, <1>3
<1>8. \A q : H(q)' = H(q) /\ X(q)' = X(q)
  BY <1>1 DEF H, X, In
<1>9. pos' \in [Nics -> Nat] /\ \A k \in Nics : pos'[k] \in DOMAIN ShardsOf[k]
  <2>1. \A k \in Nics : Len(ShardsOf[k]) \in Nat \ {0} /\ DOMAIN ShardsOf[k] = 1..Len(ShardsOf[k])
    BY RxAssumption
  <2>2. pos[n] \in 1..Len(ShardsOf[n]) /\ Len(ShardsOf[n]) \in Nat \ {0}
    BY <1>2, <2>1
  <2>3. pos'[n] \in 1..Len(ShardsOf[n])
    BY <1>1, <1>2, <2>2
  <2> QED BY <1>1, <1>2, <2>1, <2>3
<1>10. RxTypes'
  <2>1. pending' \in [Nics -> Seq(FrameSet)]
    BY <1>1, <1>2, <1>5
  <2>2. shard' \in [Queues -> Seq(FrameSet)]
    <3>1. <<>> \in Seq(FrameSet)
      OBVIOUS
    <3> QED BY <1>1, <1>2, <3>1
  <2> QED BY <1>1, <1>9, <2>1, <2>2 DEF Inv, RxInv, RxTypes
<1>11. (DispatchShape /\ DescsApart)'
  BY <1>1 DEF Inv, RxInv, DispatchShape, DescsApart
<1>12. Range(shard'[q0]) = {} /\ Ordered(shard'[q0])
  BY <1>7, EmptyFacts
<1>13. (OwnPlaces /\ Recorded)'
  <2>1. \A y \in Range(shard[q0]) : NicOf(QueueOf[y.flow]) = n
    BY <1>3 DEF Inv, RxInv, OwnPlaces
  <2>2. \A k \in Queues : Range(shard'[k]) \subseteq Range(shard[k])
    BY <1>7, <1>12
  <2>3. \A k \in Nics : \A y \in Range(pending'[k]) : NicOf(QueueOf[y.flow]) = k
    BY <1>5, <1>6, <2>1 DEF Inv, RxInv, OwnPlaces
  <2>4. OwnPlaces'
    BY <1>1, <1>8, <2>2, <2>3 DEF Inv, RxInv, OwnPlaces
  <2>5. Recorded'
    BY <1>1, <1>6 DEF Inv, RxInv, Recorded
  <2> QED BY <2>4, <2>5
<1>14. PlacesOrdered'
  BY <1>1, <1>5, <1>6, <1>7, <1>8, <1>12 DEF Inv, WayInv, PlacesOrdered
<1>15. WayOrdered'
  <2> SUFFICES ASSUME NEW q \in Queues
               PROVE  Chain(Range(got), Range(rxCh), Range(pending'[NicOf(q)]), Range(shard'[q]),
                            Range(copied[q]), Range(H(q)), Range(X(q)))
    BY <1>1, <1>8 DEF WayOrdered
  <2>1. Chain(Range(got), Range(rxCh), Range(pending[NicOf(q)]), Range(shard[q]), Range(copied[q]), Range(H(q)), Range(X(q)))
    BY DEF Inv, WayInv, WayOrdered
  <2>2. CASE q = q0
    <3>1. Range(pending'[NicOf(q)]) = Range(pending[n]) \cup Range(shard[q0]) /\ Range(shard'[q]) = {} /\ NicOf(q) = n
      BY <1>3, <1>5, <1>6, <1>12, <2>2
    <3> QED BY <2>1, <2>2, <3>1 DEF Chain, Before
  <2>3. CASE q # q0 /\ NicOf(q) = n
    <3>1. Range(pending'[NicOf(q)]) = Range(pending[n]) \cup Range(shard[q0]) /\ shard'[q] = shard[q]
      BY <1>5, <1>6, <1>7, <2>3
    <3>2. \A y \in Range(shard[q]) \cup Range(copied[q]) \cup Range(H(q)) \cup Range(X(q)), z \in Range(shard[q0]) :
            y.flow # z.flow
      BY <1>3, <2>3 DEF Inv, RxInv, OwnPlaces
    <3>3. Before(Range(got) \cup Range(rxCh), Range(shard[q0]))
      BY <1>3 DEF Inv, WayInv, WayOrdered, Chain, Before
    <3> QED BY <2>1, <2>3, <3>1, <3>2, <3>3 DEF Chain, Before
  <2>4. CASE NicOf(q) # n
    <3>1. pending'[NicOf(q)] = pending[NicOf(q)] /\ shard'[q] = shard[q]
      BY <1>3, <1>6, <1>7, <2>4, NicFacts
    <3> QED BY <2>1, <3>1
  <2> QED BY <2>2, <2>3, <2>4
<1>16. \A q \in Queues : OnWay(q) \subseteq OnWay(q)' /\ \A y \in OnWay(q)' : y \in OnWay(q) \/ y \in OnWay(q0)
  <2>1. Range(shard[q0]) \subseteq OnWay(q0)
    BY DEF OnWay
  <2>2. \A q \in Queues : NicOf(q) \in Nics
    BY NicFacts
  <2>3. \A k \in Nics : Range(pending[k]) \subseteq Range(pending'[k]) /\ Range(pending'[k]) \subseteq Range(pending[k]) \cup Range(shard[q0])
    BY <1>5, <1>6
  <2>4. \A q \in Queues : Range(shard'[q]) \subseteq Range(shard[q]) /\ Range(shard[q]) \subseteq Range(shard'[q]) \cup Range(pending'[NicOf(q)])
    BY <1>3, <1>5, <1>6, <1>7, <1>12
  <2> TAKE q \in Queues
  <2>5. OnWay(q)' = Range(got) \cup Range(rxCh) \cup Range(pending'[NicOf(q)]) \cup Range(shard'[q])
                      \cup Range(copied[q]) \cup Range(H(q)) \cup Range(X(q))
    BY <1>1, <1>8 DEF OnWay
  <2>6. /\ Range(pending[NicOf(q)]) \subseteq Range(pending'[NicOf(q)])
        /\ Range(pending'[NicOf(q)]) \subseteq Range(pending[NicOf(q)]) \cup Range(shard[q0])
    BY <2>2, <2>3
  <2> QED BY <2>1, <2>4, <2>5, <2>6 DEF OnWay
<1>17. Numbered'
  BY <1>1, <1>3, <1>16 DEF Inv, WayInv, Numbered
<1>18. NoneMissing'
  BY <1>1, <1>16, RxAssumption DEF Inv, WayInv, NoneMissing
<1> QED BY <1>10, <1>11, <1>13, <1>14, <1>15, <1>17, <1>18 DEF Inv, RxInv, WayInv

\* A copied frame is nowhere else.
LEMMA CopyIsAlone ==
    ASSUME Inv, NEW q0 \in Queues, NEW x \in FrameSet, copied[q0] = <<x>>
    PROVE  /\ \A q \in Queues : x \notin Range(got) \cup Range(rxCh) \cup Range(pending[NicOf(q)]) \cup Range(shard[q])
                                           \cup Range(H(q)) \cup Range(X(q))
           /\ \A q \in Queues \ {q0} : x \notin Range(copied[q])
           /\ QueueOf[x.flow] = q0 /\ x.flow \in Flows /\ x \notin dropped /\ x.num \in 1..count[x.flow]
<1>1. Range(copied[q0]) = {x}
  BY SingleFacts
<1>2. QueueOf[x.flow] = q0 /\ x \notin dropped /\ x.num \in 1..count[x.flow]
  BY <1>1 DEF Inv, RxInv, OwnPlaces, WayInv, Numbered, OnWay
<1>3. x.flow \in Flows /\ ~(x.num < x.num)
  BY DEF FrameSet
<1>4. Chain(Range(got), Range(rxCh), Range(pending[NicOf(q0)]), Range(shard[q0]), {x}, Range(H(q0)), Range(X(q0)))
  BY <1>1 DEF Inv, WayInv, WayOrdered
<1>5. x \notin Range(got) \cup Range(rxCh) \cup Range(pending[NicOf(q0)]) \cup Range(shard[q0]) \cup Range(H(q0)) \cup Range(X(q0))
  BY <1>3, <1>4 DEF Chain, Before
<1>6. ASSUME NEW q \in Queues, q # q0
      PROVE  x \notin Range(pending[NicOf(q)]) \cup Range(shard[q]) \cup Range(H(q)) \cup Range(X(q)) \cup Range(copied[q])
  <2>1. x \notin Range(shard[q]) \cup Range(H(q)) \cup Range(X(q)) \cup Range(copied[q])
    BY <1>2, <1>6 DEF Inv, RxInv, OwnPlaces
  <2>2. x \notin Range(pending[NicOf(q)])
    BY <1>2, <1>5, NicFacts DEF Inv, RxInv, OwnPlaces
  <2> QED BY <2>1, <2>2
<1> QED BY <1>2, <1>3, <1>5, <1>6

\* dispatchFrame's end: under the lock the copy goes to the shard, or is dropped.
LEMMA AppendShardStep == ASSUME Inv, NEW q0 \in Queues, AppendShard(q0) PROVE Inv'
<1>0. PICK x \in FrameSet : copied[q0] = <<x>>
  BY DEF Inv, RxInv, DispatchShape, AppendShard
<1>a. Range(copied[q0]) = {x} /\ Ordered(<<x>>) /\ <<x>>[1] = x /\ <<x>> \in Seq(FrameSet) /\ <<>> \in Seq(FrameSet)
  BY <1>0, SingleFacts
<1>1. /\ \/ dropped' = dropped \cup {x} /\ dpc' = [dpc EXCEPT ![q0] = Rest(q0)] /\ shard' = shard
         \/ shard' = [shard EXCEPT ![q0] = @ \o <<x>>] /\ dpc' = [dpc EXCEPT ![q0] = "notify"] /\ dropped' = dropped
      /\ copied' = [copied EXCEPT ![q0] = <<>>]
      /\ UNCHANGED <<fill, umem, rx, hand, pending, rpc, pos, rxCh, addrToConn, got, count>>
  BY <1>0, <1>a DEF AppendShard, reader, merged, Payload
<1>2. shard \in [Queues -> Seq(FrameSet)] /\ copied \in [Queues -> Seq(FrameSet)]
      /\ dpc \in [Queues -> DispatchAt]
  BY DEF Inv, RxInv, RxTypes
<1>3. copied'[q0] = <<>> /\ \A q \in Queues \ {q0} : copied'[q] = copied[q]
  BY <1>1, <1>2
<1>4. Range(copied'[q0]) = {}
  BY <1>3, EmptyFacts
<1>5. /\ \A q \in Queues : x \notin Range(got) \cup Range(rxCh) \cup Range(pending[NicOf(q)]) \cup Range(shard[q])
                                           \cup Range(H(q)) \cup Range(X(q))
      /\ \A q \in Queues \ {q0} : x \notin Range(copied[q])
      /\ QueueOf[x.flow] = q0 /\ x.flow \in Flows /\ x \notin dropped /\ x.num \in 1..count[x.flow]
  BY <1>0, CopyIsAlone
<1>6. \A q : H(q)' = H(q) /\ X(q)' = X(q)
  BY <1>1 DEF H, X, In
<1>7. /\ shard' \in [Queues -> Seq(FrameSet)] /\ \A q \in Queues \ {q0} : shard'[q] = shard[q]
      /\ Ordered(shard'[q0])
      /\ \/ dropped' = dropped \cup {x} /\ shard'[q0] = shard[q0]
         \/ dropped' = dropped /\ Range(shard'[q0]) = Range(shard[q0]) \cup {x}
  <2>0. Ordered(shard[q0]) /\ shard[q0] \in Seq(FrameSet)
    BY <1>2 DEF Inv, WayInv, PlacesOrdered
  <2>1. CASE dropped' = dropped \cup {x} /\ shard' = shard
    BY <1>2, <2>0, <2>1
  <2>2. CASE dropped' = dropped /\ shard' = [shard EXCEPT ![q0] = @ \o <<x>>]
    <3> DEFINE u == shard[q0] \o <<x>>
    <3>1. Before(Range(shard[q0]), Range(<<x>>))
      BY <1>0 DEF Inv, WayInv, WayOrdered, Chain, Before
    <3>2. u \in Seq(FrameSet) /\ Range(u) = Range(shard[q0]) \cup Range(<<x>>) /\ Ordered(u)
      <4> DEFINE t == <<x>>
      <4>1. t \in Seq(FrameSet) /\ Ordered(t) /\ Before(Range(shard[q0]), Range(t))
        BY <1>a, <3>1
      <4> HIDE DEF t
      <4>2. shard[q0] \o t \in Seq(FrameSet) /\ Range(shard[q0] \o t) = Range(shard[q0]) \cup Range(t) /\ Ordered(shard[q0] \o t)
        BY <2>0, <4>1, ConcatFacts
      <4> QED BY <4>2 DEF t
    <3>3. shard' = [shard EXCEPT ![q0] = u]
      BY <2>2
    <3> HIDE DEF u
    <3>4. shard'[q0] = u /\ shard' \in [Queues -> Seq(FrameSet)] /\ \A q \in Queues \ {q0} : shard'[q] = shard[q]
      BY <1>2, <3>2, <3>3
    <3> QED BY <1>0, <1>a, <2>2, <3>2, <3>4
  <2> QED BY <1>1, <2>1, <2>2
<1>8. /\ dpc' \in [Queues -> DispatchAt]
      /\ dpc'[q0] \in {"notify", Rest(q0)} /\ \A q \in Queues \ {q0} : dpc'[q] = dpc[q]
  BY <1>1, <1>2 DEF Rest, DispatchAt
<1>9. RxTypes'
  <2>1. copied' \in [Queues -> Seq(FrameSet)]
    BY <1>1, <1>2, <1>a
  <2>2. dropped' \subseteq FrameSet
    BY <1>7 DEF Inv, RxInv, RxTypes
  <2> QED BY <1>1, <1>7, <1>8, <2>1, <2>2 DEF Inv, RxInv, RxTypes
<1>10. (DispatchShape /\ DescsApart)'
  <2>1. DescsApart'
    BY <1>1 DEF Inv, RxInv, DescsApart
  <2>2. dpc'[q0] # "append" /\ (dpc'[q0] = "frame" => hand'[q0] # <<>>) /\ (dpc'[q0] \in {"ring", "late"} => hand'[q0] = <<>>)
    BY <1>1, <1>8 DEF Rest
  <2>3. DispatchShape'
    BY <1>1, <1>3, <1>8, <2>2 DEF Inv, RxInv, DispatchShape
  <2> QED BY <2>1, <2>3
<1>11. \A q \in Queues : Range(copied'[q]) \subseteq Range(copied[q]) /\ Range(copied[q]) \subseteq Range(copied'[q]) \cup {x}
  BY <1>3, <1>4, <1>a
<1>12. (OwnPlaces /\ Recorded)'
  <2>0. \A q \in Queues : Range(shard'[q]) \cup Range(copied'[q]) \subseteq Range(shard[q]) \cup Range(copied[q])
    <3>1. \A q \in Queues \ {q0} : Range(shard'[q]) = Range(shard[q])
      BY <1>7
    <3>2. Range(shard'[q0]) \subseteq Range(shard[q0]) \cup Range(copied[q0])
      BY <1>7, <1>a
    <3> QED BY <1>11, <3>1, <3>2
  <2>1. OwnPlaces'
    BY <1>1, <1>6, <2>0 DEF Inv, RxInv, OwnPlaces
  <2>2. Recorded'
    BY <1>1 DEF Inv, RxInv, Recorded
  <2> QED BY <2>1, <2>2
<1>13. PlacesOrdered'
  BY <1>1, <1>6, <1>7 DEF Inv, WayInv, PlacesOrdered
<1>14. WayOrdered'
  <2> SUFFICES ASSUME NEW q \in Queues
               PROVE  Chain(Range(got), Range(rxCh), Range(pending[NicOf(q)]), Range(shard'[q]),
                            Range(copied'[q]), Range(H(q)), Range(X(q)))
    BY <1>1, <1>6 DEF WayOrdered
  <2>1. Chain(Range(got), Range(rxCh), Range(pending[NicOf(q)]), Range(shard[q]), Range(copied[q]), Range(H(q)), Range(X(q)))
    BY DEF Inv, WayInv, WayOrdered
  <2>2. CASE q = q0
    <3>1. Range(shard'[q]) \subseteq Range(shard[q]) \cup Range(copied[q]) /\ Range(copied'[q]) = {}
      BY <1>4, <1>7, <1>a, <2>2
    <3> QED BY <2>1, <3>1 DEF Chain, Before
  <2>3. CASE q # q0
    BY <1>3, <1>7, <2>1, <2>3
  <2> QED BY <2>2, <2>3
<1>15. \A q \in Queues : /\ OnWay(q)' \subseteq OnWay(q) /\ OnWay(q) \subseteq OnWay(q)' \cup dropped'
                         /\ \A y \in OnWay(q)' : y \notin dropped'
  <2> SUFFICES ASSUME NEW q \in Queues
               PROVE  /\ OnWay(q)' \subseteq OnWay(q) /\ OnWay(q) \subseteq OnWay(q)' \cup dropped'
                      /\ \A y \in OnWay(q)' : y \notin dropped'
    OBVIOUS
  <2>0. \A y \in OnWay(q) : y \notin dropped
    BY DEF Inv, WayInv, Numbered
  <2>1. CASE q # q0
    <3>1. OnWay(q)' = OnWay(q)
      BY <1>1, <1>3, <1>6, <1>7, <2>1 DEF OnWay
    <3>2. x \notin OnWay(q)
      BY <1>5, <2>1 DEF OnWay
    <3> QED BY <1>7, <2>0, <3>1, <3>2
  <2>2. CASE q = q0 /\ dropped' = dropped \cup {x} /\ shard'[q0] = shard[q0]
    <3>1. OnWay(q) = OnWay(q)' \cup {x} /\ x \notin OnWay(q)'
      BY <1>1, <1>4, <1>5, <1>6, <1>a, <2>2 DEF OnWay
    <3> QED BY <2>0, <2>2, <3>1
  <2>3. CASE q = q0 /\ dropped' = dropped /\ Range(shard'[q0]) = Range(shard[q0]) \cup {x}
    <3>1. OnWay(q) = OnWay(q)'
      BY <1>1, <1>4, <1>6, <1>a, <2>3 DEF OnWay
    <3> QED BY <2>0, <2>3, <3>1
  <2> QED BY <1>7, <2>1, <2>2, <2>3
<1>16. Numbered'
  <2>1. \A y \in dropped' : y.num \in 1..count[y.flow]
    BY <1>5, <1>7 DEF Inv, WayInv, Numbered
  <2>2. \A q \in Queues : \A y \in OnWay(q) : y.num \in 1..count[y.flow]
    BY DEF Inv, WayInv, Numbered
  <2> QED BY <1>1, <1>15, <2>1, <2>2 DEF Numbered
<1>17. NoneMissing'
  <2>1. dropped \subseteq dropped'
    BY <1>7
  <2> QED BY <1>1, <1>15, <2>1, RxAssumption DEF Inv, WayInv, NoneMissing
<1> QED BY <1>9, <1>10, <1>12, <1>13, <1>14, <1>16, <1>17 DEF Inv, RxInv, WayInv

\* dispatchFrame: the first frame in hand is copied or leaves, and its descriptor is given back.
LEMMA dispatchFrameStep == ASSUME Inv, NEW q0 \in Queues, dispatchFrame(q0) PROVE Inv'
<1> DEFINE d == Head(hand[q0])
           x == umem[q0][d]
           quic == Kind[x.flow] = "quic"
           c == IF quic THEN <<x>> ELSE <<>>
<1>1. /\ dpc[q0] = "frame" /\ hand' = [hand EXCEPT ![q0] = Tail(@)] /\ copied' = [copied EXCEPT ![q0] = c]
      /\ fill' = [fill EXCEPT ![q0] = Append(@, d)]
      /\ dpc' = [dpc EXCEPT ![q0] = IF quic THEN "append" ELSE IF Tail(hand[q0]) = <<>> THEN "ring" ELSE "frame"]
      /\ UNCHANGED <<umem, rx, shard, pending, rpc, pos, rxCh, addrToConn, got, count, dropped>>
  BY DEF dispatchFrame, reader, merged
<1>2. /\ fill \in [Queues -> Seq(1..Descs)] /\ hand \in [Queues -> Seq(1..Descs)] /\ rx \in [Queues -> Seq(1..Descs)]
      /\ umem \in [Queues -> [1..Descs -> Cells]] /\ copied \in [Queues -> Seq(FrameSet)]
      /\ dpc \in [Queues -> DispatchAt]
  BY DEF Inv, RxInv, RxTypes, Cells
<1>3. hand[q0] # <<>> /\ copied[q0] = <<>> /\ hand[q0] \in Seq(1..Descs) /\ umem[q0] \in [1..Descs -> Cells] /\ fill[q0] \in Seq(1..Descs)
  BY <1>1, <1>2 DEF Inv, RxInv, DispatchShape
<1>4. /\ d \in 1..Descs /\ Tail(hand[q0]) \in Seq(1..Descs) /\ Range(hand[q0]) = {d} \cup Range(Tail(hand[q0]))
      /\ Apart(Tail(hand[q0])) /\ d \notin Range(Tail(hand[q0]))
  BY <1>3, TailFacts DEF Inv, RxInv, DescsApart
<1>5. hand'[q0] = Tail(hand[q0]) /\ \A q \in Queues \ {q0} : hand'[q] = hand[q]
  BY <1>1, <1>2
<1>6. fill'[q0] = Append(fill[q0], d) /\ \A q \in Queues \ {q0} : fill'[q] = fill[q]
  BY <1>1, <1>2
<1>7. Append(fill[q0], d) \in Seq(1..Descs) /\ Range(fill'[q0]) = Range(fill[q0]) \cup {d} /\ Apart(fill'[q0])
  <2>1. Apart(fill[q0]) /\ d \notin Range(fill[q0])
    BY <1>4 DEF Inv, RxInv, DescsApart
  <2> DEFINE s == fill[q0]
             T == 1..Descs
  <2>2. s \in Seq(T) /\ d \in T /\ Apart(s) /\ d \notin Range(s)
    BY <1>3, <1>4, <2>1
  <2> HIDE DEF s, d, T
  <2>3. Append(s, d) \in Seq(T) /\ Range(Append(s, d)) = Range(s) \cup {d} /\ Apart(Append(s, d))
    BY <2>2, AppendApart
  <2> QED BY <1>6, <2>3 DEF s, T
<1>8. H(q0) \in Seq(Cells) /\ H(q0) # <<>> /\ Head(H(q0)) = x /\ H(q0)' = Tail(H(q0))
  <2>1. H(q0) = Read(umem[q0], hand[q0])
    BY Rings
  <2>2. H(q0)' = Read(umem[q0], Tail(hand[q0]))
    <3>1. umem' = umem /\ hand'[q0] = Tail(hand[q0])
      BY <1>1, <1>5
    <3> QED BY <3>1 DEF H, In, Read
  <2> DEFINE m == umem[q0]
             s == hand[q0]
  <2>3. m \in [1..Descs -> Cells] /\ s \in Seq(1..Descs) /\ s # <<>>
    BY <1>3
  <2> HIDE DEF m, s
  <2>4. Read(m, s) \in Seq(Cells) /\ Read(m, s) # <<>> /\ Head(Read(m, s)) = m[Head(s)] /\ Read(m, Tail(s)) = Tail(Read(m, s))
    BY <2>3, ReadFacts, ReadTail
  <2> QED BY <2>1, <2>2, <2>4 DEF m, s
<1>9. \A q : X(q)' = X(q)
  BY <1>1 DEF X, In
<1>10. \A q \in Queues \ {q0} : H(q)' = H(q)
  BY <1>1, <1>5 DEF H, In
<1>11. Ordered(H(q0))
  BY DEF Inv, WayInv, PlacesOrdered
<1>12. Range(H(q0)) = {x} \cup Range(H(q0)') /\ Ordered(H(q0)') /\ Before({x}, Range(H(q0)'))
  <2> DEFINE h == H(q0)
  <2>1. h \in Seq(Cells) /\ h # <<>> /\ Ordered(h)
    BY <1>8, <1>11
  <2> HIDE DEF h
  <2>2. Range(h) = {Head(h)} \cup Range(Tail(h)) /\ Ordered(Tail(h)) /\ Before({Head(h)}, Range(Tail(h)))
    BY <2>1, TailFacts
  <2> QED BY <1>8, <2>2 DEF h
<1>13. x \in FrameSet /\ QueueOf[x.flow] = q0
  BY <1>12 DEF Inv, RxInv, OwnPlaces
<1>14. /\ <<x>> \in Seq(FrameSet) /\ <<>> \in Seq(FrameSet)
       /\ Range(<<x>>) = {x} /\ Range(<<>>) = {} /\ Range(copied[q0]) = {}
  BY <1>3, <1>13, SingleFacts, EmptyFacts
<1> HIDE DEF d, x
<1>15. copied'[q0] = c /\ \A q \in Queues \ {q0} : copied'[q] = copied[q]
  BY <1>1, <1>2
<1>16. IF quic THEN copied'[q0] = <<x>> /\ Range(copied'[q0]) = {x} ELSE copied'[q0] = <<>> /\ Range(copied'[q0]) = {}
  BY <1>14, <1>15
<1>17. c \in Seq(FrameSet)
  BY <1>14
<1> HIDE DEF c
<1>18. RxTypes'
  <2>1. fill' \in [Queues -> Seq(1..Descs)]
    BY <1>1, <1>2, <1>7
  <2>2. hand' \in [Queues -> Seq(1..Descs)]
    BY <1>1, <1>2, <1>4
  <2>3. copied' \in [Queues -> Seq(FrameSet)]
    BY <1>1, <1>2, <1>17
  <2>4. dpc' \in [Queues -> DispatchAt]
    BY <1>1, <1>2 DEF DispatchAt
  <2> QED BY <1>1, <2>1, <2>2, <2>3, <2>4 DEF Inv, RxInv, RxTypes
<1>19. DispatchShape'
  <2>1. dpc'[q0] = (IF quic THEN "append" ELSE IF hand'[q0] = <<>> THEN "ring" ELSE "frame")
        /\ \A q \in Queues \ {q0} : dpc'[q] = dpc[q]
    BY <1>1, <1>2, <1>5
  <2>2. /\ dpc'[q0] = "frame" => hand'[q0] # <<>>
        /\ dpc'[q0] \in {"ring", "late"} => hand'[q0] = <<>>
        /\ IF dpc'[q0] = "append" THEN \E y \in FrameSet : copied'[q0] = <<y>> ELSE copied'[q0] = <<>>
    BY <1>13, <1>16, <2>1
  <2>3. \A q \in Queues \ {q0} :
        /\ dpc'[q] = "frame" => hand'[q] # <<>>
        /\ dpc'[q] \in {"ring", "late"} => hand'[q] = <<>>
        /\ IF dpc'[q] = "append" THEN \E y \in FrameSet : copied'[q] = <<y>> ELSE copied'[q] = <<>>
    BY <1>5, <1>15, <2>1 DEF Inv, RxInv, DispatchShape
  <2> QED BY <2>2, <2>3 DEF DispatchShape
<1>20. DescsApart'
  <2>1. /\ Apart(fill'[q0]) /\ Apart(rx'[q0]) /\ Apart(hand'[q0])
        /\ Range(fill'[q0]) \cap Range(rx'[q0]) = {} /\ Range(fill'[q0]) \cap Range(hand'[q0]) = {}
        /\ Range(rx'[q0]) \cap Range(hand'[q0]) = {}
    BY <1>1, <1>4, <1>5, <1>7 DEF Inv, RxInv, DescsApart
  <2> QED BY <1>1, <1>5, <1>6, <2>1 DEF Inv, RxInv, DescsApart
<1>21. \A q \in Queues : Range(copied'[q]) \cup Range(H(q)') \subseteq Range(copied[q]) \cup Range(H(q))
  BY <1>10, <1>12, <1>15, <1>16
<1>22. (OwnPlaces /\ Recorded)'
  <2>1. OwnPlaces'
    BY <1>1, <1>9, <1>21 DEF Inv, RxInv, OwnPlaces
  <2>2. Recorded'
    BY <1>1 DEF Inv, RxInv, Recorded
  <2> QED BY <2>1, <2>2
<1>23. PlacesOrdered'
  BY <1>1, <1>9, <1>10, <1>12 DEF Inv, WayInv, PlacesOrdered
<1>24. WayOrdered'
  <2> SUFFICES ASSUME NEW q \in Queues
               PROVE  Chain(Range(got), Range(rxCh), Range(pending[NicOf(q)]), Range(shard[q]),
                            Range(copied'[q]), Range(H(q)'), Range(X(q)))
    BY <1>1, <1>9 DEF WayOrdered
  <2>1. Chain(Range(got), Range(rxCh), Range(pending[NicOf(q)]), Range(shard[q]), Range(copied[q]), Range(H(q)), Range(X(q)))
    BY DEF Inv, WayInv, WayOrdered
  <2>2. CASE q = q0
    <3>1. Range(copied'[q]) \subseteq {x} /\ Range(H(q)) = {x} \cup Range(H(q)') /\ Before({x}, Range(H(q)'))
      BY <1>12, <1>16, <2>2
    <3> QED BY <2>1, <3>1 DEF Chain, Before
  <2>3. CASE q # q0
    BY <1>10, <1>15, <2>1, <2>3
  <2> QED BY <2>2, <2>3
<1>25. \A q \in Queues : /\ OnWay(q)' \subseteq OnWay(q)
                         /\ \A y \in OnWay(q) : y \in OnWay(q)' \/ (y = x /\ ~quic)
  <2>1. \A q \in Queues : OnWay(q)' \subseteq OnWay(q)
    BY <1>1, <1>9, <1>21 DEF OnWay
  <2>2. \A q \in Queues : \A y \in Range(copied[q]) \cup Range(H(q)) :
           y \in Range(copied'[q]) \cup Range(H(q)') \/ (y = x /\ ~quic)
    BY <1>10, <1>12, <1>14, <1>15, <1>16
  <2> QED BY <1>1, <1>9, <2>1, <2>2 DEF OnWay
<1>26. Numbered'
  BY <1>1, <1>25 DEF Inv, WayInv, Numbered
<1>27. NoneMissing'
  <2> SUFFICES ASSUME NEW f \in Flows, Kind[f] = "quic", NEW k \in 1..count[f]
               PROVE  Frame(f, k) \in dropped \cup OnWay(QueueOf[f])'
    BY <1>1 DEF NoneMissing
  <2>1. Frame(f, k) \in dropped \cup OnWay(QueueOf[f])
    BY DEF Inv, WayInv, NoneMissing
  <2>2. Frame(f, k).flow = f /\ QueueOf[f] \in Queues
    BY RxAssumption DEF Frame
  <2> QED BY <1>25, <2>1, <2>2
<1> QED BY <1>18, <1>19, <1>20, <1>22, <1>23, <1>24, <1>26, <1>27 DEF Inv, RxInv, WayInv

\* Receive: all received descriptors are taken in hand.
LEMMA ReceiveStep == ASSUME Inv, NEW q0 \in Queues, Receive(q0) PROVE Inv'
<1>1. /\ dpc[q0] \in {"ring", "late"} /\ hand' = [hand EXCEPT ![q0] = rx[q0]] /\ rx' = [rx EXCEPT ![q0] = <<>>]
      /\ dpc' = [dpc EXCEPT ![q0] = IF rx[q0] = <<>> THEN "ring" ELSE "frame"]
      /\ UNCHANGED <<fill, umem, copied, shard, pending, rpc, pos, rxCh, addrToConn, got, count, dropped>>
  BY DEF Receive, reader, merged
<1>2. /\ hand \in [Queues -> Seq(1..Descs)] /\ rx \in [Queues -> Seq(1..Descs)] /\ umem \in [Queues -> [1..Descs -> Cells]]
      /\ dpc \in [Queues -> DispatchAt]
  BY DEF Inv, RxInv, RxTypes, Cells
<1>3. hand[q0] = <<>> /\ copied[q0] = <<>> /\ umem[q0] \in [1..Descs -> Cells]
  BY <1>1, <1>2 DEF Inv, RxInv, DispatchShape
<1>4. hand'[q0] = rx[q0] /\ rx'[q0] = <<>> /\ \A q \in Queues \ {q0} : hand'[q] = hand[q] /\ rx'[q] = rx[q]
  BY <1>1, <1>2
<1>5. H(q0) = <<>> /\ H(q0)' = X(q0) /\ X(q0)' = <<>>
  <2>1. H(q0) = Read(umem[q0], <<>>) /\ X(q0)' = Read(umem[q0], <<>>) /\ H(q0)' = X(q0)
    BY <1>1, <1>3, <1>4 DEF H, X, In, Read
  <2> QED BY <1>3, <2>1, ReadEmpty
<1>6. \A q \in Queues \ {q0} : H(q)' = H(q) /\ X(q)' = X(q)
  BY <1>1, <1>4 DEF H, X, In
<1>7. Range(<<>>) = {} /\ Ordered(<<>>) /\ Apart(<<>>)
  BY EmptyFacts
<1>8. RxTypes'
  <2>1. <<>> \in Seq(1..Descs)
    OBVIOUS
  <2>2. hand' \in [Queues -> Seq(1..Descs)]
    BY <1>1, <1>2
  <2>3. rx' \in [Queues -> Seq(1..Descs)]
    BY <1>1, <1>2, <2>1
  <2>4. dpc' \in [Queues -> DispatchAt]
    BY <1>1, <1>2 DEF DispatchAt
  <2> QED BY <1>1, <2>2, <2>3, <2>4 DEF Inv, RxInv, RxTypes
<1>9. DispatchShape'
  <2>1. dpc'[q0] = (IF hand'[q0] = <<>> THEN "ring" ELSE "frame") /\ \A q \in Queues \ {q0} : dpc'[q] = dpc[q]
    BY <1>1, <1>2, <1>4
  <2> QED BY <1>1, <1>3, <1>4, <2>1 DEF Inv, RxInv, DispatchShape
<1>10. DescsApart'
  <2>1. \A q \in Queues : \/ hand'[q] = hand[q] /\ rx'[q] = rx[q]
                          \/ hand'[q] = rx[q] /\ Range(rx'[q]) = {} /\ Apart(rx'[q])
    BY <1>4, <1>7
  <2> QED BY <1>1, <2>1 DEF Inv, RxInv, DescsApart
<1>11. \A q \in Queues : \/ H(q)' = H(q) /\ X(q)' = X(q)
                         \/ H(q)' = X(q) /\ Range(H(q)) = {} /\ Range(X(q)') = {} /\ Ordered(X(q)')
  BY <1>5, <1>6, <1>7
<1>12. OwnPlaces'
  BY <1>1, <1>11 DEF Inv, RxInv, OwnPlaces
<1>13. Recorded'
  BY <1>1 DEF Inv, RxInv, Recorded
<1>14. PlacesOrdered'
  BY <1>1, <1>11 DEF Inv, WayInv, PlacesOrdered
<1>15. WayOrdered'
  <2> SUFFICES ASSUME NEW q \in Queues
               PROVE  Chain(Range(got), Range(rxCh), Range(pending[NicOf(q)]), Range(shard[q]),
                            Range(copied[q]), Range(H(q)'), Range(X(q)'))
    BY <1>1 DEF WayOrdered
  <2>1. Chain(Range(got), Range(rxCh), Range(pending[NicOf(q)]), Range(shard[q]), Range(copied[q]), Range(H(q)), Range(X(q)))
    BY DEF Inv, WayInv, WayOrdered
  <2>2. CASE H(q)' = H(q) /\ X(q)' = X(q)
    BY <2>1, <2>2
  <2>3. CASE H(q)' = X(q) /\ Range(H(q)) = {} /\ Range(X(q)') = {}
    BY <2>1, <2>3 DEF Chain, Before
  <2> QED BY <1>11, <2>2, <2>3
<1>16. \A q \in Queues : OnWay(q)' = OnWay(q)
  BY <1>1, <1>11 DEF OnWay
<1>17. (Numbered /\ NoneMissing)'
  BY <1>1, <1>16, RxAssumption DEF Inv, WayInv, Numbered, NoneMissing
<1> QED BY <1>8, <1>9, <1>10, <1>12, <1>13, <1>14, <1>15, <1>17 DEF Inv, RxInv, WayInv

\* Arrive: the next frame of a flow, in a descriptor that no other ring holds.
LEMMA ArriveStep == ASSUME Inv, NEW f \in Flows, Arrive(f) PROVE Inv'
<1> DEFINE q0 == QueueOf[f]
           d == Head(fill[q0])
           k == count[f] + 1
           x == Frame(f, k)
           m == umem[q0]
           mx == umem'[q0]
<1>0. /\ fill \in [Queues -> Seq(1..Descs)] /\ rx \in [Queues -> Seq(1..Descs)] /\ hand \in [Queues -> Seq(1..Descs)]
      /\ umem \in [Queues -> [1..Descs -> Cells]] /\ count \in [Flows -> Nat] /\ q0 \in Queues
  BY RxAssumption DEF Inv, RxInv, RxTypes, Cells
<1>1. /\ fill[q0] # <<>> /\ count' = [count EXCEPT ![f] = k]
      /\ umem' = [umem EXCEPT ![q0][d] = x] /\ rx' = [rx EXCEPT ![q0] = Append(@, d)] /\ fill' = [fill EXCEPT ![q0] = Tail(@)]
      /\ UNCHANGED <<hand, dpc, copied, shard, pending, rpc, pos, rxCh, addrToConn, got, dropped>>
  <2>1. count' = [count EXCEPT ![f] = @ + 1]
    BY DEF Arrive
  <2>2. count'[f] = k
    BY <1>0, <2>1
  <2> QED BY <2>1, <2>2 DEF Arrive, reader, merged
<1>2. x \in FrameSet /\ x.flow = f /\ x.num = k /\ x \in Cells
  BY <1>0 DEF FrameSet, Frame, Cells
<1>3. /\ d \in 1..Descs /\ Tail(fill[q0]) \in Seq(1..Descs) /\ Range(fill[q0]) = {d} \cup Range(Tail(fill[q0]))
      /\ Apart(Tail(fill[q0])) /\ d \notin Range(Tail(fill[q0]))
  <2> DEFINE s == fill[q0]
  <2>1. s \in Seq(1..Descs) /\ s # <<>> /\ Apart(s)
    BY <1>0, <1>1 DEF Inv, RxInv, DescsApart
  <2> HIDE DEF s
  <2>2. Head(s) \in 1..Descs /\ Tail(s) \in Seq(1..Descs) /\ Range(s) = {Head(s)} \cup Range(Tail(s)) /\ Apart(Tail(s)) /\ Head(s) \notin Range(Tail(s))
    BY <2>1, TailFacts
  <2> QED BY <2>2 DEF s
<1> HIDE DEF q0
<1>4. d \notin Range(rx[q0]) /\ d \notin Range(hand[q0])
  BY <1>0, <1>3 DEF Inv, RxInv, DescsApart
<1> HIDE DEF d, k, x
<1>5. fill'[q0] = Tail(fill[q0]) /\ rx'[q0] = Append(rx[q0], d)
      /\ \A q \in Queues \ {q0} : fill'[q] = fill[q] /\ rx'[q] = rx[q] /\ umem'[q] = umem[q]
  BY <1>0, <1>1
<1>6. m \in [1..Descs -> Cells] /\ mx = [m EXCEPT ![d] = x] /\ rx[q0] \in Seq(1..Descs)
  BY <1>0, <1>1
<1>7. mx \in [1..Descs -> Cells] /\ mx[d] = x /\ \A e \in 1..Descs : e # d => mx[e] = m[e]
  BY <1>2, <1>3, <1>6
<1>8. /\ Append(rx[q0], d) \in Seq(1..Descs) /\ Range(rx'[q0]) = Range(rx[q0]) \cup {d} /\ Apart(rx'[q0])
  <2> DEFINE s == rx[q0]
             T == 1..Descs
  <2>1. s \in Seq(T) /\ Apart(s) /\ d \notin Range(s)
    BY <1>0, <1>4 DEF Inv, RxInv, DescsApart
  <2>2. d \in T
    BY <1>3
  <2> HIDE DEF s, T
  <2>3. Append(s, d) \in Seq(T) /\ Range(Append(s, d)) = Range(s) \cup {d} /\ Apart(Append(s, d))
    BY <2>1, <2>2, AppendApart
  <2> QED BY <1>5, <2>3 DEF s, T
<1>9. H(q0)' = H(q0)
  <2>1. Range(hand[q0]) \subseteq 1..Descs
    BY <1>0, RangeOfSeq
  <2>2. Read(mx, hand[q0]) = Read(m, hand[q0])
    BY <1>4, <1>7, <2>1, ReadSame
  <2>3. H(q0) = Read(m, hand[q0])
    BY Rings
  <2>4. H(q0)' = Read(mx, hand[q0])
    <3>1. hand' = hand
      BY <1>1
    <3> QED BY <3>1 DEF H, In, Read
  <2> QED BY <2>2, <2>3, <2>4
<1>10. X(q0)' = Append(X(q0), x) /\ X(q0) \in Seq(Cells)
  <2> DEFINE s == rx[q0]
  <2>1. Range(s) \subseteq 1..Descs /\ s \in Seq(1..Descs)
    BY <1>6, RangeOfSeq
  <2>2. Read(mx, s) = Read(m, s)
    BY <1>4, <1>7, <2>1, ReadSame
  <2>3. X(q0) = Read(m, s)
    BY Rings
  <2>4. X(q0)' = Read(mx, Append(s, d))
    BY <1>5 DEF X, In, Read
  <2> HIDE DEF s, m, mx
  <2>5. Read(mx, Append(s, d)) = Append(Read(mx, s), mx[d])
    BY <1>3, <1>7, <2>1, ReadAppend
  <2>6. Read(m, s) \in Seq(Cells)
    BY <1>6, <2>1, ReadFacts
  <2> QED BY <1>7, <2>2, <2>3, <2>4, <2>5, <2>6
<1>11. \A q \in Queues \ {q0} : H(q)' = H(q) /\ X(q)' = X(q)
  BY <1>1, <1>5 DEF H, X, In
<1>12. count'[f] = k /\ k \in Nat /\ count[f] < k /\ \A g \in Flows \ {f} : count'[g] = count[g]
  BY <1>0, <1>1 DEF k
<1>13. \A q \in Queues : Before(OnWay(q), {x})
  <2>1. \A q \in Queues : \A y \in OnWay(q) : y.num \in 1..count[y.flow]
    BY DEF Inv, WayInv, Numbered
  <2>2. \A j \in 1..count[f] : j < k
    BY <1>0, <1>12
  <2> QED BY <1>2, <2>1, <2>2 DEF Before
<1>14. Range(X(q0)') = Range(X(q0)) \cup {x} /\ Ordered(X(q0)')
  <2> DEFINE s == X(q0)
  <2>1. s \in Seq(Cells) /\ Ordered(s) /\ Before(Range(s), {x})
    BY <1>0, <1>10, <1>13 DEF Inv, WayInv, PlacesOrdered, Before, OnWay
  <2> HIDE DEF s
  <2>2. Range(Append(s, x)) = Range(s) \cup {x} /\ Ordered(Append(s, x))
    BY <1>2, <2>1, AppendFacts
  <2> QED BY <1>10, <2>2 DEF s
<1>15. RxTypes'
  <2>1. fill' \in [Queues -> Seq(1..Descs)]
    BY <1>0, <1>1, <1>3
  <2>2. rx' \in [Queues -> Seq(1..Descs)]
    BY <1>0, <1>1, <1>8
  <2>3. umem' \in [Queues -> [1..Descs -> Cells]]
    BY <1>0, <1>1, <1>5, <1>7
  <2>4. count' \in [Flows -> Nat]
    BY <1>0, <1>1, <1>12
  <2> QED BY <1>1, <2>1, <2>2, <2>3, <2>4 DEF Inv, RxInv, RxTypes, Cells
<1>16. DispatchShape'
  BY <1>1 DEF Inv, RxInv, DispatchShape
<1>17. DescsApart'
  <2>1. /\ Apart(fill'[q0]) /\ Apart(rx'[q0]) /\ Apart(hand'[q0])
        /\ Range(fill'[q0]) \cap Range(rx'[q0]) = {} /\ Range(fill'[q0]) \cap Range(hand'[q0]) = {}
        /\ Range(rx'[q0]) \cap Range(hand'[q0]) = {}
    BY <1>0, <1>1, <1>3, <1>4, <1>5, <1>8 DEF Inv, RxInv, DescsApart
  <2> QED BY <1>1, <1>5, <2>1 DEF Inv, RxInv, DescsApart
<1>18. \A q \in Queues : /\ H(q)' = H(q) /\ Ordered(X(q)')
                         /\ \/ Range(X(q)') = Range(X(q))
                            \/ q = q0 /\ Range(X(q)') = Range(X(q)) \cup {x}
  BY <1>9, <1>11, <1>14 DEF Inv, WayInv, PlacesOrdered
<1>19. OwnPlaces'
  BY <1>1, <1>2, <1>18 DEF Inv, RxInv, OwnPlaces, q0
<1>20. Recorded'
  BY <1>1 DEF Inv, RxInv, Recorded
<1>21. PlacesOrdered'
  BY <1>1, <1>18 DEF Inv, WayInv, PlacesOrdered
<1>22. WayOrdered'
  <2> SUFFICES ASSUME NEW q \in Queues
               PROVE  Chain(Range(got), Range(rxCh), Range(pending[NicOf(q)]), Range(shard[q]),
                            Range(copied[q]), Range(H(q)), Range(X(q)'))
    BY <1>1, <1>18 DEF WayOrdered
  <2>1. Chain(Range(got), Range(rxCh), Range(pending[NicOf(q)]), Range(shard[q]), Range(copied[q]), Range(H(q)), Range(X(q)))
    BY DEF Inv, WayInv, WayOrdered
  <2>2. Before(OnWay(q), {x}) /\ Range(X(q)') \subseteq Range(X(q)) \cup {x}
    BY <1>13, <1>18
  <2> QED BY <2>1, <2>2 DEF Chain, Before, OnWay
<1>23. \A q \in Queues : OnWay(q) \subseteq OnWay(q)' /\ OnWay(q)' \subseteq OnWay(q) \cup {x}
  BY <1>1, <1>18 DEF OnWay
<1>24. x \in OnWay(q0)'
  BY <1>14 DEF OnWay
<1>25. \A g \in Flows : count[g] \in Nat /\ count'[g] \in Nat /\ count[g] <= count'[g]
  <2> TAKE g \in Flows
  <2>1. count[g] \in Nat /\ count[f] \in Nat
    BY <1>0
  <2>2. CASE g = f
    BY <1>12, <2>1, <2>2
  <2>3. CASE g # f
    BY <1>12, <2>1, <2>3
  <2> QED BY <2>2, <2>3
<1>26. x \notin dropped
  <2>1. ~(k \in 1..count[f])
    BY <1>0, <1>12
  <2> QED BY <1>2, <2>1 DEF Inv, WayInv, Numbered
<1>27. Numbered'
  <2>1. \A y \in FrameSet : y.flow \in Flows
    BY DEF FrameSet
  <2>2. \A q \in Queues : OnWay(q) \subseteq FrameSet
    BY WayOfFrames DEF Inv
  <2>3. \A q \in Queues : \A y \in OnWay(q) : y.num \in 1..count'[y.flow] /\ y \notin dropped
    <3>1. \A q \in Queues : \A y \in OnWay(q) : y.num \in 1..count[y.flow] /\ y.flow \in Flows /\ y \notin dropped
      BY <2>1, <2>2 DEF Inv, WayInv, Numbered
    <3>2. \A g \in Flows : \A j \in 1..count[g] : j \in 1..count'[g]
      BY <1>25
    <3> QED BY <3>1, <3>2
  <2>4. \A y \in dropped : y.num \in 1..count'[y.flow]
    <3>1. \A y \in dropped : y.num \in 1..count[y.flow] /\ y.flow \in Flows
      BY <2>1 DEF Inv, RxInv, RxTypes, WayInv, Numbered
    <3>2. \A g \in Flows : \A j \in 1..count[g] : j \in 1..count'[g]
      BY <1>25
    <3> QED BY <3>1, <3>2
  <2>5. x.num \in 1..count'[x.flow]
    <3>1. k \in 1..k
      BY <1>0, <1>12 DEF k
    <3> QED BY <1>2, <1>12, <3>1
  <2> QED BY <1>1, <1>23, <1>26, <2>3, <2>4, <2>5 DEF Numbered
<1>28. NoneMissing'
  <2> SUFFICES ASSUME NEW g \in Flows, Kind[g] = "quic", NEW i \in 1..count'[g]
               PROVE  Frame(g, i) \in dropped \cup OnWay(QueueOf[g])'
    BY <1>1 DEF NoneMissing
  <2>1. QueueOf[g] \in Queues
    BY RxAssumption
  <2>2. CASE i \in 1..count[g]
    BY <1>23, <2>1, <2>2 DEF Inv, WayInv, NoneMissing
  <2>3. CASE ~(i \in 1..count[g])
    <3>1. g = f /\ i = k
      BY <1>0, <1>12, <1>25, <2>3 DEF k
    <3> QED BY <1>24, <3>1 DEF x, q0
  <2> QED BY <2>2, <2>3
<1> QED BY <1>15, <1>16, <1>17, <1>19, <1>20, <1>21, <1>22, <1>27, <1>28 DEF Inv, RxInv, WayInv
-----------------------------------------------------------------------------
LEMMA InvInit == Init => Inv
<1> SUFFICES ASSUME Init PROVE Inv
  OBVIOUS
<1>1. /\ Range(<<>>) = {} /\ Ordered(<<>>) /\ Apart(<<>>) /\ <<>> \in Seq(FrameSet) /\ <<>> \in Seq(1..Descs)
  BY EmptyFacts
<1> DEFINE all == [i \in 1..Descs |-> i]
<1>2. all \in Seq(1..Descs) /\ Apart(all)
  <2>1. Descs \in Nat
    BY RxAssumption
  <2>2. all \in [1..Descs -> 1..Descs]
    OBVIOUS
  <2>3. all \in Seq(1..Descs)
    BY <2>1, <2>2, SeqDef
  <2> QED BY <2>3 DEF Apart
<1> HIDE DEF all
<1>3. /\ fill = [q \in Queues |-> all] /\ umem = [q \in Queues |-> [d \in 1..Descs |-> NoFrame]]
      /\ rx = [q \in Queues |-> <<>>] /\ hand = [q \in Queues |-> <<>>] /\ copied = [q \in Queues |-> <<>>]
      /\ shard = [q \in Queues |-> <<>>] /\ pending = [n \in Nics |-> <<>>] /\ rxCh = <<>> /\ got = <<>>
      /\ dpc = [q \in Queues |-> "ring"] /\ rpc = [n \in Nics |-> "read"] /\ pos = [n \in Nics |-> 1]
      /\ addrToConn = [f \in Flows |-> NoNic] /\ count = [f \in Flows |-> 0] /\ dropped = {}
  BY DEF Init, all
<1>4. \A q \in Queues : /\ fill[q] = all /\ rx[q] = <<>> /\ hand[q] = <<>> /\ copied[q] = <<>> /\ shard[q] = <<>>
                        /\ dpc[q] = "ring" /\ pending[NicOf(q)] = <<>>
  BY <1>3, NicFacts
<1>5. \A q \in Queues : H(q) = <<>> /\ X(q) = <<>>
  <2> TAKE q \in Queues
  <2>1. umem[q] \in [1..Descs -> Cells]
    BY <1>3 DEF Cells
  <2>2. Read(umem[q], <<>>) = <<>>
    BY <2>1, ReadEmpty
  <2> QED BY <1>4, <2>2, Rings
<1>6. \A q \in Queues : OnWay(q) = {}
  BY <1>1, <1>3, <1>4, <1>5 DEF OnWay
<1>7. RxTypes
  <2>1. \A n \in Nics : 1 \in DOMAIN ShardsOf[n]
    BY RxAssumption
  <2>2. fill \in [Queues -> Seq(1..Descs)] /\ rx \in [Queues -> Seq(1..Descs)] /\ hand \in [Queues -> Seq(1..Descs)]
    BY <1>1, <1>2, <1>3
  <2>3. /\ copied \in [Queues -> Seq(FrameSet)] /\ shard \in [Queues -> Seq(FrameSet)] /\ pending \in [Nics -> Seq(FrameSet)]
        /\ rxCh \in Seq(FrameSet) /\ got \in Seq(FrameSet)
    BY <1>1, <1>3
  <2>4. umem \in [Queues -> [1..Descs -> FrameSet \cup {NoFrame}]]
    BY <1>3
  <2>5. pos \in [Nics -> Nat] /\ \A n \in Nics : pos[n] \in DOMAIN ShardsOf[n]
    BY <1>3, <2>1
  <2>6. /\ dpc \in [Queues -> DispatchAt]
        /\ rpc \in [Nics -> ReadAt]
        /\ addrToConn \in [Flows -> Nics \cup {NoNic}] /\ count \in [Flows -> Nat] /\ dropped \subseteq FrameSet
    BY <1>3 DEF DispatchAt, ReadAt
  <2> QED BY <2>2, <2>3, <2>4, <2>5, <2>6 DEF RxTypes
<1>8. DispatchShape
  BY <1>4 DEF DispatchShape
<1>9. DescsApart
  BY <1>1, <1>2, <1>4 DEF DescsApart
<1>10. OwnPlaces
  BY <1>1, <1>3, <1>4, <1>5 DEF OwnPlaces
<1>11. Recorded
  BY <1>1, <1>3 DEF Recorded
<1>12. PlacesOrdered
  BY <1>1, <1>3, <1>4, <1>5 DEF PlacesOrdered
<1>13. WayOrdered
  BY <1>1, <1>3, <1>4, <1>5 DEF WayOrdered, Chain, Before
<1>14. Numbered
  BY <1>3, <1>6 DEF Numbered
<1>15. NoneMissing
  <2>1. \A f \in Flows : 1..count[f] = {}
    BY <1>3
  <2> QED BY <2>1 DEF NoneMissing
<1> QED BY <1>7, <1>8, <1>9, <1>10, <1>11, <1>12, <1>13, <1>14, <1>15 DEF Inv, RxInv, WayInv

LEMMA InvStep == Inv /\ [Next]_vars => Inv'
<1> SUFFICES ASSUME Inv, [Next]_vars PROVE Inv'
  OBVIOUS
<1>1. /\ dpc \in [Queues -> DispatchAt]
      /\ rpc \in [Nics -> ReadAt] /\ DispatchShape
  BY DEF Inv, RxInv, RxTypes
<1>2. ASSUME NEW f \in Flows, Arrive(f) PROVE Inv'
  BY <1>2, ArriveStep
<1>3. ASSUME NEW q \in Queues, Receive(q) PROVE Inv'
  BY <1>3, ReceiveStep
<1>4. ASSUME NEW q \in Queues, dispatchFrame(q) PROVE Inv'
  BY <1>4, dispatchFrameStep
<1>5. ASSUME NEW q \in Queues, AppendShard(q) PROVE Inv'
  BY <1>5, AppendShardStep
<1>6. ASSUME NEW q \in Queues, DispatchEnd(q) \/ SocketGone(q) \/ Notify(q) PROVE Inv'
  <2>1. /\ dpc[q] # "append" /\ dpc' = [dpc EXCEPT ![q] = IF dpc[q] = "notify" THEN Rest(q) ELSE "ended"]
        /\ UNCHANGED <<fill, umem, rx, hand, copied, shard, pending, pos, merged, count, dropped, rpc>>
    BY <1>6 DEF DispatchEnd, SocketGone, Notify, reader
  <2>2. dpc' \in [Queues -> DispatchAt]
    BY <1>1, <2>1 DEF Rest, DispatchAt
  <2>3. dpc'[q] \in {"ended", Rest(q)} /\ \A k \in Queues \ {q} : dpc'[k] = dpc[k]
    BY <1>1, <2>1
  <2>4. copied[q] = <<>>
    BY <1>1, <2>1 DEF DispatchShape
  <2>5. DispatchShape'
    BY <1>1, <2>1, <2>3, <2>4 DEF DispatchShape, Rest
  <2> QED BY <1>1, <2>1, <2>2, <2>5, QuietStep
<1>7. ASSUME NEW n \in Nics, HandOn(n) PROVE Inv'
  <2>1. rpc[n] = "read" \/ rpc[n] = "send"
    BY <1>7 DEF HandOn
  <2> QED BY <1>7, <2>1, StoreStep, SendStep
<1>8. ASSUME NEW n \in Nics, Sweep(n) PROVE Inv'
  BY <1>8, SweepStep
<1>9. ASSUME NEW n \in Nics, Wait(n) \/ CloseSockets(n) PROVE Inv'
  <2>1. /\ rpc' = rpc \/ rpc' = [rpc EXCEPT ![n] = "read"] \/ rpc' = [rpc EXCEPT ![n] = "ended"]
        /\ UNCHANGED <<fill, umem, rx, hand, copied, shard, pending, pos, merged, count, dropped, dpc>>
    BY <1>9 DEF Wait, CloseSockets, dispatch, reader
  <2>2. rpc' \in [Nics -> ReadAt] /\ \A k \in Nics : rpc'[k] = "send" => rpc[k] = "send"
    BY <1>1, <2>1 DEF ReadAt
  <2>3. DispatchShape'
    BY <1>1, <2>1 DEF DispatchShape
  <2> QED BY <1>1, <2>1, <2>2, <2>3, QuietStep
<1>12. ASSUME NEW n \in Nics, Close(n) PROVE Inv'
  <2>1. PICK late \in SUBSET {q \in Queues : NicOf(q) = n /\ dpc[q] = "ring"} :
          /\ dpc' = [q \in Queues |-> IF q \in late THEN "late" ELSE dpc[q]]
          /\ UNCHANGED <<fill, umem, rx, hand, copied, shard, pending, pos, merged, count, dropped, rpc>>
    BY <1>12 DEF Close, reader
  <2>2. dpc' \in [Queues -> DispatchAt]
    BY <1>1, <2>1 DEF DispatchAt
  <2>3. \A q \in Queues : dpc'[q] = dpc[q] \/ (dpc'[q] = "late" /\ dpc[q] = "ring")
    BY <2>1
  <2>4. DispatchShape'
    BY <1>1, <2>1, <2>3 DEF DispatchShape
  <2> QED BY <1>1, <2>1, <2>2, <2>4, QuietStep
<1>10. CASE QuicRead
  BY <1>10, QuicReadStep
<1>11. CASE UNCHANGED vars
  <2>1. UNCHANGED <<fill, umem, rx, hand, copied, shard, pending, pos, merged, count, dropped, dpc, rpc>>
    BY <1>11 DEF vars, dispatch, reader
  <2>2. DispatchShape'
    BY <1>1, <2>1 DEF DispatchShape
  <2> QED BY <1>1, <2>1, <2>2, QuietStep
<1> QED BY <1>2, <1>3, <1>4, <1>5, <1>6, <1>7, <1>8, <1>9, <1>10, <1>11, <1>12 DEF Next, Dispatch, Reader

LEMMA InvHolds == Spec => []Inv
BY InvInit, InvStep, PTL DEF Spec
-----------------------------------------------------------------------------
\* What quic-go answers leaves through the NIC it came in by (multiconn.go, WriteTo): rxLoop
\* stores the NIC in one step and sends the frame in a later one, with any steps of quic-go
\* and of the other NICs' readers between, and whatever quic-go has read is on record.
THEOREM AnswersAreRouted == Spec => []AnswersRouted
<1>1. Inv => AnswersRouted
  <2> SUFFICES ASSUME Inv, NEW i \in DOMAIN got PROVE WriteTo(got[i].flow) = NicOf(QueueOf[got[i].flow])
    BY DEF AnswersRouted
  <2> DEFINE y == got[i]
  <2>1. y \in Range(got)
    BY DEF Range
  <2>2. Range(got) \subseteq FrameSet
    BY RangeOfSeq DEF Inv, RxInv, RxTypes
  <2>3. y.flow \in Flows /\ addrToConn[y.flow] = NicOf(QueueOf[y.flow])
    BY <2>1, <2>2 DEF Inv, RxInv, Recorded, FrameSet
  <2>4. NicOf(QueueOf[y.flow]) # NoNic
    BY <2>3, NicFacts, RxAssumption
  <2> QED BY <2>3, <2>4 DEF WriteTo
<1> QED BY <1>1, InvHolds, PTL

\* Along a path the ranges add up and the order holds.
LEMMA PathFacts ==
    ASSUME Inv, NEW q \in Queues PROVE Path(q) \in Seq(Cells) /\ Ordered(Path(q)) /\ Range(Path(q)) = OnWay(q)
<1> DEFINE P == pending[NicOf(q)]
           S == shard[q]
           C == copied[q]
           D == H(q)
           E == X(q)
<1>1. got \in Seq(FrameSet) /\ rxCh \in Seq(FrameSet) /\ P \in Seq(FrameSet) /\ S \in Seq(FrameSet) /\ C \in Seq(FrameSet)
  BY NicFacts DEF Inv, RxInv, RxTypes
<1>2. Seq(FrameSet) \subseteq Seq(Cells)
  <2>1. FrameSet \subseteq Cells
    BY DEF Cells
  <2> QED BY <2>1, SeqMonotonic
<1>3. D \in Seq(Cells) /\ E \in Seq(Cells)
  <2>1. umem[q] \in [1..Descs -> Cells] /\ hand[q] \in Seq(1..Descs) /\ rx[q] \in Seq(1..Descs)
    BY DEF Inv, RxInv, RxTypes, Cells
  <2> QED BY <2>1, Rings, ReadFacts
<1>4. Ordered(got) /\ Ordered(rxCh) /\ Ordered(P) /\ Ordered(S) /\ Ordered(D) /\ Ordered(E)
  BY NicFacts DEF Inv, WayInv, PlacesOrdered
<1>5. Ordered(C)
  <2>1. C = <<>> \/ \E x \in FrameSet : C = <<x>>
    BY DEF Inv, RxInv, DispatchShape
  <2> QED BY <2>1, EmptyFacts, SingleFacts
<1>6. Chain(Range(got), Range(rxCh), Range(P), Range(S), Range(C), Range(D), Range(E))
  BY DEF Inv, WayInv, WayOrdered
<1>7. Path(q) = got \o rxCh \o P \o S \o C \o D \o E
  BY DEF Path, H, X
<1>8. OnWay(q) = Range(got) \cup Range(rxCh) \cup Range(P) \cup Range(S) \cup Range(C) \cup Range(D) \cup Range(E)
  BY DEF OnWay
<1> HIDE DEF P, S, C, D, E
<1>9. got \in Seq(Cells) /\ rxCh \in Seq(Cells) /\ P \in Seq(Cells) /\ S \in Seq(Cells) /\ C \in Seq(Cells)
  BY <1>1, <1>2
<1> DEFINE p == got \o rxCh \o P \o S \o C \o D \o E
<1>10. /\ p \in Seq(Cells) /\ Ordered(p)
       /\ Range(p) = Range(got) \cup Range(rxCh) \cup Range(P) \cup Range(S) \cup Range(C) \cup Range(D) \cup Range(E)
  <2> DEFINE ab == got \o rxCh
             ac == ab \o P
             ad == ac \o S
             ae == ad \o C
             ag == ae \o D
             ah == ag \o E
  <2>0. \A s, t \in Seq(Cells) : Ordered(s) /\ Ordered(t) /\ Before(Range(s), Range(t)) =>
          s \o t \in Seq(Cells) /\ Range(s \o t) = Range(s) \cup Range(t) /\ Ordered(s \o t)
    BY ConcatFacts
  <2>1. ab \in Seq(Cells) /\ Range(ab) = Range(got) \cup Range(rxCh) /\ Ordered(ab)
    <3>1. Before(Range(got), Range(rxCh))
      BY <1>6 DEF Chain
    <3> QED BY <1>4, <1>9, <2>0, <3>1, Zenon
  <2> HIDE DEF ab
  <2>2. ac \in Seq(Cells) /\ Range(ac) = Range(ab) \cup Range(P) /\ Ordered(ac)
    <3>1. Before(Range(ab), Range(P))
      BY <1>6, <2>1 DEF Chain
    <3> QED BY <1>3, <1>4, <1>5, <1>9, <2>0, <2>1, <3>1, Zenon
  <2> HIDE DEF ac
  <2>3. ad \in Seq(Cells) /\ Range(ad) = Range(ac) \cup Range(S) /\ Ordered(ad)
    <3>1. Before(Range(ac), Range(S))
      BY <1>6, <2>1, <2>2 DEF Chain
    <3> QED BY <1>3, <1>4, <1>5, <1>9, <2>0, <2>2, <3>1, Zenon
  <2> HIDE DEF ad
  <2>4. ae \in Seq(Cells) /\ Range(ae) = Range(ad) \cup Range(C) /\ Ordered(ae)
    <3>1. Before(Range(ad), Range(C))
      BY <1>6, <2>1, <2>2, <2>3 DEF Chain
    <3> QED BY <1>3, <1>4, <1>5, <1>9, <2>0, <2>3, <3>1, Zenon
  <2> HIDE DEF ae
  <2>5. ag \in Seq(Cells) /\ Range(ag) = Range(ae) \cup Range(D) /\ Ordered(ag)
    <3>1. Before(Range(ae), Range(D))
      BY <1>6, <2>1, <2>2, <2>3, <2>4 DEF Chain
    <3> QED BY <1>3, <1>4, <1>5, <1>9, <2>0, <2>4, <3>1, Zenon
  <2> HIDE DEF ag
  <2>6. ah \in Seq(Cells) /\ Range(ah) = Range(ag) \cup Range(E) /\ Ordered(ah)
    <3>1. Before(Range(ag), Range(E))
      BY <1>6, <2>1, <2>2, <2>3, <2>4, <2>5 DEF Chain
    <3> QED BY <1>3, <1>4, <1>5, <1>9, <2>0, <2>5, <3>1, Zenon
  <2> HIDE DEF ah
  <2>7. /\ ah \in Seq(Cells) /\ Ordered(ah)
        /\ Range(ah) = Range(got) \cup Range(rxCh) \cup Range(P) \cup Range(S) \cup Range(C) \cup Range(D) \cup Range(E)
    BY <2>1, <2>2, <2>3, <2>4, <2>5, <2>6
  <2> QED BY <2>7 DEF ah, ag, ae, ad, ac, ab
<1> QED BY <1>7, <1>8, <1>10

\* Between the NIC and quic-go every QUIC frame is in exactly one place, in the order of
\* arrival within its flow, or was dropped by a full shard (conn.go, dispatchFrame and
\* ReadFrom; multiconn.go): for any number of queues, NICs and descriptors, and though
\* descriptors are given back to the kernel while their frames are still on the way.
THEOREM ReceivedExactly == Spec => []RxExact
<1>1. Inv => RxExact
  <2> SUFFICES ASSUME Inv, NEW f \in Flows, Kind[f] = "quic"
               PROVE  LET p == Path(QueueOf[f])
                          mine == {i \in DOMAIN p : p[i].flow = f}
                          lost == {k \in 1..count[f] : Frame(f, k) \in dropped}
                      IN  /\ \A i, j \in mine : i < j => p[i].num < p[j].num
                          /\ {p[i].num : i \in mine} = 1..count[f] \ lost
    BY DEF RxExact
  <2> DEFINE q == QueueOf[f]
             p == Path(q)
             mine == {i \in DOMAIN p : p[i].flow = f}
             lost == {k \in 1..count[f] : Frame(f, k) \in dropped}
  <2>1. q \in Queues
    BY RxAssumption
  <2>2. Ordered(p) /\ Range(p) = OnWay(q) /\ OnWay(q) \subseteq FrameSet
    BY <2>1, PathFacts, WayOfFrames DEF Inv
  <2>3. \A x \in OnWay(q) : x.num \in 1..count[x.flow] /\ x \notin dropped
    BY <2>1 DEF Inv, WayInv, Numbered
  <2>4. \A k \in 1..count[f] : Frame(f, k) \in dropped \cup OnWay(q)
    BY DEF Inv, WayInv, NoneMissing
  <2> HIDE DEF p, q
  <2>5. \A i, j \in mine : i < j => p[i].num < p[j].num
    BY <2>2 DEF Ordered
  <2>6. \A i \in mine : p[i].num \in 1..count[f] \ lost
    <3> TAKE i \in mine
    <3>1. p[i] \in OnWay(q) /\ p[i] \in FrameSet /\ p[i].flow = f
      BY <2>2 DEF Range
    <3>2. p[i] = Frame(f, p[i].num)
      BY <3>1 DEF Frame, FrameSet
    <3> QED BY <2>3, <3>1, <3>2
  <2>7. ASSUME NEW k \in 1..count[f] \ lost PROVE \E i \in mine : p[i].num = k
    <3>1. Frame(f, k) \in Range(p)
      BY <2>2, <2>4
    <3>2. PICK i \in DOMAIN p : p[i] = Frame(f, k)
      BY <3>1 DEF Range
    <3>3. p[i].flow = f /\ p[i].num = k
      BY <3>2 DEF Frame
    <3> QED BY <3>3
  <2>8. {p[i].num : i \in mine} = 1..count[f] \ lost
    BY <2>6, <2>7
  <2> QED BY <2>5, <2>8 DEF p, q
<1> QED BY <1>1, InvHolds, PTL
=============================================================================
