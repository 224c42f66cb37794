--------------------------- MODULE VhostRingProofs ---------------------------
(***************************************************************************)
(* The vhost ring is a FIFO, for every ring size, every width of its       *)
(* indexes and any number of batches.                                      *)
(*                                                                         *)
(* Indexes are numbers modulo IdxWidth.  What the proof needs of that is   *)
(* in the first lemmas; from then on an index is its lead over used.idx.   *)
(***************************************************************************)
EXTENDS VhostRing, SequenceTheorems, TLAPS

-----------------------------------------------------------------------------
(***************************************************************************)
(* Modular arithmetic.                                                     *)
(***************************************************************************)
LEMMA ModRange == ASSUME NEW W \in Nat \ {0}, NEW a \in Int PROVE a % W \in 0..W - 1
OBVIOUS

LEMMA ModSplit ==
    ASSUME NEW W \in Nat \ {0}, NEW a \in Int
    PROVE  a \div W \in Int /\ a % W \in 0..W - 1 /\ a = W * (a \div W) + (a % W)
OBVIOUS

LEMMA ModUnique ==
    ASSUME NEW W \in Nat \ {0}, NEW q \in Int, NEW r \in 0..W - 1
    PROVE  (W * q + r) % W = r
OBVIOUS

\* The difference of two indexes in arithmetic that wraps.
LEMMA ModDiff ==
    ASSUME NEW W \in Nat \ {0}, NEW i \in 0..W - 1, NEW j \in 0..W - 1
    PROVE  (i - j) % W = IF j <= i THEN i - j ELSE i - j + W
<1>1. CASE j <= i
  <2>1. i - j \in 0..W - 1 /\ i - j = W * 0 + (i - j)
    BY <1>1
  <2> QED BY <1>1, <2>1, ModUnique
<1>2. CASE ~(j <= i)
  <2>1. i - j + W \in 0..W - 1 /\ i - j = W * (-1) + (i - j + W)
    BY <1>2
  <2> QED BY <1>2, <2>1, ModUnique
<1> QED BY <1>1, <1>2

LEMMA ModSucc ==
    ASSUME NEW W \in Nat \ {0}, NEW i \in 0..W - 1
    PROVE  (i + 1) % W = IF i = W - 1 THEN 0 ELSE i + 1
<1>1. CASE i = W - 1
  <2>1. i + 1 = W * 1 + 0 /\ 0 \in 0..W - 1
    BY <1>1
  <2> QED BY <1>1, <2>1, ModUnique
<1>2. CASE i # W - 1
  <2>1. i + 1 \in 0..W - 1 /\ i + 1 = W * 0 + (i + 1)
    BY <1>2
  <2> QED BY <1>2, <2>1, ModUnique
<1> QED BY <1>1, <1>2

\* Adding a multiple of n changes no remainder by n.
LEMMA ModShift ==
    ASSUME NEW n \in Nat \ {0}, NEW a \in Int, NEW m \in Int
    PROVE  (a + n * m) % n = a % n
<1> DEFINE q == a \div n
           r == a % n
<1>1. q \in Int /\ r \in 0..n - 1 /\ a = n * q + r
  BY ModSplit
<1> HIDE DEF q, r
<1>2. a + n * m = n * (q + m) + r
  BY <1>1
<1>3. (n * (q + m) + r) % n = r
  BY <1>1, ModUnique
<1> QED BY <1>2, <1>3 DEF r

LEMMA MulAssoc == ASSUME NEW a \in Int, NEW b \in Int, NEW c \in Int PROVE (a * b) * c = a * (b * c)
OBVIOUS

\* Taking an index modulo a width that n divides does not change its slot.
LEMMA ModNested ==
    ASSUME NEW n \in Nat \ {0}, NEW W \in Nat \ {0}, W % n = 0, NEW a \in Int
    PROVE  (a % W) % n = a % n
<1> DEFINE k == W \div n
           q == a \div W
           r == a % W
<1>1. k \in Int /\ W = n * k
  BY ModSplit
<1>2. q \in Int /\ r \in Int /\ a = W * q + r
  BY ModSplit
<1> HIDE DEF k, q, r
<1>3. a = r + n * (k * q)
  <2>1. (n * k) * q = n * (k * q) /\ n * (k * q) \in Int
    BY <1>1, <1>2, MulAssoc
  <2> QED BY <1>1, <1>2, <2>1
<1> DEFINE m == k * q
<1>4. m \in Int /\ a = r + n * m
  BY <1>1, <1>2, <1>3
<1> HIDE DEF m
<1>5. (r + n * m) % n = r % n
  BY <1>2, <1>4, ModShift
<1> QED BY <1>4, <1>5 DEF r

\* The same at an offset: the position j entries after an index that wrapped.
LEMMA ModNestedAt ==
    ASSUME NEW n \in Nat \ {0}, NEW W \in Nat \ {0}, W % n = 0, NEW a \in Int, NEW j \in Int
    PROVE  ((a % W) + j) % n = (a + j) % n
<1> DEFINE r == a % W
           s == a + j
           v == r + j
<1>0. r \in 0..W - 1
  BY ModRange
<1>a. r % n = a % n
  BY ModNested
<1> HIDE DEF r
<1>1. r \in Int /\ r % n = a % n
  BY <1>0, <1>a
<1> DEFINE x == a \div n
           y == r \div n
           z == a % n
<1>2. x \in Int /\ z \in Int /\ a = n * x + z
  BY ModSplit
<1>3. y \in Int /\ r = n * y + z
  BY <1>1, ModSplit
<1> HIDE DEF x, y, z
<1> DEFINE w == z + j
<1>4. w \in Int /\ s = w + n * x /\ v = w + n * y
  BY <1>2, <1>3
<1> HIDE DEF w, s, v
<1>5. (w + n * x) % n = w % n /\ (w + n * y) % n = w % n
  BY <1>2, <1>3, <1>4, ModShift
<1>6. s % n = v % n
  BY <1>4, <1>5
<1> QED BY <1>6 DEF s, v, r

\* Successors of equal slots are equal slots.
LEMMA ModNext ==
    ASSUME NEW n \in Nat \ {0}, NEW a \in Int, NEW b \in Int, a % n = b % n
    PROVE  (a + 1) % n = (b + 1) % n
<1> DEFINE p == a \div n
           q == b \div n
           r == a % n
           s == r + 1
<1>1. p \in Int /\ q \in Int /\ r \in Int /\ a = n * p + r /\ b = n * q + r
  BY ModSplit
<1> HIDE DEF p, q, r
<1>2. s \in Int /\ a + 1 = s + n * p /\ b + 1 = s + n * q
  BY <1>1
<1> HIDE DEF s
<1>3. (s + n * p) % n = s % n /\ (s + n * q) % n = s % n
  BY <1>1, <1>2, ModShift
<1> QED BY <1>2, <1>3

\* Fewer than n apart, two positions have different slots.
LEMMA ModApart ==
    ASSUME NEW n \in Nat \ {0}, NEW a \in Int, NEW d \in 1..n - 1
    PROVE  (a + d) % n # a % n
<1> SUFFICES ASSUME (a + d) % n = a % n PROVE FALSE
  OBVIOUS
<1> DEFINE p == a \div n
           e == a + d
           q == e \div n
           r == a % n
<1>0. e \in Int /\ e % n = r
  OBVIOUS
<1> HIDE DEF e
<1>1. p \in Int /\ q \in Int /\ r \in Int /\ a = n * p + r /\ e = n * q + r
  BY <1>0, ModSplit
<1> HIDE DEF p, q, r
<1>2. d = n * (q - p)
  BY <1>1 DEF e
<1>3. n * (q - p) % n = 0 /\ d % n = d
  <2>1. q - p \in Int /\ n * (q - p) + 0 = n * (q - p) /\ 0 \in 0..n - 1
    BY <1>1
  <2>2. d \in 0..n - 1 /\ n * 0 + d = d
    OBVIOUS
  <2>3. (n * (q - p) + 0) % n = 0
    BY <2>1, ModUnique
  <2>4. (n * 0 + d) % n = d
    BY <2>2, ModUnique
  <2> QED BY <2>1, <2>2, <2>3, <2>4
<1> QED BY <1>2, <1>3

\* Behind a third index, the distance of two indexes is the difference of their leads.
LEMMA LeadDiff ==
    ASSUME NEW W \in Nat \ {0}, NEW u \in 0..W - 1, NEW i \in 0..W - 1, NEW j \in 0..W - 1,
           (i - u) % W <= (j - u) % W
    PROVE  (j - i) % W = ((j - u) % W) - ((i - u) % W)
<1>1. (i - u) % W = IF u <= i THEN i - u ELSE i - u + W
  BY ModDiff
<1>2. (j - u) % W = IF u <= j THEN j - u ELSE j - u + W
  BY ModDiff
<1>3. (j - i) % W = IF i <= j THEN j - i ELSE j - i + W
  BY ModDiff
<1> DEFINE x == (i - u) % W
           y == (j - u) % W
           z == (j - i) % W
<1>4. /\ x = IF u <= i THEN i - u ELSE i - u + W
      /\ y = IF u <= j THEN j - u ELSE j - u + W
      /\ z = IF i <= j THEN j - i ELSE j - i + W
      /\ x <= y
  BY <1>1, <1>2, <1>3
<1> HIDE DEF x, y, z
<1>5. z = y - x
  BY <1>4
<1> QED BY <1>5 DEF x, y, z

\* An index that is not right behind u gains one on it by a step.
LEMMA LeadSucc ==
    ASSUME NEW W \in Nat \ {0}, NEW u \in 0..W - 1, NEW i \in 0..W - 1, (i - u) % W < W - 1
    PROVE  (((i + 1) % W) - u) % W = ((i - u) % W) + 1
<1> DEFINE n == (i + 1) % W
           x == (i - u) % W
           y == (n - u) % W
<1>1. n = IF i = W - 1 THEN 0 ELSE i + 1
  BY ModSucc
<1>2. n \in 0..W - 1
  BY <1>1
<1> HIDE DEF n
<1>3. x = IF u <= i THEN i - u ELSE i - u + W
  BY ModDiff
<1>4. y = IF u <= n THEN n - u ELSE n - u + W
  BY <1>2, ModDiff
<1>5. x < W - 1
  OBVIOUS
<1> HIDE DEF x, y
<1>6. y = x + 1
  BY <1>1, <1>3, <1>4, <1>5
<1> QED BY <1>6 DEF x, y, n
-----------------------------------------------------------------------------
(***************************************************************************)
(* The inductive invariant.                                                *)
(***************************************************************************)
Indexes == 0..IdxWidth - 1

\* Entries posted and not taken.
Pending == (availIdx - lastAvail) % IdxWidth

\* Position k of them, as a slot.
At(k) == (lastAvail + k) % N

\* freeHead and the avail index walk over the slots together: freeHead is 32 bits
\* wide and the index 16, and both wrap at a multiple of N.
SlotsAgree == freeHead % N = availIdx % N

\* Every pending entry names its own slot, and a packet is in that slot's buffer.
PendingHeld == \A k \in Indexes : k < Pending => avail[At(k)] = At(k) /\ buf[At(k)] \in Pkts

\* A batch between a refusal and its second attempt holds the packet.
RefusedHeld == \A b \in Batches : phase[b] \in {"full", "kickfull", "retry"} => hold[b] \in Pkts

RingInv == TypeOK /\ IndexOrder /\ SlotsAgree /\ PendingHeld /\ RefusedHeld

LEMMA Widths ==
    /\ N \in Nat \ {0} /\ IdxWidth \in Nat \ {0} /\ HeadWidth \in Nat \ {0}
    /\ IdxWidth % N = 0 /\ HeadWidth % N = 0 /\ N <= IdxWidth - 1
  BY RingAssumption

\* What the order of the indexes says of the pending entries.
LEMMA PendingBounds ==
    ASSUME RingInv
    PROVE  /\ Pending \in Nat
           /\ Pending = ((availIdx - usedIdx) % IdxWidth) - ((lastAvail - usedIdx) % IdxWidth)
           /\ (availIdx - usedIdx) % IdxWidth \in Nat /\ (lastAvail - usedIdx) % IdxWidth \in Nat
           /\ (published - usedIdx) % IdxWidth \in Nat
           /\ Pending <= N
<1> DEFINE a == (availIdx - usedIdx) % IdxWidth
           l == (lastAvail - usedIdx) % IdxWidth
           p == (published - usedIdx) % IdxWidth
<1>1. /\ availIdx \in 0..IdxWidth - 1 /\ lastAvail \in 0..IdxWidth - 1
      /\ usedIdx \in 0..IdxWidth - 1 /\ published \in 0..IdxWidth - 1
  BY DEF RingInv, TypeOK
<1>2. l <= p /\ p <= a /\ a <= N
  BY DEF RingInv, IndexOrder
<1>3. a \in 0..IdxWidth - 1 /\ l \in 0..IdxWidth - 1 /\ p \in 0..IdxWidth - 1
  <2> DEFINE x == availIdx - usedIdx
             y == lastAvail - usedIdx
             z == published - usedIdx
  <2>1. x \in Int /\ y \in Int /\ z \in Int
    BY <1>1, Widths
  <2> HIDE DEF x, y, z
  <2>2. x % IdxWidth \in 0..IdxWidth - 1 /\ y % IdxWidth \in 0..IdxWidth - 1 /\ z % IdxWidth \in 0..IdxWidth - 1
    BY <2>1, ModRange, Widths
  <2> QED BY <2>2 DEF x, y, z
<1> HIDE DEF p
<1>4. l <= a
  <2> HIDE DEF l, a
  <2> QED BY <1>2, <1>3, Widths
<1>5. Pending = a - l
  BY <1>1, <1>4, LeadDiff, Widths DEF Pending
<1> HIDE DEF a, l
<1>6. Pending \in Nat /\ Pending = a - l /\ Pending <= N /\ a \in Nat /\ l \in Nat /\ p \in Nat
  BY <1>2, <1>3, <1>4, <1>5, Widths
<1> QED BY <1>6 DEF a, l, p

\* The next position is the one after the last pending entry, and no pending entry's.
LEMMA NextIsFree ==
    ASSUME RingInv, Pending < N
    PROVE  /\ availIdx % N = At(Pending)
           /\ \A k \in Indexes : k < Pending => At(k) # availIdx % N
<1>1. availIdx \in 0..IdxWidth - 1 /\ lastAvail \in 0..IdxWidth - 1 /\ availIdx \in Int /\ lastAvail \in Int
  BY Widths DEF RingInv, TypeOK
<1>2. Pending \in Nat
  BY PendingBounds
<1> DEFINE d == availIdx - lastAvail
           r == d % IdxWidth
<1>3. d \in Int /\ d + lastAvail = availIdx
  BY <1>1
<1>a. (r + lastAvail) % N = (d + lastAvail) % N
  <2>1. ASSUME NEW b \in Int, NEW l \in Int PROVE ((b % IdxWidth) + l) % N = (b + l) % N
    BY Widths, ModNestedAt
  <2> HIDE DEF d
  <2> QED BY <1>1, <1>3, <2>1
<1>4. (Pending + lastAvail) % N = availIdx % N
  BY <1>3, <1>a DEF Pending
<1>b. Pending + lastAvail = lastAvail + Pending
  BY <1>1, <1>2
<1>5. availIdx % N = At(Pending)
  BY <1>4, <1>b DEF At
<1>6. ASSUME NEW k \in Indexes, k < Pending PROVE At(k) # availIdx % N
  <2> DEFINE b == lastAvail + k
             e == Pending - k
  <2>1. b \in Int /\ e \in 1..N - 1 /\ b + e = lastAvail + Pending
    BY <1>1, <1>2, <1>6, Widths DEF Indexes
  <2> HIDE DEF b, e
  <2>2. (b + e) % N # b % N
    BY <2>1, ModApart, Widths
  <2> QED BY <1>5, <2>1, <2>2 DEF At, b
<1> QED BY <1>5, <1>6
-----------------------------------------------------------------------------
(***************************************************************************)
(* The three steps that move an index or write the ring.                   *)
(***************************************************************************)

\* Posting into a ring that is not full appends to what is pending.
LEMMA PostEffect ==
    ASSUME RingInv, NEW x \in Pkts, ~RingFull(usedIdx), Post(x),
           UNCHANGED <<lastAvail, usedIdx, published>>
    PROVE  /\ availIdx' \in 0..IdxWidth - 1 /\ freeHead' \in 0..HeadWidth - 1
           /\ buf' \in [Slots -> Pkts \cup {None}] /\ avail' \in [Slots -> Slots]
           /\ IndexOrder' /\ SlotsAgree' /\ PendingHeld'
           /\ Between(lastAvail, availIdx)' = Append(Between(lastAvail, availIdx), x)
<1> DEFINE a == (availIdx - usedIdx) % IdxWidth
           l == (lastAvail - usedIdx) % IdxWidth
           p == (published - usedIdx) % IdxWidth
           s == availIdx % N
<1>1. /\ availIdx \in 0..IdxWidth - 1 /\ lastAvail \in 0..IdxWidth - 1
      /\ usedIdx \in 0..IdxWidth - 1 /\ published \in 0..IdxWidth - 1
      /\ freeHead \in 0..HeadWidth - 1
      /\ buf \in [Slots -> Pkts \cup {None}] /\ avail \in [Slots -> Slots]
      /\ l <= p /\ p <= a
  BY DEF RingInv, TypeOK, IndexOrder
<1>2. /\ availIdx' = (availIdx + 1) % IdxWidth /\ freeHead' = (freeHead + 1) % HeadWidth
      /\ lastAvail' = lastAvail /\ usedIdx' = usedIdx /\ published' = published
      /\ NextSlot = s
  BY DEF RingInv, SlotsAgree, NextSlot, Post
<1>3. buf' = [buf EXCEPT ![s] = x] /\ avail' = [avail EXCEPT ![s] = s]
  BY <1>2 DEF Post
<1>4. availIdx + 1 \in Int /\ freeHead + 1 \in Int /\ availIdx \in Int /\ freeHead \in Int /\ lastAvail \in Int
  BY <1>1, Widths
<1>5. availIdx' \in 0..IdxWidth - 1 /\ freeHead' \in 0..HeadWidth - 1
  <2> DEFINE u == availIdx + 1
             v == freeHead + 1
  <2>1. u \in Int /\ v \in Int
    BY <1>4
  <2> HIDE DEF u, v
  <2>2. u % IdxWidth \in 0..IdxWidth - 1 /\ v % HeadWidth \in 0..HeadWidth - 1
    BY <2>1, ModRange, Widths
  <2> QED BY <1>2, <2>2 DEF u, v
<1>6. s \in Slots
  BY <1>4, ModRange, Widths DEF Slots
<1>7. buf' \in [Slots -> Pkts \cup {None}] /\ avail' \in [Slots -> Slots]
  <2> HIDE DEF s
  <2> QED BY <1>1, <1>3, <1>6
<1>8. a < N /\ a \in Nat /\ l \in Nat /\ p \in Nat /\ Pending \in Nat /\ Pending = a - l
  <2>1. a \in Nat /\ l \in Nat /\ p \in Nat /\ Pending \in Nat /\ Pending = a - l
    BY PendingBounds
  <2>2. ~(a >= N)
    BY DEF RingFull
  <2> HIDE DEF a, l, p
  <2> QED BY <2>1, <2>2, Widths
<1>9. a < IdxWidth - 1 /\ Pending < N /\ Pending < IdxWidth - 1
  <2> HIDE DEF a, l, p
  <2> QED BY <1>8, Widths
<1>10. ((availIdx - usedIdx) % IdxWidth)' = a + 1
  BY <1>1, <1>2, <1>9, LeadSucc, Widths
<1>11. IndexOrder'
  <2>1. l' = l /\ p' = p
    BY <1>2
  <2>2. a' = a + 1
    BY <1>10
  <2>3. l <= p /\ p <= a + 1 /\ a + 1 <= N
    <3> HIDE DEF a, l, p
    <3> QED BY <1>1, <1>8, Widths
  <2>4. l' <= p' /\ p' <= a' /\ a' <= N
    <3> HIDE DEF a, l, p
    <3> QED BY <2>1, <2>2, <2>3
  <2> QED BY <2>4 DEF IndexOrder
<1>12. SlotsAgree'
  <2>1. (freeHead + 1) % N = (availIdx + 1) % N
    BY <1>4, ModNext, Widths DEF RingInv, SlotsAgree
  <2>2. ((availIdx + 1) % IdxWidth) % N = (availIdx + 1) % N
    <3> DEFINE u == availIdx + 1
    <3>1. u \in Int
      BY <1>4
    <3> HIDE DEF u
    <3>2. (u % IdxWidth) % N = u % N
      BY <3>1, ModNested, Widths
    <3> QED BY <3>2 DEF u
  <2>3. ((freeHead + 1) % HeadWidth) % N = (freeHead + 1) % N
    <3> DEFINE u == freeHead + 1
    <3>1. u \in Int
      BY <1>4
    <3> HIDE DEF u
    <3>2. (u % HeadWidth) % N = u % N
      BY <3>1, ModNested, Widths
    <3> QED BY <3>2 DEF u
  <2> QED BY <1>2, <2>1, <2>2, <2>3 DEF SlotsAgree
<1>13. Pending' = Pending + 1
  BY <1>1, <1>2, <1>9, LeadSucc, Widths DEF Pending
<1>14. /\ s = At(Pending)
       /\ \A k \in Indexes : k < Pending => At(k) # s
  BY <1>9, NextIsFree
<1>15. \A k : At(k)' = (lastAvail + k) % N
  BY <1>2 DEF At
<1> HIDE DEF a, l, p, s
<1>16. ASSUME NEW k \in Indexes, k < Pending
       PROVE  /\ avail[At(k)] = At(k) /\ buf[At(k)] \in Pkts /\ At(k) \in Slots
              /\ avail'[At(k)] = At(k) /\ buf'[At(k)] = buf[At(k)]
  <2>1. avail[At(k)] = At(k) /\ buf[At(k)] \in Pkts
    BY <1>16 DEF RingInv, PendingHeld
  <2>2. At(k) \in Slots
    <3> DEFINE u == lastAvail + k
    <3>1. u \in Int
      BY <1>4 DEF Indexes
    <3> HIDE DEF u
    <3>2. u % N \in 0..N - 1
      BY <3>1, ModRange, Widths
    <3> QED BY <3>2 DEF u, At, Slots
  <2> QED BY <1>1, <1>3, <1>14, <1>16, <2>1, <2>2
<1>17. s \in Slots /\ avail'[s] = s /\ buf'[s] = x
  BY <1>1, <1>3, <1>6
<1>18. PendingHeld'
  <2> SUFFICES ASSUME NEW k \in Indexes, k < Pending + 1
               PROVE  avail'[At(k)] = At(k) /\ buf'[At(k)] \in Pkts
    BY <1>2, <1>13 DEF PendingHeld, At, Indexes
  <2>1. k < Pending \/ k = Pending
    BY <1>8 DEF Indexes
  <2>2. CASE k < Pending
    BY <1>16, <2>2
  <2>3. CASE k = Pending
    BY <1>14, <1>17, <2>3
  <2> QED BY <2>1, <2>2, <2>3
<1>19. Between(lastAvail, availIdx)' = Append(Between(lastAvail, availIdx), x)
  <2> DEFINE old == Between(lastAvail, availIdx)
             new == [k \in 1..Pending + 1 |-> buf'[avail'[(lastAvail + k - 1) % N]]]
  <2>1. old = [k \in 1..Pending |-> buf[avail[(lastAvail + k - 1) % N]]]
    BY DEF Between, Pending
  <2>2. old' = new
    BY <1>2, <1>13 DEF Between, Pending
  <2> HIDE DEF old, new
  <2>3. ASSUME NEW k \in 1..Pending + 1
        PROVE  k - 1 \in Indexes /\ (lastAvail + k - 1) % N = At(k - 1)
    <3>1. k - 1 \in Indexes
      BY <1>8, <1>9, Widths DEF Indexes
    <3>2. lastAvail + k - 1 = lastAvail + (k - 1)
      BY <1>4
    <3> QED BY <3>1, <3>2 DEF At
  <2>4. ASSUME NEW k \in 1..Pending PROVE new[k] = old[k] /\ new[k] \in Pkts
    <3>1. k \in 1..Pending + 1 /\ k - 1 < Pending
      BY <1>8
    <3>2. avail[At(k - 1)] = At(k - 1) /\ avail'[At(k - 1)] = At(k - 1)
          /\ buf'[At(k - 1)] = buf[At(k - 1)] /\ buf[At(k - 1)] \in Pkts
      BY <1>16, <2>3, <3>1
    <3>3. new[k] = buf'[avail'[At(k - 1)]]
      BY <2>3, <3>1 DEF new
    <3>4. old[k] = buf[avail[At(k - 1)]]
      BY <2>1, <2>3, <3>1
    <3> QED BY <3>2, <3>3, <3>4
  <2>5. new[Pending + 1] = x
    <3> DEFINE j == Pending + 1
    <3>1. j \in 1..Pending + 1 /\ j - 1 = Pending
      BY <1>8
    <3> HIDE DEF j
    <3>2. new[j] = buf'[avail'[(lastAvail + j - 1) % N]]
      BY <3>1 DEF new
    <3>3. (lastAvail + j - 1) % N = At(Pending)
      BY <2>3, <3>1
    <3>4. new[j] = x
      BY <1>14, <1>17, <3>2, <3>3
    <3> QED BY <3>4 DEF j
  <2>6. old \in Seq(Pkts) /\ Len(old) = Pending
    <3>1. \A k \in 1..Pending : old[k] \in Pkts
      BY <2>4
    <3> QED BY <1>8, <2>1, <3>1
  <2>7. new \in Seq(Pkts) /\ Len(new) = Pending + 1
    <3>1. \A k \in 1..Pending + 1 : new[k] \in Pkts
      BY <1>8, <2>4, <2>5
    <3> QED BY <1>8, <3>1 DEF new
  <2>8. new = Append(old, x)
    BY <1>8, <2>4, <2>5, <2>6, <2>7
  <2> QED BY <2>2, <2>8 DEF old
<1> QED BY <1>5, <1>7, <1>11, <1>12, <1>18, <1>19

\* Moving the first element of one sequence to the end of another.
LEMMA FirstMoved ==
    ASSUME NEW S, NEW s \in Seq(S), NEW o \in Seq(S), Len(s) >= 1
    PROVE  o \o SubSeq(s, 1, 1) = Append(o, s[1])
<1> DEFINE h == SubSeq(s, 1, 1)
           x == s[1]
<1>1. h \in Seq(S) /\ Len(h) = 1 /\ h[1] = x /\ x \in S
  OBVIOUS
<1> HIDE DEF h, x
<1>2. Len(o) \in Nat
  OBVIOUS
<1>3. /\ o \o h \in Seq(S) /\ Len(o \o h) = Len(o) + 1
      /\ \A k \in 1..Len(o) + 1 : (o \o h)[k] = IF k <= Len(o) THEN o[k] ELSE h[k - Len(o)]
  BY <1>1, ConcatProperties
<1>4. /\ Append(o, x) \in Seq(S) /\ Len(Append(o, x)) = Len(o) + 1
      /\ \A k \in 1..Len(o) : Append(o, x)[k] = o[k]
      /\ Append(o, x)[Len(o) + 1] = x
  BY <1>1, AppendProperties
<1>5. ASSUME NEW k \in 1..Len(o) + 1 PROVE (o \o h)[k] = Append(o, x)[k]
  BY <1>1, <1>2, <1>3, <1>4
<1>6. o \o h = Append(o, x)
  BY <1>2, <1>3, <1>4, <1>5, SeqEqual
<1> QED BY <1>6 DEF h, x

\* The worker takes the oldest pending entry, a packet, and leaves the others.
LEMMA TakeEffect ==
    ASSUME RingInv, TakeEntry
    PROVE  /\ lastAvail' \in 0..IdxWidth - 1 /\ out' \in Seq(Pkts)
           /\ IndexOrder' /\ PendingHeld'
           /\ Len(Between(lastAvail, availIdx)) >= 1
           /\ out' = out \o SubSeq(Between(lastAvail, availIdx), 1, 1)
           /\ Between(lastAvail, availIdx)'
                = SubSeq(Between(lastAvail, availIdx), 2, Len(Between(lastAvail, availIdx)))
<1> DEFINE a == (availIdx - usedIdx) % IdxWidth
           l == (lastAvail - usedIdx) % IdxWidth
           p == (published - usedIdx) % IdxWidth
           m == (published - lastAvail) % IdxWidth
<1>1. /\ availIdx \in 0..IdxWidth - 1 /\ lastAvail \in 0..IdxWidth - 1
      /\ usedIdx \in 0..IdxWidth - 1 /\ published \in 0..IdxWidth - 1
      /\ buf \in [Slots -> Pkts \cup {None}] /\ avail \in [Slots -> Slots]
      /\ out \in Seq(Pkts)
      /\ l <= p /\ p <= a /\ a <= N
  BY DEF RingInv, TypeOK, IndexOrder
<1>2. /\ lastAvail # published
      /\ lastAvail' = (lastAvail + 1) % IdxWidth
      /\ out' = Append(out, buf[avail[lastAvail % N]])
      /\ UNCHANGED <<availIdx, usedIdx, published, buf, avail>>
  BY DEF TakeEntry, writer
<1>3. lastAvail \in Int /\ lastAvail + 1 \in Int
  BY <1>1, Widths
<1>4. lastAvail' \in 0..IdxWidth - 1
  <2> DEFINE u == lastAvail + 1
  <2>1. u \in Int
    BY <1>3
  <2> HIDE DEF u
  <2>2. u % IdxWidth \in 0..IdxWidth - 1
    BY <2>1, ModRange, Widths
  <2> QED BY <1>2, <2>2 DEF u
<1>5. /\ a \in Nat /\ l \in Nat /\ p \in Nat
      /\ Pending \in Nat /\ Pending = a - l /\ Pending <= N
  BY PendingBounds
<1>6. m = p - l
  BY <1>1, LeadDiff, Widths
<1>7. m # 0
  BY <1>1, <1>2, ModDiff, Widths
<1>8. l < p /\ Pending >= 1
  <2> HIDE DEF a, l, p, m
  <2> QED BY <1>1, <1>5, <1>6, <1>7
<1>9. l < IdxWidth - 1
  <2> HIDE DEF a, l, p, m
  <2> QED BY <1>1, <1>5, <1>8, Widths
<1>10. ((lastAvail - usedIdx) % IdxWidth)' = l + 1
  BY <1>1, <1>2, <1>9, LeadSucc, Widths
<1>11. IndexOrder'
  <2>1. a' = a /\ p' = p
    BY <1>2
  <2>2. l' = l + 1
    BY <1>10
  <2>3. l' <= p' /\ p' <= a' /\ a' <= N
    <3> HIDE DEF a, l, p
    <3> QED BY <1>1, <1>5, <1>8, <2>1, <2>2
  <2> QED BY <2>3 DEF IndexOrder
<1>12. Pending' = Pending - 1
  <2>3. (availIdx - lastAvail') % IdxWidth = a - (l + 1)
    <3> DEFINE n == lastAvail'
    <3>a. (n - usedIdx) % IdxWidth = l + 1
      BY <1>2, <1>10
    <3>1. n \in 0..IdxWidth - 1 /\ (n - usedIdx) % IdxWidth = l + 1
      BY <1>4, <3>a
    <3> HIDE DEF n
    <3>2. (n - usedIdx) % IdxWidth <= (availIdx - usedIdx) % IdxWidth
      <4>1. l + 1 <= a
        <5> HIDE DEF a, l, p
        <5> QED BY <1>1, <1>5, <1>8
      <4> QED BY <3>1, <4>1
    <3>3. (availIdx - n) % IdxWidth = a - (l + 1)
      <4>1. n \in 0..IdxWidth - 1 /\ availIdx \in 0..IdxWidth - 1 /\ usedIdx \in 0..IdxWidth - 1
        BY <1>1, <3>1
      <4>2. (availIdx - n) % IdxWidth = ((availIdx - usedIdx) % IdxWidth) - ((n - usedIdx) % IdxWidth)
        BY <3>2, <4>1, LeadDiff, Widths
      <4> QED BY <3>1, <4>2
    <3> QED BY <3>3 DEF n
  <2>4. Pending' = a - (l + 1)
    BY <1>2, <2>3 DEF Pending
  <2> HIDE DEF a, l
  <2> QED BY <1>5, <2>4
<1>13. ASSUME NEW k \in Int PROVE (lastAvail' + k) % N = (lastAvail + (k + 1)) % N
  <2> DEFINE u == lastAvail + 1
  <2>1. u \in Int /\ u + k = lastAvail + (k + 1)
    BY <1>3
  <2> HIDE DEF u
  <2>2. ((u % IdxWidth) + k) % N = (u + k) % N
    BY <2>1, ModNestedAt, Widths
  <2> QED BY <1>2, <2>1, <2>2 DEF u
<1> HIDE DEF a, l, p, m
<1>14. PendingHeld'
  <2> SUFFICES ASSUME NEW k \in Indexes, k < Pending - 1
               PROVE  avail[(lastAvail' + k) % N] = (lastAvail' + k) % N /\ buf[(lastAvail' + k) % N] \in Pkts
    BY <1>2, <1>12 DEF PendingHeld, At, Indexes
  <2>1. k + 1 \in Indexes /\ k + 1 < Pending /\ k \in Int
    BY <1>5, Widths DEF Indexes
  <2>2. avail[At(k + 1)] = At(k + 1) /\ buf[At(k + 1)] \in Pkts
    BY <2>1 DEF RingInv, PendingHeld
  <2>3. (lastAvail' + k) % N = At(k + 1)
    BY <1>13, <2>1 DEF At
  <2> QED BY <2>2, <2>3
<1> DEFINE old == Between(lastAvail, availIdx)
           new == [k \in 1..Pending - 1 |-> buf[avail[(lastAvail' + k - 1) % N]]]
<1>15. old = [k \in 1..Pending |-> buf[avail[(lastAvail + k - 1) % N]]]
  BY DEF Between, Pending
<1>16. old' = new
  BY <1>2, <1>12 DEF Between, Pending
<1> HIDE DEF old
<1>17. ASSUME NEW k \in 1..Pending PROVE old[k] \in Pkts
  <2>1. k - 1 \in Indexes /\ k - 1 < Pending /\ lastAvail + k - 1 = lastAvail + (k - 1)
    BY <1>3, <1>5, Widths DEF Indexes
  <2>2. avail[At(k - 1)] = At(k - 1) /\ buf[At(k - 1)] \in Pkts
    BY <2>1 DEF RingInv, PendingHeld
  <2>3. old[k] = buf[avail[(lastAvail + k - 1) % N]]
    BY <1>15
  <2> QED BY <2>1, <2>2, <2>3 DEF At
<1>18. old \in Seq(Pkts) /\ Len(old) = Pending
  BY <1>5, <1>15, <1>17
<1>19. ASSUME NEW k \in 1..Pending - 1 PROVE new[k] = old[k + 1]
  <2>1. /\ k - 1 \in Int /\ k + 1 \in 1..Pending
        /\ lastAvail' + k - 1 = lastAvail' + (k - 1)
        /\ lastAvail + ((k - 1) + 1) = lastAvail + (k + 1) - 1
    BY <1>3, <1>4, <1>5, Widths
  <2>2. (lastAvail' + (k - 1)) % N = (lastAvail + ((k - 1) + 1)) % N
    BY <1>13, <2>1
  <2>3. new[k] = buf[avail[(lastAvail' + k - 1) % N]]
    OBVIOUS
  <2>4. old[k + 1] = buf[avail[(lastAvail + (k + 1) - 1) % N]]
    BY <1>15, <2>1
  <2> QED BY <2>1, <2>2, <2>3, <2>4
<1>20. new \in Seq(Pkts) /\ Len(new) = Pending - 1
  <2>1. Pending - 1 \in Nat
    BY <1>5, <1>8
  <2>2. \A k \in 1..Pending - 1 : new[k] \in Pkts
    <3> HIDE DEF new
    <3> TAKE k \in 1..Pending - 1
    <3>1. k + 1 \in 1..Pending
      BY <1>5
    <3> QED BY <1>17, <1>19, <3>1
  <2> QED BY <2>1, <2>2
<1> HIDE DEF new
<1>21. new = SubSeq(old, 2, Len(old))
  BY <1>5, <1>8, <1>18, <1>19, <1>20
<1>22. old[1] = buf[avail[lastAvail % N]]
  <2>1. 1 \in 1..Pending /\ lastAvail + 1 - 1 = lastAvail
    BY <1>3, <1>5, <1>8
  <2> QED BY <1>15, <2>1
<1>23. old[1] \in Pkts
  BY <1>5, <1>8, <1>17
<1>24. out' = out \o SubSeq(old, 1, 1) /\ out' \in Seq(Pkts)
  <2>1. out' = Append(out, old[1])
    BY <1>2, <1>22
  <2>2. out \o SubSeq(old, 1, 1) = Append(out, old[1])
    BY <1>1, <1>8, <1>18, FirstMoved
  <2>3. out' = out \o SubSeq(old, 1, 1)
    BY <2>1, <2>2
  <2>4. Append(out, old[1]) \in Seq(Pkts)
    <3>1. out \in Seq(Pkts)
      BY <1>1
    <3> HIDE DEF old
    <3> QED BY <1>23, <3>1, AppendProperties
  <2> QED BY <2>1, <2>3, <2>4
<1>25. Len(old) >= 1
  BY <1>8, <1>18
<1>26. old' = SubSeq(old, 2, Len(old))
  BY <1>16, <1>21
<1> QED BY <1>4, <1>11, <1>14, <1>24, <1>25, <1>26 DEF old

\* Reporting entries as used takes the same number off every lead.
LEMMA ReportEffect ==
    ASSUME RingInv, ReportUsed
    PROVE  IndexOrder'
<1> DEFINE a == (availIdx - usedIdx) % IdxWidth
           l == (lastAvail - usedIdx) % IdxWidth
           p == (published - usedIdx) % IdxWidth
<1>1. /\ availIdx \in 0..IdxWidth - 1 /\ lastAvail \in 0..IdxWidth - 1
      /\ usedIdx \in 0..IdxWidth - 1 /\ published \in 0..IdxWidth - 1
      /\ l <= p /\ p <= a /\ a <= N
  BY DEF RingInv, TypeOK, IndexOrder
<1>2. usedIdx' = lastAvail /\ UNCHANGED <<availIdx, lastAvail, published>>
  BY DEF ReportUsed, writer
<1>3. a \in Nat /\ l \in Nat /\ p \in Nat
  BY PendingBounds
<1>4. l <= a /\ l <= l
  <2> HIDE DEF a, l, p
  <2> QED BY <1>1, <1>3
<1>5. (published - lastAvail) % IdxWidth = p - l
  BY <1>1, LeadDiff, Widths
<1>6. (availIdx - lastAvail) % IdxWidth = a - l
  BY <1>1, <1>4, LeadDiff, Widths
<1>7. (lastAvail - lastAvail) % IdxWidth = l - l
  BY <1>1, <1>4, LeadDiff, Widths
<1> HIDE DEF a, l, p
<1>8. l - l <= p - l /\ p - l <= a - l /\ a - l <= N
  BY <1>1, <1>3, Widths
<1> QED BY <1>2, <1>5, <1>6, <1>7, <1>8 DEF IndexOrder
-----------------------------------------------------------------------------
(***************************************************************************)
(* The invariant holds in every reachable state.                           *)
(***************************************************************************)
LEMMA RingInit == Init => RingInv
<1> SUFFICES ASSUME Init PROVE RingInv
  OBVIOUS
<1>1. /\ 0 \in 0..IdxWidth - 1 /\ 0 \in 0..HeadWidth - 1 /\ 0 \in Slots /\ 1 \in 1..MaxPkts + 1
  BY Widths, RingAssumption DEF Slots
<1>2. TypeOK
  BY <1>1 DEF Init, TypeOK, None
<1>3. (0 - 0) % IdxWidth = 0
  BY <1>1, Widths, ModDiff
<1>4. IndexOrder
  BY <1>3, Widths DEF Init, IndexOrder
<1>5. PendingHeld
  BY <1>3, Widths DEF Init, PendingHeld, Pending, Indexes
<1>6. SlotsAgree /\ RefusedHeld
  BY DEF Init, SlotsAgree, RefusedHeld
<1> QED BY <1>2, <1>4, <1>5, <1>6 DEF RingInv

\* A step that leaves the ring and its indexes alone, or moves published to the
\* writer's index, keeps the order and the pending entries.
LEMMA RingUntouched ==
    ASSUME RingInv, UNCHANGED <<availIdx, freeHead, buf, avail, lastAvail, usedIdx, published>>
    PROVE  IndexOrder' /\ SlotsAgree' /\ PendingHeld'
  BY DEF RingInv, IndexOrder, SlotsAgree, PendingHeld, Pending, At

\* Submitting a packet, whatever becomes of it.
LEMMA SubmitEffect ==
    ASSUME RingInv, NEW x \in Pkts, SubmitTaken(x) \/ SubmitRefused,
           UNCHANGED <<lastAvail, usedIdx, published>>
    PROVE  /\ availIdx' \in 0..IdxWidth - 1 /\ freeHead' \in 0..HeadWidth - 1
           /\ lastUsed' \in 0..IdxWidth - 1
           /\ buf' \in [Slots -> Pkts \cup {None}] /\ avail' \in [Slots -> Slots]
           /\ IndexOrder' /\ SlotsAgree' /\ PendingHeld'
<1>1. /\ availIdx \in 0..IdxWidth - 1 /\ freeHead \in 0..HeadWidth - 1 /\ usedIdx \in 0..IdxWidth - 1
      /\ buf \in [Slots -> Pkts \cup {None}] /\ avail \in [Slots -> Slots]
  BY DEF RingInv, TypeOK
<1>2. lastUsed' = usedIdx
  BY DEF SubmitTaken, SubmitRefused
<1>3. CASE Post(x) /\ ~RingFull(usedIdx)
  BY <1>1, <1>2, <1>3, PostEffect
<1>4. CASE UNCHANGED <<availIdx, freeHead, buf, avail>>
  BY <1>1, <1>2, <1>4, RingUntouched
<1> QED BY <1>3, <1>4 DEF SubmitTaken, SubmitRefused

\* What Add and Retry leave in the fields of a batch.
LEMMA TakenTypes ==
    ASSUME TypeOK, NEW b \in Batches, Taken(b)
    PROVE  /\ phase' \in [Batches -> {"idle", "full", "kick", "kickfull", "retry"}]
           /\ hold' \in [Batches -> Pkts \cup {None}] /\ queued' \in [Batches -> Nat] /\ drops' \in Nat
<1>1. /\ phase \in [Batches -> {"idle", "full", "kick", "kickfull", "retry"}]
      /\ hold \in [Batches -> Pkts \cup {None}] /\ queued \in [Batches -> Nat] /\ drops \in Nat
  BY DEF TypeOK
<1>2. queued' = [queued EXCEPT ![b] = @ + 1] /\ queued[b] + 1 \in Nat
  BY <1>1 DEF Taken
<1>3. queued' \in [Batches -> Nat]
  BY <1>1, <1>2
<1>4. drops' \in Nat /\ hold' \in [Batches -> Pkts \cup {None}]
  BY <1>1 DEF Taken
<1>5. phase' \in [Batches -> {"idle", "full", "kick", "kickfull", "retry"}]
  BY <1>1 DEF Taken, Goto
<1> QED BY <1>3, <1>4, <1>5

LEMMA RingStep == RingInv /\ [Next]_vars => RingInv'
<1> SUFFICES ASSUME RingInv, [Next]_vars PROVE RingInv'
  OBVIOUS
<1> USE DEF None
<1>0. TypeOK /\ RefusedHeld
  BY DEF RingInv
<1>1. ASSUME NEW b \in Batches, Add(b) PROVE RingInv'
  <2>1. next \in Pkts /\ next' \in 1..MaxPkts + 1
    BY <1>0, <1>1, RingAssumption DEF Add, TypeOK, Pkts
  <2>2. UNCHANGED <<lastAvail, usedIdx, published, out, awake, mu, kicked>> /\ (SubmitTaken(next) \/ SubmitRefused)
    BY <1>1 DEF Add, worker
  <2>3. /\ phase' \in [Batches -> {"idle", "full", "kick", "kickfull", "retry"}]
        /\ hold' \in [Batches -> Pkts \cup {None}] /\ queued' \in [Batches -> Nat] /\ drops' \in Nat
    <3>1. CASE Taken(b)
      BY <1>0, <3>1, TakenTypes
    <3>2. CASE /\ hold' = [hold EXCEPT ![b] = next] /\ Goto(b, "full") /\ UNCHANGED <<queued, drops>>
      BY <1>0, <2>1, <3>2 DEF Goto, TypeOK
    <3> QED BY <1>1, <3>1, <3>2 DEF Add
  <2>4. RefusedHeld'
    BY <1>0, <1>1, <2>1 DEF Add, Taken, Goto, TypeOK, RefusedHeld
  <2>5. TypeOK'
    BY <1>0, <2>1, <2>2, <2>3, SubmitEffect DEF TypeOK
  <2> QED BY <2>1, <2>2, <2>4, <2>5, SubmitEffect DEF RingInv
<1>2. ASSUME NEW b \in Batches, AddHuge(b) PROVE RingInv'
  <2>1. TypeOK' /\ RefusedHeld'
    BY <1>0, <1>2, RingAssumption DEF AddHuge, TypeOK, RefusedHeld, writer, worker
  <2>2. IndexOrder' /\ SlotsAgree' /\ PendingHeld'
    BY <1>2, RingUntouched DEF AddHuge, writer, worker
  <2> QED BY <2>1, <2>2 DEF RingInv
<1>3. ASSUME NEW b \in Batches, Retry(b) PROVE RingInv'
  <2> DEFINE x == hold[b]
  <2>1. x \in Pkts
    BY <1>0, <1>3 DEF Retry, RefusedHeld
  <2>2. UNCHANGED <<lastAvail, usedIdx, published, out, awake, mu, kicked, next>> /\ (SubmitTaken(x) \/ SubmitRefused)
    BY <1>3 DEF Retry, worker
  <2>3. /\ phase' \in [Batches -> {"idle", "full", "kick", "kickfull", "retry"}]
        /\ hold' \in [Batches -> Pkts \cup {None}] /\ queued' \in [Batches -> Nat] /\ drops' \in Nat
    <3>1. CASE Taken(b)
      BY <1>0, <3>1, TakenTypes
    <3>2. CASE /\ hold' = [hold EXCEPT ![b] = None] /\ Goto(b, "idle") /\ drops' = drops + 1 /\ UNCHANGED queued
      BY <1>0, <3>2 DEF Goto, TypeOK
    <3> QED BY <1>3, <3>1, <3>2 DEF Retry
  <2>4. RefusedHeld'
    BY <1>0, <1>3 DEF Retry, Taken, Goto, TypeOK, RefusedHeld
  <2> HIDE DEF x
  <2>5. TypeOK'
    BY <1>0, <2>1, <2>2, <2>3, SubmitEffect DEF TypeOK
  <2> QED BY <2>1, <2>2, <2>4, <2>5, SubmitEffect DEF RingInv
<1>4. ASSUME NEW b \in Batches, Publish(b) PROVE RingInv'
  <2>1. TypeOK' /\ RefusedHeld'
    BY <1>0, <1>4 DEF Publish, Goto, TypeOK, RefusedHeld, writer, worker
  <2>2. SlotsAgree' /\ PendingHeld'
    BY <1>4 DEF Publish, writer, worker, RingInv, SlotsAgree, PendingHeld, Pending, At
  <2>3. IndexOrder'
    <3> DEFINE a == (availIdx - usedIdx) % IdxWidth
               l == (lastAvail - usedIdx) % IdxWidth
               p == (published - usedIdx) % IdxWidth
    <3>1. l <= p /\ p <= a /\ a <= N
      BY DEF RingInv, IndexOrder
    <3>2. a' = a /\ l' = l /\ p' = a
      BY <1>4 DEF Publish, writer, worker
    <3>3. a \in Nat /\ l \in Nat /\ p \in Nat
      BY PendingBounds
    <3>4. l' <= p' /\ p' <= a' /\ a' <= N
      <4> HIDE DEF a, l, p
      <4> QED BY <3>1, <3>2, <3>3
    <3> QED BY <3>4 DEF IndexOrder
  <2> QED BY <2>1, <2>2, <2>3 DEF RingInv
<1>5. ASSUME NEW b \in Batches, Kick(b) PROVE RingInv'
  <2>1. TypeOK' /\ RefusedHeld'
    <3>1. CASE phase[b] = "kick" /\ Goto(b, "idle") /\ queued' = [queued EXCEPT ![b] = 0]
      BY <1>0, <1>5, <3>1 DEF Kick, Signal, Goto, TypeOK, RefusedHeld, writer, worker
    <3>2. CASE phase[b] = "kickfull" /\ Goto(b, "retry") /\ UNCHANGED queued
      BY <1>0, <1>5, <3>2 DEF Kick, Signal, Goto, TypeOK, RefusedHeld, writer, worker
    <3> QED BY <1>5, <3>1, <3>2 DEF Kick
  <2>2. IndexOrder' /\ SlotsAgree' /\ PendingHeld'
    BY <1>5, RingUntouched DEF Kick, writer, worker
  <2> QED BY <2>1, <2>2 DEF RingInv
<1>6. CASE Wake \/ Sleep \/ UNCHANGED vars
  <2>1. TypeOK' /\ RefusedHeld'
    BY <1>0, <1>6 DEF Wake, Sleep, vars, TypeOK, RefusedHeld, writer, worker
  <2>2. IndexOrder' /\ SlotsAgree' /\ PendingHeld'
    BY <1>6, RingUntouched DEF Wake, Sleep, vars, writer, worker
  <2> QED BY <2>1, <2>2 DEF RingInv
<1>7. CASE TakeEntry
  <2>1. IndexOrder' /\ PendingHeld' /\ lastAvail' \in 0..IdxWidth - 1 /\ out' \in Seq(Pkts)
    BY <1>7, TakeEffect
  <2>2. TypeOK' /\ RefusedHeld' /\ SlotsAgree'
    BY <1>0, <1>7, <2>1 DEF TakeEntry, RingInv, TypeOK, RefusedHeld, SlotsAgree, writer
  <2> QED BY <2>1, <2>2 DEF RingInv
<1>8. CASE ReportUsed
  <2>1. IndexOrder'
    BY <1>8, ReportEffect
  <2>2. TypeOK' /\ RefusedHeld' /\ SlotsAgree' /\ PendingHeld'
    BY <1>0, <1>8 DEF ReportUsed, RingInv, TypeOK, RefusedHeld, SlotsAgree, PendingHeld, Pending, At, writer
  <2> QED BY <2>1, <2>2 DEF RingInv
<1> QED BY <1>1, <1>2, <1>3, <1>4, <1>5, <1>6, <1>7, <1>8 DEF Next, Worker

\* The indexes never lap (Submit's full check, the wrapping subtraction of
\* vhost.go): used, taken, published, posted, in this order and within N, after
\* any number of wraps.
THEOREM IndexesInOrder == Spec => []IndexOrder
<1>1. RingInv => IndexOrder
  BY DEF RingInv
<1> QED BY <1>1, RingInit, RingStep, PTL DEF Spec
-----------------------------------------------------------------------------
(***************************************************************************)
(* The ring implements the lossy FIFO, step by step.                       *)
(***************************************************************************)
LEMMA FifoInit == Init => Fifo!Init
<1> SUFFICES ASSUME Init PROVE Fifo!Init
  OBVIOUS
<1>1. (0 - 0) % IdxWidth = 0
  <2>1. 0 \in 0..IdxWidth - 1
    BY Widths
  <2> QED BY <2>1, Widths, ModDiff
<1>2. Between(0, 0) = [k \in 1..0 |-> buf[avail[(0 + k - 1) % N]]]
  BY <1>1 DEF Between
<1>3. Between(0, 0) = <<>>
  BY <1>2
<1> QED BY <1>3 DEF Init, Fifo!Init

\* Steps the FIFO does not see.
LEMMA FifoStutter ==
    ASSUME UNCHANGED <<availIdx, lastAvail, buf, avail, out, drops>>
    PROVE  UNCHANGED Fifo!fifo
  BY DEF Fifo!fifo, Between

\* A packet submitted and reported as taken was accepted, unless it was too large
\* for a buffer.
LEMMA FifoSubmit ==
    ASSUME RingInv, NEW x \in Pkts, SubmitTaken(x), UNCHANGED <<lastAvail, usedIdx, published, out, drops>>
    PROVE  [Fifo!Next]_(Fifo!fifo)
<1>1. CASE x \in Large
  BY <1>1, FifoStutter DEF SubmitTaken
<1>2. CASE x \notin Large
  <2>1. Between(lastAvail, availIdx)' = Append(Between(lastAvail, availIdx), x)
    BY <1>2, PostEffect DEF SubmitTaken
  <2>2. Fifo!Accept(x)
    BY <2>1 DEF Fifo!Accept
  <2> QED BY <2>2 DEF Fifo!Next
<1> QED BY <1>1, <1>2

LEMMA FifoStep == RingInv /\ [Next]_vars => [Fifo!Next]_(Fifo!fifo)
<1> SUFFICES ASSUME RingInv, [Next]_vars PROVE [Fifo!Next]_(Fifo!fifo)
  OBVIOUS
<1>1. ASSUME NEW b \in Batches, Add(b) PROVE [Fifo!Next]_(Fifo!fifo)
  <2>1. next \in Pkts
    BY <1>1, RingAssumption DEF Add, RingInv, TypeOK, Pkts
  <2>2. UNCHANGED <<lastAvail, usedIdx, published, out, drops>>
    BY <1>1 DEF Add, Taken, worker
  <2>3. CASE SubmitTaken(next)
    BY <2>1, <2>2, <2>3, FifoSubmit
  <2>4. CASE SubmitRefused
    BY <2>2, <2>4, FifoStutter DEF SubmitRefused
  <2> QED BY <1>1, <2>3, <2>4 DEF Add
<1>2. ASSUME NEW b \in Batches, AddHuge(b) PROVE [Fifo!Next]_(Fifo!fifo)
  <2>1. Fifo!Refuse
    BY <1>2 DEF AddHuge, Fifo!Refuse, Between, writer, worker
  <2> QED BY <2>1 DEF Fifo!Next
<1>3. ASSUME NEW b \in Batches, Retry(b) PROVE [Fifo!Next]_(Fifo!fifo)
  <2> DEFINE x == hold[b]
  <2>1. x \in Pkts
    BY <1>3 DEF Retry, RingInv, RefusedHeld
  <2>2. UNCHANGED <<lastAvail, usedIdx, published, out>>
    BY <1>3 DEF Retry, worker
  <2>3. CASE SubmitTaken(x) /\ Taken(b)
    <3> HIDE DEF x
    <3> QED BY <2>1, <2>2, <2>3, FifoSubmit DEF Taken
  <2>4. CASE SubmitRefused /\ drops' = drops + 1
    <3>1. Fifo!Refuse
      BY <2>2, <2>4 DEF SubmitRefused, Fifo!Refuse, Between
    <3> QED BY <3>1 DEF Fifo!Next
  <2> QED BY <1>3, <2>3, <2>4 DEF Retry
<1>4. ASSUME NEW b \in Batches, Publish(b) \/ Kick(b) PROVE [Fifo!Next]_(Fifo!fifo)
  BY <1>4, FifoStutter DEF Publish, Kick, writer, worker
<1>5. CASE Wake \/ ReportUsed \/ Sleep \/ UNCHANGED vars
  BY <1>5, FifoStutter DEF Wake, ReportUsed, Sleep, vars, writer, worker
<1>6. CASE TakeEntry
  <2> DEFINE q == Between(lastAvail, availIdx)
  <2>1. /\ Len(q) >= 1 /\ out' = out \o SubSeq(q, 1, 1)
        /\ q' = SubSeq(q, 2, Len(q))
    BY <1>6, TakeEffect
  <2>2. drops' = drops /\ drops \in Nat
    BY <1>6 DEF TakeEntry, RingInv, TypeOK
  <2>3. Len(q) \in Nat
    <3>1. q = [k \in 1..Pending |-> buf[avail[(lastAvail + k - 1) % N]]] /\ Pending \in Nat
      BY PendingBounds DEF Between, Pending
    <3> QED BY <3>1
  <2>4. Fifo!Serve(1, 0)
    <3>1. 1 + 0 <= Len(q) /\ 1 + 0 + 1 = 2 /\ drops' = drops + 0
      BY <2>1, <2>2, <2>3
    <3> QED BY <2>1, <3>1 DEF Fifo!Serve
  <2>5. 1 \in 0..Len(q) /\ 0 \in 0..Len(q)
    BY <2>1, <2>3
  <2> QED BY <2>4, <2>5 DEF Fifo!Next
<1> QED BY <1>1, <1>2, <1>3, <1>4, <1>5, <1>6 DEF Next, Worker

\* Submit, Flush and the worker implement the lossy FIFO whose queue is read from
\* the ring itself: nothing pending is overwritten, taken twice or taken out of
\* order, and what was refused twice is counted.
THEOREM RingImplementsFifo == Spec => RingIsFifo
  BY RingInit, RingStep, FifoInit, FifoStep, PTL DEF Spec, RingIsFifo, Fifo!Spec
=============================================================================
