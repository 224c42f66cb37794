---------------------------- MODULE ForwardProofs ----------------------------
(***************************************************************************)
(* The coalescer for the tun device, for any packets, sequence space and   *)
(* limits: slots, segments and bytes stay within their limits, open counts *)
(* the frames in progress, and what the kernel cuts super-frames into is   *)
(* what was given.  Then the resequencer before it, for any stream, window *)
(* and sequence space: it keeps within its window, loses nothing, and      *)
(* restores the order.                                                     *)
(***************************************************************************)
EXTENDS ForwardReseq, ForwardBatch, FiniteSetTheorems, SequenceTheorems, TLAPS

-----------------------------------------------------------------------------
(***************************************************************************)
(* Arithmetic.                                                             *)
(***************************************************************************)
LEMMA Times ==
    ASSUME NEW m \in Nat \ {0}, NEW a \in Int, NEW b \in Int, a < b
    PROVE  a * m + m <= b * m
<1>1. a + 1 <= b
  OBVIOUS
<1>2. (b - (a + 1)) * m >= 0
  BY <1>1
<1>3. (b - (a + 1)) * m = b * m - a * m - m
  OBVIOUS
<1> QED BY <1>2, <1>3

LEMMA Products ==
    ASSUME NEW k \in Int, NEW z \in Int
    PROVE  /\ k * z \in Int /\ (k - 1) * z = k * z - z /\ (k + 1) * z = k * z + z
           /\ 1 * z = z /\ (1 - 1) * z = 0
OBVIOUS

\* Quotient and remainder are unique.
LEMMA DivMod ==
    ASSUME NEW m \in Nat \ {0}, NEW q \in Int, NEW r \in 0..(m - 1), NEW a \in Int, a = q * m + r
    PROVE  a \div m = q /\ a % m = r
<1> DEFINE d == a \div m
           e == a % m
<1>1. d \in Int /\ e \in 0..(m - 1) /\ a = m * d + e
  OBVIOUS
<1> HIDE DEF d, e
<1>2. m * d = d * m
  BY <1>1
<1>3. ~(d < q)
  <2>1. d < q => d * m + m <= q * m
    BY <1>1, Times
  <2>2. d * m + e = q * m + r
    BY <1>1, <1>2
  <2>3. d * m \in Int /\ q * m \in Int
    BY <1>1
  <2> QED BY <1>1, <2>1, <2>2, <2>3
<1>4. ~(q < d)
  <2>1. q < d => q * m + m <= d * m
    BY <1>1, Times
  <2>2. d * m + e = q * m + r
    BY <1>1, <1>2
  <2>3. d * m \in Int /\ q * m \in Int
    BY <1>1
  <2> QED BY <1>1, <2>1, <2>2, <2>3
<1>5. d = q
  BY <1>1, <1>3, <1>4
<1>6. e = r
  <2>1. d * m + e = q * m + r
    BY <1>1, <1>2
  <2>2. q * m \in Int
    OBVIOUS
  <2> QED BY <1>1, <1>5, <2>1, <2>2
<1> QED BY <1>5, <1>6 DEF d, e

LEMMA SmallMod == ASSUME NEW m \in Nat \ {0}, NEW r \in 0..(m - 1) PROVE r % m = r
<1>1. r = 0 * m + r /\ r \in Int /\ 0 \in Int
  OBVIOUS
<1> QED BY <1>1, DivMod

\* A remainder may be taken before an addition.
LEMMA ModPlus ==
    ASSUME NEW m \in Nat \ {0}, NEW a \in Int, NEW b \in Int
    PROVE  ((a % m) + b) % m = (a + b) % m
<1> DEFINE d == a \div m
           e == a % m
           c == e + b
           k == c \div m
           r == c % m
<1>1. d \in Int /\ e \in 0..(m - 1) /\ a = m * d + e
  OBVIOUS
<1> HIDE DEF d, e
<1>2. c \in Int
  BY <1>1
<1> HIDE DEF c
<1>3. k \in Int /\ r \in 0..(m - 1) /\ c = m * k + r
  BY <1>2
<1> HIDE DEF k, r
<1>4. a + b = (d + k) * m + r
  <2>1. (d + k) * m = m * d + m * k
    BY <1>1, <1>3
  <2>2. c = e + b
    BY DEF c
  <2>3. m * d \in Int /\ m * k \in Int
    BY <1>1, <1>3
  <2> QED BY <1>1, <1>3, <2>1, <2>2, <2>3
<1>5. a + b \in Int /\ d + k \in Int
  BY <1>1, <1>3
<1>6. (a + b) % m = r
  BY <1>3, <1>4, <1>5, DivMod
<1> QED BY <1>6 DEF r, c, e
-----------------------------------------------------------------------------
(***************************************************************************)
(* Frames.                                                                 *)
(***************************************************************************)
Pieces == [seq : Nat, len : Nat, fin : BOOLEAN]
SlotSet == [head : Packets \cup {NIL}, segs : Nat, bytes : Nat, next : Nat, age : Nat]

\* The bytes of the last segment of a frame whose others are as long as the first.
Last(s) == s.bytes - (s.segs - 1) * s.head.len
SeqAt(s, i) == (s.head.seq + (i - 1) * s.head.len) % SeqMod

\* A frame the kernel can cut: at least a segment, none but the last shorter than the first.
Cuttable(s) ==
    /\ s \in SlotSet /\ s.segs > 0 /\ s.head \in Packets /\ s.head.len > 0
    /\ Last(s) \in 1..s.head.len /\ (s.segs = 1 => s.bytes = s.head.len)

\* The next number of an even frame.
LEMMA SeqAtIs == ASSUME NEW s, NEW i, NEW j, i - 1 = j PROVE SeqAt(s, i) = (s.head.seq + j * s.head.len) % SeqMod
BY DEF SeqAt

LEMMA PacketFacts ==
    ASSUME NEW p \in Packets
    PROVE  /\ p.flow \in Flows /\ p.proto \in {"tcp", "udp", "other"} /\ p.seq \in 0..(SeqMod - 1)
           /\ p.len \in Nat /\ p.len <= MaxBytes /\ p.fin \in BOOLEAN /\ (~p.small => p.len > 0)
<1>1. p.len \in 0..MaxBytes /\ MaxBytes \in Nat
  BY BatchAssumption
<1> QED BY <1>1, BatchAssumption

LEMMA CutFacts ==
    ASSUME NEW s, Cuttable(s)
    PROVE  /\ Cut(s) \in Seq(Pieces) /\ Len(Cut(s)) = s.segs
           /\ \A i \in 1..s.segs : /\ Cut(s)[i].seq = SeqAt(s, i)
                                   /\ Cut(s)[i].len = IF i < s.segs THEN s.head.len ELSE Last(s)
<1> DEFINE k == s.segs
           z == s.head.len
           h == s.head.seq
           l == Last(s)
           n == (s.bytes + z - 1) \div z
<1>1. k \in Nat \ {0} /\ z \in Nat \ {0} /\ h \in 0..(SeqMod - 1) /\ h \in Nat /\ l \in 1..z /\ SeqMod \in Nat \ {0}
      /\ s.head.fin \in BOOLEAN /\ s.bytes \in Nat
  BY PacketFacts, BatchAssumption DEF Cuttable, SlotSet
<1>2. n = k
  <2> DEFINE a == s.bytes + z - 1
             r == l - 1
  <2>1. s.bytes = (k - 1) * z + l
    <3>1. (k - 1) * z \in Int
      BY <1>1
    <3> QED BY <1>1, <3>1 DEF Last
  <2> HIDE DEF l
  <2>2. (k - 1) * z + z = k * z /\ k * z \in Int /\ (k - 1) * z \in Int
    BY <1>1
  <2>3. a \in Int /\ a = k * z + r /\ r \in 0..(z - 1) /\ k \in Int /\ z \in Nat \ {0}
    BY <1>1, <2>1, <2>2
  <2> HIDE DEF a, k, z, r
  <2>4. a \div z = k
    BY <2>3, DivMod
  <2> QED BY <2>4 DEF a
<1>3. CASE k = 1
  <2>1. Cut(s) = <<Whole(s.head)>>
    BY <1>3 DEF Cut
  <2>2. Whole(s.head) \in Pieces /\ Whole(s.head).seq = h /\ Whole(s.head).len = z
    BY <1>1 DEF Whole, Piece, Pieces
  <2>3. SeqAt(s, 1) = h
    <3>1. (1 - 1) * z = 0
      BY <1>1
    <3>2. h % SeqMod = h
      BY <1>1, SmallMod
    <3> QED BY <1>1, <3>1, <3>2 DEF SeqAt
  <2>4. l = z
    <3>1. s.bytes = z
      BY <1>3 DEF Cuttable
    <3>2. (1 - 1) * z = 0
      BY <1>1
    <3> QED BY <1>1, <1>3, <3>1, <3>2 DEF Last
  <2> DEFINE c == <<Whole(s.head)>>
  <2>5. c \in Seq(Pieces) /\ Len(c) = 1 /\ c[1] = Whole(s.head)
    BY <2>2
  <2> HIDE DEF c
  <2>6. \A i \in 1..k : i = 1
    BY <1>3
  <2>7. Cut(s) = c
    BY <2>1 DEF c
  <2> QED BY <1>3, <2>2, <2>3, <2>4, <2>5, <2>6, <2>7
<1>4. CASE k # 1
  <2> DEFINE c == [i \in 1..n |->
               Piece((s.head.seq + (i - 1) * z) % SeqMod,
                     IF i < n THEN z ELSE s.bytes - (n - 1) * z,
                     i = n /\ s.head.fin)]
             b == [i \in 1..k |-> Piece(SeqAt(s, i), IF i < k THEN z ELSE l, i = k /\ s.head.fin)]
  <2>1. Cut(s) = c
    BY <1>1, <1>4 DEF Cut
  <2>2. c = b
    BY <1>2 DEF SeqAt, Last
  <2>3. \A i \in 1..k : SeqAt(s, i) \in Nat
    <3> TAKE i \in 1..k
    <3>1. h + (i - 1) * z \in Int
      BY <1>1
    <3> QED BY <1>1, <3>1 DEF SeqAt
  <2>4. \A i \in 1..k : Piece(SeqAt(s, i), IF i < k THEN z ELSE l, i = k /\ s.head.fin) \in Pieces
    <3> TAKE i \in 1..k
    <3>1. (IF i < k THEN z ELSE l) \in Nat
      BY <1>1
    <3>2. (i = k /\ s.head.fin) \in BOOLEAN
      OBVIOUS
    <3> QED BY <2>3, <3>1, <3>2 DEF Piece, Pieces
  <2>5. b \in [1..k -> Pieces]
    BY <2>4
  <2>6. b \in Seq(Pieces)
    BY <1>1, <2>5, SeqDef
  <2>7. \A i \in 1..k : b[i].seq = SeqAt(s, i) /\ b[i].len = IF i < k THEN z ELSE l
    BY DEF Piece
  <2>8. DOMAIN b = 1..k
    OBVIOUS
  <2> HIDE DEF b
  <2>9. Len(b) = k
    BY <1>1, <2>6, <2>8, LenProperties
  <2>10. Cut(s) = b
    BY <2>1, <2>2
  <2> QED BY <2>6, <2>7, <2>9, <2>10
<1> QED BY <1>3, <1>4

\* The first n pieces sent are the first n segments given.
Same(w, g, n) == \A i \in 1..n : w[i].seq = g[i].seq /\ w[i].len = g[i].len
AllLeft(w, g) == Len(w) = Len(g) /\ Same(w, g, Len(w))

\* All segments have left but those of frame s, which are where the kernel will cut.
Ready(s, w, g) ==
    /\ Cuttable(s) /\ Len(g) = Len(w) + s.segs /\ Same(w, g, Len(w))
    /\ \A i \in 1..s.segs : /\ g[Len(w) + i].seq = SeqAt(s, i)
                            /\ g[Len(w) + i].len = IF i < s.segs THEN s.head.len ELSE Last(s)

\* A frame that may still grow has no short segment, and next is where it ends.
Evenly(s) == s.bytes = s.segs * s.head.len /\ s.next = SeqAt(s, s.segs + 1)

LEMMA CutRestores ==
    ASSUME NEW s, NEW w \in Seq(Pieces), NEW g \in Seq(Packets), Ready(s, w, g)
    PROVE  w \o Cut(s) \in Seq(Pieces) /\ AllLeft(w \o Cut(s), g)
<1> DEFINE c == Cut(s)
           u == w \o c
<1>1. /\ c \in Seq(Pieces) /\ Len(c) = s.segs
      /\ \A i \in 1..s.segs : c[i].seq = SeqAt(s, i) /\ c[i].len = IF i < s.segs THEN s.head.len ELSE Last(s)
  BY CutFacts DEF Ready
<1> HIDE DEF c
<1>2. Len(w) \in Nat /\ Len(c) \in Nat
  BY <1>1, LenProperties
<1>3. u \in Seq(Pieces) /\ Len(u) = Len(w) + Len(c)
      /\ \A i \in 1..Len(w) + Len(c) : u[i] = IF i <= Len(w) THEN w[i] ELSE c[i - Len(w)]
  BY <1>1, ConcatProperties
<1> HIDE DEF u
<1>4. Len(u) = Len(g) /\ Len(g) = Len(w) + Len(c)
  BY <1>1, <1>3 DEF Ready
<1>5. ASSUME NEW i \in 1..Len(u) PROVE u[i].seq = g[i].seq /\ u[i].len = g[i].len
  <2>1. CASE i <= Len(w)
    <3>1. i \in 1..Len(w) /\ u[i] = w[i]
      BY <1>2, <1>3, <2>1
    <3> QED BY <3>1 DEF Ready, Same
  <2>2. CASE i > Len(w)
    <3> DEFINE j == i - Len(w)
    <3>1. j \in 1..Len(c) /\ Len(w) + j = i /\ u[i] = c[j]
      BY <1>2, <1>3, <2>2
    <3>2. j \in 1..s.segs
      BY <1>1, <3>1
    <3> HIDE DEF j
    <3>3. /\ c[j].seq = SeqAt(s, j) /\ g[Len(w) + j].seq = SeqAt(s, j)
          /\ c[j].len = g[Len(w) + j].len
      BY <1>1, <3>2 DEF Ready
    <3> QED BY <3>1, <3>3
  <2> QED BY <1>2, <1>3, <2>1, <2>2
<1>6. AllLeft(u, g)
  BY <1>4, <1>5 DEF AllLeft, Same
<1> QED BY <1>3, <1>6 DEF u, c

\* A new frame.
LEMMA StartReady ==
    ASSUME NEW p \in Packets, p.len > 0, NEW w \in Seq(Pieces), NEW g \in Seq(Packets), AllLeft(w, g)
    PROVE  Ready(Started(p), w, Append(g, p)) /\ Evenly(Started(p)) /\ Started(p) \in SlotSet
<1> DEFINE s == Started(p)
           a == Append(g, p)
           z == p.len
<1>1. z \in Nat \ {0} /\ p.seq \in 0..(SeqMod - 1) /\ SeqMod \in Nat \ {0}
  BY PacketFacts, BatchAssumption
<1>2. Following(p) \in Nat
  BY <1>1 DEF Following
<1>3. s \in SlotSet /\ s.head = p /\ s.segs = 1 /\ s.bytes = z /\ s.next = Following(p) /\ p.len = z
  BY <1>1, <1>2 DEF Started, SlotSet
<1>4. a \in Seq(Packets) /\ Len(a) = Len(g) + 1 /\ (\A i \in 1..Len(g) : a[i] = g[i]) /\ a[Len(g) + 1] = p /\ Len(g) \in Nat
  BY AppendProperties, LenProperties
<1> HIDE DEF s, a, z
<1>5. Last(s) = z
  <2>1. (1 - 1) * z = 0
    BY <1>1
  <2> QED BY <1>1, <1>3, <2>1 DEF Last
<1>6. SeqAt(s, 1) = p.seq
  <2>1. (1 - 1) * z = 0
    BY <1>1
  <2>2. p.seq % SeqMod = p.seq
    BY <1>1, SmallMod
  <2> QED BY <1>1, <1>3, <2>1, <2>2 DEF SeqAt
<1>7. SeqAt(s, 1 + 1) = Following(p)
  <2>1. (1 + 1 - 1) * z = z
    BY <1>1
  <2> QED BY <1>3, <2>1 DEF SeqAt, Following
<1>8. Cuttable(s)
  BY <1>1, <1>3, <1>5 DEF Cuttable
<1>9. Same(w, a, Len(w)) /\ Len(a) = Len(w) + 1 /\ a[Len(w) + 1] = p
  BY <1>4 DEF AllLeft, Same
<1>10. \A i \in 1..s.segs : i = 1
  BY <1>3
<1>11. Ready(s, w, a)
  BY <1>3, <1>5, <1>6, <1>8, <1>9, <1>10 DEF Ready
<1>12. Evenly(s)
  <2>1. 1 * z = z
    BY <1>1, Products
  <2> QED BY <1>3, <1>7, <2>1 DEF Evenly
<1> QED BY <1>3, <1>11, <1>12 DEF s, a

\* A frame that grows by a segment that starts where it ends and is no longer than its first.
LEMMA GrowReady ==
    ASSUME NEW s, NEW p \in Packets, p.len > 0, NEW w \in Seq(Pieces), NEW g \in Seq(Packets),
           Ready(s, w, g), Evenly(s), p.seq = s.next, p.len <= s.head.len
    PROVE  /\ Ready(Grown(s, p), w, Append(g, p)) /\ Grown(s, p) \in SlotSet
           /\ p.len = s.head.len => Evenly(Grown(s, p))
<1> DEFINE t == Grown(s, p)
           a == Append(g, p)
           z == s.head.len
           k == s.segs
           h == s.head.seq
<1>1. /\ z \in Nat \ {0} /\ k \in Nat \ {0} /\ h \in Nat /\ SeqMod \in Nat \ {0} /\ s \in SlotSet /\ s.head \in Packets
      /\ p.len \in Nat /\ p.seq \in Nat
  BY PacketFacts, BatchAssumption DEF Ready, Cuttable, SlotSet
<1>0. s.head.len = z /\ s.segs = k /\ s.head.seq = h
  OBVIOUS
<1>2. Following(p) \in Nat
  BY <1>1 DEF Following
<1>3. t \in SlotSet /\ t.head = s.head /\ t.segs = k + 1 /\ t.bytes = s.bytes + p.len /\ t.next = Following(p)
  <2>1. s.bytes + p.len \in Nat /\ k + 1 \in Nat /\ 0 \in Nat
    BY <1>1 DEF SlotSet
  <2>2. t.head = s.head /\ t.segs = s.segs + 1 /\ t.bytes = s.bytes + p.len /\ t.next = Following(p)
    BY <1>1 DEF Grown, SlotSet
  <2>3. t \in SlotSet
    BY <1>1, <1>2, <2>1 DEF Grown, SlotSet
  <2> QED BY <2>2, <2>3
<1>4. a \in Seq(Packets) /\ Len(a) = Len(g) + 1 /\ (\A i \in 1..Len(g) : a[i] = g[i]) /\ a[Len(g) + 1] = p
      /\ Len(g) \in Nat /\ Len(w) \in Nat
  BY AppendProperties, LenProperties
<1> HIDE DEF t, a, z, k, h
<1>5. k * z \in Int /\ (k - 1) * z = k * z - z /\ (k + 1) * z = k * z + z
  BY <1>1, Products
<1>6. s.bytes = k * z /\ s.next = SeqAt(s, k + 1) /\ Len(g) = Len(w) + k
  BY <1>0 DEF Evenly, Ready
<1>a. SeqAt(s, k + 1) = (h + k * z) % SeqMod /\ SeqAt(s, k + 1 + 1) = (h + (k + 1) * z) % SeqMod
  <2> DEFINE m == k + 1
             n == m + 1
  <2>1. m - 1 = k /\ n - 1 = m
    BY <1>1
  <2> HIDE DEF m, n
  <2>2. SeqAt(s, m) = (s.head.seq + k * s.head.len) % SeqMod /\ SeqAt(s, n) = (s.head.seq + m * s.head.len) % SeqMod
    BY <2>1, SeqAtIs
  <2> QED BY <2>2 DEF h, z, m, n
<1>7. Last(s) = z /\ Last(t) = p.len
  BY <1>0, <1>1, <1>3, <1>5, <1>6 DEF Last
<1>8. \A i : SeqAt(t, i) = SeqAt(s, i)
  BY <1>3 DEF SeqAt
<1>9. Cuttable(t)
  <2>1. t.segs > 0 /\ t.segs # 1 /\ p.len \in 1..z
    BY <1>0, <1>1, <1>3
  <2> QED BY <1>0, <1>1, <1>3, <1>7, <2>1 DEF Cuttable
<1>10. Len(a) = Len(w) + t.segs /\ Same(w, a, Len(w))
  <2>1. \A i \in 1..Len(w) : i \in 1..Len(g)
    BY <1>1, <1>4, <1>6
  <2>2. Same(w, a, Len(w))
    BY <1>4, <2>1 DEF Ready, Same
  <2> QED BY <1>1, <1>3, <1>4, <1>6, <2>2
<1>11. ASSUME NEW i \in 1..t.segs
       PROVE  a[Len(w) + i].seq = SeqAt(t, i) /\ a[Len(w) + i].len = IF i < t.segs THEN t.head.len ELSE Last(t)
  <2>1. CASE i \in 1..k
    <3>1. Len(w) + i \in 1..Len(g)
      BY <1>1, <1>4, <1>6, <2>1
    <3>2. a[Len(w) + i] = g[Len(w) + i]
      BY <1>4, <3>1
    <3>3. g[Len(w) + i].seq = SeqAt(s, i) /\ g[Len(w) + i].len = z
      BY <1>0, <1>7, <2>1 DEF Ready
    <3>4. i < t.segs
      BY <1>1, <1>3, <2>1
    <3> QED BY <1>0, <1>3, <1>8, <3>2, <3>3, <3>4
  <2>2. CASE i = k + 1
    <3>1. Len(w) + i = Len(g) + 1
      BY <1>1, <1>4, <1>6, <2>2
    <3>2. a[Len(w) + i] = p
      BY <1>4, <3>1
    <3>3. ~(i < t.segs)
      BY <1>1, <1>3, <2>2
    <3> QED BY <1>6, <1>7, <1>8, <2>2, <3>2, <3>3
  <2> QED BY <1>1, <1>3, <2>1, <2>2
<1>12. Ready(t, w, a)
  BY <1>9, <1>10, <1>11 DEF Ready
<1>13. ASSUME p.len = z PROVE Evenly(t)
  <2>1. t.bytes = (k + 1) * z
    BY <1>3, <1>5, <1>6, <1>13
  <2>2. Following(p) = SeqAt(s, k + 1 + 1)
    <3> DEFINE b == h + k * z
    <3>1. b \in Int /\ h + (k + 1) * z = b + z
      BY <1>1, <1>5
    <3>2. p.seq = b % SeqMod
      BY <1>6, <1>a
    <3> HIDE DEF b
    <3>3. ((b % SeqMod) + z) % SeqMod = (b + z) % SeqMod
      <4>1. SeqMod \in Nat \ {0} /\ b \in Int /\ z \in Int
        BY <1>1, <3>1
      <4> QED BY <4>1, ModPlus
    <3> QED BY <1>13, <1>a, <3>1, <3>2, <3>3 DEF Following
  <2> QED BY <1>0, <1>3, <1>8, <2>1, <2>2 DEF Evenly
<1> QED BY <1>0, <1>3, <1>12, <1>13 DEF t, a
-----------------------------------------------------------------------------
(***************************************************************************)
(* The coalescer.  st is its state, g what each flow was given.            *)
(***************************************************************************)
IsSt(st) == st = [slots |-> st.slots, open |-> st.open, wire |-> st.wire]
OpenIn(sl) == {f \in DOMAIN sl : sl[f].segs > 0}

SlotsOK(sl) ==
    /\ DOMAIN sl \subseteq Flows /\ IsFiniteSet(DOMAIN sl) /\ Cardinality(DOMAIN sl) <= MaxSlots
    /\ sl \in [DOMAIN sl -> SlotSet]
    /\ \A f \in DOMAIN sl : sl[f].segs <= MaxSegs /\ sl[f].bytes <= MaxBytes
    /\ \A f \in OpenIn(sl) : sl[f].head.flow = f /\ sl[f].head.proto = "tcp"
    /\ NoCoalesce => DOMAIN sl = {}

\* Whatever a flow was given has left, or is in its frame where the kernel will cut.
FlowOK(st, g, f) ==
    IF f \in OpenIn(st.slots) THEN Ready(st.slots[f], st.wire[f], g[f]) ELSE AllLeft(st.wire[f], g[f])

Shape(st, g) ==
    /\ IsSt(st) /\ SlotsOK(st.slots) /\ st.open = Cardinality(OpenIn(st.slots))
    /\ st.wire \in [Flows -> Seq(Pieces)] /\ \A f \in Flows : FlowOK(st, g, f)

AllEven(sl) == \A f \in OpenIn(sl) : Evenly(sl[f])

Good(st, g) == Shape(st, g) /\ AllEven(st.slots)

Givens == [Flows -> Seq(Packets)]

\* The frames of fs are written.
Closed(s) == [s EXCEPT !.segs = 0, !.bytes = 0]
After(st, fs) ==
    LET going == fs \cap OpenIn(st.slots) IN
    [slots |-> [f \in DOMAIN st.slots |-> IF f \in going THEN Closed(st.slots[f]) ELSE st.slots[f]],
     open |-> st.open - Cardinality(going),
     wire |-> [f \in Flows |-> IF f \in going THEN st.wire[f] \o Cut(st.slots[f]) ELSE st.wire[f]]]

LEMMA OpenFacts ==
    ASSUME NEW sl, SlotsOK(sl)
    PROVE  IsFiniteSet(OpenIn(sl)) /\ Cardinality(OpenIn(sl)) \in Nat /\ OpenIn(sl) \subseteq DOMAIN sl
           /\ Cardinality(DOMAIN sl) \in Nat /\ \A f \in DOMAIN sl : f \notin OpenIn(sl) => sl[f].segs = 0
<1>1. OpenIn(sl) \subseteq DOMAIN sl
  BY DEF OpenIn
<1>2. IsFiniteSet(DOMAIN sl)
  BY DEF SlotsOK
<1>3. IsFiniteSet(OpenIn(sl))
  BY <1>1, <1>2, FS_Subset
<1>4. \A f \in DOMAIN sl : sl[f].segs \in Nat
  BY DEF SlotsOK, SlotSet
<1>5. \A f \in DOMAIN sl : f \notin OpenIn(sl) => sl[f].segs = 0
  BY <1>4 DEF OpenIn
<1> QED BY <1>1, <1>2, <1>3, <1>5, FS_CardinalityType

LEMMA ClosedFacts ==
    ASSUME NEW s \in SlotSet
    PROVE  Closed(s) \in SlotSet /\ Closed(s).segs = 0 /\ Closed(s).bytes = 0
BY DEF Closed, SlotSet

LEMMA AfterShape ==
    ASSUME NEW st, NEW g \in Givens, Shape(st, g), NEW fs
    PROVE  LET r == After(st, fs)
           IN  /\ Shape(r, g) /\ DOMAIN r.slots = DOMAIN st.slots
               /\ OpenIn(r.slots) = OpenIn(st.slots) \ fs
               /\ \A f \in OpenIn(r.slots) : r.slots[f] = st.slots[f]
<1> DEFINE r == After(st, fs)
           O == OpenIn(st.slots)
           going == fs \cap O
<1>1. /\ IsSt(st) /\ SlotsOK(st.slots) /\ st.open = Cardinality(O) /\ st.wire \in [Flows -> Seq(Pieces)]
      /\ \A f \in Flows : FlowOK(st, g, f)
  BY DEF Shape
<1>2. /\ r.slots = [f \in DOMAIN st.slots |-> IF f \in going THEN Closed(st.slots[f]) ELSE st.slots[f]]
      /\ r.open = st.open - Cardinality(going)
      /\ r.wire = [f \in Flows |-> IF f \in going THEN st.wire[f] \o Cut(st.slots[f]) ELSE st.wire[f]]
      /\ IsSt(r)
  BY DEF After, IsSt
<1> HIDE DEF r
<1>3. DOMAIN st.slots \subseteq Flows /\ \A f \in DOMAIN st.slots : st.slots[f] \in SlotSet
  BY <1>1 DEF SlotsOK
<1>4. DOMAIN r.slots = DOMAIN st.slots
  BY <1>2
<1>5. \A f \in DOMAIN st.slots : IF f \in going THEN r.slots[f] \in SlotSet /\ r.slots[f].segs = 0 /\ r.slots[f].bytes = 0
                                              ELSE r.slots[f] = st.slots[f]
  BY <1>2, <1>3, ClosedFacts
<1>6. O \subseteq DOMAIN st.slots /\ IsFiniteSet(O) /\ Cardinality(O) \in Nat
  BY <1>1, OpenFacts
<1>7. OpenIn(r.slots) = O \ fs
  <2>1. \A f \in DOMAIN st.slots : f \in O <=> st.slots[f].segs > 0
    BY DEF OpenIn
  <2>2. ~(0 > 0)
    OBVIOUS
  <2>3. \A f \in DOMAIN st.slots : r.slots[f].segs > 0 <=> f \in O \ fs
    BY <1>5, <2>1, <2>2
  <2> QED BY <1>4, <1>6, <2>3 DEF OpenIn
<1>8. \A f \in OpenIn(r.slots) : r.slots[f] = st.slots[f]
  BY <1>5, <1>6, <1>7
<1>9. SlotsOK(r.slots)
  <2>1. r.slots \in [DOMAIN r.slots -> SlotSet]
    BY <1>2, <1>3, <1>4, <1>5
  <2>2. MaxSegs \in Nat /\ MaxBytes \in Nat
    BY BatchAssumption
  <2>3. \A f \in DOMAIN r.slots : r.slots[f].segs <= MaxSegs /\ r.slots[f].bytes <= MaxBytes
    BY <1>1, <1>4, <1>5, <2>2 DEF SlotsOK
  <2>4. \A f \in OpenIn(r.slots) : r.slots[f].head.flow = f /\ r.slots[f].head.proto = "tcp"
    BY <1>1, <1>7, <1>8 DEF SlotsOK
  <2> QED BY <1>1, <1>4, <2>1, <2>3, <2>4 DEF SlotsOK
<1>10. r.open = Cardinality(OpenIn(r.slots))
  <2>1. Cardinality(O \ fs) = Cardinality(O) - Cardinality(O \cap fs)
    BY <1>6, FS_Difference
  <2>2. O \cap fs = going
    OBVIOUS
  <2> QED BY <1>1, <1>2, <1>7, <2>1, <2>2
<1>11. \A f \in Flows : r.wire[f] \in Seq(Pieces) /\ FlowOK(r, g, f)
  <2> TAKE f \in Flows
  <2>1. st.wire[f] \in Seq(Pieces) /\ g[f] \in Seq(Packets)
    BY <1>1 DEF Givens
  <2>2. CASE f \in going
    <3>1. Ready(st.slots[f], st.wire[f], g[f])
      BY <1>1, <2>2 DEF FlowOK
    <3>2. r.wire[f] = st.wire[f] \o Cut(st.slots[f])
      BY <1>2, <2>2
    <3>3. f \notin OpenIn(r.slots)
      BY <1>7, <2>2
    <3>4. st.wire[f] \o Cut(st.slots[f]) \in Seq(Pieces) /\ AllLeft(st.wire[f] \o Cut(st.slots[f]), g[f])
      BY <2>1, <3>1, CutRestores
    <3> QED BY <3>2, <3>3, <3>4 DEF FlowOK
  <2>3. CASE f \notin going
    <3>1. r.wire[f] = st.wire[f] /\ (f \in OpenIn(r.slots) <=> f \in O)
      BY <1>2, <1>7, <2>3
    <3>2. f \in OpenIn(r.slots) => r.slots[f] = st.slots[f]
      BY <1>8
    <3> QED BY <1>1, <2>1, <3>1, <3>2 DEF FlowOK
  <2> QED BY <2>2, <2>3
<1>12. r.wire \in [Flows -> Seq(Pieces)]
  BY <1>2, <1>11
<1> QED BY <1>2, <1>4, <1>7, <1>8, <1>9, <1>10, <1>11, <1>12 DEF Shape, r

\* flushSlot of one slot.
LEMMA FlushSlotIs ==
    ASSUME NEW st, NEW g \in Givens, Shape(st, g), NEW f \in DOMAIN st.slots
    PROVE  FlushSlot(st, f) = After(st, {f})
<1> DEFINE sl == st.slots
           O == OpenIn(sl)
           a == After(st, {f})
<1>1. IsSt(st) /\ SlotsOK(sl) /\ st.open = Cardinality(O) /\ st.wire \in [Flows -> Seq(Pieces)]
  BY DEF Shape
<1>2. sl \in [DOMAIN sl -> SlotSet] /\ f \in Flows /\ sl[f] \in SlotSet
  BY <1>1 DEF SlotsOK
<1>3. Cardinality(O) \in Nat
  BY <1>1, OpenFacts
<1>4. CASE sl[f].segs = 0
  <2>1. {f} \cap O = {}
    BY <1>4 DEF OpenIn
  <2>2. Cardinality({f} \cap O) = 0
    BY <2>1, FS_EmptySet
  <2>3. a.slots = sl
    BY <1>2, <2>1 DEF After
  <2>4. a.open = st.open
    BY <1>1, <1>3, <2>2 DEF After
  <2>5. a.wire = st.wire
    BY <1>1, <2>1 DEF After
  <2>6. IsSt(a)
    BY DEF After, IsSt
  <2> HIDE DEF a
  <2>7. a = st
    BY <1>1, <2>3, <2>4, <2>5, <2>6, Zenon DEF IsSt
  <2> QED BY <1>4, <2>7 DEF FlushSlot, a
<1>5. CASE sl[f].segs # 0
  <2>1. {f} \cap O = {f}
    BY <1>2, <1>5 DEF OpenIn, SlotSet
  <2>2. Cardinality({f} \cap O) = 1
    BY <2>1, FS_Singleton
  <2>3. a.slots = [sl EXCEPT ![f].segs = 0, ![f].bytes = 0]
    <3> DEFINE b == [sl EXCEPT ![f].segs = 0, ![f].bytes = 0]
    <3>1. a.slots = [h \in DOMAIN sl |-> IF h = f THEN Closed(sl[h]) ELSE sl[h]]
      BY <2>1 DEF After
    <3>2. DOMAIN b = DOMAIN sl /\ \A h \in DOMAIN sl : h # f => b[h] = sl[h]
      BY <1>2
    <3>3. b[f] = Closed(sl[f])
      BY <1>2 DEF Closed, SlotSet
    <3>4. b \in [DOMAIN sl -> SlotSet]
      BY <1>2 DEF SlotSet
    <3> HIDE DEF a, b
    <3>5. b = [h \in DOMAIN sl |-> b[h]]
      BY <3>4
    <3> QED BY <3>1, <3>2, <3>3, <3>5 DEF b
  <2>4. a.open = st.open - 1
    BY <2>2 DEF After
  <2>5. a.wire = [st.wire EXCEPT ![f] = @ \o Cut(sl[f])]
    <3> DEFINE c == st.wire[f] \o Cut(sl[f])
    <3>1. a.wire = [h \in Flows |-> IF h = f THEN c ELSE st.wire[h]]
      BY <2>1 DEF After
    <3> HIDE DEF a, c
    <3>2. a.wire = [st.wire EXCEPT ![f] = c]
      BY <1>1, <1>2, <3>1
    <3> QED BY <3>2 DEF c
  <2>6. IsSt(a)
    BY DEF After, IsSt
  <2> HIDE DEF a
  <2>7. FlushSlot(st, f) = [slots |-> a.slots, open |-> a.open, wire |-> a.wire]
    BY <1>5, <2>3, <2>4, <2>5 DEF FlushSlot
  <2> QED BY <2>6, <2>7 DEF IsSt, a
<1> QED BY <1>4, <1>5

\* flushSlot of a set of slots.
LEMMA FlushSlotsIs ==
    ASSUME NEW st, NEW g \in Givens, Shape(st, g), NEW fs, fs \subseteq DOMAIN st.slots
    PROVE  FlushSlots(st, fs) = After(st, fs)
<1> DEFINE sl == st.slots
           O == OpenIn(sl)
           going == fs \cap O
           a == After(st, fs)
           b == FlushSlots(st, fs)
<1>1. SlotsOK(sl) /\ DOMAIN sl \subseteq Flows /\ st.wire \in [Flows -> Seq(Pieces)]
  BY DEF Shape, SlotsOK
<1>2. \A f \in DOMAIN sl : f \in O <=> ~(sl[f].segs = 0)
  <2>1. \A f \in DOMAIN sl : f \in O => sl[f].segs > 0
    BY DEF OpenIn
  <2>2. ~(0 > 0)
    OBVIOUS
  <2> QED BY <1>1, <2>1, <2>2, OpenFacts
<1>3. ASSUME NEW f \in fs
      PROVE  /\ FlushSlot(st, f).slots[f] = IF f \in O THEN Closed(sl[f]) ELSE sl[f]
             /\ FlushSlot(st, f).wire[f] = IF f \in O THEN st.wire[f] \o Cut(sl[f]) ELSE st.wire[f]
  <2>1. FlushSlot(st, f) = After(st, {f}) /\ f \in Flows /\ f \in DOMAIN sl
    BY <1>1, FlushSlotIs
  <2>2. f \in {f} \cap O <=> f \in O
    OBVIOUS
  <2> QED BY <2>1, <2>2 DEF After
<1>4. {f \in fs : sl[f].segs > 0} = going
  BY DEF OpenIn
<1>5. b.slots = a.slots
  <2>1. a.slots = [f \in DOMAIN sl |-> IF f \in going THEN Closed(sl[f]) ELSE sl[f]]
    BY DEF After
  <2>2. b.slots = [f \in DOMAIN sl |-> IF f \in fs THEN FlushSlot(st, f).slots[f] ELSE sl[f]]
    BY DEF FlushSlots
  <2> HIDE DEF a, b
  <2> QED BY <1>3, <2>1, <2>2
<1>6. b.wire = a.wire
  <2>1. a.wire = [f \in Flows |-> IF f \in going THEN st.wire[f] \o Cut(sl[f]) ELSE st.wire[f]]
    BY DEF After
  <2>2. b.wire = [f \in Flows |-> IF f \in fs THEN FlushSlot(st, f).wire[f] ELSE st.wire[f]]
    BY DEF FlushSlots
  <2> HIDE DEF a, b
  <2> QED BY <1>3, <2>1, <2>2
<1>7. b.open = a.open
  BY <1>4 DEF After, FlushSlots
<1>8. IsSt(a) /\ IsSt(b)
  BY DEF IsSt, After, FlushSlots
<1> HIDE DEF a, b
<1>9. a = b
  BY <1>5, <1>6, <1>7, <1>8, Zenon DEF IsSt
<1> QED BY <1>9 DEF a, b

\* What a flush leaves.
LEMMA AfterGood ==
    ASSUME NEW st, NEW g \in Givens, Shape(st, g), NEW fs, \A f \in OpenIn(st.slots) \ fs : Evenly(st.slots[f])
    PROVE  Good(After(st, fs), g)
<1> DEFINE r == After(st, fs)
<1>1. Shape(r, g) /\ OpenIn(r.slots) = OpenIn(st.slots) \ fs /\ \A f \in OpenIn(r.slots) : r.slots[f] = st.slots[f]
  BY AfterShape
<1> HIDE DEF r
<1>2. Good(r, g)
  BY <1>1 DEF Good, AllEven
<1> QED BY <1>2 DEF r

\* Slots without a frame go.
LEMMA WithoutGood ==
    ASSUME NEW st, NEW g \in Givens, Good(st, g), NEW fs, fs \cap OpenIn(st.slots) = {}
    PROVE  Good(Without(st, fs), g) /\ Without(st, fs).slots = [f \in DOMAIN st.slots \ fs |-> st.slots[f]]
<1> DEFINE sl == st.slots
           r == Without(st, fs)
           ns == [f \in DOMAIN sl \ fs |-> sl[f]]
<1>1. /\ IsSt(st) /\ SlotsOK(sl) /\ st.open = Cardinality(OpenIn(sl)) /\ st.wire \in [Flows -> Seq(Pieces)]
      /\ (\A f \in Flows : FlowOK(st, g, f)) /\ AllEven(sl)
  BY DEF Good, Shape
<1>2. r.slots = ns /\ r.open = st.open /\ r.wire = st.wire /\ IsSt(r)
  <2>1. r = [slots |-> ns, open |-> st.open, wire |-> st.wire]
    BY <1>1 DEF Without, IsSt
  <2> QED BY <2>1 DEF IsSt
<1>3. DOMAIN ns = DOMAIN sl \ fs /\ \A f \in DOMAIN ns : ns[f] = sl[f]
  OBVIOUS
<1>4. OpenIn(sl) \subseteq DOMAIN sl
  BY <1>1, OpenFacts
<1>5. ns \in [DOMAIN sl \ fs -> SlotSet]
  BY <1>1 DEF SlotsOK
<1> HIDE DEF r, ns
<1>6. OpenIn(ns) = OpenIn(sl)
  BY <1>3, <1>4 DEF OpenIn
<1>7. SlotsOK(ns)
  <2>1. DOMAIN ns \subseteq DOMAIN sl /\ IsFiniteSet(DOMAIN sl) /\ Cardinality(DOMAIN sl) <= MaxSlots
    BY <1>1, <1>3 DEF SlotsOK
  <2>2. IsFiniteSet(DOMAIN ns) /\ Cardinality(DOMAIN ns) <= Cardinality(DOMAIN sl)
    BY <2>1, FS_Subset
  <2>3. Cardinality(DOMAIN ns) \in Nat /\ Cardinality(DOMAIN sl) \in Nat /\ MaxSlots \in Nat
    BY <2>1, <2>2, FS_CardinalityType, BatchAssumption
  <2>4. Cardinality(DOMAIN ns) <= MaxSlots
    BY <2>1, <2>2, <2>3
  <2>5. \A f \in DOMAIN ns : ns[f].segs <= MaxSegs /\ ns[f].bytes <= MaxBytes
    BY <1>1, <1>3, <2>1 DEF SlotsOK
  <2>6. \A f \in OpenIn(ns) : ns[f].head.flow = f /\ ns[f].head.proto = "tcp"
    BY <1>1, <1>3, <1>6 DEF SlotsOK, OpenIn
  <2> QED BY <1>1, <1>3, <1>5, <2>1, <2>2, <2>4, <2>5, <2>6 DEF SlotsOK
<1>8. \A f \in OpenIn(ns) : ns[f] = sl[f]
  BY <1>3 DEF OpenIn
<1>9. \A f \in Flows : FlowOK(r, g, f)
  BY <1>1, <1>2, <1>6, <1>8 DEF FlowOK
<1>10. Good(r, g)
  BY <1>1, <1>2, <1>6, <1>7, <1>8, <1>9 DEF Good, Shape, AllEven
<1> QED BY <1>2, <1>10 DEF r, ns

\* A new slot for flow f.
AddSlot(st, f) == [st EXCEPT !.slots = [h \in DOMAIN @ \cup {f} |-> IF h = f THEN EmptySlot ELSE @[h]]]

LEMMA AddSlotGood ==
    ASSUME NEW st, NEW g \in Givens, Good(st, g), NEW f \in Flows, f \notin DOMAIN st.slots, ~NoCoalesce,
           Cardinality(DOMAIN st.slots) < MaxSlots
    PROVE  Good(AddSlot(st, f), g) /\ f \in DOMAIN AddSlot(st, f).slots
<1> DEFINE sl == st.slots
           r == AddSlot(st, f)
           ns == [h \in DOMAIN sl \cup {f} |-> IF h = f THEN EmptySlot ELSE sl[h]]
<1>1. /\ IsSt(st) /\ SlotsOK(sl) /\ st.open = Cardinality(OpenIn(sl)) /\ st.wire \in [Flows -> Seq(Pieces)]
      /\ (\A h \in Flows : FlowOK(st, g, h)) /\ AllEven(sl)
  BY DEF Good, Shape
<1>2. r.slots = ns /\ r.open = st.open /\ r.wire = st.wire /\ IsSt(r)
  <2>0. r = [st EXCEPT !.slots = ns]
    BY DEF AddSlot
  <2> HIDE DEF r, ns
  <2>1. r = [slots |-> ns, open |-> st.open, wire |-> st.wire]
    BY <1>1, <2>0 DEF IsSt
  <2> QED BY <2>1 DEF IsSt
<1>3. DOMAIN ns = DOMAIN sl \cup {f} /\ ns[f] = EmptySlot /\ \A h \in DOMAIN sl : ns[h] = sl[h]
  OBVIOUS
<1>4. EmptySlot \in SlotSet /\ EmptySlot.segs = 0 /\ EmptySlot.bytes = 0
  BY DEF EmptySlot, SlotSet
<1>5. ns \in [DOMAIN sl \cup {f} -> SlotSet]
  BY <1>1, <1>4 DEF SlotsOK
<1>6. OpenIn(sl) \subseteq DOMAIN sl
  BY <1>1, OpenFacts
<1> HIDE DEF r, ns
<1>7. OpenIn(ns) = OpenIn(sl)
  <2>1. ~(0 > 0)
    OBVIOUS
  <2> QED BY <1>3, <1>4, <2>1 DEF OpenIn
<1>8. SlotsOK(ns)
  <2>1. IsFiniteSet(DOMAIN sl) /\ Cardinality(DOMAIN sl) \in Nat
    BY <1>1, FS_CardinalityType DEF SlotsOK
  <2>2. IsFiniteSet(DOMAIN ns) /\ Cardinality(DOMAIN ns) = Cardinality(DOMAIN sl) + 1
    BY <1>3, <2>1, FS_AddElement
  <2>3. MaxSlots \in Nat /\ MaxSegs \in Nat /\ MaxBytes \in Nat
    BY BatchAssumption
  <2>4. Cardinality(DOMAIN ns) <= MaxSlots
    BY <2>1, <2>2, <2>3
  <2>5. \A h \in DOMAIN ns : ns[h].segs <= MaxSegs /\ ns[h].bytes <= MaxBytes
    BY <1>1, <1>3, <1>4, <2>3 DEF SlotsOK
  <2>6. \A h \in OpenIn(ns) : ns[h].head.flow = h /\ ns[h].head.proto = "tcp"
    BY <1>1, <1>3, <1>6, <1>7 DEF SlotsOK
  <2>7. DOMAIN ns \subseteq Flows
    BY <1>1, <1>3 DEF SlotsOK
  <2> QED BY <1>3, <1>5, <2>2, <2>4, <2>5, <2>6, <2>7 DEF SlotsOK
<1>9. \A h \in OpenIn(ns) : ns[h] = sl[h]
  BY <1>3, <1>6, <1>7
<1>10. \A h \in Flows : FlowOK(r, g, h)
  BY <1>1, <1>2, <1>7, <1>9 DEF FlowOK
<1>11. Good(r, g)
  BY <1>1, <1>2, <1>7, <1>8, <1>9, <1>10 DEF Good, Shape, AllEven
<1> QED BY <1>2, <1>3, <1>11 DEF r

\* getSlot: at the cap the frame of the oldest flow is written and its slot given up first.
LEMMA GetSlotGood ==
    ASSUME NEW st, NEW g \in Givens, Good(st, g), NEW f \in Flows, ~NoCoalesce, NEW r \in GetSlot(st, f)
    PROVE  Good(r, g) /\ f \in DOMAIN r.slots
<1> DEFINE sl == st.slots
<1>1. SlotsOK(sl) /\ Shape(st, g) /\ AllEven(sl)
  BY DEF Good, Shape
<1>2. /\ IsFiniteSet(DOMAIN sl) /\ Cardinality(DOMAIN sl) \in Nat /\ Cardinality(DOMAIN sl) <= MaxSlots
      /\ MaxSlots \in Nat
  BY <1>1, FS_CardinalityType, BatchAssumption DEF SlotsOK
<1>3. CASE f \in DOMAIN sl
  BY <1>3 DEF GetSlot
<1>4. CASE f \notin DOMAIN sl /\ ~AtCap(st)
  <2>1. r = AddSlot(st, f)
    BY <1>4 DEF GetSlot, AddSlot
  <2>2. Cardinality(DOMAIN sl) < MaxSlots
    BY <1>2, <1>4 DEF AtCap
  <2> QED BY <1>4, <2>1, <2>2, AddSlotGood
<1>5. CASE f \notin DOMAIN sl /\ AtCap(st)
  <2>1. PICK o \in DOMAIN sl : r = AddSlot(EvictOldest(st, o), f)
    BY <1>5 DEF GetSlot, AddSlot, Oldest
  <2> DEFINE a == After(st, {o})
             e == Without(a, {o})
  <2>2. EvictOldest(st, o) = e
    BY <1>1, FlushSlotIs DEF EvictOldest
  <2>3. Good(a, g) /\ DOMAIN a.slots = DOMAIN sl /\ OpenIn(a.slots) = OpenIn(sl) \ {o}
    <3>1. \A h \in OpenIn(sl) \ {o} : Evenly(sl[h])
      BY <1>1 DEF AllEven
    <3> QED BY <1>1, <3>1, AfterGood, AfterShape
  <2> HIDE DEF a
  <2>4. {o} \cap OpenIn(a.slots) = {}
    BY <2>3
  <2>5. Good(e, g) /\ DOMAIN e.slots = DOMAIN sl \ {o}
    <3>1. Good(e, g) /\ e.slots = [h \in DOMAIN a.slots \ {o} |-> a.slots[h]]
      BY <2>3, <2>4, WithoutGood
    <3> HIDE DEF e
    <3> QED BY <2>3, <3>1
  <2> HIDE DEF e
  <2>6. Cardinality(DOMAIN e.slots) = Cardinality(DOMAIN sl) - 1
    BY <1>2, <2>5, FS_RemoveElement
  <2>7. Cardinality(DOMAIN e.slots) < MaxSlots /\ f \notin DOMAIN e.slots
    BY <1>2, <1>5, <2>5, <2>6
  <2> QED BY <2>1, <2>2, <2>5, <2>7, AddSlotGood
<1> QED BY <1>3, <1>4, <1>5

\* What a change of one flow's slot keeps: for Add's steps.
Changes(st, g, f, s, ng, r) ==
    /\ g \in Givens /\ Shape(st, g) /\ f \in DOMAIN st.slots /\ ~NoCoalesce
    /\ s \in SlotSet /\ s.segs > 0 /\ s.segs <= MaxSegs /\ s.bytes <= MaxBytes /\ s.head.flow = f /\ s.head.proto = "tcp"
    /\ ng \in Givens /\ (\A h \in Flows \ {f} : ng[h] = g[h]) /\ Ready(s, st.wire[f], ng[f])
    /\ IsSt(r) /\ r.slots = [st.slots EXCEPT ![f] = s] /\ r.wire = st.wire
    /\ r.open = IF f \in OpenIn(st.slots) THEN st.open ELSE st.open + 1

LEMMA SlotChange ==
    ASSUME NEW st, NEW g, NEW f, NEW s, NEW ng, NEW r, Changes(st, g, f, s, ng, r)
    PROVE  /\ Shape(r, ng) /\ OpenIn(r.slots) = OpenIn(st.slots) \cup {f} /\ r.slots[f] = s
           /\ \A h \in OpenIn(st.slots) \ {f} : r.slots[h] = st.slots[h]
<1> DEFINE sl == st.slots
           ns == r.slots
<1> USE DEF Changes
<1>1. /\ IsSt(st) /\ SlotsOK(sl) /\ st.open = Cardinality(OpenIn(sl)) /\ st.wire \in [Flows -> Seq(Pieces)]
      /\ (\A h \in Flows : FlowOK(st, g, h))
  BY DEF Shape
<1>2. DOMAIN ns = DOMAIN sl /\ ns[f] = s /\ (\A h \in DOMAIN sl : h # f => ns[h] = sl[h]) /\ ns \in [DOMAIN sl -> SlotSet]
  BY <1>1 DEF SlotsOK
<1>3. OpenIn(sl) \subseteq DOMAIN sl /\ IsFiniteSet(OpenIn(sl)) /\ Cardinality(OpenIn(sl)) \in Nat
  BY <1>1, OpenFacts
<1> HIDE DEF ns
<1>4. OpenIn(ns) = OpenIn(sl) \cup {f}
  BY <1>2 DEF OpenIn
<1>5. r.open = Cardinality(OpenIn(ns))
  <2>1. CASE f \in OpenIn(sl)
    <3>1. OpenIn(ns) = OpenIn(sl)
      BY <1>4, <2>1
    <3> QED BY <1>1, <2>1, <3>1
  <2>2. CASE f \notin OpenIn(sl)
    <3>1. Cardinality(OpenIn(sl) \cup {f}) = Cardinality(OpenIn(sl)) + 1
      BY <1>3, <2>2, FS_AddElement
    <3> QED BY <1>1, <1>4, <2>2, <3>1
  <2> QED BY <2>1, <2>2
<1>6. SlotsOK(ns)
  <2>1. \A h \in DOMAIN ns : ns[h].segs <= MaxSegs /\ ns[h].bytes <= MaxBytes
    BY <1>1, <1>2 DEF SlotsOK
  <2>2. \A h \in OpenIn(ns) : ns[h].head.flow = h /\ ns[h].head.proto = "tcp"
    BY <1>1, <1>2, <1>3, <1>4 DEF SlotsOK
  <2> QED BY <1>1, <1>2, <2>1, <2>2 DEF SlotsOK
<1>7. \A h \in Flows : FlowOK(r, ng, h)
  <2> TAKE h \in Flows
  <2>1. CASE h = f
    BY <1>2, <1>4, <2>1 DEF FlowOK, ns
  <2>2. CASE h # f
    <3>1. h \in OpenIn(ns) <=> h \in OpenIn(sl)
      BY <1>4, <2>2
    <3>2. h \in OpenIn(sl) => ns[h] = sl[h]
      BY <1>2, <1>3, <2>2
    <3> QED BY <1>1, <2>2, <3>1, <3>2 DEF FlowOK, ns
  <2> QED BY <2>1, <2>2
<1>8. \A h \in OpenIn(sl) \ {f} : ns[h] = sl[h]
  BY <1>2, <1>3
<1> QED BY <1>1, <1>2, <1>4, <1>5, <1>6, <1>7, <1>8 DEF Shape, ns

LEMMA GivenFacts ==
    ASSUME NEW g \in Givens, NEW p \in Packets
    PROVE  LET ng == [g EXCEPT ![p.flow] = Append(@, p)]
           IN  /\ ng \in Givens /\ p.flow \in Flows /\ ng[p.flow] = Append(g[p.flow], p)
               /\ \A h \in Flows \ {p.flow} : ng[h] = g[h]
<1>1. p.flow \in Flows /\ g[p.flow] \in Seq(Packets) /\ g \in [Flows -> Seq(Packets)]
  BY PacketFacts DEF Givens
<1> DEFINE a == Append(g[p.flow], p)
<1>2. a \in Seq(Packets)
  BY <1>1
<1> HIDE DEF a
<1> DEFINE ng == [g EXCEPT ![p.flow] = a]
<1>3. ng \in Givens /\ ng[p.flow] = a /\ \A h \in Flows \ {p.flow} : ng[h] = g[h]
  BY <1>1, <1>2 DEF Givens
<1> QED BY <1>1, <1>3 DEF a

\* The parts of a state after an update.
PutOpen(st, f, s, n) == [st EXCEPT !.slots[f] = s, !.open = n]
LEMMA SlotPut ==
    ASSUME NEW st, IsSt(st), NEW f, NEW s, NEW n
    PROVE  LET r == PutOpen(st, f, s, n)
           IN  r.slots = [st.slots EXCEPT ![f] = s] /\ r.open = n /\ r.wire = st.wire /\ IsSt(r)
<1> DEFINE a == st.slots
           b == st.open
           c == st.wire
           x == [a EXCEPT ![f] = s]
           r == PutOpen(st, f, s, n)
<1>1. r = [st EXCEPT !.slots = x, !.open = n]
  BY DEF PutOpen
<1>2. st = [slots |-> a, open |-> b, wire |-> c]
  BY DEF IsSt
<1> HIDE DEF a, b, c, x, r
<1>3. r = [slots |-> x, open |-> n, wire |-> c]
  BY <1>1, <1>2
<1>4. r.slots = x /\ r.open = n /\ r.wire = c /\ IsSt(r)
  BY <1>3 DEF IsSt
<1> QED BY <1>4 DEF x, a, c, r

PutSlot(st, f, s) == [st EXCEPT !.slots[f] = s]
LEMMA SlotOnly ==
    ASSUME NEW st, IsSt(st), NEW f, NEW s
    PROVE  LET r == PutSlot(st, f, s)
           IN  r.slots = [st.slots EXCEPT ![f] = s] /\ r.open = st.open /\ r.wire = st.wire /\ IsSt(r)
<1> DEFINE a == st.slots
           b == st.open
           c == st.wire
           x == [a EXCEPT ![f] = s]
           r == PutSlot(st, f, s)
<1>1. r = [st EXCEPT !.slots = x]
  BY DEF PutSlot
<1>2. st = [slots |-> a, open |-> b, wire |-> c]
  BY DEF IsSt
<1> HIDE DEF a, b, c, x, r
<1>3. r = [slots |-> x, open |-> b, wire |-> c]
  BY <1>1, <1>2
<1>4. r.slots = x /\ r.open = b /\ r.wire = c /\ IsSt(r)
  BY <1>3 DEF IsSt
<1> QED BY <1>4 DEF x, a, b, c, r

PutWire(st, f, u) == [st EXCEPT !.wire[f] = u]
LEMMA WirePut ==
    ASSUME NEW st, IsSt(st), NEW f, NEW u
    PROVE  LET r == PutWire(st, f, u)
           IN  r.slots = st.slots /\ r.open = st.open /\ r.wire = [st.wire EXCEPT ![f] = u] /\ IsSt(r)
<1> DEFINE a == st.slots
           b == st.open
           c == st.wire
           x == [c EXCEPT ![f] = u]
           r == PutWire(st, f, u)
<1>1. r = [st EXCEPT !.wire = x]
  BY DEF PutWire
<1>2. st = [slots |-> a, open |-> b, wire |-> c]
  BY DEF IsSt
<1> HIDE DEF a, b, c, x, r
<1>3. r = [slots |-> a, open |-> b, wire |-> x]
  BY <1>1, <1>2
<1>4. r.slots = a /\ r.open = b /\ r.wire = x /\ IsSt(r)
  BY <1>3 DEF IsSt
<1> QED BY <1>4 DEF x, a, b, c, r

\* Add: the segment joins the frame of its flow or starts a new one.
LEMMA CoalesceGood ==
    ASSUME NEW st, NEW g \in Givens, Good(st, g), NEW p \in Packets, p.proto = "tcp", ~p.small, ~NoCoalesce,
           p.flow \in DOMAIN st.slots
    PROVE  Good(Coalesce(st, p), [g EXCEPT ![p.flow] = Append(@, p)])
<1> DEFINE f == p.flow
           s == st.slots[f]
           w == st.wire[f]
           ng == [g EXCEPT ![f] = Append(@, p)]
           n == Grown(s, p)
           longer == [st EXCEPT !.slots[f] = Grown(@, p)]
<1>1. /\ ng \in Givens /\ f \in Flows /\ ng[f] = Append(g[f], p) /\ \A h \in Flows \ {f} : ng[h] = g[h]
      /\ g[f] \in Seq(Packets)
  BY GivenFacts DEF Givens
<1> HIDE DEF ng
<1>2. /\ Shape(st, g) /\ SlotsOK(st.slots) /\ AllEven(st.slots) /\ IsSt(st)
      /\ st.wire \in [Flows -> Seq(Pieces)] /\ FlowOK(st, g, f)
  BY <1>1 DEF Good, Shape
<1>3. p.len > 0 /\ p.len \in Nat /\ p.len <= MaxBytes /\ MaxSegs \in Nat \ {0} /\ MaxBytes \in Nat
  BY PacketFacts, BatchAssumption
<1>4. CASE ~Fits(s, p)
  <2> DEFINE a == After(st, {f})
             t == Started(p)
             n1 == a.open + 1
             r == PutOpen(a, f, t, n1)
  <2>1. FlushSlot(st, f) = a
    BY <1>2, FlushSlotIs
  <2>2. /\ Good(a, g) /\ Shape(a, g) /\ AllEven(a.slots) /\ DOMAIN a.slots = DOMAIN st.slots /\ f \notin OpenIn(a.slots)
        /\ IsSt(a) /\ a.wire \in [Flows -> Seq(Pieces)] /\ FlowOK(a, g, f)
    <3>1. \A h \in OpenIn(st.slots) \ {f} : Evenly(st.slots[h])
      BY <1>2 DEF AllEven
    <3>2. Good(a, g)
      BY <1>2, <3>1, AfterGood
    <3>3. DOMAIN a.slots = DOMAIN st.slots /\ OpenIn(a.slots) = OpenIn(st.slots) \ {f}
      BY <1>2, AfterShape
    <3> QED BY <1>1, <3>2, <3>3 DEF Good, Shape
  <2>3. Coalesce(st, p) = r
    BY <1>4, <2>1 DEF Coalesce, PutOpen
  <2> HIDE DEF a, f
  <2>4. Ready(t, a.wire[f], ng[f]) /\ Evenly(t) /\ t \in SlotSet
    <3>1. AllLeft(a.wire[f], g[f]) /\ a.wire[f] \in Seq(Pieces)
      BY <1>1, <2>2 DEF FlowOK
    <3> QED BY <1>1, <1>3, <3>1, StartReady
  <2>5. t.segs = 1 /\ t.bytes = p.len /\ t.head = p
    BY DEF Started
  <2> HIDE DEF t, n1
  <2>6. r.slots = [a.slots EXCEPT ![f] = t] /\ r.open = n1 /\ r.wire = a.wire /\ IsSt(r)
    BY <2>2, SlotPut
  <2> HIDE DEF r
  <2>7. t.segs > 0 /\ t.segs <= MaxSegs /\ t.bytes <= MaxBytes /\ t.head.flow = f /\ t.head.proto = "tcp"
    BY <1>3, <2>5 DEF f
  <2>a. f \in DOMAIN a.slots /\ r.open = IF f \in OpenIn(a.slots) THEN a.open ELSE a.open + 1
    BY <2>2, <2>6 DEF n1, f
  <2>b. Changes(a, g, f, t, ng, r)
    BY <1>1, <2>2, <2>4, <2>6, <2>7, <2>a DEF Changes
  <2>8. /\ Shape(r, ng) /\ OpenIn(r.slots) = OpenIn(a.slots) \cup {f} /\ r.slots[f] = t
        /\ \A h \in OpenIn(a.slots) \ {f} : r.slots[h] = a.slots[h]
    BY <2>b, SlotChange
  <2>9. Good(r, ng)
    BY <2>2, <2>4, <2>8 DEF Good, AllEven
  <2> QED BY <2>3, <2>9 DEF ng, f
<1>5. CASE Fits(s, p)
  <2>1. f \in OpenIn(st.slots)
    BY <1>5 DEF Fits, OpenIn
  <2>2. Ready(s, w, g[f]) /\ Evenly(s) /\ w \in Seq(Pieces) /\ s \in SlotSet
    BY <1>1, <1>2, <2>1 DEF FlowOK, AllEven, SlotsOK
  <2>3. p.seq = s.next /\ p.len <= s.head.len /\ s.segs < MaxSegs /\ s.bytes + p.len <= MaxBytes
    BY <1>5 DEF Fits
  <2>4. Ready(n, w, ng[f]) /\ n \in SlotSet /\ (p.len = s.head.len => Evenly(n))
    BY <1>1, <1>3, <2>2, <2>3, GrowReady, Zenon
  <2>5. n.segs = s.segs + 1 /\ n.bytes = s.bytes + p.len /\ n.head = s.head
    BY <2>2 DEF Grown, SlotSet
  <2>6. s.head.flow = f /\ s.head.proto = "tcp" /\ s.segs \in Nat /\ s.head \in Packets
    BY <1>2, <2>1, <2>2 DEF SlotsOK, SlotSet, Ready, Cuttable
  <2>7. longer.slots = [st.slots EXCEPT ![f] = n] /\ longer.open = st.open /\ longer.wire = st.wire /\ IsSt(longer)
    <3> DEFINE l == PutSlot(st, f, n)
    <3>1. longer = l
      BY DEF PutSlot
    <3> HIDE DEF n, longer, f
    <3>2. IsSt(st)
      BY <1>2
    <3>3. l.slots = [st.slots EXCEPT ![f] = n] /\ l.open = st.open /\ l.wire = st.wire /\ IsSt(l)
      BY ONLY <3>2, SlotOnly
    <3> QED BY <3>1, <3>3
  <2>8. Coalesce(st, p) = IF Finished(longer.slots[f], p) THEN FlushSlot(longer, f) ELSE longer
    BY <1>5 DEF Coalesce
  <2> HIDE DEF n, longer
  <2>9. n.segs > 0 /\ n.segs <= MaxSegs /\ n.bytes <= MaxBytes
    BY <1>3, <2>3, <2>5, <2>6
  <2>10. /\ Shape(longer, ng) /\ OpenIn(longer.slots) = OpenIn(st.slots) \cup {f} /\ longer.slots[f] = n
         /\ \A h \in OpenIn(st.slots) \ {f} : longer.slots[h] = st.slots[h]
    <3>1. Changes(st, g, f, n, ng, longer)
      BY <1>1, <1>2, <2>1, <2>4, <2>5, <2>6, <2>7, <2>9 DEF Changes
    <3> QED BY <3>1, SlotChange
  <2>11. \A h \in OpenIn(longer.slots) \ {f} : Evenly(longer.slots[h])
    BY <1>2, <2>10 DEF AllEven
  <2>12. CASE Finished(n, p)
    <3>1. f \in DOMAIN longer.slots
      BY <2>10 DEF OpenIn
    <3>2. FlushSlot(longer, f) = After(longer, {f})
      BY <1>1, <2>10, <3>1, FlushSlotIs
    <3>3. Good(After(longer, {f}), ng)
      BY <1>1, <2>10, <2>11, AfterGood
    <3> QED BY <2>8, <2>10, <2>12, <3>2, <3>3 DEF ng
  <2>13. CASE ~Finished(n, p)
    <3>1. p.len = s.head.len
      <4>1. ~(p.len < s.head.len)
        BY <2>5, <2>13 DEF Finished
      <4>2. s.head.len \in Nat
        BY <2>6, PacketFacts
      <4> QED BY <1>3, <2>3, <4>1, <4>2
    <3>2. Good(longer, ng)
      BY <2>4, <2>10, <2>11, <3>1 DEF Good, AllEven
    <3> QED BY <2>8, <2>10, <2>13, <3>2 DEF ng
  <2> QED BY <2>12, <2>13
<1> QED BY <1>4, <1>5

\* A datagram, or any segment when nothing is coalesced, is written as it is.
LEMMA WrittenGood ==
    ASSUME NEW st, NEW g \in Givens, Good(st, g), NEW p \in Packets, NoCoalesce \/ p.proto # "tcp"
    PROVE  Good(Written(st, p), [g EXCEPT ![p.flow] = Append(@, p)])
<1> DEFINE f == p.flow
           w == st.wire[f]
           x == Whole(p)
           u == Append(w, x)
           ng == [g EXCEPT ![f] = Append(@, p)]
           r == Written(st, p)
<1>1. /\ ng \in Givens /\ f \in Flows /\ ng[f] = Append(g[f], p) /\ \A h \in Flows \ {f} : ng[h] = g[h]
      /\ g[f] \in Seq(Packets)
  BY GivenFacts DEF Givens
<1> HIDE DEF ng
<1>2. /\ IsSt(st) /\ SlotsOK(st.slots) /\ st.open = Cardinality(OpenIn(st.slots)) /\ AllEven(st.slots)
      /\ st.wire \in [Flows -> Seq(Pieces)] /\ (\A h \in Flows : FlowOK(st, g, h)) /\ w \in Seq(Pieces)
  BY <1>1 DEF Good, Shape
<1>3. f \notin OpenIn(st.slots)
  <2>1. CASE NoCoalesce
    BY <1>2, <2>1 DEF SlotsOK, OpenIn
  <2>2. CASE p.proto # "tcp"
    <3> SUFFICES ASSUME f \in OpenIn(st.slots) PROVE FALSE
      OBVIOUS
    <3>1. st.slots[f].head \in Packets /\ st.slots[f].head.flow = f /\ st.slots[f].head.proto = "tcp"
      BY <1>1, <1>2 DEF SlotsOK, FlowOK, Ready, Cuttable
    <3> QED BY <2>2, <3>1, BatchAssumption
  <2> QED BY <2>1, <2>2
<1>4. x \in Pieces /\ x.seq = p.seq /\ x.len = p.len
  <2>1. p.seq \in Nat /\ p.len \in Nat /\ p.fin \in BOOLEAN
    BY PacketFacts, BatchAssumption
  <2> QED BY <2>1 DEF Whole, Piece, Pieces
<1>5. r.slots = st.slots /\ r.open = st.open /\ r.wire = [st.wire EXCEPT ![f] = u] /\ IsSt(r)
  <2>1. r = PutWire(st, f, u)
    BY DEF Written, PutWire
  <2> HIDE DEF r, u, f
  <2> QED BY <1>2, <2>1, WirePut
<1> HIDE DEF r, x
<1>6. AllLeft(w, g[f])
  BY <1>1, <1>2, <1>3 DEF FlowOK
<1>7. u \in Seq(Pieces) /\ AllLeft(u, ng[f])
  <2> DEFINE b == g[f]
             c == Append(b, p)
  <2>1. b \in Seq(Packets) /\ Len(w) \in Nat /\ Len(b) = Len(w)
    BY <1>1, <1>2, <1>6, LenProperties DEF AllLeft
  <2>2. ng[f] = c
    BY <1>1
  <2> HIDE DEF b, w
  <2>3. c \in Seq(Packets) /\ Len(c) = Len(b) + 1 /\ (\A i \in 1..Len(b) : c[i] = b[i]) /\ c[Len(b) + 1] = p
    BY <2>1, AppendProperties
  <2>4. w \in Seq(Pieces)
    BY <1>2 DEF w
  <2>5. u \in Seq(Pieces) /\ Len(u) = Len(w) + 1 /\ (\A i \in 1..Len(w) : u[i] = w[i]) /\ u[Len(w) + 1] = x
    BY <1>4, <2>4, AppendProperties
  <2>6. Same(w, b, Len(w))
    BY <1>6 DEF AllLeft, w, b
  <2> HIDE DEF u, c
  <2>7. \A i \in 1..Len(u) : i \in 1..Len(w) \/ i = Len(w) + 1
    BY <2>1, <2>5
  <2>8. Same(u, c, Len(u))
    BY <1>4, <2>1, <2>3, <2>5, <2>6, <2>7 DEF Same
  <2>9. Len(u) = Len(c)
    BY <2>1, <2>3, <2>5
  <2> QED BY <2>2, <2>5, <2>8, <2>9 DEF AllLeft
<1> HIDE DEF u
<1>8. r.wire \in [Flows -> Seq(Pieces)] /\ r.wire[f] = u /\ \A h \in Flows : h # f => r.wire[h] = st.wire[h]
  BY <1>1, <1>2, <1>5, <1>7
<1>9. \A h \in Flows : FlowOK(r, ng, h)
  <2> TAKE h \in Flows
  <2>1. CASE h = f
    BY <1>3, <1>5, <1>7, <1>8, <2>1 DEF FlowOK
  <2>2. CASE h # f
    BY <1>1, <1>2, <1>5, <1>8, <2>2 DEF FlowOK
  <2> QED BY <2>1, <2>2
<1>10. Good(r, ng)
  BY <1>2, <1>5, <1>8, <1>9 DEF Good, Shape
<1> QED BY <1>10 DEF r, ng

\* TunGSOBatch.Flush: idle frames are written, slots without a frame reaped.
LEMMA SweptGood ==
    ASSUME NEW st, NEW g \in Givens, Good(st, g)
    PROVE  Good(Swept(st), g)
<1> DEFINE sl == st.slots
           fs == {f \in DOMAIN sl : IdleFrame(sl[f])}
           gone == {f \in DOMAIN sl : Reapable(sl[f])}
           a == After(st, fs)
<1>1. Shape(st, g) /\ AllEven(sl) /\ SlotsOK(sl)
  BY DEF Good, Shape
<1>2. FlushSlots(st, fs) = a
  <2>1. fs \subseteq DOMAIN sl
    OBVIOUS
  <2> HIDE DEF fs
  <2> QED BY <1>1, <2>1, FlushSlotsIs
<1>3. gone \cap OpenIn(sl) = {}
  <2>1. ~(0 > 0)
    OBVIOUS
  <2> QED BY <2>1 DEF OpenIn, Reapable
<1> HIDE DEF fs, gone
<1>4. Good(a, g) /\ OpenIn(a.slots) = OpenIn(sl) \ fs
  <2>1. \A f \in OpenIn(sl) \ fs : Evenly(sl[f])
    BY <1>1 DEF AllEven
  <2> QED BY <1>1, <2>1, AfterGood, AfterShape
<1> HIDE DEF a
<1>5. gone \cap OpenIn(a.slots) = {}
  BY <1>3, <1>4
<1>6. Good(Without(a, gone), g)
  BY <1>4, <1>5, WithoutGood
<1> QED BY <1>2, <1>6 DEF Swept, fs, gone

\* Close: a sweep, then every frame still open is written.
LEMMA ClosedGood ==
    ASSUME NEW st, NEW g \in Givens, Good(st, g)
    PROVE  Good(FlushSlots(st, DOMAIN st.slots), g)
<1>1. Shape(st, g) /\ AllEven(st.slots)
  BY DEF Good
<1> DEFINE fs == DOMAIN st.slots
<1>2. FlushSlots(st, fs) = After(st, fs)
  BY <1>1, FlushSlotsIs
<1>3. \A f \in OpenIn(st.slots) \ fs : Evenly(st.slots[f])
  BY <1>1 DEF AllEven
<1> HIDE DEF fs
<1>4. Good(After(st, fs), g)
  BY <1>1, <1>3, AfterGood
<1> QED BY <1>2, <1>4 DEF fs

\* Frames that differ in their age only.
AgeOnly(s, t) == t \in SlotSet /\ t.head = s.head /\ t.segs = s.segs /\ t.bytes = s.bytes /\ t.next = s.next

LEMMA AgeKeeps ==
    ASSUME NEW s, NEW t, AgeOnly(s, t)
    PROVE  /\ \A w, g : Ready(s, w, g) => Ready(t, w, g)
           /\ Evenly(s) => Evenly(t)
<1>1. t.head = s.head /\ t.segs = s.segs /\ t.bytes = s.bytes /\ t.next = s.next /\ t \in SlotSet
  BY DEF AgeOnly
<1>2. Last(t) = Last(s)
  BY <1>1 DEF Last
<1>3. \A i : SeqAt(t, i) = SeqAt(s, i)
  BY <1>1 DEF SeqAt
<1>4. Cuttable(s) => Cuttable(t)
  BY <1>1, <1>2 DEF Cuttable
<1>5. Evenly(s) => Evenly(t)
  BY <1>1, <1>3 DEF Evenly
<1>6. ASSUME NEW w, NEW g, Ready(s, w, g) PROVE Ready(t, w, g)
  BY <1>1, <1>2, <1>3, <1>4, <1>6 DEF Ready
<1> QED BY <1>5, <1>6

LEMMA AgedGood ==
    ASSUME NEW st, NEW g \in Givens, Good(st, g), NEW r, IsSt(r), r.open = st.open, r.wire = st.wire,
           DOMAIN r.slots = DOMAIN st.slots, r.slots \in [DOMAIN st.slots -> SlotSet],
           \A f \in DOMAIN st.slots : AgeOnly(st.slots[f], r.slots[f])
    PROVE  Good(r, g)
<1> DEFINE sl == st.slots
           ns == r.slots
<1>1. /\ IsSt(st) /\ SlotsOK(sl) /\ st.open = Cardinality(OpenIn(sl)) /\ st.wire \in [Flows -> Seq(Pieces)]
      /\ (\A h \in Flows : FlowOK(st, g, h)) /\ AllEven(sl)
  BY DEF Good, Shape
<1>2. DOMAIN ns = DOMAIN sl /\ ns \in [DOMAIN sl -> SlotSet] /\ \A f \in DOMAIN sl : AgeOnly(sl[f], ns[f])
  OBVIOUS
<1>3. OpenIn(sl) \subseteq DOMAIN sl
  BY DEF OpenIn
<1>4. \A f \in DOMAIN sl : ns[f].segs = sl[f].segs /\ ns[f].bytes = sl[f].bytes /\ ns[f].head = sl[f].head
  BY <1>2 DEF AgeOnly
<1> HIDE DEF sl, ns
<1>5. OpenIn(ns) = OpenIn(sl)
  BY <1>2, <1>4 DEF OpenIn
<1>6. SlotsOK(ns)
  BY <1>1, <1>2, <1>3, <1>4, <1>5 DEF SlotsOK
<1>7. AllEven(ns)
  BY <1>1, <1>2, <1>3, <1>5, AgeKeeps DEF AllEven
<1>8. \A h \in Flows : FlowOK(r, g, h)
  <2> TAKE h \in Flows
  <2>1. CASE h \in OpenIn(sl)
    <3>1. Ready(sl[h], st.wire[h], g[h])
      BY <1>1, <2>1 DEF FlowOK, sl
    <3>2. Ready(ns[h], st.wire[h], g[h])
      BY <1>2, <1>3, <2>1, <3>1, AgeKeeps
    <3> QED BY <1>5, <2>1, <3>2 DEF FlowOK, ns
  <2>2. CASE h \notin OpenIn(sl)
    <3>1. AllLeft(st.wire[h], g[h])
      BY <1>1, <2>2 DEF FlowOK, sl
    <3> QED BY <1>5, <2>2, <3>1 DEF FlowOK, ns
  <2> QED BY <2>1, <2>2
<1> QED BY <1>1, <1>5, <1>6, <1>7, <1>8 DEF Good, Shape, ns
-----------------------------------------------------------------------------
(***************************************************************************)
(* The writer.                                                             *)
(***************************************************************************)
Inv == Good(St, given) /\ given \in Givens

LEMMA InvInit == ASSUME Init PROVE Inv
<1>1. /\ slots = [f \in {} |-> NIL] /\ open = 0 /\ given = [f \in Flows |-> <<>>] /\ wire = [f \in Flows |-> <<>>]
  BY DEF Init
<1>2. St.slots = slots /\ St.open = open /\ St.wire = wire /\ IsSt(St)
  BY DEF St, IsSt
<1>3. DOMAIN slots = {} /\ slots \in [DOMAIN slots -> SlotSet]
  BY <1>1
<1>4. OpenIn(slots) = {} /\ IsFiniteSet({}) /\ Cardinality({}) = 0
  BY <1>3, FS_EmptySet DEF OpenIn
<1>5. SlotsOK(slots)
  <2>1. 0 <= MaxSlots
    BY BatchAssumption
  <2> QED BY <1>3, <1>4, <2>1 DEF SlotsOK
<1>6. given \in Givens /\ wire \in [Flows -> Seq(Pieces)]
  BY <1>1 DEF Givens
<1>7. \A f \in Flows : AllLeft(wire[f], given[f])
  BY <1>1 DEF AllLeft, Same
<1>8. \A f \in Flows : FlowOK(St, given, f)
  BY <1>2, <1>4, <1>7 DEF FlowOK
<1> QED BY <1>1, <1>2, <1>4, <1>5, <1>6, <1>8 DEF Inv, Good, Shape, AllEven

LEMMA InvStep == ASSUME Inv, [Next]_vars PROVE Inv'
<1>1. Good(St, given) /\ given \in Givens /\ \A st : Good(st, given) => IsSt(st)
  BY DEF Inv, Good, Shape
<1> SUFFICES Good(St', given') /\ given' \in Givens
  BY DEF Inv
<1>2. CASE UNCHANGED <<slots, open, wire, given>>
  BY <1>1, <1>2 DEF St
<1>3. CASE Handle
  BY <1>2, <1>3 DEF Handle
<1>4. CASE EndRound
  BY <1>2, <1>4 DEF EndRound
<1>5. CASE TickerFires
  BY <1>2, <1>5 DEF TickerFires
<1>6. ASSUME NEW p \in Packets, Add(p) PROVE Good(St', given') /\ given' \in Givens
  <2> DEFINE ng == [given EXCEPT ![p.flow] = Append(@, p)]
  <2>1. CASE ViaSocket(p)
    BY <1>2, <1>6, <2>1 DEF Add
  <2>2. CASE ~ViaSocket(p)
    <3>1. given' = ng /\ ng \in Givens /\ ~p.small /\ p.flow \in Flows
      BY <1>1, <1>6, <2>2, GivenFacts DEF Add, ViaSocket
    <3> HIDE DEF ng
    <3>2. CASE NoCoalesce \/ p.proto # "tcp"
      <4>1. Becomes(Written(St, p))
        BY <1>6, <2>2, <3>2 DEF Add
      <4>2. Good(Written(St, p), ng)
        BY <1>1, <3>2, WrittenGood DEF ng
      <4>3. St' = Written(St, p)
        BY <4>1, <4>2 DEF Becomes, St, Good, Shape, IsSt
      <4> QED BY <3>1, <4>2, <4>3
    <3>3. CASE ~NoCoalesce /\ p.proto = "tcp"
      <4>1. PICK st \in GetSlot(St, p.flow) : Becomes(Coalesce(st, p))
        BY <1>6, <2>2, <3>3 DEF Add
      <4>2. Good(st, given) /\ p.flow \in DOMAIN st.slots
        BY <1>1, <3>1, <3>3, GetSlotGood
      <4>3. Good(Coalesce(st, p), ng)
        BY <1>1, <3>1, <3>3, <4>2, CoalesceGood DEF ng
      <4>4. St' = Coalesce(st, p)
        BY <4>1, <4>3 DEF Becomes, St, Good, Shape, IsSt
      <4> QED BY <3>1, <4>3, <4>4
    <3> QED BY <3>2, <3>3
  <2> QED BY <2>1, <2>2
<1>7. CASE Flush
  <2>1. CASE UNCHANGED <<slots, open, wire>>
    BY <1>2, <1>7, <2>1 DEF Flush
  <2>2. CASE Becomes(Swept(St))
    <3>1. Good(Swept(St), given)
      BY <1>1, SweptGood
    <3>2. St' = Swept(St)
      BY <2>2, <3>1 DEF Becomes, St, Good, Shape, IsSt
    <3> QED BY <1>1, <1>7, <3>1, <3>2 DEF Flush
  <2> QED BY <1>7, <2>1, <2>2 DEF Flush
<1>8. CASE Close
  <2> DEFINE a == Swept(St)
             b == FlushSlots(a, DOMAIN a.slots)
  <2>1. Good(a, given)
    BY <1>1, SweptGood
  <2>2. Becomes(b) /\ given' = given
    BY <1>8 DEF Close
  <2> HIDE DEF a
  <2>3. Good(b, given)
    BY <1>1, <2>1, ClosedGood
  <2> HIDE DEF b
  <2>4. St' = b
    BY <2>2, <2>3 DEF Becomes, St, Good, Shape, IsSt
  <2> QED BY <1>1, <2>2, <2>3, <2>4
<1>9. CASE Tick
  <2> DEFINE ns == [f \in DOMAIN slots |-> [slots[f] EXCEPT !.age = IF @ < ReapIdle THEN @ + 1 ELSE @]]
             r == [slots |-> ns, open |-> open, wire |-> wire]
  <2>1. slots' = ns /\ open' = open /\ wire' = wire /\ given' = given
    BY <1>9 DEF Tick
  <2>2. St.slots = slots /\ St.open = open /\ St.wire = wire
    BY DEF St
  <2>3. slots \in [DOMAIN slots -> SlotSet]
    BY <1>1, <2>2 DEF Good, Shape, SlotsOK
  <2>4. ASSUME NEW s \in SlotSet PROVE AgeOnly(s, [s EXCEPT !.age = IF @ < ReapIdle THEN @ + 1 ELSE @])
    <3>1. s.age \in Nat /\ (IF s.age < ReapIdle THEN s.age + 1 ELSE s.age) \in Nat
      BY DEF SlotSet
    <3> QED BY <3>1 DEF AgeOnly, SlotSet
  <2>5. \A f \in DOMAIN slots : AgeOnly(slots[f], ns[f])
    BY <2>3, <2>4
  <2>6. ns \in [DOMAIN slots -> SlotSet] /\ DOMAIN ns = DOMAIN slots
    BY <2>5 DEF AgeOnly
  <2> HIDE DEF ns
  <2>7. r.slots = ns /\ r.open = open /\ r.wire = wire /\ IsSt(r)
    BY DEF IsSt
  <2> HIDE DEF r
  <2>8. Good(r, given)
    BY <1>1, <2>2, <2>5, <2>6, <2>7, AgedGood
  <2>9. St' = r
    BY <2>1 DEF St, r
  <2> QED BY <1>1, <2>1, <2>8, <2>9
<1>10. CASE UNCHANGED vars
  BY <1>2, <1>10 DEF vars
<1> QED BY <1>3, <1>4, <1>5, <1>6, <1>7, <1>8, <1>9, <1>10 DEF Next, Writer

LEMMA InvHolds == Spec => []Inv
<1>1. Init => Inv
  BY InvInit
<1>2. Inv /\ [Next]_vars => Inv'
  BY InvStep
<1> QED BY <1>1, <1>2, PTL DEF Spec

\* Whatever is coalesced, evicted and swept: never more slots than tunMaxFlowSlots, no frame
\* of more than tunMaxSegs segments or longer than its 16-bit length and its buffer allow.
THEOREM LimitsHold == Spec => []WithinLimits
<1>1. Inv => WithinLimits
  <2> SUFFICES ASSUME Inv PROVE WithinLimits
    OBVIOUS
  <2>1. SlotsOK(slots)
    BY DEF Inv, Good, Shape, St
  <2> QED BY <2>1 DEF SlotsOK, WithinLimits
<1> QED BY <1>1, InvHolds, PTL

\* The counter by which Empty() answers is the number of frames in progress.
THEOREM OpenIsExact == Spec => []OpenExact
<1>1. Inv => OpenExact
  <2> SUFFICES ASSUME Inv PROVE OpenExact
    OBVIOUS
  <2>1. open = Cardinality(OpenIn(slots))
    BY DEF Inv, Good, Shape, St
  <2> QED BY <2>1 DEF OpenExact, OpenIn
<1> QED BY <1>1, InvHolds, PTL

LEMMA ExtentsSame ==
    ASSUME NEW w \in Seq(Pieces), NEW g \in Seq(Packets), AllLeft(w, g)
    PROVE  Extents(w) = Extents(g)
BY DEF AllLeft, Same, Extents

\* The segments given for a flow come out again, in order and with their boundaries, when the
\* kernel has cut what left and would cut what is held: coalescing is not seen by the receiver.
THEOREM FramesCutBack == Spec => []CutsBack
<1>1. Inv => CutsBack
  <2> SUFFICES ASSUME Inv, NEW f \in Flows PROVE Extents(wire[f] \o Held(f)) = Extents(given[f])
    BY DEF CutsBack
  <2>1. /\ SlotsOK(slots) /\ wire[f] \in Seq(Pieces) /\ given[f] \in Seq(Packets)
        /\ IF f \in OpenIn(slots) THEN Ready(slots[f], wire[f], given[f]) ELSE AllLeft(wire[f], given[f])
    BY DEF Inv, Good, Shape, St, FlowOK, Givens
  <2>2. CASE f \in OpenIn(slots)
    <3>1. Held(f) = Cut(slots[f])
      BY <2>2 DEF Held, OpenIn
    <3>2. wire[f] \o Cut(slots[f]) \in Seq(Pieces) /\ AllLeft(wire[f] \o Cut(slots[f]), given[f])
      BY <2>1, <2>2, CutRestores
    <3> QED BY <2>1, <3>1, <3>2, ExtentsSame
  <2>3. CASE f \notin OpenIn(slots)
    <3>1. Held(f) = <<>>
      BY <2>1, <2>3, OpenFacts DEF Held, Cut
    <3>2. wire[f] \o <<>> = wire[f]
      BY <2>1, ConcatEmptySeq
    <3> QED BY <2>1, <2>3, <3>1, <3>2, ExtentsSame
  <2> QED BY <2>2, <2>3
<1> QED BY <1>1, InvHolds, PTL
-----------------------------------------------------------------------------
(***************************************************************************)
(* The resequencer.  Its inductive invariant: the buffer is no larger than *)
(* the window and holds segments under their own number; in the stream the *)
(* sender cut one way, what is buffered lies ahead of what was emitted and *)
(* in reach of it; and until a gap is given up, what was emitted covers    *)
(* the stream from its first segment up to the position of nextSeq.        *)
(***************************************************************************)
BufferKept ==
    /\ RTypeOK /\ IsFiniteSet(DOMAIN buf) /\ WindowKept
    /\ primed => nextSeq = (isn + at) % SeqSpace
    /\ ~primed => DOMAIN buf = {}
    /\ pc # "ready" => primed /\ ~closed
    /\ pc = "flush" => skipped

BufferAhead ==
    CutOneWay => \A s \in DOMAIN buf : /\ buf[s].from - at \in 0..(Half - 1)
                                       /\ pc = "ready" => buf[s].from > at

\* The segments of o reach up to a, without holes from the first one on.
Covers(o, a) ==
    /\ o # <<>>
    /\ \E j \in 1..Len(o) : o[j].to = a
    /\ \A k \in 1..Len(o) : o[k].to <= a
    /\ \A x \in Nat : o[1].from <= x /\ x < a => \E k \in 1..Len(o) : o[k].from <= x /\ x < o[k].to

New(o, i) == o[i].from >= o[1].from /\ \A j \in 1..(i - 1) : o[j] # o[i]
Follows(o, i) == \E j \in 1..(i - 1) : o[j].to = o[i].from /\ \A k \in 1..(i - 1) : o[k].to <= o[i].from
Ordered(o) == \A i \in 1..Len(o) : i > 1 /\ New(o, i) => Follows(o, i)

StreamCovered ==
    ~skipped /\ CutOneWay => /\ Ordered(out)
                             /\ ~closed => IF primed THEN Covers(out, at) ELSE out = <<>>

RInv == BufferKept /\ BufferAhead /\ NothingLost /\ StreamCovered

-----------------------------------------------------------------------------
(***************************************************************************)
(* Sequence numbers.                                                       *)
(***************************************************************************)
LEMMA HalfIs == Half \in Nat /\ SeqSpace = 2 * Half /\ SeqSpace \in Nat \ {0}
BY ReseqAssumption DEF Half

LEMMA Quotient ==
    ASSUME NEW m \in Nat \ {0}, NEW a \in Int
    PROVE  a \div m \in Int /\ a % m \in 0..(m - 1) /\ a = m * (a \div m) + (a % m)
<1> DEFINE d == a \div m
           e == a % m
<1>1. d \in Int /\ e \in 0..(m - 1) /\ a = m * d + e
  OBVIOUS
<1> QED BY <1>1

\* Within half the sequence space the signed distance of two sequence numbers is that of
\* the positions they stand for.
LEMMA DistIs ==
    ASSUME NEW i \in Nat, NEW a \in Nat, NEW b \in Nat, a - b \in (-Half)..(Half - 1)
    PROVE  Dist((i + a) % SeqSpace, (i + b) % SeqSpace) = a - b
<1> DEFINE M == SeqSpace
           H == Half
           x == i + a
           y == i + b
           q == y \div M
           e == y % M
           c == H - e
           r == a - b + H
           z == x + c
<1>1. M \in Nat \ {0} /\ H \in Nat /\ M = 2 * H
  BY HalfIs
<1>2. r \in 0..(M - 1)
  BY <1>1
<1>3. x \in Int /\ y \in Int /\ x - y = a - b
  OBVIOUS
<1> HIDE DEF M, H, x, y
<1>4. q \in Int /\ e \in 0..(M - 1) /\ y = M * q + e
  BY <1>1, <1>3, Quotient
<1> HIDE DEF q, e
<1>5. c \in Int /\ z \in Int
  BY <1>1, <1>3, <1>4
<1>6. z = q * M + r
  <2>1. q * M = M * q /\ M * q \in Int
    BY <1>1, <1>4
  <2> QED BY <1>1, <1>3, <1>4, <2>1
<1> HIDE DEF c, r, z
<1>7. z % M = r
  BY <1>1, <1>2, <1>4, <1>5, <1>6, DivMod
<1>8. ((x % M) + c) % M = z % M
  BY <1>1, <1>3, <1>5, ModPlus DEF z
<1>9. x % M \in Int
  BY <1>1, <1>3, Quotient
<1>10. (x % M) - e + H = (x % M) + c
  BY <1>1, <1>4, <1>9 DEF c
<1>11. (((x % M) - e + H) % M) - H = r - H
  BY <1>7, <1>8, <1>10
<1>12. r - H = a - b
  BY <1>1 DEF r
<1>13. Dist(x % M, e) = a - b
  BY <1>11, <1>12 DEF Dist, M, H
<1> QED BY <1>13 DEF M, x, y, e

\* Two positions in reach of a third with one sequence number are one.
LEMMA SameSeq ==
    ASSUME NEW i \in Nat, NEW a \in Nat, NEW b \in Nat, NEW c \in Nat,
           a - c \in (-Half)..(Half - 1), b - c \in (-Half)..(Half - 1),
           (i + a) % SeqSpace = (i + b) % SeqSpace
    PROVE  a = b
<1>1. Dist((i + a) % SeqSpace, (i + c) % SeqSpace) = a - c
  BY DistIs
<1>2. Dist((i + b) % SeqSpace, (i + c) % SeqSpace) = b - c
  BY DistIs
<1>3. a - c = b - c
  BY <1>1, <1>2
<1> QED BY <1>3

LEMMA InSpace ==
    ASSUME NEW n \in Nat
    PROVE  n % SeqSpace \in 0..(SeqSpace - 1)
BY HalfIs

LEMMA SegmentFacts ==
    ASSUME NEW g \in Segments
    PROVE  g.from \in Nat /\ g.to \in Nat /\ g.from < g.to
BY ReseqAssumption

LEMMA IsnFacts ==
    ASSUME isn \in ISNs
    PROVE  isn \in Nat
BY ReseqAssumption, HalfIs
-----------------------------------------------------------------------------
(***************************************************************************)
(* What was emitted.                                                       *)
(***************************************************************************)
LEMMA AppendAt ==
    ASSUME NEW S, NEW o \in Seq(S), NEW g \in S
    PROVE  /\ Append(o, g) \in Seq(S) /\ Len(o) \in Nat /\ Len(Append(o, g)) = Len(o) + 1
           /\ \A i \in 1..Len(o) : Append(o, g)[i] = o[i] /\ o[i] \in S
           /\ Append(o, g)[Len(o) + 1] = g /\ Append(o, g) # <<>>
           /\ (o # <<>> => Len(o) > 0) /\ (o = <<>> => Len(o) = 0)
OBVIOUS

\* The segment that starts where the others end extends them.
LEMMA CoversNext ==
    ASSUME NEW o \in Seq(Segments), NEW g \in Segments, Covers(o, g.from)
    PROVE  Covers(Append(o, g), g.to)
<1> DEFINE p == Append(o, g)
           n == Len(o)
<1>1. /\ p # <<>> /\ n \in Nat /\ n > 0 /\ Len(p) = n + 1
      /\ p[n + 1] = g /\ \A i \in 1..n : p[i] = o[i] /\ o[i] \in Segments
  BY AppendAt DEF Covers
<1>2. g.from \in Nat /\ g.to \in Nat /\ g.from < g.to
  BY SegmentFacts
<1>3. \A i \in 1..n : o[i].from \in Nat /\ o[i].to \in Nat /\ o[i].to <= g.from
  BY <1>1, SegmentFacts DEF Covers
<1>4. \A x \in Nat : o[1].from <= x /\ x < g.from => \E k \in 1..n : o[k].from <= x /\ x < o[k].to
  BY DEF Covers
<1> HIDE DEF p, n
<1>5. p[1] = o[1]
  BY <1>1
<1>6. \A k \in 1..Len(p) : p[k].to <= g.to
  BY <1>1, <1>2, <1>3
<1>7. \E j \in 1..Len(p) : p[j].to = g.to
  BY <1>1
<1>8. ASSUME NEW x \in Nat, p[1].from <= x, x < g.to
      PROVE  \E k \in 1..Len(p) : p[k].from <= x /\ x < p[k].to
  <2>1. CASE x < g.from
    <3>1. PICK k \in 1..n : o[k].from <= x /\ x < o[k].to
      BY <1>4, <1>5, <1>8, <2>1
    <3> QED BY <1>1, <3>1
  <2>2. CASE ~(x < g.from)
    BY <1>1, <1>2, <1>8, <2>2
  <2> QED BY <2>1, <2>2
<1> QED BY <1>1, <1>6, <1>7, <1>8 DEF Covers, p

LEMMA CoversFirst ==
    ASSUME NEW g \in Segments
    PROVE  Covers(Append(<<>>, g), g.to) /\ Ordered(Append(<<>>, g))
<1> DEFINE p == Append(<<>>, g)
<1>1. p # <<>> /\ Len(p) = 1 /\ p[1] = g
  OBVIOUS
<1>2. g.from \in Nat /\ g.to \in Nat /\ g.from < g.to
  BY SegmentFacts
<1> HIDE DEF p
<1>3. \A i \in 1..Len(p) : i = 1
  BY <1>1
<1>4. Covers(p, g.to)
  BY <1>1, <1>2, <1>3 DEF Covers
<1>5. Ordered(p)
  BY <1>3 DEF Ordered
<1> QED BY <1>4, <1>5 DEF p

\* A segment that starts before their end, from a stream cut one way, changes nothing: it
\* is one of them, or lies before the first.
LEMMA CoversOld ==
    ASSUME NEW o \in Seq(Segments), NEW g \in Segments, NEW a \in Nat, Covers(o, a), g.from < a,
           \A i \in 1..Len(o) : g = o[i] \/ g.to <= o[i].from \/ o[i].to <= g.from
    PROVE  /\ Covers(Append(o, g), a)
           /\ g.from >= o[1].from => \E i \in 1..Len(o) : o[i] = g
<1> DEFINE p == Append(o, g)
           n == Len(o)
<1>1. /\ p # <<>> /\ n \in Nat /\ n > 0 /\ Len(p) = n + 1
      /\ p[n + 1] = g /\ \A i \in 1..n : p[i] = o[i] /\ o[i] \in Segments
  BY AppendAt DEF Covers
<1>2. g.from \in Nat /\ g.to \in Nat /\ g.from < g.to
  BY SegmentFacts
<1>3. \A i \in 1..n : o[i].from \in Nat /\ o[i].to \in Nat /\ o[i].from < o[i].to /\ o[i].to <= a
  BY <1>1, SegmentFacts DEF Covers
<1>4. \A x \in Nat : o[1].from <= x /\ x < a => \E k \in 1..n : o[k].from <= x /\ x < o[k].to
  BY DEF Covers
<1>5. PICK j \in 1..n : o[j].to = a
  BY DEF Covers
<1>6. \A i \in 1..n : g = o[i] \/ g.to <= o[i].from \/ o[i].to <= g.from
  OBVIOUS
<1> HIDE DEF p, n
<1>7. p[1] = o[1] /\ 1 \in 1..n
  BY <1>1
<1>8. ASSUME g.from >= o[1].from PROVE \E i \in 1..n : o[i] = g
  <2>1. PICK k \in 1..n : o[k].from <= g.from /\ g.from < o[k].to
    BY <1>2, <1>3, <1>4, <1>7, <1>8
  <2>2. g = o[k]
    BY <1>2, <1>3, <1>6, <2>1
  <2> QED BY <2>2
<1>9. g.to <= a
  <2>1. CASE g.from >= o[1].from
    BY <1>3, <1>8, <2>1
  <2>2. CASE ~(g.from >= o[1].from)
    <3>1. g # o[1] /\ ~(o[1].to <= g.from)
      BY <1>2, <1>3, <1>7, <2>2
    <3>2. g.to <= o[1].from
      BY <1>6, <1>7, <3>1
    <3> QED BY <1>2, <1>3, <1>7, <3>2
  <2> QED BY <2>1, <2>2
<1>10. \A k \in 1..Len(p) : p[k].to <= a
  BY <1>1, <1>3, <1>9
<1>11. \E i \in 1..Len(p) : p[i].to = a
  BY <1>1, <1>5
<1>12. ASSUME NEW x \in Nat, p[1].from <= x, x < a
       PROVE  \E k \in 1..Len(p) : p[k].from <= x /\ x < p[k].to
  <2>1. PICK k \in 1..n : o[k].from <= x /\ x < o[k].to
    BY <1>4, <1>7, <1>12
  <2> QED BY <1>1, <2>1
<1>13. Covers(p, a)
  BY <1>1, <1>10, <1>11, <1>12 DEF Covers
<1> QED BY <1>8, <1>13 DEF p, n

\* A segment appended leaves the order as it was if it follows the others or is not new.
LEMMA OrderedMore ==
    ASSUME NEW o \in Seq(Segments), NEW g \in Segments, Ordered(o), Len(o) > 0,
           \/ g.from < o[1].from
           \/ \E j \in 1..Len(o) : o[j] = g
           \/ (\E j \in 1..Len(o) : o[j].to = g.from) /\ \A k \in 1..Len(o) : o[k].to <= g.from
    PROVE  Ordered(Append(o, g))
<1> DEFINE p == Append(o, g)
           n == Len(o)
<1>1. /\ n \in Nat /\ n > 0 /\ Len(p) = n + 1
      /\ p[n + 1] = g /\ \A i \in 1..n : p[i] = o[i] /\ o[i] \in Segments
  BY AppendAt
<1>2. \/ g.from < o[1].from
      \/ \E j \in 1..n : o[j] = g
      \/ (\E j \in 1..n : o[j].to = g.from) /\ \A k \in 1..n : o[k].to <= g.from
  OBVIOUS
<1>3. \A i \in 1..n : i > 1 /\ New(o, i) => Follows(o, i)
  BY DEF Ordered
<1> HIDE DEF p, n
<1>4. g.from \in Nat /\ p[1] = o[1] /\ o[1].from \in Nat
  <2>1. 1 \in 1..n
    BY <1>1
  <2> QED BY <1>1, <2>1, SegmentFacts
<1>5. ASSUME NEW i \in 1..Len(p), i > 1, New(p, i) PROVE Follows(p, i)
  <2>1. CASE i = n + 1
    <3>1. 1..(i - 1) = 1..n /\ p[i] = g
      BY <1>1, <2>1
    <3>2. g.from >= o[1].from /\ \A j \in 1..n : p[j] # g
      BY <1>4, <1>5, <3>1 DEF New
    <3>3. (\E j \in 1..n : o[j].to = g.from) /\ \A k \in 1..n : o[k].to <= g.from
      BY <1>1, <1>2, <1>4, <3>2
    <3> QED BY <1>1, <3>1, <3>3 DEF Follows
  <2>2. CASE i # n + 1
    <3>1. i \in 1..n /\ \A j \in 1..(i - 1) : j \in 1..n
      BY <1>1, <2>2
    <3>2. p[i] = o[i] /\ \A j \in 1..(i - 1) : p[j] = o[j]
      BY <1>1, <3>1
    <3>3. New(o, i)
      BY <1>4, <1>5, <3>2 DEF New
    <3>4. Follows(o, i)
      BY <1>3, <1>5, <3>1, <3>3
    <3> QED BY <3>2, <3>4 DEF Follows
  <2> QED BY <2>1, <2>2
<1> QED BY <1>5 DEF Ordered, p
-----------------------------------------------------------------------------
(***************************************************************************)
(* The buffer.                                                             *)
(***************************************************************************)
\* A buffer of segments of P, each under its own sequence number.
Holds(b, P) == IsFiniteSet(DOMAIN b) /\ \A s \in DOMAIN b : b[s] \in P /\ SeqOf(b[s]) = s

LEMMA NothingHolds == ASSUME NEW P PROVE Holds(Nothing, P) /\ DOMAIN Nothing = {} /\ Cardinality(DOMAIN Nothing) = 0
<1>1. DOMAIN Nothing = {}
  BY DEF Nothing
<1> QED BY <1>1, FS_EmptySet DEF Holds

LEMMA OnlyHolds ==
    ASSUME NEW b, NEW P, NEW ss, Holds(b, P)
    PROVE  /\ Holds(Only(b, ss), P)
           /\ DOMAIN Only(b, ss) = DOMAIN b \cap ss
           /\ \A s \in DOMAIN b \cap ss : Only(b, ss)[s] = b[s]
           /\ Cardinality(DOMAIN Only(b, ss)) \in Nat /\ Cardinality(DOMAIN b) \in Nat
           /\ Cardinality(DOMAIN Only(b, ss)) <= Cardinality(DOMAIN b)
           /\ ~(DOMAIN b \subseteq ss) => Cardinality(DOMAIN Only(b, ss)) < Cardinality(DOMAIN b)
<1>1. DOMAIN Only(b, ss) = DOMAIN b \cap ss /\ \A s \in DOMAIN b \cap ss : Only(b, ss)[s] = b[s]
  BY DEF Only
<1> DEFINE T == DOMAIN b \cap ss
<1>2. IsFiniteSet(DOMAIN b) /\ T \subseteq DOMAIN b
  BY DEF Holds
<1>3. IsFiniteSet(T) /\ Cardinality(T) <= Cardinality(DOMAIN b) /\ (Cardinality(DOMAIN b) = Cardinality(T) => DOMAIN b = T)
  BY <1>2, FS_Subset
<1>4. Cardinality(T) \in Nat /\ Cardinality(DOMAIN b) \in Nat
  BY <1>2, <1>3, FS_CardinalityType
<1>5. ~(DOMAIN b \subseteq ss) => DOMAIN b # T
  OBVIOUS
<1>6. Holds(Only(b, ss), P)
  BY <1>1, <1>3 DEF Holds
<1> HIDE DEF T
<1>7. ~(DOMAIN b \subseteq ss) => Cardinality(T) < Cardinality(DOMAIN b)
  BY <1>3, <1>4, <1>5
<1> QED BY <1>1, <1>3, <1>4, <1>6, <1>7 DEF T

LEMMA EnteredHolds ==
    ASSUME NEW b, NEW P, NEW g, Holds(b, P)
    PROVE  LET e == Entered(b, SeqOf(g), g) IN
           /\ Holds(e, P \cup {g})
           /\ DOMAIN e = DOMAIN b \cup {SeqOf(g)}
           /\ \A s \in DOMAIN b : e[s] = b[s]
           /\ SeqOf(g) \notin DOMAIN b => e[SeqOf(g)] = g
           /\ Cardinality(DOMAIN e) \in Nat /\ Cardinality(DOMAIN b) \in Nat
           /\ Cardinality(DOMAIN e) <= Cardinality(DOMAIN b) + 1
<1> DEFINE e == Entered(b, SeqOf(g), g)
           D == DOMAIN b
           s == SeqOf(g)
<1>1. DOMAIN e = D \cup {s} /\ \A t \in D \cup {s} : e[t] = IF t \in D THEN b[t] ELSE g
  BY DEF Entered
<1>2. IsFiniteSet(D)
  BY DEF Holds
<1>3. IsFiniteSet(D \cup {s}) /\ Cardinality(D \cup {s}) = IF s \in D THEN Cardinality(D) ELSE Cardinality(D) + 1
  BY <1>2, FS_AddElement
<1>4. Cardinality(D \cup {s}) \in Nat /\ Cardinality(D) \in Nat
  BY <1>2, <1>3, FS_CardinalityType
<1>5. Holds(e, P \cup {g})
  BY <1>1, <1>3 DEF Holds
<1> HIDE DEF D, e, s
<1>6. Cardinality(D \cup {s}) <= Cardinality(D) + 1
  BY <1>3, <1>4
<1> QED BY <1>1, <1>4, <1>5, <1>6 DEF D, e, s

\* skipGap jumps to a segment ahead, which leaves the buffer with all that is behind.
LEMMA SkipGapIs ==
    ASSUME NEW b, NEW P, Holds(b, P), SkipGap(b)
    PROVE  \E s \in DOMAIN b :
             /\ Dist(s, nextSeq) > 0 /\ Pass(b[s]) /\ b[s] \in P /\ SeqOf(b[s]) = s
             /\ \A t \in DOMAIN b : Dist(t, nextSeq) > 0 => Dist(s, nextSeq) <= Dist(t, nextSeq)
             /\ Holds(buf', P)
             /\ DOMAIN buf' = {t \in DOMAIN b : Dist(t, nextSeq) > 0} \ {s}
             /\ \A t \in DOMAIN buf' : t \in DOMAIN b /\ buf'[t] = b[t]
             /\ Cardinality(DOMAIN buf') \in Nat /\ Cardinality(DOMAIN b) \in Nat
             /\ Cardinality(DOMAIN buf') < Cardinality(DOMAIN b)
<1>1. PICK s \in Nearest(b) : Pass(b[s]) /\ buf' = Only(b, Ahead(b) \ {s})
  BY DEF SkipGap
<1>2. s \in DOMAIN b /\ Dist(s, nextSeq) > 0
  BY <1>1 DEF Nearest, Ahead
<1>3. \A t \in DOMAIN b : Dist(t, nextSeq) > 0 => Dist(s, nextSeq) <= Dist(t, nextSeq)
  BY <1>1 DEF Nearest, Ahead
<1>4. b[s] \in P /\ SeqOf(b[s]) = s
  BY <1>2 DEF Holds
<1> DEFINE ss == Ahead(b) \ {s}
<1>5. ~(DOMAIN b \subseteq ss) /\ DOMAIN b \cap ss = {t \in DOMAIN b : Dist(t, nextSeq) > 0} \ {s}
  BY <1>2 DEF Ahead
<1>6. buf' = Only(b, ss)
  BY <1>1
<1> HIDE DEF ss
<1>7. /\ Holds(buf', P) /\ DOMAIN buf' = DOMAIN b \cap ss /\ \A t \in DOMAIN b \cap ss : buf'[t] = b[t]
      /\ Cardinality(DOMAIN buf') \in Nat /\ Cardinality(DOMAIN b) \in Nat
      /\ Cardinality(DOMAIN buf') < Cardinality(DOMAIN b)
  BY <1>5, <1>6, OnlyHolds
<1> QED BY <1>1, <1>2, <1>3, <1>4, <1>5, <1>7

LEMMA BufferKeptHolds ==
    ASSUME BufferKept
    PROVE  /\ Holds(buf, pushed) /\ Cardinality(DOMAIN buf) <= Window /\ Cardinality(DOMAIN buf) \in Nat
           /\ pushed \subseteq Segments /\ out \in Seq(pushed) /\ isn \in Nat /\ at \in Nat
<1>1. IsFiniteSet(DOMAIN buf) /\ Cardinality(DOMAIN buf) <= Window
  BY DEF BufferKept, WindowKept
<1>2. Cardinality(DOMAIN buf) \in Nat
  BY <1>1, FS_CardinalityType
<1>3. /\ pushed \subseteq Segments /\ out \in Seq(pushed) /\ isn \in ISNs /\ at \in Nat
      /\ \A s \in DOMAIN buf : buf[s] \in pushed /\ SeqOf(buf[s]) = s
  BY DEF BufferKept, RTypeOK
<1> QED BY <1>1, <1>2, <1>3, IsnFacts DEF Holds

\* What each step leaves of the buffer's part of the invariant.
BufferNow ==
    /\ Holds(buf', pushed') /\ Cardinality(DOMAIN buf') <= Window
    /\ pushed' \subseteq Segments /\ out' \in Seq(pushed') /\ isn' = isn
    /\ (primed' => nextSeq' = (isn + at') % SeqSpace) /\ at' \in Nat /\ nextSeq' \in 0..(SeqSpace - 1)
ControlNow ==
    /\ pc' \in {"ready", "drain", "flush"} /\ primed' \in BOOLEAN
    /\ idle' \in 0..MaxAge /\ pushes' \in 0..MaxPush
    /\ (~primed' => DOMAIN buf' = {}) /\ (pc' # "ready" => primed' /\ ~closed')
    /\ (pc' = "flush" => skipped')

LEMMA BufferKeptNow ==
    ASSUME BufferKept, BufferNow, ControlNow
    PROVE  BufferKept'
<1>1. IsFiniteSet(DOMAIN buf') /\ Cardinality(DOMAIN buf') <= Window /\ isn' \in ISNs
  BY DEF BufferNow, Holds, BufferKept, RTypeOK
<1>2. \A s \in DOMAIN buf' : buf'[s] \in pushed' /\ (isn' + buf'[s].from) % SeqSpace = s
  BY DEF BufferNow, Holds, SeqOf
<1>3. WindowKept'
  BY <1>1 DEF WindowKept
<1>4. RTypeOK'
  BY <1>1, <1>2 DEF BufferNow, ControlNow, RTypeOK, SeqOf
<1>5. primed' => nextSeq' = (isn' + at') % SeqSpace
  BY DEF BufferNow
<1> QED BY <1>1, <1>3, <1>4, <1>5 DEF BufferKept, ControlNow

LEMMA SeqMore == ASSUME NEW S, NEW T, S \subseteq T, NEW o \in Seq(S) PROVE o \in Seq(T)
OBVIOUS

LEMMA HoldsMore == ASSUME NEW S, NEW T, S \subseteq T, NEW b, Holds(b, S) PROVE Holds(b, T)
BY DEF Holds

LEMMA PassIs ==
    ASSUME NEW P, P \subseteq Segments, out \in Seq(P), isn \in Nat, NEW g \in P, Pass(g)
    PROVE  /\ out' \in Seq(P) /\ nextSeq' = (isn + at') % SeqSpace /\ at' \in Nat /\ at' = g.to
           /\ nextSeq' \in 0..(SeqSpace - 1) /\ out' = Append(out, g)
<1>1. g.to \in Nat /\ isn + g.to \in Nat
  BY SegmentFacts
<1>2. (isn + g.to) % SeqSpace \in 0..(SeqSpace - 1)
  BY <1>1, InSpace
<1>3. Append(out, g) \in Seq(P)
  BY AppendAt
<1> QED BY <1>1, <1>2, <1>3 DEF Pass, NextAfter

LEMMA BufferKeptInit == ASSUME RInit PROVE BufferKept
<1>1. DOMAIN buf = {} /\ IsFiniteSet(DOMAIN buf) /\ Cardinality(DOMAIN buf) = 0
  BY NothingHolds DEF RInit, Holds
<1>2. /\ 0 \in 0..(SeqSpace - 1) /\ 0 \in 0..MaxAge /\ 0 \in 0..MaxPush /\ 0 <= Window
  BY ReseqAssumption, HalfIs
<1>3. out \in Seq(pushed)
  BY DEF RInit
<1> QED BY <1>1, <1>2, <1>3 DEF RInit, BufferKept, WindowKept, RTypeOK

LEMMA BufferKeptPush ==
    ASSUME BufferKept, NEW g \in Segments, Push(g)
    PROVE  BufferKept'
<1> DEFINE d == IF primed THEN Dist(SeqOf(g), nextSeq) ELSE 0
           b == Entered(buf, SeqOf(g), g)
           P == pushed \cup {g}
<1>1. /\ Holds(buf, pushed) /\ Cardinality(DOMAIN buf) <= Window /\ Cardinality(DOMAIN buf) \in Nat
      /\ pushed \subseteq Segments /\ out \in Seq(pushed) /\ isn \in Nat /\ at \in Nat
  BY BufferKeptHolds
<1>2. /\ Holds(b, P) /\ Cardinality(DOMAIN b) \in Nat
      /\ Cardinality(DOMAIN b) <= Cardinality(DOMAIN buf) + 1
  BY <1>1, EnteredHolds
<1>3. Holds(buf, P) /\ out \in Seq(P) /\ P \subseteq Segments /\ g \in P
  BY <1>1, HoldsMore, SeqMore
<1>4. /\ pushed' = P /\ isn' = isn /\ closed' = closed /\ primed' = TRUE /\ idle' = 0 /\ pushes' = pushes + 1
      /\ pc = "ready" /\ ~closed /\ pushes < MaxPush
  BY DEF Push
<1>5. idle' \in 0..MaxAge /\ pushes' \in 0..MaxPush
  BY <1>4, ReseqAssumption DEF BufferKept, RTypeOK
<1>6. nextSeq \in 0..(SeqSpace - 1) /\ (primed => nextSeq = (isn + at) % SeqSpace)
  BY DEF BufferKept, RTypeOK
<1>7. \/ d = 0 /\ Pass(g) /\ pc' = "drain" /\ buf' = buf
      \/ d < 0 /\ out' = Append(out, g) /\ pc' = pc /\ nextSeq' = nextSeq /\ buf' = buf /\ at' = at
      \/ d > 0 /\ ~Overfull(b) /\ buf' = b /\ pc' = pc /\ nextSeq' = nextSeq /\ at' = at /\ out' = out
      \/ d > 0 /\ Overfull(b) /\ SkipGap(b) /\ pc' = "drain"
  BY DEF Push
<1>8. ~primed => d = 0
  OBVIOUS
<1> HIDE DEF d, b, P
<1>9. ControlNow
  BY <1>4, <1>5, <1>7 DEF ControlNow
<1>10. BufferNow
  <2>1. CASE d = 0 /\ Pass(g) /\ buf' = buf
    <3>1. /\ out' \in Seq(P) /\ nextSeq' = (isn + at') % SeqSpace /\ at' \in Nat
          /\ nextSeq' \in 0..(SeqSpace - 1)
      BY <1>1, <1>3, <2>1, PassIs
    <3> QED BY <1>1, <1>3, <1>4, <2>1, <3>1 DEF BufferNow
  <2>2. CASE d < 0 /\ out' = Append(out, g) /\ nextSeq' = nextSeq /\ buf' = buf /\ at' = at
    <3>1. primed
      BY <1>8, <2>2
    <3>2. Append(out, g) \in Seq(P)
      BY <1>3, AppendAt
    <3> QED BY <1>1, <1>3, <1>4, <1>6, <2>2, <3>1, <3>2 DEF BufferNow
  <2>3. CASE d > 0 /\ ~Overfull(b) /\ buf' = b /\ nextSeq' = nextSeq /\ at' = at /\ out' = out
    <3>1. primed
      BY <1>8, <2>3
    <3>2. Cardinality(DOMAIN b) <= Window
      BY <1>2, <2>3, ReseqAssumption DEF Overfull
    <3> QED BY <1>1, <1>2, <1>3, <1>4, <1>6, <2>3, <3>1, <3>2 DEF BufferNow
  <2>4. CASE SkipGap(b)
    <3>1. PICK s \in DOMAIN b :
             /\ Pass(b[s]) /\ b[s] \in P /\ Holds(buf', P)
             /\ Cardinality(DOMAIN buf') \in Nat /\ Cardinality(DOMAIN buf') < Cardinality(DOMAIN b)
      BY <1>2, <2>4, SkipGapIs
    <3>2. /\ out' \in Seq(P) /\ nextSeq' = (isn + at') % SeqSpace /\ at' \in Nat
          /\ nextSeq' \in 0..(SeqSpace - 1)
      BY <1>1, <1>3, <3>1, PassIs
    <3>3. Cardinality(DOMAIN buf') <= Window
      BY <1>1, <1>2, <3>1, ReseqAssumption
    <3> QED BY <1>1, <1>3, <1>4, <3>1, <3>2, <3>3 DEF BufferNow
  <2> QED BY <1>7, <2>1, <2>2, <2>3, <2>4
<1> QED BY <1>9, <1>10, BufferKeptNow

LEMMA BufferKeptLoops ==
    ASSUME BufferKept, Loops
    PROVE  BufferKept'
<1>1. /\ Holds(buf, pushed) /\ Cardinality(DOMAIN buf) <= Window /\ Cardinality(DOMAIN buf) \in Nat
      /\ pushed \subseteq Segments /\ out \in Seq(pushed) /\ isn \in Nat /\ at \in Nat
  BY BufferKeptHolds
<1>2. /\ nextSeq \in 0..(SeqSpace - 1) /\ (primed => nextSeq = (isn + at) % SeqSpace)
      /\ (~primed => DOMAIN buf = {}) /\ (pc # "ready" => primed /\ ~closed)
      /\ pc \in {"ready", "drain", "flush"} /\ idle \in 0..MaxAge /\ pushes \in 0..MaxPush
      /\ primed \in BOOLEAN /\ (pc = "flush" => skipped)
  BY DEF BufferKept, RTypeOK
<1>3. 0 \in 0..MaxAge /\ 0 <= Window
  BY ReseqAssumption
<1>4. CASE DrainOne
  <2> DEFINE ss == DOMAIN buf \ {nextSeq}
  <2>1. nextSeq \in DOMAIN buf /\ Pass(buf[nextSeq]) /\ buf' = Only(buf, ss) /\ pc # "ready"
    BY <1>4 DEF DrainOne
  <2>2. UNCHANGED <<pc, primed, idle, isn, pushes, closed, pushed, skipped>>
    BY <1>4 DEF DrainOne
  <2>3. buf[nextSeq] \in pushed
    BY <1>1, <2>1 DEF Holds
  <2> HIDE DEF ss
  <2>4. /\ out' \in Seq(pushed) /\ nextSeq' = (isn + at') % SeqSpace /\ at' \in Nat
        /\ nextSeq' \in 0..(SeqSpace - 1)
    BY <1>1, <2>1, <2>3, PassIs
  <2>5. Holds(buf', pushed) /\ Cardinality(DOMAIN buf') <= Cardinality(DOMAIN buf) /\ Cardinality(DOMAIN buf') \in Nat
    BY <1>1, <2>1, OnlyHolds
  <2>6. Cardinality(DOMAIN buf') <= Window
    BY <1>1, <2>5, ReseqAssumption
  <2>7. BufferNow
    BY <1>1, <2>2, <2>4, <2>5, <2>6 DEF BufferNow
  <2>8. ControlNow
    BY <1>2, <2>1, <2>2 DEF ControlNow
  <2> QED BY <2>7, <2>8, BufferKeptNow
<1>5. CASE DrainEnd
  <2>1. BufferNow
    BY <1>1, <1>2, <1>5 DEF BufferNow, DrainEnd
  <2>2. ControlNow
    BY <1>2, <1>5 DEF ControlNow, DrainEnd
  <2> QED BY <2>1, <2>2, BufferKeptNow
<1>6. CASE FlushOne
  <2>1. UNCHANGED <<pc, primed, idle, isn, pushes, closed, pushed, skipped>> /\ SkipGap(buf) /\ pc # "ready"
    BY <1>6 DEF FlushOne
  <2>2. PICK s \in DOMAIN buf :
           /\ Pass(buf[s]) /\ buf[s] \in pushed /\ Holds(buf', pushed)
           /\ Cardinality(DOMAIN buf') \in Nat /\ Cardinality(DOMAIN buf') < Cardinality(DOMAIN buf)
    BY <1>1, <2>1, SkipGapIs
  <2>3. /\ out' \in Seq(pushed) /\ nextSeq' = (isn + at') % SeqSpace /\ at' \in Nat
        /\ nextSeq' \in 0..(SeqSpace - 1)
    BY <1>1, <2>2, PassIs
  <2>4. Cardinality(DOMAIN buf') <= Window
    BY <1>1, <2>2, ReseqAssumption
  <2>5. BufferNow
    BY <1>1, <2>1, <2>2, <2>3, <2>4 DEF BufferNow
  <2>6. ControlNow
    BY <1>2, <2>1 DEF ControlNow
  <2> QED BY <2>5, <2>6, BufferKeptNow
<1>7. CASE Reap
  <2>1. BufferNow
    BY <1>1, <1>2, <1>3, <1>7, NothingHolds DEF BufferNow, Reap
  <2>2. ControlNow
    BY <1>2, <1>3, <1>7, NothingHolds DEF ControlNow, Reap
  <2> QED BY <2>1, <2>2, BufferKeptNow
<1> QED BY <1>4, <1>5, <1>6, <1>7 DEF Loops

LEMMA BufferKeptStep ==
    ASSUME BufferKept, [RNext]_rvars
    PROVE  BufferKept'
<1>1. /\ Holds(buf, pushed) /\ Cardinality(DOMAIN buf) <= Window /\ Cardinality(DOMAIN buf) \in Nat
      /\ pushed \subseteq Segments /\ out \in Seq(pushed) /\ isn \in Nat /\ at \in Nat
  BY BufferKeptHolds
<1>2. /\ nextSeq \in 0..(SeqSpace - 1) /\ (primed => nextSeq = (isn + at) % SeqSpace)
      /\ (~primed => DOMAIN buf = {}) /\ (pc # "ready" => primed /\ ~closed)
      /\ pc \in {"ready", "drain", "flush"} /\ idle \in 0..MaxAge /\ pushes \in 0..MaxPush
      /\ primed \in BOOLEAN /\ (pc = "flush" => skipped)
  BY DEF BufferKept, RTypeOK
<1>3. 0 \in 0..MaxAge /\ 0 <= Window
  BY ReseqAssumption
<1>4. CASE \E g \in Segments : Push(g)
  BY <1>4, BufferKeptPush
<1>5. CASE FlushExpired
  <2>1. BufferNow
    BY <1>1, <1>2, <1>5 DEF BufferNow, FlushExpired
  <2>2. ControlNow
    BY <1>2, <1>5 DEF ControlNow, FlushExpired, IdleFlow
  <2> QED BY <2>1, <2>2, BufferKeptNow
<1>6. CASE Loops
  BY <1>6, BufferKeptLoops
<1>7. CASE RTick
  <2>1. BufferNow
    BY <1>1, <1>2, <1>7 DEF BufferNow, RTick
  <2>2. idle' \in 0..MaxAge
    BY <1>2, <1>7, ReseqAssumption DEF RTick
  <2>3. ControlNow
    BY <1>2, <1>7, <2>2 DEF ControlNow, RTick
  <2> QED BY <2>1, <2>3, BufferKeptNow
<1>8. CASE RClose
  <2>1. BufferNow
    BY <1>1, <1>2, <1>3, <1>8, NothingHolds DEF BufferNow, RClose
  <2>2. ControlNow
    BY <1>2, <1>3, <1>8, NothingHolds DEF ControlNow, RClose
  <2> QED BY <2>1, <2>2, BufferKeptNow
<1>9. CASE UNCHANGED rvars
  <2>1. BufferNow
    BY <1>1, <1>2, <1>9 DEF BufferNow, rvars
  <2>2. ControlNow
    BY <1>2, <1>9 DEF ControlNow, rvars
  <2> QED BY <2>1, <2>2, BufferKeptNow
<1> QED BY <1>4, <1>5, <1>6, <1>7, <1>8, <1>9 DEF RNext
-----------------------------------------------------------------------------
(***************************************************************************)
(* Positions in the stream.                                                *)
(***************************************************************************)
OneWay(P) == \A g, h \in P : g = h \/ g.to <= h.from \/ h.to <= g.from

LEMMA OneWayLess == ASSUME NEW P, NEW Q, P \subseteq Q, OneWay(Q) PROVE OneWay(P)
BY DEF OneWay

\* The buffer b holds segments of the stream P, which was cut one way, from position at on.
Placed(b, P) ==
    /\ Holds(b, P) /\ P \subseteq Segments /\ OneWay(P)
    /\ isn \in Nat /\ at \in Nat /\ nextSeq = (isn + at) % SeqSpace
    /\ \A s \in DOMAIN b : b[s].from - at \in 0..(Half - 1)

\* The distances the code compares are those of the stream.
LEMMA PlacedFacts ==
    ASSUME NEW b, NEW P, Placed(b, P), NEW s \in DOMAIN b
    PROVE  /\ b[s] \in P /\ b[s].from \in Nat /\ b[s].to \in Nat /\ b[s].from < b[s].to
           /\ b[s].from - at \in 0..(Half - 1) /\ at \in Nat /\ Half \in Nat
           /\ Dist(s, nextSeq) = b[s].from - at
           /\ s = nextSeq <=> b[s].from = at
<1> DEFINE a == b[s].from
<1>1. /\ b[s] \in P /\ s = (isn + a) % SeqSpace /\ nextSeq = (isn + at) % SeqSpace /\ isn \in Nat /\ at \in Nat
      /\ a - at \in 0..(Half - 1) /\ b[s] \in Segments
  BY DEF Placed, Holds, SeqOf
<1>2. a \in Nat /\ b[s].to \in Nat /\ a < b[s].to
  BY <1>1, SegmentFacts
<1>3. Half \in Nat
  BY HalfIs
<1> HIDE DEF a
<1>4. a - at \in (-Half)..(Half - 1) /\ at - at \in (-Half)..(Half - 1)
  BY <1>1, <1>2, <1>3
<1>5. Dist(s, nextSeq) = a - at
  BY <1>1, <1>2, <1>4, DistIs
<1>6. s = nextSeq => a = at
  BY <1>1, <1>2, <1>4, SameSeq
<1>7. a = at => s = nextSeq
  BY <1>1
<1> QED BY <1>1, <1>2, <1>3, <1>5, <1>6, <1>7 DEF a

\* What is left when the first of the buffered segments goes lies from its end on.
LEMMA PlacedNext ==
    ASSUME NEW b, NEW P, Placed(b, P), NEW s \in DOMAIN b,
           \A t \in DOMAIN b : b[s].from <= b[t].from
    PROVE  \A t \in DOMAIN b : t # s => b[t].from - b[s].to \in 0..(Half - 1)
<1> SUFFICES ASSUME NEW t \in DOMAIN b, t # s
             PROVE  b[t].from - b[s].to \in 0..(Half - 1)
  OBVIOUS
<1>1. /\ b[s] \in P /\ b[s].from \in Nat /\ b[s].to \in Nat /\ b[s].from < b[s].to
      /\ b[s].from - at \in 0..(Half - 1) /\ at \in Nat /\ Half \in Nat
  BY PlacedFacts
<1>2. /\ b[t] \in P /\ b[t].from \in Nat /\ b[t].to \in Nat /\ b[t].from < b[t].to
      /\ b[t].from - at \in 0..(Half - 1)
  BY PlacedFacts
<1>3. b[s] # b[t]
  BY DEF Placed, Holds
<1>4. b[s].to <= b[t].from \/ b[t].to <= b[s].from
  BY <1>1, <1>2, <1>3 DEF Placed, OneWay
<1>5. b[s].from <= b[t].from
  OBVIOUS
<1> QED BY ONLY <1>1, <1>2, <1>4, <1>5

\* After skipGap the rest of the buffer is placed at the end of the segment it jumped to.
LEMMA PlacedSkip ==
    ASSUME NEW b, NEW P, Placed(b, P), SkipGap(b)
    PROVE  \E s \in DOMAIN b :
             /\ out' = Append(out, b[s]) /\ b[s] \in P
             /\ \A t \in DOMAIN buf' : buf'[t].from - at' \in 0..(Half - 1)
             /\ (\A t \in DOMAIN b : b[t].from > at) => \A t \in DOMAIN b : t = s \/ (t \in DOMAIN buf' /\ buf'[t] = b[t])
<1>1. Holds(b, P)
  BY DEF Placed
<1>2. PICK s \in DOMAIN b :
             /\ Dist(s, nextSeq) > 0 /\ Pass(b[s]) /\ b[s] \in P
             /\ \A t \in DOMAIN b : Dist(t, nextSeq) > 0 => Dist(s, nextSeq) <= Dist(t, nextSeq)
             /\ DOMAIN buf' = {t \in DOMAIN b : Dist(t, nextSeq) > 0} \ {s}
             /\ \A t \in DOMAIN buf' : t \in DOMAIN b /\ buf'[t] = b[t]
  BY <1>1, SkipGapIs
<1>3. \A t \in DOMAIN b : /\ Dist(t, nextSeq) = b[t].from - at /\ b[t].from \in Nat /\ at \in Nat
                          /\ b[t].from - at \in 0..(Half - 1)
  BY PlacedFacts
<1> DEFINE c == Only(b, Ahead(b))
<1>4. Placed(c, P) /\ DOMAIN c = {t \in DOMAIN b : Dist(t, nextSeq) > 0} /\ \A t \in DOMAIN c : c[t] = b[t]
  <2>1. Holds(c, P) /\ DOMAIN c = DOMAIN b \cap Ahead(b) /\ \A t \in DOMAIN b \cap Ahead(b) : c[t] = b[t]
    BY <1>1, OnlyHolds
  <2>2. DOMAIN c = {t \in DOMAIN b : Dist(t, nextSeq) > 0}
    BY <2>1 DEF Ahead
  <2> HIDE DEF c
  <2> QED BY <1>3, <2>1, <2>2 DEF Placed
<1> HIDE DEF c
<1>5. s \in DOMAIN c /\ \A t \in DOMAIN c : c[s].from <= c[t].from
  <2>1. s \in DOMAIN c
    BY <1>2, <1>4
  <2>2. ASSUME NEW t \in DOMAIN c PROVE c[s].from <= c[t].from
    <3>1. t \in DOMAIN b /\ Dist(s, nextSeq) <= Dist(t, nextSeq) /\ c[s] = b[s] /\ c[t] = b[t]
      BY <1>2, <1>4, <2>1
    <3>2. b[s].from - at <= b[t].from - at
      BY <1>3, <3>1
    <3> QED BY <1>3, <3>1, <3>2
  <2> QED BY <2>1, <2>2
<1>6. \A t \in DOMAIN c : t # s => c[t].from - c[s].to \in 0..(Half - 1)
  BY <1>4, <1>5, PlacedNext
<1>7. at' = b[s].to /\ out' = Append(out, b[s])
  BY <1>2 DEF Pass
<1>8. \A t \in DOMAIN buf' : buf'[t].from - at' \in 0..(Half - 1)
  BY <1>2, <1>4, <1>5, <1>6, <1>7
<1>9. ASSUME \A t \in DOMAIN b : b[t].from > at, NEW t \in DOMAIN b, t # s
      PROVE  t \in DOMAIN buf' /\ buf'[t] = b[t]
  <2>1. Dist(t, nextSeq) > 0
    BY <1>3, <1>9
  <2> QED BY <1>2, <1>9, <2>1
<1> QED BY <1>2, <1>7, <1>8, <1>9

LEMMA PlacedNow ==
    ASSUME BufferKept, BufferAhead, CutOneWay, primed
    PROVE  Placed(buf, pushed) /\ (pc = "ready" => \A s \in DOMAIN buf : buf[s].from > at)
<1>1. Holds(buf, pushed) /\ pushed \subseteq Segments /\ isn \in Nat /\ at \in Nat
  BY BufferKeptHolds
<1>2. OneWay(pushed)
  BY DEF CutOneWay, OneWay
<1> QED BY <1>1, <1>2 DEF Placed, BufferKept, BufferAhead

LEMMA EmittedMore ==
    ASSUME NEW S, out \in Seq(S), NEW g \in S, out' = Append(out, g)
    PROVE  Emitted' = Emitted \cup {g}
<1>1. /\ Len(out) \in Nat /\ Len(out') = Len(out) + 1 /\ out'[Len(out) + 1] = g
      /\ \A i \in 1..Len(out) : out'[i] = out[i]
  BY AppendAt
<1>2. out' \in Seq(S) /\ DOMAIN out' = 1..(Len(out) + 1) /\ DOMAIN out = 1..Len(out)
  BY <1>1, AppendAt
<1>3. DOMAIN out' = DOMAIN out \cup {Len(out) + 1}
  BY <1>1, <1>2
<1> QED BY <1>1, <1>2, <1>3 DEF Emitted

\* A segment in reach: its distance to nextSeq, as the code computes it, is that to at.
LEMMA ReachDist ==
    ASSUME BufferKept, NEW g \in Segments, InReach(g), primed
    PROVE  /\ Dist(SeqOf(g), nextSeq) = g.from - at /\ g.from - at \in (-Half)..(Half - 1)
           /\ g.from \in Nat /\ at \in Nat /\ Half \in Nat
<1>1. isn \in Nat /\ at \in Nat /\ nextSeq = (isn + at) % SeqSpace
  BY BufferKeptHolds DEF BufferKept
<1>2. g.from \in Nat /\ g.from - at \in (-Half)..(Half - 1) /\ Half \in Nat
  BY SegmentFacts, HalfIs DEF InReach
<1> QED BY <1>1, <1>2, DistIs DEF SeqOf

\* Push of a segment ahead: the buffer with it is placed, all of it ahead, and holds it.
LEMMA EnteredPlaced ==
    ASSUME BufferKept, BufferAhead, NEW g \in Segments, InReach(g), primed, pc = "ready",
           OneWay(pushed \cup {g}), Dist(SeqOf(g), nextSeq) > 0
    PROVE  LET b == Entered(buf, SeqOf(g), g) IN
           /\ Placed(b, pushed \cup {g})
           /\ \A s \in DOMAIN b : b[s].from > at
           /\ \E s \in DOMAIN b : b[s] = g
           /\ \A s \in DOMAIN buf : s \in DOMAIN b /\ b[s] = buf[s]
<1> DEFINE b == Entered(buf, SeqOf(g), g)
           P == pushed \cup {g}
           e == SeqOf(g)
<1>1. OneWay(pushed) /\ CutOneWay
  BY DEF OneWay, CutOneWay
<1>2. Placed(buf, pushed) /\ \A s \in DOMAIN buf : buf[s].from > at
  BY <1>1, PlacedNow
<1>3. /\ Holds(b, P) /\ DOMAIN b = DOMAIN buf \cup {e} /\ \A s \in DOMAIN buf : b[s] = buf[s]
      /\ e \notin DOMAIN buf => b[e] = g
  BY <1>2, EnteredHolds DEF Placed
<1>4. /\ Dist(e, nextSeq) = g.from - at /\ g.from - at \in (-Half)..(Half - 1)
      /\ g.from \in Nat /\ at \in Nat /\ Half \in Nat
  BY ReachDist
<1>5. g.from - at \in 0..(Half - 1) /\ g.from > at
  BY <1>4
<1>6. b[e] = g
  <2>1. CASE e \in DOMAIN buf
    <3>1. /\ Dist(e, nextSeq) = buf[e].from - at /\ buf[e] \in pushed /\ buf[e].from \in Nat
          /\ buf[e].to \in Nat /\ buf[e].from < buf[e].to
      BY <1>2, <2>1, PlacedFacts
    <3>2. buf[e].from = g.from
      BY <1>4, <3>1
    <3>3. g.to \in Nat /\ g.from < g.to
      BY SegmentFacts
    <3>4. buf[e] = g \/ buf[e].to <= g.from \/ g.to <= buf[e].from
      BY <3>1 DEF OneWay
    <3>5. buf[e] = g
      BY <1>4, <3>1, <3>2, <3>3, <3>4
    <3> QED BY <1>3, <2>1, <3>5
  <2> QED BY <1>3, <2>1
<1> HIDE DEF b, e
<1>7. \A s \in DOMAIN b : b[s].from - at \in 0..(Half - 1) /\ b[s].from > at
  BY <1>2, <1>3, <1>5, <1>6 DEF Placed
<1>8. P \subseteq Segments
  BY <1>2 DEF Placed
<1>9. Placed(b, P)
  BY <1>2, <1>3, <1>7, <1>8 DEF Placed
<1> QED BY <1>3, <1>6, <1>7, <1>9 DEF b, e

\* What BufferAhead and NothingLost say of the next state.
AheadNow ==
    /\ \A s \in DOMAIN buf' : /\ buf'[s].from - at' \in 0..(Half - 1)
                              /\ pc' = "ready" => buf'[s].from > at'
    /\ ~closed' => pushed' \subseteq Emitted' \cup Buffered'

LEMMA AheadPush ==
    ASSUME BufferKept, BufferAhead, NothingLost, NEW g \in Segments, Push(g), CutOneWay'
    PROVE  AheadNow
<1> DEFINE d == IF primed THEN Dist(SeqOf(g), nextSeq) ELSE 0
           b == Entered(buf, SeqOf(g), g)
           P == pushed \cup {g}
<1>1. pushed' = P /\ pc = "ready" /\ ~closed /\ InReach(g)
  BY DEF Push
<1>2. OneWay(P) /\ CutOneWay
  BY <1>1 DEF OneWay, CutOneWay
<1>3. pushed \subseteq Emitted \cup Buffered
  BY <1>1, <1>2 DEF NothingLost
<1>4. out \in Seq(P) /\ g \in P
  BY BufferKeptHolds, SeqMore
<1>5. \/ d = 0 /\ Pass(g) /\ pc' = "drain" /\ buf' = buf
      \/ d < 0 /\ out' = Append(out, g) /\ pc' = pc /\ buf' = buf /\ at' = at
      \/ d > 0 /\ buf' = b /\ pc' = pc /\ at' = at /\ out' = out
      \/ d > 0 /\ SkipGap(b) /\ pc' = "drain"
  BY DEF Push
<1>6. /\ ~primed => d = 0 /\ DOMAIN buf = {}
      /\ primed => d = Dist(SeqOf(g), nextSeq)
  BY DEF BufferKept
<1>7. primed => d = g.from - at /\ g.from \in Nat /\ at \in Nat
  BY <1>1, ReachDist
<1>8. d > 0 => /\ Placed(b, P) /\ \A s \in DOMAIN b : b[s].from > at
               /\ \E s \in DOMAIN b : b[s] = g
               /\ \A s \in DOMAIN buf : s \in DOMAIN b /\ b[s] = buf[s]
  <2> HAVE d > 0
  <2>1. primed /\ Dist(SeqOf(g), nextSeq) > 0
    BY <1>6
  <2> QED BY <1>1, <1>2, <2>1, EnteredPlaced
<1>9. d > 0 => P \subseteq Emitted \cup {b[s] : s \in DOMAIN b}
  BY <1>3, <1>8 DEF Buffered
<1> HIDE DEF d, b
<1>10. CASE d = 0 /\ Pass(g) /\ pc' = "drain" /\ buf' = buf
  <2>1. Emitted' = Emitted \cup {g} /\ at' = g.to
    BY <1>4, <1>10, EmittedMore DEF Pass
  <2>2. pushed' \subseteq Emitted' \cup Buffered'
    BY <1>1, <1>3, <1>10, <2>1 DEF Buffered
  <2>3. ASSUME NEW s \in DOMAIN buf PROVE buf[s].from - g.to \in 0..(Half - 1)
    <3>1. primed
      BY <1>6, <2>3
    <3>2. Placed(buf, pushed) /\ buf[s].from > at
      BY <1>1, <1>2, <3>1, PlacedNow
    <3>3. /\ buf[s] \in pushed /\ buf[s].from \in Nat /\ buf[s].to \in Nat /\ buf[s].from < buf[s].to
          /\ buf[s].from - at \in 0..(Half - 1) /\ Half \in Nat
      BY <3>2, PlacedFacts
    <3>4. g.from = at /\ at \in Nat
      BY <1>7, <1>10, <3>1
    <3>5. g.to \in Nat /\ g.from < g.to
      BY SegmentFacts
    <3>6. buf[s] = g \/ buf[s].to <= g.from \/ g.to <= buf[s].from
      BY <1>2, <3>3 DEF OneWay
    <3> QED BY <3>2, <3>3, <3>4, <3>5, <3>6
  <2> QED BY <1>10, <2>1, <2>2, <2>3 DEF AheadNow
<1>11. CASE d < 0 /\ out' = Append(out, g) /\ pc' = pc /\ buf' = buf /\ at' = at
  <2>1. Emitted' = Emitted \cup {g}
    BY <1>4, <1>11, EmittedMore
  <2>2. pushed' \subseteq Emitted' \cup Buffered'
    BY <1>1, <1>3, <1>11, <2>1 DEF Buffered
  <2> QED BY <1>2, <1>11, <2>2 DEF AheadNow, BufferAhead
<1>12. CASE d > 0 /\ buf' = b /\ pc' = pc /\ at' = at /\ out' = out
  <2>1. pushed' \subseteq Emitted' \cup Buffered'
    BY <1>1, <1>9, <1>12 DEF Buffered, Emitted
  <2> QED BY <1>8, <1>12, <2>1 DEF AheadNow, Placed
<1>13. CASE d > 0 /\ SkipGap(b) /\ pc' = "drain"
  <2>1. PICK s \in DOMAIN b :
             /\ out' = Append(out, b[s]) /\ b[s] \in P
             /\ \A t \in DOMAIN buf' : buf'[t].from - at' \in 0..(Half - 1)
             /\ \A t \in DOMAIN b : t = s \/ (t \in DOMAIN buf' /\ buf'[t] = b[t])
    BY <1>8, <1>13, PlacedSkip
  <2>2. Emitted' = Emitted \cup {b[s]}
    BY <1>4, <2>1, EmittedMore
  <2>3. pushed' \subseteq Emitted' \cup Buffered'
    BY <1>1, <1>9, <1>13, <2>1, <2>2 DEF Buffered
  <2> QED BY <1>13, <2>1, <2>3 DEF AheadNow
<1> QED BY <1>5, <1>10, <1>11, <1>12, <1>13

LEMMA AheadLoops ==
    ASSUME BufferKept, BufferAhead, NothingLost, Loops, CutOneWay'
    PROVE  AheadNow
<1>1. /\ pushed' = pushed /\ closed' = closed /\ pc \in {"drain", "flush"} /\ pushed \subseteq Segments
      /\ out \in Seq(pushed)
  BY BufferKeptHolds DEF Loops, DrainOne, DrainEnd, FlushOne, Reap
<1>2. CutOneWay /\ primed /\ ~closed
  BY <1>1 DEF CutOneWay, BufferKept
<1>3. pushed \subseteq Emitted \cup Buffered
  BY <1>2 DEF NothingLost
<1>4. Placed(buf, pushed)
  BY <1>2, PlacedNow
<1>5. \A s \in DOMAIN buf : /\ buf[s].from \in Nat /\ buf[s].from - at \in 0..(Half - 1) /\ at \in Nat
                            /\ s = nextSeq <=> buf[s].from = at
                            /\ Dist(s, nextSeq) = buf[s].from - at /\ buf[s] \in pushed
  BY <1>4, PlacedFacts
<1>6. nextSeq \notin DOMAIN buf => \A s \in DOMAIN buf : buf[s].from > at
  BY <1>5
<1>7. CASE DrainOne
  <2> DEFINE s == nextSeq
             ss == DOMAIN buf \ {s}
  <2>1. /\ s \in DOMAIN buf /\ out' = Append(out, buf[s]) /\ at' = buf[s].to
        /\ buf' = Only(buf, ss) /\ pc' # "ready"
    BY <1>1, <1>7 DEF DrainOne, Pass
  <2>2. DOMAIN buf' = ss /\ \A t \in ss : buf'[t] = buf[t]
    <3>1. DOMAIN buf \cap ss = ss /\ Holds(buf, pushed)
      BY <1>4 DEF Placed
    <3> HIDE DEF ss
    <3> QED BY <2>1, <3>1, OnlyHolds
  <2>3. \A t \in DOMAIN buf : buf[s].from <= buf[t].from
    BY <1>5, <2>1
  <2>4. \A t \in DOMAIN buf : t # s => buf[t].from - buf[s].to \in 0..(Half - 1)
    BY <1>4, <2>1, <2>3, PlacedNext
  <2>5. Emitted' = Emitted \cup {buf[s]}
    BY <1>1, <1>5, <2>1, EmittedMore
  <2>6. pushed' \subseteq Emitted' \cup Buffered'
    BY <1>1, <1>3, <2>2, <2>5 DEF Buffered
  <2>7. \A t \in DOMAIN buf' : buf'[t].from - at' \in 0..(Half - 1)
    BY <2>1, <2>2, <2>4
  <2> QED BY <2>1, <2>6, <2>7 DEF AheadNow
<1>8. CASE DrainEnd
  BY <1>3, <1>5, <1>6, <1>8 DEF DrainEnd, AheadNow, Emitted, Buffered
<1>9. CASE FlushOne
  <2>1. SkipGap(buf) /\ nextSeq \notin DOMAIN buf /\ pc' # "ready"
    BY <1>9 DEF FlushOne
  <2>2. PICK s \in DOMAIN buf :
             /\ out' = Append(out, buf[s]) /\ buf[s] \in pushed
             /\ \A t \in DOMAIN buf' : buf'[t].from - at' \in 0..(Half - 1)
             /\ \A t \in DOMAIN buf : t = s \/ (t \in DOMAIN buf' /\ buf'[t] = buf[t])
    BY <1>4, <1>6, <2>1, PlacedSkip
  <2>3. Emitted' = Emitted \cup {buf[s]}
    BY <1>1, <2>2, EmittedMore
  <2>4. pushed' \subseteq Emitted' \cup Buffered'
    BY <1>1, <1>3, <2>2, <2>3 DEF Buffered
  <2> QED BY <2>1, <2>2, <2>4 DEF AheadNow
<1>10. CASE Reap
  <2>1. nextSeq \notin DOMAIN buf /\ Ahead(buf) = {} /\ buf' = Nothing /\ out' = out
    BY <1>10 DEF Reap
  <2>2. \A s \in DOMAIN buf : Dist(s, nextSeq) > 0
    BY <1>5, <1>6, <2>1
  <2>3. DOMAIN buf = {}
    BY <2>1, <2>2 DEF Ahead
  <2>4. DOMAIN buf' = {}
    BY <2>1, NothingHolds
  <2> QED BY <1>1, <1>3, <2>1, <2>3, <2>4 DEF AheadNow, Buffered, Emitted
<1> QED BY <1>7, <1>8, <1>9, <1>10 DEF Loops

LEMMA AheadStep ==
    ASSUME BufferKept, BufferAhead, NothingLost, [RNext]_rvars
    PROVE  BufferAhead' /\ NothingLost'
<1>1. AheadNow => BufferAhead' /\ NothingLost'
  BY DEF AheadNow, BufferAhead, NothingLost
<1>2. CASE \E g \in Segments : Push(g)
  <2>1. CutOneWay' => AheadNow
    BY <1>2, AheadPush
  <2> QED BY <1>1, <2>1 DEF BufferAhead, NothingLost
<1>3. CASE Loops
  <2>1. CutOneWay' => AheadNow
    BY <1>3, AheadLoops
  <2> QED BY <1>1, <2>1 DEF BufferAhead, NothingLost
<1>4. CASE RClose
  <2>1. closed' /\ DOMAIN buf' = {}
    BY <1>4, NothingHolds DEF RClose
  <2> QED BY <2>1 DEF BufferAhead, NothingLost
<1>5. CASE FlushExpired \/ RTick \/ UNCHANGED rvars
  <2>1. buf' = buf /\ at' = at /\ pushed' = pushed /\ closed' = closed /\ out' = out /\ (pc' = "ready" => pc = "ready")
    BY <1>5 DEF FlushExpired, RTick, rvars
  <2>2. CutOneWay' = CutOneWay /\ Emitted' = Emitted /\ Buffered' = Buffered
    BY <2>1 DEF CutOneWay, Emitted, Buffered
  <2>3. CutOneWay' => CutOneWay
    BY <2>1 DEF CutOneWay
  <2>4. BufferAhead'
    BY <2>1, <2>3 DEF BufferAhead
  <2>5. NothingLost'
    BY <2>1, <2>2, <2>3 DEF NothingLost
  <2> QED BY <2>4, <2>5
<1> QED BY <1>2, <1>3, <1>4, <1>5 DEF RNext
-----------------------------------------------------------------------------
(***************************************************************************)
(* The order of what leaves.                                               *)
(***************************************************************************)
\* A segment that starts at the position of nextSeq leaves next.
LEMMA StreamNext ==
    ASSUME NEW g \in Segments, out \in Seq(Segments), Covers(out, g.from), Ordered(out)
    PROVE  Covers(Append(out, g), g.to) /\ Ordered(Append(out, g))
<1>1. /\ \E j \in 1..Len(out) : out[j].to = g.from
      /\ \A k \in 1..Len(out) : out[k].to <= g.from
      /\ Len(out) > 0
  BY AppendAt DEF Covers
<1>2. Ordered(Append(out, g))
  BY <1>1, OrderedMore
<1> QED BY <1>2, CoversNext

LEMMA StreamPush ==
    ASSUME BufferKept, BufferAhead, StreamCovered, NEW g \in Segments, Push(g)
    PROVE  StreamCovered'
<1> SUFFICES ASSUME ~skipped', CutOneWay'
             PROVE  Ordered(out') /\ Covers(out', at')
  BY DEF StreamCovered, Push
<1> DEFINE d == IF primed THEN Dist(SeqOf(g), nextSeq) ELSE 0
<1>1. pushed' = pushed \cup {g} /\ ~closed /\ InReach(g) /\ ~skipped
  BY DEF Push
<1>2. CutOneWay /\ OneWay(pushed \cup {g})
  BY <1>1 DEF CutOneWay, OneWay
<1>3. Ordered(out) /\ IF primed THEN Covers(out, at) ELSE out = <<>>
  BY <1>1, <1>2 DEF StreamCovered
<1>4. pushed \subseteq Segments /\ out \in Seq(pushed)
  BY BufferKeptHolds
<1>5. out \in Seq(Segments) /\ \A i \in 1..Len(out) : out[i] \in pushed
  BY <1>4
<1>6. \/ d = 0 /\ out' = Append(out, g) /\ at' = g.to
      \/ d < 0 /\ out' = Append(out, g) /\ at' = at
      \/ d > 0 /\ at' = at /\ out' = out
  BY DEF Push, Pass
<1>7. primed => d = g.from - at /\ g.from \in Nat /\ at \in Nat
  BY <1>1, ReachDist
<1>8. ~primed => d = 0
  OBVIOUS
<1> HIDE DEF d
<1>9. CASE d = 0 /\ out' = Append(out, g) /\ at' = g.to
  <2>1. CASE primed
    <3>1. g.from = at
      BY <1>7, <1>9, <2>1
    <3> QED BY <1>3, <1>5, <1>9, <2>1, <3>1, StreamNext
  <2>2. CASE ~primed
    BY <1>3, <1>9, <2>2, CoversFirst
  <2> QED BY <2>1, <2>2
<1>10. CASE d < 0 /\ out' = Append(out, g) /\ at' = at
  <2>1. primed
    BY <1>8, <1>10
  <2>2. Covers(out, at) /\ Ordered(out) /\ at \in Nat /\ g.from < at /\ g.from \in Nat
    BY <1>3, <1>7, <1>10, <2>1
  <2>3. \A i \in 1..Len(out) : g = out[i] \/ g.to <= out[i].from \/ out[i].to <= g.from
    BY <1>2, <1>5 DEF OneWay
  <2>4. /\ Covers(Append(out, g), at)
        /\ g.from >= out[1].from => \E i \in 1..Len(out) : out[i] = g
    BY <1>5, <2>2, <2>3, CoversOld
  <2>5. Len(out) > 0
    BY <1>5, <2>2 DEF Covers
  <2>6. out[1].from \in Nat
    BY <1>5, <2>5, SegmentFacts
  <2>7. g.from < out[1].from \/ \E i \in 1..Len(out) : out[i] = g
    BY <2>2, <2>4, <2>6
  <2>8. Ordered(Append(out, g))
    BY <1>5, <2>2, <2>5, <2>7, OrderedMore
  <2> QED BY <1>10, <2>4, <2>8
<1>11. CASE d > 0 /\ at' = at /\ out' = out
  BY <1>3, <1>8, <1>11
<1> QED BY <1>6, <1>9, <1>10, <1>11

LEMMA StreamStep ==
    ASSUME BufferKept, BufferAhead, StreamCovered, [RNext]_rvars
    PROVE  StreamCovered'
<1>1. CASE \E g \in Segments : Push(g)
  BY <1>1, StreamPush
<1>2. CASE DrainOne
  <2> SUFFICES ASSUME ~skipped', CutOneWay'
               PROVE  Ordered(out') /\ Covers(out', at')
    BY <1>2 DEF StreamCovered, DrainOne, BufferKept
  <2> DEFINE g == buf[nextSeq]
  <2>1. /\ ~skipped /\ pushed' = pushed /\ pc # "ready" /\ nextSeq \in DOMAIN buf
        /\ out' = Append(out, g) /\ at' = g.to
    BY <1>2 DEF DrainOne, Pass
  <2>2. CutOneWay /\ primed /\ ~closed
    BY <2>1 DEF CutOneWay, BufferKept
  <2>3. Ordered(out) /\ Covers(out, at)
    BY <2>1, <2>2 DEF StreamCovered
  <2>4. Placed(buf, pushed)
    BY <2>2, PlacedNow
  <2>5. g \in pushed /\ g.from = at
    BY <2>1, <2>4, PlacedFacts
  <2>6. g \in Segments /\ out \in Seq(Segments)
    BY <2>5, BufferKeptHolds, SeqMore
  <2> HIDE DEF g
  <2> QED BY <2>1, <2>3, <2>5, <2>6, StreamNext
<1>3. CASE FlushOne \/ Reap
  <2>1. skipped'
    BY <1>3 DEF FlushOne, Reap, BufferKept
  <2> QED BY <2>1 DEF StreamCovered
<1>4. CASE FlushExpired
  BY <1>4 DEF FlushExpired, StreamCovered
<1>5. CASE RClose
  <2>1. out' = out /\ pushed' = pushed /\ closed' /\ skipped' = skipped
    BY <1>5 DEF RClose
  <2>2. CutOneWay' => CutOneWay
    BY <2>1 DEF CutOneWay
  <2> QED BY <2>1, <2>2 DEF StreamCovered
<1>6. CASE DrainEnd \/ RTick \/ UNCHANGED rvars
  <2>1. out' = out /\ pushed' = pushed /\ closed' = closed /\ skipped' = skipped /\ at' = at /\ primed' = primed
    BY <1>6 DEF DrainEnd, RTick, rvars
  <2>2. CutOneWay' => CutOneWay
    BY <2>1 DEF CutOneWay
  <2> QED BY <2>1, <2>2 DEF StreamCovered
<1> QED BY <1>1, <1>2, <1>3, <1>4, <1>5, <1>6 DEF RNext, Loops

LEMMA RInvInit == ASSUME RInit PROVE RInv
<1>1. DOMAIN buf = {}
  BY NothingHolds DEF RInit
<1>2. BufferAhead
  BY <1>1 DEF BufferAhead
<1>3. NothingLost
  BY DEF NothingLost, RInit
<1>4. StreamCovered
  BY DEF StreamCovered, RInit, Ordered
<1> QED BY <1>2, <1>3, <1>4, BufferKeptInit DEF RInv

LEMMA RInvStep == ASSUME RInv, [RNext]_rvars PROVE RInv'
BY BufferKeptStep, AheadStep, StreamStep DEF RInv

LEMMA RInvHolds == RSpec => []RInv
<1>1. RInit => RInv
  BY RInvInit
<1>2. RInv /\ [RNext]_rvars => RInv'
  BY RInvStep
<1> QED BY <1>1, <1>2, PTL DEF RSpec

\* However segments arrive, overlapping ones included, Push and skipGap never leave more
\* than window of them in a flow's buffer, for any window.
THEOREM WindowIsKept == RSpec => []WindowKept
<1>1. RInv => WindowKept
  BY DEF RInv, BufferKept
<1> QED BY <1>1, RInvHolds, PTL

\* While the tunnel is up, a segment that was pushed was emitted or is buffered: neither a
\* duplicate that finds its number taken, nor the sweep of skipGap, nor reaping a flow loses
\* one, for any sequence space, stream and window, if the sender cuts the stream one way.
THEOREM NothingIsLost == RSpec => []NothingLost
<1>1. RInv => NothingLost
  BY DEF RInv
<1> QED BY <1>1, RInvHolds, PTL

\* Until a gap is given up, new segments leave Push and drain in stream order without
\* holes, in whatever order they came and wherever their numbers wrap.
THEOREM OrderIsRestored == RSpec => []InOrder
<1>1. ASSUME RInv PROVE InOrder
  <2> SUFFICES ASSUME ~skipped, CutOneWay, NEW i \in DOMAIN out, i > 1, Fresh(i)
               PROVE  \E j \in 1..(i - 1) : /\ out[j].to = out[i].from
                                            /\ \A k \in 1..(i - 1) : out[k].to <= out[i].from
    BY DEF InOrder
  <2>1. Ordered(out) /\ out \in Seq(pushed)
    BY <1>1, BufferKeptHolds DEF RInv, StreamCovered
  <2>2. i \in 1..Len(out) /\ New(out, i)
    BY <2>1 DEF Fresh, New
  <2> QED BY <2>1, <2>2 DEF Ordered, Follows
<1> QED BY <1>1, RInvHolds, PTL
=============================================================================
