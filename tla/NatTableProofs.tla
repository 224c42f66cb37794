--------------------------- MODULE NatTableProofs ---------------------------
(***************************************************************************)
(* The NAT tables agree, for every set of flows, port range, idle timeout  *)
(* and number of restarts, with the XDP program stamping entries between   *)
(* any two steps of the collector.                                         *)
(*                                                                         *)
(* A flow's port is on record twice: in t.fwd and, keyed by the port, in   *)
(* the reverse map.  What an eviction from the full LRU map does to the    *)
(* second record t.fwd is not told, so the two results about replies are   *)
(* about behaviours in which the map never fills up.                       *)
(***************************************************************************)
EXTENDS NatTable, FiniteSetTheorems, TLAPS

\* The LRU map has room for another entry, so Put evicts none.
RoomLeft == Cardinality(DOMAIN rev) < MaxEntries

\* The collector between GcRead and GcDecide: its copied value is of the flow that
\* still owns the key, since allocation waits for t.mu and a reply only stamps.
CopyOwned ==
    gc.phase = "decide" =>
        gc.key \in DOMAIN rev /\ gc.key \notin gc.left /\ rev[gc.key].flow = gc.val.flow

\* Outside of a pass the collector holds no keys.
NothingLeft == gc.phase \in {"idle", "sampled"} => gc.left = {}

GcShape ==
    gc \in [phase : {"idle", "sampled", "scan", "decide"}, now : 0..MaxTime,
            left : SUBSET Keys, key : Keys \cup {NIL}, val : Entry \cup {NIL}]

NatInv == TypeOK /\ GcShape /\ NothingLeft /\ CopyOwned

\* Every flow with a port owns the reverse entry of that port.
Backed ==
    \A f \in DOMAIN fwd :
        /\ <<fwd[f], DstOf[f]>> \in DOMAIN rev
        /\ rev[<<fwd[f], DstOf[f]>>].flow = f

\* The reverse entries of a flow, the one its port in t.fwd names, and the others: those
\* that a restart left behind.
Entries(f) == {k \in DOMAIN rev : rev[k].flow = f}
Held(f) == IF f \in DOMAIN fwd THEN {<<fwd[f], DstOf[f]>>} ELSE {}
Loose(f) == Entries(f) \ Held(f)

\* A restart leaves a flow at most one more entry behind.
LooseBound == \A f \in Flows : IsFiniteSet(Entries(f)) /\ Cardinality(Loose(f)) <= boots

-----------------------------------------------------------------------------
(***************************************************************************)
(* The steps that write the maps, each told once.                          *)
(***************************************************************************)

\* The slow path of AllocPort: a key nobody has, for a flow without a port.
Allocated(f, p, old) ==
    /\ f \notin DOMAIN fwd /\ p \in Ports /\ <<p, DstOf[f]>> \notin DOMAIN rev
    /\ old \in Evicted
    /\ rev' = Put(Without(rev, old), <<p, DstOf[f]>>, [flow |-> f, seen |-> now])
    /\ fwd' = Put(fwd, f, p)
    /\ nextPort' = BumpPort(p)
    /\ out' = [flow |-> f, port |-> p]

\* ApplySNAT either leaves the maps alone or allocates.
LEMMA SnatCases ==
    ASSUME NEW f \in Flows, ApplySNAT(f)
    PROVE  /\ UNCHANGED <<now, gc, boots>> /\ gc.phase \in {"idle", "sampled"}
           /\ \/ f \in DOMAIN fwd /\ out' = [flow |-> f, port |-> fwd[f]] /\ UNCHANGED <<rev, fwd, nextPort>>
              \/ \E p, old : Allocated(f, p, old)
              \/ out' = [flow |-> f, port |-> NIL] /\ UNCHANGED <<rev, fwd, nextPort>>
BY DEF ApplySNAT, KnownFlow, FreePorts, Allocated

\* What is in the reverse map after an allocation.
LEMMA AllocatedRev ==
    ASSUME NEW f \in Flows, NEW p, NEW old, Allocated(f, p, old), NEW n, n = <<p, DstOf[f]>>
    PROVE  /\ n \notin DOMAIN rev /\ DOMAIN rev' = (DOMAIN rev \ old) \cup {n}
           /\ rev'[n] = [flow |-> f, seen |-> now]
           /\ \A k \in DOMAIN rev \ old : rev'[k] = rev[k]
           /\ DOMAIN fwd' = DOMAIN fwd \cup {f} /\ fwd'[f] = p
           /\ \A g \in DOMAIN fwd : fwd'[g] = fwd[g]
           /\ fwd' = [g \in DOMAIN fwd' |-> fwd'[g]]
BY DEF Allocated, Put, Without

\* A stamp changes no owner.
LEMMA StampRev ==
    ASSUME TypeOK, NEW k \in DOMAIN rev, XdpReply(k)
    PROVE  /\ DOMAIN rev' = DOMAIN rev /\ rev' \in [DOMAIN rev -> Entry]
           /\ \A j \in DOMAIN rev : rev'[j].flow = rev[j].flow
BY DEF TypeOK, XdpReply, Entry

LEMMA BumpStays == \A p \in Ports : BumpPort(p) \in Ports
BY NatAssumption DEF Ports, BumpPort

\* Collecting an entry.
LEMMA CollectedMaps ==
    ASSUME NEW k, NEW f, rev' = Without(rev, {k}), fwd' = Without(fwd, {f})
    PROVE  /\ DOMAIN rev' = DOMAIN rev \ {k} /\ DOMAIN fwd' = DOMAIN fwd \ {f}
           /\ \A j \in DOMAIN rev' : rev'[j] = rev[j]
           /\ \A g \in DOMAIN fwd' : fwd'[g] = fwd[g]
           /\ rev' = [j \in DOMAIN rev' |-> rev'[j]] /\ fwd' = [g \in DOMAIN fwd' |-> fwd'[g]]
BY DEF Without
-----------------------------------------------------------------------------
(***************************************************************************)
(* Types, and the collector's copy.                                        *)
(***************************************************************************)
LEMMA NatInit == Init => NatInv
<1> SUFFICES ASSUME Init PROVE NatInv
  OBVIOUS
<1>1. PortMin \in Ports /\ 0 \in 0..MaxTime /\ 0 \in 0..MaxBoots
  BY NatAssumption DEF Ports
<1>2. GcShape /\ NothingLeft /\ CopyOwned
  BY <1>1 DEF Init, Resting, GcShape, NothingLeft, CopyOwned
<1>3. TypeOK
  BY <1>1 DEF Init, Resting, TypeOK
<1> QED BY <1>2, <1>3 DEF NatInv

\* Steps of the collector that write no map.
LEMMA CollectorShape ==
    ASSUME NatInv, GcSample \/ GcLock \/ (\E k \in gc.left : GcRead(k)) \/ GcEnd
    PROVE  NatInv'
<1>1. UNCHANGED <<rev, fwd, nextPort, now, boots>> /\ out' = NIL
  BY DEF GcSample, GcLock, GcRead, GcEnd
<1>2. /\ DOMAIN rev \subseteq Keys /\ rev \in [DOMAIN rev -> Entry] /\ gc.left \subseteq DOMAIN rev
      /\ now \in 0..MaxTime /\ 0 \in 0..MaxTime
  BY NatAssumption DEF NatInv, TypeOK
<1>3. GcShape /\ NothingLeft
  BY DEF NatInv
<1>4. GcShape' /\ NothingLeft' /\ CopyOwned' /\ gc'.left \subseteq DOMAIN rev
      /\ (gc'.phase = "decide" => gc'.key \in DOMAIN rev /\ gc'.val \in Entry)
  <2>1. CASE GcSample
    BY <1>1, <1>2, <1>3, <2>1 DEF GcSample, GcShape, NothingLeft, CopyOwned
  <2>2. CASE GcLock
    BY <1>1, <1>2, <1>3, <2>2 DEF GcLock, GcShape, NothingLeft, CopyOwned
  <2>3. ASSUME NEW k \in gc.left, GcRead(k)
        PROVE  GcShape' /\ NothingLeft' /\ CopyOwned' /\ gc'.left \subseteq DOMAIN rev
               /\ (gc'.phase = "decide" => gc'.key \in DOMAIN rev /\ gc'.val \in Entry)
    BY <1>1, <1>2, <1>3, <2>3 DEF GcRead, GcShape, NothingLeft, CopyOwned
  <2>4. CASE GcEnd
    BY <1>1, <1>2, <2>4 DEF GcEnd, Resting, GcShape, NothingLeft, CopyOwned
  <2> QED BY <2>1, <2>2, <2>3, <2>4
<1>5. gc'.phase \in {"idle", "sampled", "scan", "decide"} /\ gc'.now \in 0..MaxTime
  BY <1>4 DEF GcShape
<1>6. TypeOK'
  BY <1>1, <1>4, <1>5 DEF NatInv, TypeOK
<1> QED BY <1>4, <1>6 DEF NatInv

LEMMA NatStep == NatInv /\ [Next]_vars => NatInv'
<1> SUFFICES ASSUME NatInv, [Next]_vars PROVE NatInv'
  OBVIOUS
<1>0. TypeOK /\ GcShape /\ NothingLeft /\ CopyOwned
  BY DEF NatInv
<1>1. ASSUME NEW f \in Flows, ApplySNAT(f) PROVE NatInv'
  <2>1. UNCHANGED <<now, gc, boots>> /\ gc.phase \in {"idle", "sampled"}
    BY <1>1, SnatCases
  <2>2. CASE f \in DOMAIN fwd /\ out' = [flow |-> f, port |-> fwd[f]] /\ UNCHANGED <<rev, fwd, nextPort>>
    <3>1. fwd[f] \in Ports
      BY <1>0, <2>2 DEF TypeOK
    <3> QED BY <1>0, <2>1, <2>2, <3>1 DEF NatInv, TypeOK, GcShape, NothingLeft, CopyOwned
  <2>3. CASE out' = [flow |-> f, port |-> NIL] /\ UNCHANGED <<rev, fwd, nextPort>>
    BY <1>0, <2>1, <2>3 DEF NatInv, TypeOK, GcShape, NothingLeft, CopyOwned
  <2>4. ASSUME NEW p, NEW old, Allocated(f, p, old) PROVE NatInv'
    <3>1. p \in Ports /\ <<p, DstOf[f]>> \in Keys /\ nextPort' = BumpPort(p) /\ out' = [flow |-> f, port |-> p]
      BY <2>4, NatAssumption DEF Allocated, Keys
    <3>2. [flow |-> f, seen |-> now] \in Entry
      BY <1>0 DEF TypeOK, Entry
    <3> DEFINE n == <<p, DstOf[f]>>
    <3>n. n = <<p, DstOf[f]>>
      OBVIOUS
    <3> HIDE DEF n
    <3>a. /\ DOMAIN rev' = (DOMAIN rev \ old) \cup {n}
          /\ rev'[n] = [flow |-> f, seen |-> now]
          /\ \A k \in DOMAIN rev \ old : rev'[k] = rev[k]
      BY <2>4, <3>n DEF Allocated, Put, Without
    <3>c. rev' = [k \in DOMAIN rev' |-> rev'[k]]
      BY <2>4 DEF Allocated, Put
    <3>b. /\ DOMAIN fwd' = DOMAIN fwd \cup {f} /\ fwd'[f] = p
          /\ \A g \in DOMAIN fwd : fwd'[g] = fwd[g]
          /\ fwd' = [g \in DOMAIN fwd' |-> fwd'[g]]
      BY <2>4, <3>n, AllocatedRev
    <3>3. DOMAIN rev' \subseteq Keys /\ rev' \in [DOMAIN rev' -> Entry]
      <4>1. \A k \in DOMAIN rev' : rev'[k] \in Entry
        BY <1>0, <3>2, <3>a DEF TypeOK
      <4>2. DOMAIN rev' \subseteq Keys
        BY <1>0, <3>1, <3>a, <3>n DEF TypeOK
      <4> QED BY <3>c, <4>1, <4>2
    <3>4. DOMAIN fwd' \subseteq Flows /\ fwd' \in [DOMAIN fwd' -> Ports]
      <4>1. \A g \in DOMAIN fwd' : fwd'[g] \in Ports
        BY <1>0, <3>1, <3>b DEF TypeOK
      <4>2. DOMAIN fwd' \subseteq Flows
        BY <1>0, <3>b DEF TypeOK
      <4> QED BY <3>b, <4>1, <4>2
    <3>5. gc.left = {}
      BY <1>0, <2>1 DEF NothingLeft
    <3>6. TypeOK'
      BY <1>0, <2>1, <3>1, <3>3, <3>4, <3>5, BumpStays DEF TypeOK
    <3>7. GcShape' /\ NothingLeft' /\ CopyOwned'
      BY <1>0, <2>1 DEF GcShape, NothingLeft, CopyOwned
    <3> QED BY <3>6, <3>7 DEF NatInv
  <2> QED BY <1>1, <2>2, <2>3, <2>4, SnatCases
<1>2. ASSUME NEW k \in DOMAIN rev, XdpReply(k) PROVE NatInv'
  <2>1. DOMAIN rev' = DOMAIN rev /\ rev' \in [DOMAIN rev -> Entry] /\ \A j \in DOMAIN rev : rev'[j].flow = rev[j].flow
    BY <1>0, <1>2, StampRev
  <2>2. UNCHANGED <<fwd, nextPort, now, gc, boots>> /\ out' = NIL
    BY <1>2 DEF XdpReply
  <2> QED BY <1>0, <2>1, <2>2 DEF NatInv, TypeOK, GcShape, NothingLeft, CopyOwned
<1>3. CASE Tick
  BY <1>0, <1>3, NatAssumption DEF Tick, NatInv, TypeOK, GcShape, NothingLeft, CopyOwned
<1>4. CASE GcSample \/ GcLock \/ (\E k \in gc.left : GcRead(k)) \/ GcEnd
  BY <1>4, CollectorShape
<1>5. CASE GcDecide
  <2>0. UNCHANGED <<nextPort, now, boots>> /\ out' = NIL
    BY <1>5 DEF GcDecide
  <2>1. GcShape' /\ gc'.phase = "scan" /\ gc'.left = gc.left /\ gc'.now = gc.now
    BY <1>0, <1>5 DEF GcDecide, GcShape
  <2>2. CASE UNCHANGED <<rev, fwd>>
    BY <1>0, <2>0, <2>1, <2>2 DEF NatInv, TypeOK, NothingLeft, CopyOwned
  <2>3. CASE fwd' = ForgetFlow(gc.val.flow) /\ rev' = Without(rev, {gc.key})
    <3>1. gc.key \notin gc.left
      BY <1>0, <1>5 DEF GcDecide, CopyOwned
    <3>2. /\ DOMAIN rev' = DOMAIN rev \ {gc.key} /\ DOMAIN fwd' = DOMAIN fwd \ {gc.val.flow}
          /\ \A j \in DOMAIN rev' : rev'[j] = rev[j]
          /\ \A g \in DOMAIN fwd' : fwd'[g] = fwd[g]
          /\ rev' = [j \in DOMAIN rev' |-> rev'[j]] /\ fwd' = [g \in DOMAIN fwd' |-> fwd'[g]]
      BY <2>3, CollectedMaps DEF ForgetFlow
    <3>3. DOMAIN rev' \subseteq Keys /\ rev' \in [DOMAIN rev' -> Entry]
      BY <1>0, <3>2 DEF TypeOK
    <3>4. DOMAIN fwd' \subseteq Flows /\ fwd' \in [DOMAIN fwd' -> Ports]
      BY <1>0, <3>2 DEF TypeOK
    <3>5. gc'.left \subseteq DOMAIN rev'
      BY <1>0, <2>1, <3>1, <3>2 DEF TypeOK
    <3>6. TypeOK'
      BY <1>0, <2>0, <2>1, <3>3, <3>4, <3>5 DEF TypeOK
    <3> QED BY <2>1, <3>6 DEF NatInv, NothingLeft, CopyOwned
  <2> QED BY <1>5, <2>2, <2>3 DEF GcDecide
<1>6. CASE Restart
  BY <1>0, <1>6, NatInit, NatAssumption DEF Restart, Resting, NatInv, TypeOK, GcShape, NothingLeft, CopyOwned, Ports
<1>7. CASE UNCHANGED vars
  BY <1>0, <1>7 DEF vars, NatInv, TypeOK, GcShape, NothingLeft, CopyOwned
<1> QED BY <1>1, <1>2, <1>3, <1>4, <1>5, <1>6, <1>7 DEF Next, Collect

\* The tables, the port counter and the collector's copy keep their types.
THEOREM TypesHold == Spec => []TypeOK
<1>1. NatInv => TypeOK
  BY DEF NatInv
<1> QED BY <1>1, NatInit, NatStep, PTL DEF Spec
-----------------------------------------------------------------------------
(***************************************************************************)
(* The two records of a flow's port.                                       *)
(***************************************************************************)

\* Sets grow by one element at most.
LEMMA OneMore ==
    ASSUME NEW S, IsFiniteSet(S), NEW b \in Nat, Cardinality(S) <= b, NEW x, NEW T, T \subseteq S \cup {x}
    PROVE  IsFiniteSet(T) /\ Cardinality(T) <= b + 1
<1>1. IsFiniteSet(S \cup {x}) /\ Cardinality(S \cup {x}) \in {Cardinality(S), Cardinality(S) + 1}
  BY FS_AddElement
<1>2. IsFiniteSet(T) /\ Cardinality(T) <= Cardinality(S \cup {x})
  BY <1>1, FS_Subset
<1>3. Cardinality(S) \in Nat /\ Cardinality(T) \in Nat
  BY <1>2, FS_CardinalityType
<1> QED BY <1>1, <1>2, <1>3

\* Sets that only lose elements stay within their bound.
LEMMA NoMore ==
    ASSUME NEW S, IsFiniteSet(S), NEW b \in Nat, Cardinality(S) <= b, NEW T, T \subseteq S
    PROVE  IsFiniteSet(T) /\ Cardinality(T) <= b
<1>1. IsFiniteSet(T) /\ Cardinality(T) <= Cardinality(S)
  BY FS_Subset
<1>2. Cardinality(S) \in Nat /\ Cardinality(T) \in Nat
  BY <1>1, FS_CardinalityType
<1> QED BY <1>1, <1>2

\* A flow's loose entries are finitely many, and all its entries are at most one more.
LEMMA EntriesBound ==
    ASSUME LooseBound, boots \in Nat, NEW f \in Flows
    PROVE  /\ IsFiniteSet(Loose(f)) /\ Cardinality(Loose(f)) <= boots
           /\ IsFiniteSet(Entries(f)) /\ Cardinality(Entries(f)) <= boots + 1
<1>1. IsFiniteSet(Entries(f)) /\ Cardinality(Loose(f)) <= boots
  BY DEF LooseBound
<1>2. IsFiniteSet(Loose(f))
  BY <1>1, FS_Subset DEF Loose
<1>3. \E x : Entries(f) \subseteq Loose(f) \cup {x}
  BY DEF Loose, Held
<1> QED BY <1>1, <1>2, <1>3, OneMore

\* A new entry, when one may have been evicted: it is the one its flow's port names.
LEMMA AllocatedLoose ==
    ASSUME LooseBound, boots \in Nat, NEW f \in Flows, NEW p, NEW old, Allocated(f, p, old), boots' = boots
    PROVE  LooseBound'
<1> DEFINE n == <<p, DstOf[f]>>
<1>n. n = <<p, DstOf[f]>>
  OBVIOUS
<1> HIDE DEF n
<1>1. /\ DOMAIN rev' = (DOMAIN rev \ old) \cup {n} /\ rev'[n].flow = f
      /\ \A k \in DOMAIN rev \ old : rev'[k] = rev[k]
  BY <1>n DEF Allocated, Put, Without
<1>2. /\ DOMAIN fwd' = DOMAIN fwd \cup {f} /\ fwd'[f] = p /\ f \notin DOMAIN fwd
      /\ \A g \in DOMAIN fwd : fwd'[g] = fwd[g]
  BY DEF Allocated, Put
<1> SUFFICES ASSUME NEW g \in Flows
             PROVE  IsFiniteSet(Entries(g)') /\ Cardinality(Loose(g)') <= boots
  BY DEF LooseBound
<1>3. /\ IsFiniteSet(Loose(g)) /\ Cardinality(Loose(g)) <= boots
      /\ IsFiniteSet(Entries(g)) /\ Cardinality(Entries(g)) <= boots + 1
  BY EntriesBound
<1>4. Entries(g)' \subseteq Entries(g) \cup {n}
  BY <1>1 DEF Entries
<1>5. IsFiniteSet(Entries(g)')
  BY <1>3, <1>4, FS_AddElement, FS_Subset
<1>6. CASE g = f
  <2>1. Held(g) = {} /\ Held(g)' = {n}
    BY <1>2, <1>6, <1>n DEF Held
  <2>2. Loose(g)' \subseteq Loose(g)
    BY <1>4, <2>1 DEF Loose
  <2> QED BY <1>3, <1>5, <2>2, NoMore
<1>7. CASE g # f
  <2>1. Held(g)' = Held(g)
    BY <1>2, <1>7 DEF Held
  <2>2. Entries(g)' \subseteq Entries(g)
    BY <1>1, <1>7 DEF Entries
  <2>3. Loose(g)' \subseteq Loose(g)
    BY <2>1, <2>2 DEF Loose
  <2> QED BY <1>3, <1>5, <2>3, NoMore
<1> QED BY <1>6, <1>7

\* Collecting an entry k of flow f: when k is a loose one, the entry of f's port, which
\* is forgotten with it, takes its place among the loose ones.
LEMMA CollectedLoose ==
    ASSUME LooseBound, boots \in Nat, boots' = boots, NEW f, NEW k \in DOMAIN rev, rev[k].flow = f,
           rev' = Without(rev, {k}), fwd' = Without(fwd, {f})
    PROVE  LooseBound'
<1>1. /\ DOMAIN rev' = DOMAIN rev \ {k} /\ DOMAIN fwd' = DOMAIN fwd \ {f}
      /\ \A j \in DOMAIN rev' : rev'[j] = rev[j]
      /\ \A g \in DOMAIN fwd' : fwd'[g] = fwd[g]
  BY CollectedMaps
<1> SUFFICES ASSUME NEW g \in Flows
             PROVE  IsFiniteSet(Entries(g)') /\ Cardinality(Loose(g)') <= boots
  BY DEF LooseBound
<1>2. /\ IsFiniteSet(Loose(g)) /\ Cardinality(Loose(g)) <= boots /\ IsFiniteSet(Entries(g))
  BY EntriesBound
<1>3. Entries(g)' = Entries(g) \ {k}
  BY <1>1 DEF Entries
<1>4. IsFiniteSet(Entries(g)')
  BY <1>2, <1>3, FS_Subset
<1>5. CASE g # f
  <2>1. Held(g)' = Held(g)
    BY <1>1, <1>5 DEF Held
  <2>2. Loose(g)' \subseteq Loose(g)
    BY <1>3, <2>1 DEF Loose
  <2> QED BY <1>2, <1>4, <2>2, NoMore
<1>6. CASE g = f
  <2>1. Held(g)' = {} /\ k \in Entries(g)
    BY <1>1, <1>6 DEF Held, Entries
  <2>2. Loose(g)' = Entries(g) \ {k}
    BY <1>3, <2>1 DEF Loose
  <2>3. CASE k \in Held(g) \/ Held(g) = {}
    <3>1. Held(g) \subseteq {k}
      BY <2>3 DEF Held
    <3>2. Loose(g)' \subseteq Loose(g)
      BY <2>2, <3>1 DEF Loose
    <3> QED BY <1>2, <1>4, <3>2, NoMore
  <2>4. CASE k \notin Held(g) /\ Held(g) # {}
    <3>1. k \in Loose(g)
      BY <2>1, <2>4 DEF Loose
    <3>2. /\ IsFiniteSet(Loose(g) \ {k}) /\ Cardinality(Loose(g) \ {k}) = Cardinality(Loose(g)) - 1
      BY <1>2, <3>1, FS_RemoveElement
    <3>3. Cardinality(Loose(g)) \in Nat /\ Cardinality(Loose(g) \ {k}) \in Nat
      BY <1>2, <3>2, FS_CardinalityType
    <3>4. boots - 1 \in Nat /\ Cardinality(Loose(g) \ {k}) <= boots - 1
      BY <1>2, <3>2, <3>3
    <3>5. PICK h : Held(g) = {h}
      BY <2>4 DEF Held
    <3>6. Loose(g)' \subseteq (Loose(g) \ {k}) \cup {h}
      BY <2>2, <3>5 DEF Loose
    <3>7. Cardinality(Loose(g)') <= (boots - 1) + 1
      BY <3>2, <3>4, <3>6, OneMore
    <3> QED BY <1>4, <3>7
  <2> QED BY <2>3, <2>4
<1> QED BY <1>5, <1>6

\* A new entry, when none is evicted: the key was nobody's.
LEMMA AllocatedBacked ==
    ASSUME Backed, RoomLeft, NEW f \in Flows, NEW p, NEW old, Allocated(f, p, old)
    PROVE  Backed'
<1> DEFINE n == <<p, DstOf[f]>>
<1>n. n = <<p, DstOf[f]>>
  OBVIOUS
<1> HIDE DEF n
<1>0. old = {}
  BY DEF Allocated, Evicted, RoomLeft
<1>1. /\ n \notin DOMAIN rev /\ DOMAIN rev' = DOMAIN rev \cup {n} /\ rev'[n] = [flow |-> f, seen |-> now]
      /\ \A k \in DOMAIN rev : rev'[k] = rev[k]
  BY <1>0, <1>n DEF Allocated, Put, Without
<1>2. /\ DOMAIN fwd' = DOMAIN fwd \cup {f} /\ fwd'[f] = p /\ f \notin DOMAIN fwd
      /\ \A g \in DOMAIN fwd : fwd'[g] = fwd[g]
  BY DEF Allocated, Put
<1> SUFFICES ASSUME NEW g \in DOMAIN fwd'
             PROVE  <<fwd'[g], DstOf[g]>> \in DOMAIN rev' /\ rev'[<<fwd'[g], DstOf[g]>>].flow = g
  BY DEF Backed
<1>3. CASE g = f
  BY <1>1, <1>2, <1>3, <1>n
<1>4. CASE g \in DOMAIN fwd
  <2> DEFINE k == <<fwd[g], DstOf[g]>>
  <2>1. k \in DOMAIN rev /\ rev[k].flow = g /\ <<fwd'[g], DstOf[g]>> = k
    BY <1>2, <1>4 DEF Backed
  <2> HIDE DEF k
  <2> QED BY <1>1, <2>1
<1> QED BY <1>2, <1>3, <1>4

\* The collector takes the entry and its flow's port together.
LEMMA CollectedOwners ==
    ASSUME NatInv, GcDecide
    PROVE  (Backed => Backed') /\ (LooseBound => LooseBound')
<1>1. boots' = boots /\ boots \in Nat
  BY NatAssumption DEF GcDecide, NatInv, TypeOK
<1>2. CASE UNCHANGED <<rev, fwd>>
  BY <1>1, <1>2 DEF Backed, LooseBound, Loose, Entries, Held
<1>3. CASE fwd' = ForgetFlow(gc.val.flow) /\ rev' = Without(rev, {gc.key})
  <2> DEFINE f == gc.val.flow
             k == gc.key
  <2>1. k \in DOMAIN rev /\ rev[k].flow = f
    BY DEF NatInv, CopyOwned, GcDecide
  <2>0. rev' = Without(rev, {k}) /\ fwd' = Without(fwd, {f})
    BY <1>3 DEF ForgetFlow
  <2> HIDE DEF f, k
  <2>2. /\ DOMAIN rev' = DOMAIN rev \ {k} /\ DOMAIN fwd' = DOMAIN fwd \ {f}
        /\ \A j \in DOMAIN rev' : rev'[j] = rev[j]
        /\ \A g \in DOMAIN fwd' : fwd'[g] = fwd[g]
    BY <2>0, CollectedMaps
  <2>3. ASSUME Backed PROVE Backed'
    <3> SUFFICES ASSUME NEW g \in DOMAIN fwd'
                 PROVE  <<fwd'[g], DstOf[g]>> \in DOMAIN rev' /\ rev'[<<fwd'[g], DstOf[g]>>].flow = g
      BY DEF Backed
    <3> DEFINE j == <<fwd[g], DstOf[g]>>
    <3>1. j \in DOMAIN rev /\ rev[j].flow = g /\ <<fwd'[g], DstOf[g]>> = j /\ g # f
      BY <2>2, <2>3 DEF Backed
    <3> HIDE DEF j
    <3> QED BY <2>1, <2>2, <3>1
  <2>4. ASSUME LooseBound PROVE LooseBound'
    BY <1>1, <2>0, <2>1, <2>4, CollectedLoose
  <2> QED BY <2>3, <2>4
<1> QED BY <1>2, <1>3 DEF GcDecide

\* A restart: the entry each port named is now loose.
LEMMA RestartLoose ==
    ASSUME LooseBound, boots \in Nat, Restart
    PROVE  LooseBound'
<1>1. rev' = rev /\ DOMAIN fwd' = {} /\ boots' = boots + 1
  BY DEF Restart
<1> SUFFICES ASSUME NEW g \in Flows
             PROVE  IsFiniteSet(Entries(g)') /\ Cardinality(Loose(g)') <= boots + 1
  BY <1>1 DEF LooseBound
<1>2. Entries(g)' = Entries(g) /\ Held(g)' = {}
  BY <1>1 DEF Entries, Held
<1>3. Loose(g)' = Entries(g)
  BY <1>2 DEF Loose
<1> QED BY <1>2, <1>3, EntriesBound

\* Every step keeps LooseBound, and Backed as long as nothing is evicted.
LEMMA OwnersStep ==
    ASSUME NatInv, [Next]_vars
    PROVE  (LooseBound => LooseBound') /\ (Backed /\ RoomLeft => Backed')
<1>0. boots \in Nat
  BY NatAssumption DEF NatInv, TypeOK
<1>1. ASSUME NEW f \in Flows, ApplySNAT(f)
      PROVE  (LooseBound => LooseBound') /\ (Backed /\ RoomLeft => Backed')
  <2>0. boots' = boots
    BY <1>1, SnatCases
  <2>1. CASE UNCHANGED <<rev, fwd>>
    BY <2>0, <2>1 DEF LooseBound, Loose, Entries, Held, Backed
  <2>2. ASSUME NEW p, NEW old, Allocated(f, p, old)
        PROVE  (LooseBound => LooseBound') /\ (Backed /\ RoomLeft => Backed')
    BY <1>0, <2>0, <2>2, AllocatedLoose, AllocatedBacked
  <2> QED BY <1>1, <2>1, <2>2, SnatCases
<1>2. ASSUME NEW k \in DOMAIN rev, XdpReply(k) PROVE (LooseBound => LooseBound') /\ (Backed => Backed')
  <2>1. DOMAIN rev' = DOMAIN rev /\ \A j \in DOMAIN rev : rev'[j].flow = rev[j].flow
    BY <1>2, StampRev DEF NatInv
  <2>2. fwd' = fwd /\ boots' = boots
    BY <1>2 DEF XdpReply
  <2>3. \A f \in Flows : Entries(f)' = Entries(f) /\ Loose(f)' = Loose(f)
    BY <2>1, <2>2 DEF Entries, Loose, Held
  <2> QED BY <2>1, <2>2, <2>3 DEF LooseBound, Backed
<1>3. CASE Tick \/ GcSample \/ GcLock \/ (\E k \in gc.left : GcRead(k)) \/ GcEnd \/ UNCHANGED vars
  <2>1. UNCHANGED <<rev, fwd, boots>>
    BY <1>3 DEF Tick, GcSample, GcLock, GcRead, GcEnd, vars
  <2> QED BY <2>1 DEF LooseBound, Loose, Entries, Held, Backed
<1>4. CASE GcDecide
  BY <1>4, CollectedOwners
<1>5. CASE Restart
  <2>1. DOMAIN fwd' = {}
    BY <1>5 DEF Restart
  <2> QED BY <1>0, <1>5, <2>1, RestartLoose DEF Backed
<1> QED BY <1>1, <1>2, <1>3, <1>4, <1>5 DEF Next, Collect

\* A flow has at most one reverse entry more than there were restarts over the pinned map
\* (AllocPort's fast path, gc's paired deletes, OpenNatTable's empty t.fwd), also when
\* entries are evicted: it cannot use up the port range by being collected and
\* allocated again.
THEOREM PortsAreBounded == Spec => []PortsPerFlow
<1>1. Init => LooseBound
  <2> SUFFICES ASSUME Init, NEW f \in Flows PROVE IsFiniteSet(Entries(f)) /\ Cardinality(Loose(f)) <= boots
    BY DEF LooseBound
  <2>1. Entries(f) = {} /\ Loose(f) = {} /\ boots = 0
    BY DEF Init, Entries, Loose
  <2> QED BY <2>1, FS_EmptySet
<1>2. NatInv /\ LooseBound => PortsPerFlow
  <2>1. NatInv => boots \in Nat
    BY NatAssumption DEF NatInv, TypeOK
  <2> QED BY <2>1, EntriesBound DEF PortsPerFlow, Entries
<1>3. NatInv /\ LooseBound /\ [Next]_vars => LooseBound'
  BY OwnersStep
<1> QED BY <1>1, <1>2, <1>3, NatInit, NatStep, PTL DEF Spec

\* As long as the LRU map evicts nothing, two flows to one destination never share
\* a WAN port, over collections and restarts (AllocPort's free-port search looks at
\* the reverse map, which the flows own their ports in).
THEOREM FlowsStayApart == Spec /\ []RoomLeft => []FlowsApart
<1>1. Init => Backed
  BY DEF Init, Backed
<1>2. Backed => FlowsApart
  BY DEF Backed, FlowsApart
<1>3. NatInv /\ Backed /\ RoomLeft /\ [Next]_vars => Backed'
  BY OwnersStep
<1> QED BY <1>1, <1>2, <1>3, NatInit, NatStep, PTL DEF Spec

\* As long as the LRU map evicts nothing, a packet that leaves with a WAN port has
\* the reverse entry that sends its reply back to its own flow (ApplySNAT).
THEOREM RepliesComeBack == Spec /\ []RoomLeft => []ReturnPath
<1>1. Init => Backed /\ ReturnPath
  BY DEF Init, Backed, ReturnPath
<1>2. NatInv /\ Backed /\ RoomLeft /\ [Next]_vars => Backed'
  BY OwnersStep
<1>3. NatInv /\ Backed /\ Backed' /\ ReturnPath /\ [Next]_vars => ReturnPath'
  <2> SUFFICES ASSUME NatInv, Backed, Backed', ReturnPath, [Next]_vars PROVE ReturnPath'
    OBVIOUS
  <2>1. ASSUME NEW f \in Flows, ApplySNAT(f) PROVE ReturnPath'
    <3>1. CASE f \in DOMAIN fwd /\ out' = [flow |-> f, port |-> fwd[f]] /\ UNCHANGED <<rev, fwd, nextPort>>
      BY <3>1 DEF Backed, ReturnPath
    <3>2. ASSUME NEW p, NEW old, Allocated(f, p, old) PROVE ReturnPath'
      <4>1. f \in DOMAIN fwd' /\ fwd'[f] = p /\ out' = [flow |-> f, port |-> p]
        BY <3>2 DEF Allocated, Put
      <4> QED BY <4>1 DEF Backed, ReturnPath
    <3>3. CASE out' = [flow |-> f, port |-> NIL]
      BY <3>3 DEF ReturnPath
    <3> QED BY <2>1, <3>1, <3>2, <3>3, SnatCases
  <2>2. CASE UNCHANGED vars
    BY <2>2 DEF vars, ReturnPath
  <2>3. CASE out' = NIL
    BY <2>3 DEF ReturnPath
  <2>4. CASE Tick \/ Collect \/ Restart \/ \E k \in DOMAIN rev : XdpReply(k)
    BY <2>3, <2>4 DEF Tick, Collect, Restart, XdpReply, GcSample, GcLock, GcRead, GcDecide, GcEnd
  <2> QED BY <2>1, <2>2, <2>4 DEF Next
<1> QED BY <1>1, <1>2, <1>3, NatInit, NatStep, PTL DEF Spec
=============================================================================
