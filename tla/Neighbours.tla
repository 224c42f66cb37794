----------------------------- MODULE Neighbours -----------------------------
(***************************************************************************)
(* The next-hop table of one NIC (xdp/conn.go): a copy-on-write map from   *)
(* IPv4 address to MAC. Every dispatch goroutine learns from the frames it *)
(* receives, a forward writer learns from the kernel's ARP table, and a    *)
(* probe goroutine, at most one per address, waits for the kernel to       *)
(* resolve. Readers load the map without a lock.                           *)
(***************************************************************************)
EXTENDS Integers, Sequences

CONSTANTS
    Addrs,        \* addresses on the NIC's link; an address also names its probe goroutine
    Macs,
    NoMac,        \* no entry
    Dispatchers,  \* the goroutines of dispatchSocket
    Writers,      \* forward writers that egress through this NIC
    ProbeTries,   \* looks at the ARP table per probe (5)
    MaxLearn,     \* bound: frames with a new mapping that dispatchers receive
    MaxForget,    \* bound: entries the kernel's table loses; after the last one it gets none
    ArpAddrs,     \* bound: addresses that come into the kernel's table
    Free          \* nobody holds neighMu

ASSUME NeighboursAssumption ==
    /\ NoMac \notin Macs
    /\ Addrs \cap Writers = {} /\ Addrs \cap Dispatchers = {} /\ Writers \cap Dispatchers = {}
    /\ Free \notin Addrs \cup Writers \cup Dispatchers
    /\ ProbeTries \in Nat \ {0} /\ MaxLearn \in Nat /\ MaxForget \in Nat
    /\ ArpAddrs \subseteq Addrs

VARIABLES
    neigh,       \* the map: address -> MAC or NoMac
    neighMu,     \* holder of neighMu, or Free
    lrn,         \* lrn[l]: learner l's call of learnNeighbour
    arpPending,  \* addresses with a probe under way
    tries,       \* tries[a]: looks the probe of a has left
    arp,         \* the kernel's ARP table (external)
    news,        \* frames with a mapping received so far
    lost,        \* entries the kernel has dropped so far
    stored       \* history: the mapping last stored for each address

nvars == <<neigh, neighMu, lrn, arpPending, tries, arp, news, lost, stored>>

Learners == Dispatchers \cup Writers \cup Addrs
Table == [Addrs -> Macs \cup {NoMac}]
Empty == [a \in Addrs |-> NoMac]
Off == [pc |-> "off"]

NInit ==
    /\ neigh = Empty /\ stored = Empty /\ arp = Empty
    /\ neighMu = Free
    /\ lrn = [l \in Learners |-> Off]
    /\ arpPending = {} /\ tries = [a \in Addrs |-> 0]
    /\ news = 0 /\ lost = 0
-----------------------------------------------------------------------------
(***************************************************************************)
(* learnNeighbour: a lock-free look, then the mutex, the map loaded and    *)
(* looked at again, its clone with the new entry stored.                   *)
(***************************************************************************)

\* Start a call; nothing to do when the entry is already there.
BeginLearn(l, a, m) ==
    lrn' = IF neigh[a] = m THEN lrn ELSE [lrn EXCEPT ![l] = [pc |-> "lock", addr |-> a, mac |-> m]]

\* Mutant: the clone is made without taking neighMu.
NoMutex == TRUE

MuFree == neighMu = Free

\* Under the lock: another goroutine has learned it, or clone what is there now.
LockAndLoad(l) ==
    /\ lrn[l].pc = "lock" /\ MuFree
    /\ IF neigh[lrn[l].addr] = lrn[l].mac
       THEN lrn' = [lrn EXCEPT ![l] = Off] /\ UNCHANGED neighMu
       ELSE /\ lrn' = [lrn EXCEPT ![l] = [pc |-> "store", addr |-> @.addr, mac |-> @.mac, old |-> neigh]]
            /\ neighMu' = l
    /\ UNCHANGED <<neigh, arpPending, tries, arp, news, lost, stored>>

StoreClone(l) ==
    /\ lrn[l].pc = "store"
    /\ neigh' = [lrn[l].old EXCEPT ![lrn[l].addr] = lrn[l].mac]
    /\ stored' = [stored EXCEPT ![lrn[l].addr] = lrn[l].mac]
    /\ neighMu' = Free
    /\ lrn' = [lrn EXCEPT ![l] = Off]
    /\ UNCHANGED <<arpPending, tries, arp, news, lost>>

\* A dispatch goroutine receives an IPv4 frame: its source address and MAC.
LearnFrame(d, a, m) ==
    /\ lrn[d] = Off /\ news < MaxLearn
    /\ news' = news + 1
    /\ BeginLearn(d, a, m)
    /\ UNCHANGED <<neigh, neighMu, arpPending, tries, arp, lost, stored>>
-----------------------------------------------------------------------------
(***************************************************************************)
(* The probe: up to ProbeTries looks at the kernel's table, 200 ms apart.  *)
(* Its deferred Delete lets the next cold packet start another.            *)
(***************************************************************************)

\* LoadOrStore: start the probe of a unless one is under way.
StartProbe(a) ==
    /\ arpPending' = arpPending \cup {a}
    /\ tries' = IF a \in arpPending THEN tries ELSE [tries EXCEPT ![a] = ProbeTries]

ProbeLook(a) ==
    /\ a \in arpPending /\ tries[a] > 0 /\ lrn[a] = Off
    /\ IF arp[a] # NoMac
       THEN BeginLearn(a, a, arp[a]) /\ tries' = [tries EXCEPT ![a] = 0]
       ELSE tries' = [tries EXCEPT ![a] = @ - 1] /\ UNCHANGED lrn
    /\ UNCHANGED <<neigh, neighMu, arpPending, arp, news, lost, stored>>

\* Mutant: the pending mark is removed only when the address was resolved.
ForgetIfFound(a) == IF neigh[a] # NoMac THEN arpPending' = arpPending \ {a} ELSE UNCHANGED arpPending

\* defer c.arpPending.Delete(a)
ForgetProbe(a) == arpPending' = arpPending \ {a}

ProbeReturn(a) ==
    /\ a \in arpPending /\ tries[a] = 0 /\ lrn[a] = Off
    /\ ForgetProbe(a)
    /\ UNCHANGED <<neigh, neighMu, lrn, tries, arp, news, lost, stored>>
-----------------------------------------------------------------------------
(***************************************************************************)
(* The kernel's table: an answer to a probe or a packet; an entry ages.    *)
(***************************************************************************)

KernelLearns(a, m) ==
    /\ arp[a] = NoMac /\ lost < MaxForget /\ arp' = [arp EXCEPT ![a] = m]
    /\ UNCHANGED <<neigh, neighMu, lrn, arpPending, tries, news, lost, stored>>

KernelForgets(a) ==
    /\ arp[a] # NoMac /\ lost < MaxForget
    /\ lost' = lost + 1
    /\ arp' = [arp EXCEPT ![a] = NoMac]
    /\ UNCHANGED <<neigh, neighMu, lrn, arpPending, tries, news, stored>>

\* What a goroutine that has begun goes on with.
Goroutines ==
    \/ \E l \in Learners : LockAndLoad(l) \/ StoreClone(l)
    \/ \E a \in Addrs : ProbeLook(a) \/ ProbeReturn(a)

Arrivals == \E d \in Dispatchers, a \in Addrs, m \in Macs : LearnFrame(d, a, m)

Kernel ==
    \/ \E a \in Addrs : KernelForgets(a)
    \/ \E a \in ArpAddrs, m \in Macs : KernelLearns(a, m)

NNext == Goroutines \/ Arrivals \/ Kernel
-----------------------------------------------------------------------------
NTypeOK ==
    /\ neigh \in Table /\ stored \in Table /\ arp \in Table
    /\ neighMu \in Learners \cup {Free}
    /\ lrn \in [Learners -> {Off} \cup [pc : {"lock"}, addr : Addrs, mac : Macs]
                                  \cup [pc : {"store"}, addr : Addrs, mac : Macs, old : Table]]
    /\ arpPending \subseteq Addrs /\ tries \in [Addrs -> 0..ProbeTries]
    /\ news \in 0..MaxLearn /\ lost \in 0..MaxForget

\* Nothing learned is lost: the map holds for every address what was last stored for
\* it, however the clones of concurrent learners interleave.
NeighExact == neigh = stored
=============================================================================
