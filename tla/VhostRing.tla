------------------------------ MODULE VhostRing ------------------------------
(***************************************************************************)
(* The vhost-net writer (utility/vhost.go) and the batches of the          *)
(* connections that share it (utility/tun_vhost.go): a split virtqueue of  *)
(* N entries with 16-bit indexes that wrap. The writer fills buffers and   *)
(* the avail ring, publishes its index and kicks; the worker, which is the *)
(* kernel's, reads what is published and advances used.idx, by which the   *)
(* writer knows what it may overwrite.                                     *)
(***************************************************************************)
EXTENDS Integers, Sequences

CONSTANTS
    Batches,    \* TunVhostBatch values: one per connection's writer goroutine
    N,          \* ring entries (a power of two; 256)
    IdxWidth,   \* values of a uint16 ring index (2^16)
    HeadWidth,  \* values of the uint32 freeHead (2^32)
    MaxPkts,    \* bound: packets offered
    Large,      \* packets that fit a batch's scratch space but not a ring buffer
    Huge,       \* packets larger than the scratch space
    Free        \* nobody holds mu

ASSUME RingAssumption ==
    /\ N \in Nat \ {0}
    /\ IdxWidth \in Nat /\ IdxWidth % N = 0 /\ IdxWidth > N
    /\ HeadWidth \in Nat \ {0} /\ HeadWidth % N = 0
    /\ MaxPkts \in Nat /\ Large \subseteq Nat /\ Huge \subseteq Nat
    /\ Free \notin Batches

VARIABLES
    availIdx,   \* the writer's running index
    lastUsed,   \* the writer's copy of used.idx
    freeHead,   \* next buffer, round-robin
    buf,        \* slot -> packet in the buffer its descriptor points to
    avail,      \* the avail ring: position -> slot
    mu,         \* holder of mu between publishing and kicking, or Free
    published,  \* avail.idx in shared memory
    kicked,     \* the kick eventfd is readable
    awake,      \* the worker is running
    lastAvail,  \* the worker's index
    usedIdx,    \* used.idx in shared memory
    phase,      \* phase[b]: where batch b is in Add or Flush
    hold,       \* hold[b]: the packet b is adding
    queued,     \* queued[b]: packets b submitted since its last flush
    next,       \* number of the next packet offered
    drops,      \* tunVhostDrops
    out         \* history: packets the worker handed to the tap, in order

writer == <<availIdx, lastUsed, freeHead, buf, avail>>
worker == <<awake, lastAvail, usedIdx, out>>
vars == <<writer, worker, mu, published, kicked, phase, hold, queued, next, drops>>

Slots == 0..N - 1
Pkts == 1..MaxPkts
None == 0

\* The state setup() leaves: indexes zero (SET_VRING_BASE), rings zeroed by mmap.
Init ==
    /\ availIdx = 0 /\ lastUsed = 0 /\ freeHead = 0
    /\ buf = [s \in Slots |-> None] /\ avail = [s \in Slots |-> 0]
    /\ mu = Free /\ published = 0 /\ kicked = FALSE
    /\ awake = FALSE /\ lastAvail = 0 /\ usedIdx = 0
    /\ phase = [b \in Batches |-> "idle"]
    /\ hold = [b \in Batches |-> None]
    /\ queued = [b \in Batches |-> 0]
    /\ next = 1 /\ drops = 0 /\ out = <<>>
-----------------------------------------------------------------------------
(***************************************************************************)
(* Submit: one critical section.                                           *)
(***************************************************************************)

\* Mutant: the indexes are compared as numbers, not modulo 2^16.
NoWrap(used) == availIdx - used >= N

\* availIdx - lastUsed >= n in uint16 arithmetic.
RingFull(used) == (availIdx - used) % IdxWidth >= N

\* Mutant: the slot follows the used index, as if entries were returned one by one.
SlotOfUsed == usedIdx % N

NextSlot == freeHead % N

\* Fill the buffer and its descriptor, put the slot into the avail ring, bump the local index.
Post(x) ==
    /\ buf' = [buf EXCEPT ![NextSlot] = x]
    /\ avail' = [avail EXCEPT ![availIdx % N] = NextSlot]
    /\ availIdx' = (availIdx + 1) % IdxWidth
    /\ freeHead' = (freeHead + 1) % HeadWidth

\* Submit after Reclaim: full, too large for a buffer (reported as taken), or posted.
SubmitRefused == RingFull(usedIdx) /\ lastUsed' = usedIdx /\ UNCHANGED <<availIdx, freeHead, buf, avail>>

SubmitTaken(x) ==
    /\ ~RingFull(usedIdx)
    /\ lastUsed' = usedIdx
    /\ IF x \in Large THEN UNCHANGED <<availIdx, freeHead, buf, avail>> ELSE Post(x)
-----------------------------------------------------------------------------
(***************************************************************************)
(* A batch: Add (submit; when full flush and submit once more) and Flush.  *)
(* Flush holds mu over two steps the worker can run between: the publish   *)
(* and the kick.                                                           *)
(***************************************************************************)

Goto(b, p) == phase' = [phase EXCEPT ![b] = p]

Taken(b) ==
    /\ queued' = [queued EXCEPT ![b] = @ + 1]
    /\ hold' = [hold EXCEPT ![b] = None]
    /\ Goto(b, "idle")
    /\ UNCHANGED drops

Add(b) ==
    /\ phase[b] = "idle" /\ mu = Free /\ next <= MaxPkts /\ next \notin Huge
    /\ next' = next + 1
    /\ \/ SubmitTaken(next) /\ Taken(b)
       \/ /\ SubmitRefused
          /\ hold' = [hold EXCEPT ![b] = next]
          /\ Goto(b, "full")
          /\ UNCHANGED <<queued, drops>>
    /\ UNCHANGED <<worker, mu, published, kicked>>

AddHuge(b) ==
    /\ phase[b] = "idle" /\ next <= MaxPkts /\ next \in Huge
    /\ next' = next + 1 /\ drops' = drops + 1
    /\ UNCHANGED <<writer, worker, mu, published, kicked, phase, hold, queued>>

Retry(b) ==
    /\ phase[b] = "retry" /\ mu = Free
    /\ \/ SubmitTaken(hold[b]) /\ Taken(b)
       \/ /\ SubmitRefused
          /\ drops' = drops + 1
          /\ hold' = [hold EXCEPT ![b] = None]
          /\ Goto(b, "idle")
          /\ UNCHANGED queued
    /\ UNCHANGED <<worker, mu, published, kicked, next>>

\* Flush of a batch that has packets, or of Add on a full ring: the first half.
Publish(b) ==
    /\ mu = Free
    /\ \/ phase[b] = "idle" /\ queued[b] > 0 /\ Goto(b, "kick")
       \/ phase[b] = "full" /\ Goto(b, "kickfull")
    /\ mu' = b
    /\ published' = availIdx
    /\ UNCHANGED <<writer, worker, kicked, hold, queued, next, drops>>

\* Mutant: no kick when entries were used since the last Submit, as the worker must be running.
KickUnlessBusy == kicked' = IF usedIdx = lastUsed THEN TRUE ELSE kicked

\* The write to kickFd.
Signal == kicked' = TRUE

Kick(b) ==
    /\ mu = b
    /\ Signal
    /\ mu' = Free
    /\ \/ phase[b] = "kick" /\ Goto(b, "idle") /\ queued' = [queued EXCEPT ![b] = 0]
       \/ phase[b] = "kickfull" /\ Goto(b, "retry") /\ UNCHANGED queued
    /\ UNCHANGED <<writer, worker, published, hold, next, drops>>
-----------------------------------------------------------------------------
(***************************************************************************)
(* The worker: woken by the eventfd, takes one published entry after the   *)
(* other, reports them as used, sleeps when there are none.                *)
(***************************************************************************)

Wake ==
    /\ ~awake /\ kicked
    /\ awake' = TRUE /\ kicked' = FALSE
    /\ UNCHANGED <<writer, lastAvail, usedIdx, out, mu, published, phase, hold, queued, next, drops>>

TakeEntry ==
    /\ awake /\ lastAvail # published
    /\ out' = Append(out, buf[avail[lastAvail % N]])
    /\ lastAvail' = (lastAvail + 1) % IdxWidth
    /\ UNCHANGED <<writer, awake, usedIdx, mu, published, kicked, phase, hold, queued, next, drops>>

ReportUsed ==
    /\ awake /\ usedIdx # lastAvail
    /\ usedIdx' = lastAvail
    /\ UNCHANGED <<writer, awake, lastAvail, out, mu, published, kicked, phase, hold, queued, next, drops>>

Sleep ==
    /\ awake /\ lastAvail = published /\ usedIdx = lastAvail
    /\ awake' = FALSE
    /\ UNCHANGED <<writer, lastAvail, usedIdx, out, mu, published, kicked, phase, hold, queued, next, drops>>

Worker == Wake \/ TakeEntry \/ ReportUsed \/ Sleep

Next ==
    \/ \E b \in Batches : Add(b) \/ AddHuge(b) \/ Retry(b) \/ Publish(b) \/ Kick(b)
    \/ Worker

\* The worker is a kernel thread; a writer goroutine ends its round with Flush and
\* does not stop inside Add. Nothing makes a client send.
Fairness ==
    /\ WF_vars(Wake) /\ WF_vars(TakeEntry) /\ WF_vars(ReportUsed) /\ WF_vars(Sleep)
    /\ \A b \in Batches : SF_vars(Publish(b)) /\ WF_vars(Kick(b)) /\ SF_vars(Retry(b))

Spec == Init /\ [][Next]_vars /\ Fairness
-----------------------------------------------------------------------------
TypeOK ==
    /\ availIdx \in 0..IdxWidth - 1 /\ lastUsed \in 0..IdxWidth - 1
    /\ lastAvail \in 0..IdxWidth - 1 /\ usedIdx \in 0..IdxWidth - 1 /\ published \in 0..IdxWidth - 1
    /\ freeHead \in 0..HeadWidth - 1
    /\ buf \in [Slots -> Pkts \cup {None}] /\ avail \in [Slots -> Slots]
    /\ mu \in Batches \cup {Free} /\ kicked \in BOOLEAN /\ awake \in BOOLEAN
    /\ phase \in [Batches -> {"idle", "full", "kick", "kickfull", "retry"}]
    /\ hold \in [Batches -> Pkts \cup {None}] /\ queued \in [Batches -> Nat]
    /\ next \in 1..MaxPkts + 1 /\ drops \in Nat /\ out \in Seq(Pkts)

\* Entries from index i up to index j, as the ring holds them.
Between(i, j) == [k \in 1..(j - i) % IdxWidth |-> buf[avail[(i + k - 1) % N]]]

\* The indexes chase each other and never lap: used, taken, published, posted, within N.
IndexOrder ==
    LET Lead(i) == (i - usedIdx) % IdxWidth
    IN  /\ Lead(lastAvail) <= Lead(published)
        /\ Lead(published) <= Lead(availIdx)
        /\ Lead(availIdx) <= N

\* The ring is a FIFO: what the worker hands to the tap is what was posted, in that
\* order and once, whatever the indexes wrap to; no buffer is written over before the
\* worker has read it (the queue below is read from the ring itself), and a packet
\* refused twice is counted.
Fifo == INSTANCE LossyFifo WITH
    Items <- Pkts, queue <- Between(lastAvail, availIdx), out <- out, drops <- drops

RingIsFifo == Fifo!Spec

\* No posted entry stays behind: whoever posted it, it is published, the worker is
\* awake to see it, and it reaches the tap.
RingEmpties == (lastAvail # availIdx) ~> (lastAvail = availIdx)
=============================================================================
