# TLA+ models of tmasqued

`tmasqued` is the server of a MASQUE VPN: clients open CONNECT-IP tunnels over QUIC, get a
/32 and a set of routes, and their packets are NATed to the WAN and back. These modules
model the parts of it that keep state and are hard to test: who holds which address and
right, which tunnel a packet is sent down, which port a flow is translated to, in which
order the segments of an inner TCP flow leave, how frames pass the AF_XDP sockets and the
virtqueue, and what the daemon does to the machine from boot to shutdown. Paths below are relative to the repository
root, where the Go code lives in `src/`.

## Inventory

| Part | State | Operations | Hard about it |
|---|---|---|---|
| Control plane: `src/repository`, `src/management.go`, `src/service`, `src/migration`, `src/db` | SQLite tables clients, roles, resources, clients_roles, roles_resources, dhcp | create (batch), rename, delete, link, unlink, reset the pool; a connecting tunnel takes an address | failure or crash inside a batch, address ranges that shrink and merge, row ids given out again, names as ties between rows |
| Tunnel handler: `handleConn` in `src/main.go` | `ipToTunChan`, a channel, three goroutines and an error channel per tunnel | set up, read, write, tear down | reconnects overlapping teardown, sends racing a close, early returns, goroutines waiting for each other |
| Session table: `src/xdp/tunnel.go` | inner address to bonded group of sessions | Register, Deliver, RemoveSession | the same, under another lock |
| Source NAT: `src/xdp/nat.go`, `snat.go`, `xdp.c`, `loader.go` | `fwd` (flow to port) in the process, reverse entries in a pinned LRU BPF map | AllocPort, reply in XDP, garbage collection, restart | two copies of one table; the kernel changes one of them concurrently, evicts, and keeps it over restarts |
| Resequencer: `src/utility/reseq.go` | per flow: next sequence number, buffered segments | Push, FlushExpired | loss, duplicates, wrap-around, a busy flow, overlapping retransmissions |
| Forward batch: `src/utility/forward_batch.go`, `tun_gso.go`, `socket.go` | open super-frames per flow, socket batch | Add, Flush, Close, from the writer's loop | one flow over two ways out, cut boundaries, slots and batches at their limits |
| AF_XDP receive: `src/xdp/conn.go`, `multiconn.go` | receive and fill rings, a shard per queue, one notification token per NIC, merged channel, NIC of each client | dispatch, ReadFrom, rxLoop, Close | lost wake-ups, a full shard, memory given back before it is used, close |
| AF_XDP transmit: `conn.go`, `txpump.go`, `utility/xdp_batch.go` | neighbour map, probes, per-queue channel, pump batch, descriptors | learn, probe, WriteTo, WriteBatch, Add, Flush, Submit | copy-on-write by several goroutines, one flow on two paths, descriptors running out, close |
| Other egresses: `uring.go`, `vhost.go`, `tun_napi.go`, `packet_tx.go` in `src/utility` | rings | Submit, Flush | ring indexes that wrap, the kick, partial submission |
| Configuration: `src/config` | settings in force, inotify watch | load, watch, re-arm, reload | the watch belongs to an inode, editors replace it |
| Boot and shutdown: `src/main.go`, `src/migration`, `src/xdp/loader.go`, `scripts/` | MTU and offloads of every NIC with their files, XDP links, migration record, iptables rules | script 004, migrate, attach, post-up, signal, tun failure, pre-down, restore | kills between any two commands, two goroutines that both shut down, main returning meanwhile |

The parts meet like this. `/vpn` calls `AssignIPToClient` (control plane), registers the
tunnel in the session table and in `ipToTunChan`, and starts its goroutines. Upload packets
go reader -> `pktChan` -> resequencer -> SNAT -> forward batch. Download packets come either
through the XDP program, which reverses the NAT and hands them to `SessionTable.Deliver`, or
through the TUN read loop and `ipToTunChan`; both end in the tunnel's `tunChan`. A packet for
another VPN client goes from one client's writer straight to the other's `tunChan`. Below
them, `Conn` reads QUIC frames from the NICs for quic-go and hands NAT returns to the session
table; QUIC's answers and, on the AF_XDP egress, the forward batches go to its transmit pumps.

What makes each part correct: addresses are neither lost nor doubled and rights never pass to
a reused id; the tables name exactly the live tunnels, and a tunnel's end neither blocks nor
panics; a mapped flow always has its way back and shares it with nobody; segments leave in
order, whole and in bounded time; a transmit queue is a FIFO with counted drops, and nobody
sleeps on a queue that is not empty; the machine gets back what the daemon changed on it.
`PROJECT.json` lists the places where this can go wrong.

## Modules

| Module | Models | State and actions |
|---|---|---|
| `ControlPlane` | repositories and management API | One variable per table. The database pool has one connection, so a repository function is one atomic action; only the iterations of `POST /clients` are separate steps of an open transaction (`tx`, `todo`), with `CreateFail` and `Crash` possible between them. `autoRole`, `pool` and `overrun` are history. |
| `Tunnels` | `handleConn`, `ipToTunChan`, `SessionTable`, the senders | One program counter per connection and per goroutine; each critical section is one step, and a sender's lookup and its send are two. |
| `NatTable` | `NatTable`, `ApplySNAT`, the XDP reply path, `gc`, restart | `fwd`, the BPF map, the collector's position. The XDP program runs between any two steps of the collector, which reads an entry and acts on it in separate steps. |
| `ForwardReseq` | `ForwardReseq` for one flow | Buffer and next number as in the code; an iteration of the loops in `drain` and `FlushExpired` is a step, and until the call is through (`pc`) nothing else happens. The sender's stream is byte ranges; `at` (the position `nextSeq` stands for), `out`, `pushed`, `skipped` are history. |
| `ForwardBatch` | writer loop, `ForwardBatch`, `TunGSOBatch`, `SocketBatch` | Slots with head, segment count, byte count, next number and age; the writer's phase; `given` and `wire` are history, of the packets that go through the tun. `Cut` is what the kernel makes of a frame from its header and length. |
| `LossyFifo` | what a transmit queue promises | Abstract: accept, refuse and count, serve in order or drop and count. |
| `VhostRing` | `vhostNetWriter`, `TunVhostBatch` | The split virtqueue with its three shared indexes, buffers and avail ring, the mutex between publishing and kicking, the batches that share it; the kernel's worker is external. Implements `LossyFifo`. |
| `Neighbours` | `learnNeighbour`, the probes of `LanNextHopMAC` | The map, its mutex, one program counter per learner; load and store of the clone are two steps. |
| `XdpTx` | `WriteTo`, `WriteBatch`, `ForwardBatch` with `XDPBatch` and `SocketBatch`, `ForwardPump`, `txPump`, `Conn.Close` | EXTENDS `Neighbours`: producers look hops up while others learn them. Frames carry producer, number and MAC; `ForwardBatch.Add` gives a packet to the pump's batch or to the raw socket's. Each pump implements `LossyFifo`. |
| `XdpRx` | `dispatchSocket`, shards, `ReadFrom`, `MultiConn` | Rings of descriptors over a shared memory the kernel overwrites; each lock, channel operation and `Fill` is a step of its own. |
| `ConfigWatch` | `config.Load`, `config.Watch` | The file is an inode with a version; inotify is a set of watched inodes and queued events; the administrator is external. |
| `Lifecycle` | `main`, `run`, `RunPostUp`, `RunPreDown`, `GracefullyShutDown`, script 004, `migration.Invoke` | EXTENDS `ConfigWatch`: main, the signal goroutine and the reader of `upChan` over several boots; every command that changes the machine is a step, and the process can be killed between any two. |
| `ControlPlaneProofs`, `TunnelsProofs`, `NatTableProofs`, `VhostRingProofs`, `XdpTxProofs`, `XdpRxProofs`, `LifecycleProofs` | | theorems about the module of that name |
| `ForwardProofs` | | theorems about `ForwardBatch` and `ForwardReseq`, which share the lemmas on modular arithmetic; for this, definitions of `ForwardReseq` that `ForwardBatch` has too begin with R |
| `MC...` | | constants and symmetry sets for TLC |

Operators whose comment begins with "Mutant:" are wrong variants of the definition after them; they
are not used by the specifications. Each is the change to the code under which the property
`PROJECT.json` names for it fails.

Abstractions that matter:

- *ControlPlane.* Names are model values, addresses numbers. A request that fails changes
  nothing and is no step, except inside a batch. Deleting a client whose address is NULL fails
  in `Scan` and so is not possible. `UpsertClients`, `ClearInternalDHCP` and `IPPool` have no
  callers.
- *Tunnels.* A tunnel index outside the declared count is taken as 0, as in the code. The
  flow hash is any value. Queues are counters; packets have no content.
- *NatTable.* The protocol is folded into the destination. A destination has one egress
  address, because `lanRoutes` is fixed at start. The XDP lookup and stamp are one step: a
  stamp on an entry just deleted is lost. A write to the map succeeds. `ReleasePort` has no
  callers.
- *ForwardReseq.* Flows share nothing. Packets without data pass through. Time does not pass
  an idle flow that is due for a flush: the callers' tickers (250 us, 1 ms) are finer than
  `maxAge`. Closing the tunnel drops what is buffered. The stream may be longer than the sequence
  space, but a segment that arrives starts within half of it of the position of `nextSeq`
  (`InReach`): TCP's window keeps what is outstanding below 2^30 bytes (RFC 7323), and further away
  the sign of the code's difference says nothing.
- *ForwardBatch.* The default egress with `FORWARD_ACK_VIA_SOCKET` on. A burst stands for what
  the resequencer releases at once. Ages are told apart up to `ReapIdle`. A write the kernel
  refuses only counts a drop, and so does what `sendmmsg` does not send: nothing is kept of the
  socket's batch. A flow is a 5-tuple and has one
  protocol: the code takes the key of its slots from TCP packets only.
- *VhostRing.* Submit is one step, under its mutex; the memory order its fences give is taken as
  sequential. The worker takes one entry at a time and reports used entries in any portions.
- *XdpTx.* One NIC. A producer is one goroutine and its packets are one flow. A writer's set-up
  (`ForwardPump`) comes before its first packet. Choosing the hop and building the frame are one
  step, as nothing else reads the hop. Of the egresses that use MACs, the LAN one is modelled, which
  has the probe; the WAN one falls back to the gateway like QUIC. The `ForwardBatch` has no coalescing
  egress (`alt` is nil; `ForwardBatch` and `VhostRing` model two that have), and which packets it gives
  to the raw socket, those under 128 bytes and those that are neither TCP nor UDP, is any choice. A
  writer that indexes past the socket's last buffer panics; it stops ("crashed") while the others go
  on, which only adds behaviour. `Close` closes `done`, then the sockets: dispatch goroutines learn
  until then, and a pump that is draining gets through or faults in an unmapped ring (`SocketGone`),
  which is modelled as its end.
- *XdpRx.* Two or more NICs, so that `MultiConn` is there. Frames to the session table leave here
  and go on in `Tunnels`. A NIC keeps a flow on one queue. `Close` is `main.go`'s deferred ones, one
  NIC after the other with the first NIC's last; nothing calls `MultiConn.Close`. It closes `done`,
  then the sockets. A dispatch goroutine that has just looked at `done` goes on once more ("late"); one
  that then touches a closed socket gets an error from `poll` and returns, or faults in a ring that
  is no longer mapped, which ends the process and is modelled as the end of the goroutine
  (`SocketGone`).
- *ConfigWatch.* The file has one content, the number of the edit that wrote it. Reading it is one
  step and sees a file that is still being written as without settings. `missed` marks edits that
  ended before the first watch or while no file was there to be watched; see below.
- *Lifecycle.* All NICs are attached in one step: a kill takes the links away, and a signal during
  boot is a window of its own. Writing the MTU file is atomic, since the device still has the
  original until it is written. A process that met one of the two unguarded moments (`windows`) is
  the last of its behaviour. The file is edited only while a process runs.

## Runs

| Run | Result |
|---|---|
| `control_pool` | `PoolPartition`, `AddressesUnique`, `RangesMerged` hold up to the reconnect that takes the last address of a range (`overrun`, see the first departure below): four addresses, three names, batches of two, `PUT /dhcp` with three of the addresses, so that clients lose theirs and reconnects allocate. Four addresses are enough for a released one to have a free range on both sides, on one or on none. |
| `control_access` | `LinksResolve`, `DefaultRoleFollows`, `NewRowsStartBare`, `BatchAllOrNothing` hold with three ids per table, so that ids are given out again while links to their former rows may exist. |
| `tunnels_registry` | `RegistryExact`, `RoutesOpen` hold: two connections, which may claim the same index (a reconnect) or different ones (bonding). |
| `tunnels_teardown` | `HandlerReturns`, `NoGoroutineLeft` hold under fairness, one connection with both kinds of sender: handlers share only the tables, which never block. |
| `tunnels_reconnect` | `LiveClientRouted` fails: an old teardown unlinks the new tunnel. |
| `nat_ports` | `ReturnPath`, `FlowsApart`, `PortsPerFlow`, `QuietEntriesGo` hold with one restart and a map that does not evict: three flows to one destination over three ports, so that the range fills up and wraps, also after the restart, and one flow may not fill it. Two ticks of the clock are one more than `Idle`. |
| `reseq_stream` | `NothingLost`, `InOrder`, `WindowKept`, `BufferDrains` hold: five segments, five arrivals, a window of two, numbers modulo 8 that wrap inside the stream, which is longer than half of them. Five arrivals prime a flow, fill the window, skip a gap and bring the late segment. |
| `forward_coalesce` | `WithinLimits`, `OpenExact`, `CutsBack`, `SlotsGo` hold: four packets out of nine kinds, three TCP flows over two slots, frames of up to three segments and five bytes. |
| `vhost_ring` | `IndexOrder`, `RingIsFifo` (the refinement of `LossyFifo`), `RingEmpties` hold: two batches, a ring of two entries, indexes modulo four, seven packets, one too large for a buffer and one too large for the scratch space. Seven packets wrap every index and fill the ring more than once. |
| `xdp_egress` | `NeighExact`, `FlowOrder`, `PumpIsFifo` (each pump refines `LossyFifo`), `PumpsRun`, `ProbesEnd` hold: a QUIC connection and a forward writer that share one of two queues, two packets each, room for one in a channel and in the socket's batch (so that channels fill up and the second small packet of a round crashes the writer), one free descriptor per queue, a dispatch goroutine, an ARP table that learns and forgets the writer's peer, `Close` at any moment. The connection's peer is learned from frames only: nothing probes for it. Two packets are enough for one to overtake the other on or across the ways out. |
| `xdp_receive` | `RxExact`, `AnswersRouted`, `NoFrameSleeps` hold: three frames out of four flows on three queues of two NICs, two descriptors per queue, shards and channel of one, so that shards overflow, the channel blocks and descriptors are reused under a copy. The second NIC closes at any moment. |
| `lifecycle_boots` | `OriginalsKept`, `CleanStop`, `MigratedBeforeServing`, `EditsApplied` hold: two boots, two NICs with MTU 9000 of which one is driven by virtio_net, two edits. The second boot starts from whatever the first left, which is all a further one could. |

The failing run states what a comment of the repository says; `PROJECT.json`
quotes the line and names the code that departs from it. `NothingLost` and `InOrder` are for a
sender that cuts its stream one way (`CutOneWay`): of two buffered segments with the same number the code
keeps the first, and it sweeps what a longer one covers.

`RingIsFifo` reads the abstract queue from the ring itself: the packets in the buffers the avail
ring names, from the worker's index to the writer's. A buffer overwritten before the worker has
read it would change that queue without an abstract step. `PumpIsFifo` says the same of every
pump, whose queue is its batch followed by its channel; a frame submitted after Close may be
discarded uncounted, before it is in the queue.

No run checks for deadlock: a server without work, or at the bound of a run, stops.

The models contain further behaviour that departs from a comment; no run is kept for it:

- `src/repository/client.go:297` (`AssignIPToClient`) only raises `first_ip`, so that the last
  address of a range leaves an inverted row `[last+1, last]` and the next client is given `last+1`,
  outside the range or, when the range was split by a release, in use: without `overrun` in it
  `PoolPartition` fails at once and `AddressesUnique` after a release. This needs `PUT /dhcp`, which
  takes the addresses away. `src/main.go:1252` promises "the next unassigned address". The next
  `PUT /dhcp` repairs it. That request does not check its body, and an inverted one has the same
  effect.
- `src/main.go:1741` closes `tunChan` while the session is still registered and while a sender may
  hold the channel it looked up: the send panics, where `src/xdp/tunnel.go:137-140` expects a gone
  client to be no match or a send error.
- `src/xdp/nat.go:119` returns the port in `fwd` without looking at the map, an LRU hash that evicts
  when full: `ReturnPath` fails then, and nothing reinstalls the entry (`snat.go:14-16` says
  ApplySNAT installs it). `nat_ports` has a map large enough never to evict.
- `src/utility/tun_gso.go:219` does not compare TCP flags, and a frame keeps the header of its first
  packet: a coalesced segment loses its FIN, against 353-354 ("so the replicated header is valid for
  every coalesced segment").
- `src/main.go:187` waits for signals from the start. A signal before `xdpLoadersRef` is set (905)
  finds nothing to detach, virtio_net refuses the MTU, and 660 removes the file whatever the answer
  was: the original is lost. A signal during the script restores a NIC that the script then scales.
- `scripts/bootstrap/004_greedily_enable_xdp_native.sh:60-63` lowers an MTU above the page size in
  two commands. Killed between them, the next boot finds 4096, which is above the limit, and saves it
  over the original; killed between creating and filling the offloads file (34-37), it leaves an
  empty one that is never filled. Lines 11-12 say "the first-boot originals survive".
- `src/main.go:1224` hands the shutdown to another goroutine and returns, which ends the process
  before that one is through: the NICs may stay as they are, with their files, until the next clean
  stop. This way down skips `RunPreDown`, so the iptables rules stay too (`CleanStop` speaks of them
  for signals only). So does every `logger.Fatal`.
- `src/config/watch.go:53` arms the first watch after the file was loaded at boot, and 72-76 waits
  50 ms for a replacement: an edit in between, or a file that comes later, is not seen until the next
  one, against 26-27 ("both in-place writes and rename-on-save ... are picked up").
- `src/utility/vhost.go:282` reports a packet too large for a buffer as taken, "counted by caller";
  the caller (`tun_vhost.go:149-158`) counts it as queued.
- `src/repository/client.go:394` deletes whatever role has the client's name, while 392-393 says the
  default role, and nothing if that was renamed. `DefaultRoleFollows` says when the two agree.
- `src/main.go:1300` and 1320 return after the route was installed and leave it in
  `ipToTunChan`, while 1229-1231 expects the slot of a tunnel that is down to be nil.
- `src/xdp/nat.go:119` does not "refresh the idle timer" (100-102) when a client sends; only
  replies do. A live flow that gets no replies is collected, and its next packet leaves with another
  port.
- After a restart a flow whose entry survived in the pinned map is given a second port
  (`nat.go:85`, against 99-100 and `loader.go:49-50`), and when the collector later takes the first
  entry, `nat.go:222` forgets the flow's present port, so that a flow in use gets a third.
- `src/xdp/nat.go:223` deletes an entry that a reply stamped after it was read, which 213-217 means
  to avoid. For these three reasons no property says that the port of a live flow never changes;
  `PortsPerFlow` says how many a flow can tie up.
- `src/utility/reseq.go:247` refreshes `lastSeen` with every arrival, so a busy flow holds segments
  behind a loss until the window is full, whatever `maxAge` (216-217) is.
- `src/utility/forward_batch.go:138` sends every TCP packet of less than 128 bytes through the
  socket, so that a short last segment overtakes data still held in the open frame, against
  `main.go:1423-1424`. On the AF_XDP egress it overtakes frames that wait in the batch or at the
  pump; `FlowOrder` therefore speaks of each way out by itself.
- `src/main.go:1593` asks `Full()` per packet received, not per packet released by the
  resequencer, so that `SocketBatch.Add` can index past its buffers (phase "crashed").
- `src/repository/client.go:316-318` says foreign keys are off by design, while
  `src/db/db.go:38-42` opens the database with `_foreign_keys=on`.
- `src/main.go:1252-1257` says VIRT_CIDR is appended to the routes; 1312-1318 says it is not, and it
  is not.

**Fairness.** `Tunnels`: the Go scheduler runs every goroutine that can run; nothing makes a peer
connect, hang up or send. `NatTable`: `gcLoop`'s ticker fires and a started collection goes on;
time passes. `ForwardReseq`: time passes, the caller's ticker flushes, and the goroutine does not stop inside a call. `ForwardBatch`: time
passes, the ticker's case of the `select` is chosen again and again, the writer does not stop inside
a round. `VhostRing`: the worker runs; a writer goroutine does not stop inside Add and ends its round
with Flush; its mutex is handed on (strong fairness). `XdpTx`: goroutines that have begun go on, a Flush
that has begun reaches its end, pumps run, a probe's sleeps end; nothing makes a peer send, the kernel resolve or anyone close. `XdpRx`: dispatch
and reader goroutines run, a `Close` that has begun goes on, and quic-go keeps reading. `Lifecycle`: the watching goroutine runs.

**Bounds** are constants: `MaxId` and `MaxBatch` (rows, batch), `MaxTun` and `ChanCap` (bonding,
queue), `MaxTime` and `MaxBoots`, `MaxPush`, `MaxPkts` and `MaxBurst`, `MaxLearn`, `MaxForget`, `ArpAddrs` and
`MaxFrames` (new mappings, ARP entries lost, addresses that get one, frames; after the last loss the
ARP table gets no new entry), `MayClose` (NICs that close), `MaxEdits`. `MaxTun` also bounds the count a client may
declare.

## Proofs

TLAPS proves for every value of the constants:

| Module | Theorems and the property each states |
|---|---|
| `ControlPlaneProofs` | `TypeCorrect` (`TypeOK`), `PoolIsSound` (`PoolPartition`, `AddressesUnique`, `RangesMerged`, for any bodies of `PUT /dhcp`; like the properties it speaks up to the reconnect that takes the last address of a range, see the first departure above), `LinksAlwaysResolve`, `NewRowsAreBare` (action property), `DefaultRolesFollow`, `BatchesAreAtomic` (action property) |
| `TunnelsProofs` | `TypeCorrect`, `RegistryIsExact`, `RoutesStayOpen` |
| `NatTableProofs` | `TypesHold`, `PortsAreBounded` (`PortsPerFlow`), and, while the map has room (`[]RoomLeft`), `FlowsStayApart` (`FlowsApart`), `RepliesComeBack` (`ReturnPath`) |
| `ForwardProofs` | `LimitsHold` (`WithinLimits`), `OpenIsExact` (`OpenExact`), `FramesCutBack` (`CutsBack`); `WindowIsKept` (`WindowKept`), `NothingIsLost` (`NothingLost`), `OrderIsRestored` (`InOrder`) |
| `VhostRingProofs` | `IndexesInOrder` (`IndexOrder`), `RingImplementsFifo` (`RingIsFifo`, the refinement) |
| `XdpTxProofs` | `TypesHold`, `NothingLearnedIsLost` (`NeighExact`), `PumpsAreFifos` (`PumpIsFifo`, the refinement), `FlowsStayOrdered` (`FlowOrder`) |
| `XdpRxProofs` | `AnswersAreRouted` (`AnswersRouted`), `ReceivedExactly` (`RxExact`) |
| `LifecycleProofs` | `MigrationIsDone` (`MigratedBeforeServing`), `OriginalsAreKept` (`OriginalsKept`), `StopsClean` (`CleanStop`) |

They rest on the named assumptions about constants, the `ASSUME` of each module, which TLC
evaluates in every run. Two are worth naming: the ring size divides both index widths
(`RingAssumption`; the code fixes 256 entries, 16 and 32 bits), and a flow has one protocol
(`BatchAssumption`).

*The pool.* `PoolPartition` is not inductive: a rollback brings back tables that were saved
earlier. `PoolInv` says that, until `overrun`, the three pool properties hold together of the live
tables and of the snapshot in `tx`, for the range last set. Together, because merging on release keeps the partition only if the ranges
were disjoint and sorted apart. `Take`, `Released` and `AssignIPToClient` are treated by lemmas.

*Links.* `LinkInv` adds to `LinksResolve` that the snapshot's links resolve in the snapshot, and
that the snapshot's roles are still roles, so that restoring it cannot orphan `roleResources`,
which it does not cover. `NewRowsAreBare` is an action property and follows from `LinkInv` before
the step.

*Default roles and batches.* `FollowInv` adds that client names are unique, since a rename looks the
role up by name, and says the same of the snapshot. `BatchInv` says of an open transaction that every
name already worked off is linked anew, and that what is left is the rest of the request's list, so
that a commit finds all names linked.

*The registry.* `RegistryExact` speaks of `latest`, the last connection to claim a place.
`RegistryInv` adds `LatestInPlace`: whoever is latest of a place is at that place, which makes the
check in `RemoveSession` sufficient.

*Routes.* `RoutesInv` adds that a route's connection sits at the slot's own place
(`RoutedInPlace`) and that only a handler past its unlinking has closed its channel (`ClosedLate`).

*NAT.* The collector works on a copy. `CopyOwned` says that the copy it decides on is of the flow that
still owns the key, because allocation waits for `t.mu` and a reply only stamps. `Backed` (a
mapped flow owns the reverse entry of its port) gives `FlowsApart` and `ReturnPath`; an eviction
breaks it, as the departure above describes, hence the hypothesis `RoomLeft`: the map is not
full. `LooseBound` counts the entries of a flow that its port in `fwd` does not name: only a restart
makes one more of them, and when the collector takes one of them it forgets the flow's port, whose
entry takes the place. Evictions only remove, so `PortsAreBounded` needs no hypothesis.

*The coalescer.* `Inv` says of every flow that what it was given has left, except the segments of its
open frame, and that those are where the kernel will cut (`Ready`: none but the last is shorter than the
first, each starts a multiple of the first one's length after it, modulo `SeqMod`). To survive growth,
a frame that may still grow must have no short segment at all and `next` must be its end (`Evenly`):
that is why a short segment closes its frame at once. `CutFacts` computes the number of
pieces by the uniqueness of quotient and remainder, `CutRestores`, `StartReady` and `GrowReady` treat
flushing, starting and growing a frame; eviction, sweep and Close are one lemma about writing a set of
frames (`AfterShape`).

*The resequencer.* `DistIs` is the fact everything rests on: within half the sequence space the
wrapped, signed difference the code computes is the difference of the positions, so that two
positions in reach with one number are one (`SameSeq`). `RInv` has three parts besides
`NothingLost`. `BufferKept`: types, the window, buffered segments under their own number, `nextSeq`
the number of `at`. `BufferAhead`: in a stream cut one way, what is buffered starts at `at` or later
and in reach of it, after `at` between calls; so the sweep of `skipGap` and the reaping of a flow meet
nothing, a taken number is the segment itself, and `NothingLost` is inductive. `StreamCovered`: until a
gap is given up, what was emitted reaches `at` and covers the stream from its first segment on
(`Covers`), so that a segment behind `nextSeq` is one emitted before or lies ahead of the first; only
with this is the order (`Ordered`) kept by the branch of `Push` that hands such segments through.
`WindowIsKept` needs `BufferKept` only, hence no hypothesis on the sender.

*The virtqueue.* `RingInv` adds to `IndexOrder` that `freeHead` and the avail index agree modulo the
ring size (`SlotsAgree`), that every pending entry names its own slot with a packet in its buffer
(`PendingHeld`), and that a batch between a refusal and its retry holds the packet. The lemmas on
modular arithmetic show that the next slot is not a pending one. `RingImplementsFifo` maps every step
to a step of `LossyFifo` or a stutter.

*Neighbours.* `NeighExact` says that the copy-on-write map holds what was last stored; storing an
old clone would break it. `NeighInv` adds that whoever is about to store holds `neighMu` and has a
clone of the map as it is now (`HolderStores`), and, so that a writer cannot begin a second call
over its first, that a writer has a call of `learnNeighbour` open only while it is in
`LanNextHopMAC` (`WritersLearn`).

*Transmit.* A pump that waits for a frame holds none (`TakenInDrain`), so that its batch followed by
its channel is the queue of `LossyFifo`. For `FlowOrder` the whole way is ordered: wire before
pump, batch before channel, both before the producer's own batch, all in the producer's own queue
(`OrderInv`); what the raw socket has sent comes before its batch (`SockOrder`), and its numbers are
no frame's (`AroundInv`); and a writer with a packet on either way knows its next hop for good and
has left only earlier ones to the tun (`PathInv`).

*Receive.* `DescsApart` says that a descriptor is in one ring, once: without it the kernel could
overwrite a frame on its way. `WayInv` orders the seven places from the receive ring to quic-go and
says that every numbered frame is in one of them or was dropped. `Recorded` says that the NIC is on
record of what is in the merged channel and, so that this is inductive, of the frame a reader has
stored and not yet sent; other readers store in between, but never for the same flow.

*Boots.* `LifeInv` says what holds until an unguarded moment (`windows`): the original of every NIC is
on the device or in its file at each stage of the script (`MtuKept`, `GroKept`), and a goroutine in
`GracefullyShutDown` has every NIC with a file still to do and removes a file only after its value is
back (`Restoring`), also when two goroutines do it at once.

Only model-checked: the liveness properties (fairness and ENABLED are outside what the prover
does), with them all of `ConfigWatch`. Every safety property of a passing run is proved, under
the hypotheses the table names.

## Not modelled

- Checksums, pure arithmetic without state.
- The io_uring, AF_PACKET and NAPI egresses, off by default: the io_uring ring has one owner that
  empties it in every Flush, the other two write packet by packet.
- The QUIC, CONNECT-IP, TUN and XDP libraries, which are submodules.
- HTTP decoding, logging, statistics, NIC and queue discovery, gateway ARP at start, sysctl tuning
  and device set-up, which are input and output.

## Plan

Done: 1 `ControlPlane`, 2 `Tunnels`, 3 `NatTable`, 4 `ForwardReseq`, 5 `ForwardBatch`, 6 `XdpRx` and
`XdpTx`, 7 `VhostRing`, 8 `ConfigWatch` and `Lifecycle`, with `LossyFifo` as abstract
specification, 9 proofs of the safety properties.

Left:

10. Composition: `ControlPlane` with `Tunnels` (addresses reset under live tunnels, rights at
    connect time), `ForwardReseq` with `ForwardBatch` (the bursts it really releases).
11. `Checksum` over small words; the io_uring ring.
