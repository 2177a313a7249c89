# A verification of pegastore in TLA+

pegastore is a placement-aware cache of large immutable objects. An object has
slots; a slot has a length and a placement, is written once, may have several
replicas, and is evicted on its own. Three crates make it up: `pegastore` (the
front end, the `Access` trait and the in-process reference backend `Memory`),
`pegastore-cuda` (the single-node backend `Local` over pinned host memory) and
`pegastore-rdma` (a transfer engine over reliable-connection queue pairs).

This directory holds TLA+ modules of these parts, TLC configurations that check
them on small instances, and TLAPS proofs of some of their properties for every
size. `PROJECT.json` lists the runs, the source lines
behind every definition, the hazards and the findings. Source paths below are
relative to `src/crates/`.

## Inventory

| Component | State | Operations | What is hard | What makes it correct |
|---|---|---|---|---|
| Store front end (`pegastore/src/store.rs`, `ops.rs`, `region.rs`) | none | checks a request against `Capability` and the bounds of its iovs, forwards it; `get_many` runs gets concurrently | sums that overflow, limits | nothing malformed reaches a backend, and everything else does |
| Memory backend (`pegastore/src/services/memory.rs`) | objects, replicas, `used` and an eviction queue per pool, regions, one mutex | `register`, region drop, `put`, `publish`, `get`, `stat`, `remove`, `remove_prefix` | queue entries outlive their objects; eviction in the middle of a put of several slots; accounting in three places | exact accounting, capacity, FIFO eviction, `Explicit` kept, nothing read from a dropped region |
| PinnedPool (`pegastore-cuda/src/pinned.rs`) | sorted list of free extents, live buffers | `alloc`, drop of a buffer, `free_bytes`, `largest_free` | splitting and coalescing in any order | buffers never overlap, bytes never leak, free neighbours are one extent |
| Local backend (`pegastore-cuda/src/local.rs`) | objects, replicas, `writing` flags, a queue per pool, pools, copies in flight, one mutex held for short sections only | as Memory; `put` in three phases | threads between phases, readers of evicted replicas, failing copies, panics under the mutex | memory never reused while in use and never lost, write-once, claims given up, every put ends |
| Copying a slot (`get`, `distance`, `tier_rank`, `zip_copy`, `read`, `scatter`, `gather`) | places in two lists of segments | `get`, the copy of `put`; one run of bytes per step | two implementations of the choice and of the copy; empty segments, offsets at boundaries | both read the same, nearest replica; the bytes of the range, in order, and an end |
| RDMA registered memory and transfers (`pegastore-rdma/src/rc_backend/mod.rs`, `state.rs`, `engine.rs`) | regions by base address, snapshots, round-robin counters, references to registrations | `register_*`, `unregister`, `batch_transfer_async` | neighbour checks, the end of the address space; counters shared by all callers, refusal halfway, `unregister` under a batch | regions disjoint, lookups exact; every operation once, on a local NIC, evenly; memory in flight registered, unregistered memory gone in the end |
| RDMA session (`session.rs`) | command queue, worker, send and completion queue, references | `transfer_batch_async`, the worker's loop, `execute_batch`, drop | completions of other batches, flushes, death of the session with commands queued | `Ok` only for bytes moved, every command answered, no thread left |
| RDMA handshake (`mod.rs`, `state.rs`) | `connecting`, `pending`, connections | `get_or_prepare`, `complete_handshake_for`, `abort_handshake`, `invalidate_connection` | unlocked steps between locked ones, shared pending queues | one handshake per peer, no stray sessions, connections own theirs |
| Topology, NUMA and runtime (`pegastore-cuda/src/topology.rs`, `pegastore-rdma/src/numa.rs`, `rdma_topo.rs`, `runtime.rs`) | fixed after start-up; threads while a pool is touched or a closure runs | parsing sysfs, grouping GPUs and NICs, choosing a port and a GID; `run_on_numa`, `first_touch` | two crates that read one host by code of their own; pins that fail, threads that panic | they agree; NICs offered are usable; pinned means pinned; callers return |
| CUDA bindings, wire formats | none | foreign calls, bincode | | inputs of the others |

How they interact: `Store` calls a backend through `Access`. `Local` allocates
from `PinnedPool` and copies with `zip_copy` through CUDA; dropping the last
reference to a replica drops its buffer into the pool, from whichever thread.
Dropping a `MemoryRegion` calls back into the backend, which retires the
replicas published from it. In the RDMA engine the callers' threads share one
state lock, hand batches to per-queue-pair worker threads through channels and
wait on one-shot receivers; a worker keeps its session alive only while it
executes a batch. The RDMA engine is not yet connected to a backend in this
repository.

## Modules

    StoreTypes ──> SlotContract <── refined by ── Memory, Local
         └──────> Memory ──> MemoryProofs ──> MemoryAccounting
         └──────> Local (uses Extents) ──> LocalProofs ──> LocalIndexProofs
                    └──> Backends <── instance of ── Memory
    Extents ──> ExtentPool
         └────> PinnedPool ──> PinnedPoolProofs (refines ExtentPool)
    FrontEnd ──> Requests
    MemoryMap ──> Transfer ──> TransferProofs
    Handshake ──> HandshakeProofs        RcSession ──> RcSessionProofs
    Topology ──> Pinning

* **StoreTypes**: placements, retention, specs, replicas, and the order in which
  a placement tries devices.
* **SlotContract**: what `Access` promises whatever the backend. An object gets
  its spec once; an empty slot is filled by one put according to its placement;
  replicas disappear only by eviction (`Cache` objects only), by remove, or with
  their region. Objects and replicas are its variables.
* **Memory**: `put` and `remove` loop with the mutex held. Each iteration is a
  step, `pc` says where the holder is, and other operations wait for `pc =
  "idle"`. The index panic of `make_room` poisons the mutex and every later call
  panics. Several equal `External` replicas of one slot are one element of the
  set; no operation tells them apart.
* **Extents, ExtentPool, PinnedPool**: a pool as a set of free bytes with
  first fit, and the sorted free list with its two merges that implements it.
* **Local**: putting and getting threads. One step per critical section of the
  metadata mutex, per iteration of the eviction loop, per allocation and per
  copy, so threads interleave wherever the code lets go of the mutex. Pools are
  ExtentPool's sets, which PinnedPool is shown to implement. Buffers that one
  step of the code releases together are released together. Slots of length
  zero are left to PinnedPool.
* **Backends**: Memory and Local with one client that sends every request first
  to one and then to the other, and other threads that read from Local. It says
  when the two may part (`diverged`): free memory in pieces, memory that a get
  still holds, a copy that failed, a device without a pool.
* **FrontEnd, Requests**: FrontEnd has the checks of `Store` as operators, with
  additions that detect overflow at `MaxU64`. In Requests one request passes
  them and is served by both backends on a slot in any state. Memory answers in
  one step under its mutex; Local picks a replica under its own and then walks
  the two lists of segments, a step per iteration. A call brings the state it
  finds (the backend's capability, the GPUs' affinities, the replicas) with it.
* **MemoryMap, Transfer, RcSession, Handshake**: the RDMA engine. Transfer
  extends MemoryMap: registrations come and go while callers resolve their
  batches against a snapshot of the map, and a registration is with the NICs as
  long as the map, a snapshot or an unanswered operation refers to it. In
  Transfer a session answers a batch in one step; RcSession has the steps of
  that. In RcSession the NIC completes work requests in order and flushes after
  a failure. In Handshake the exchange of endpoints is the caller's; threads
  complete or abort what they prepared, as `ConnectionStatus::Prepared` asks.
  `pending` is a set, because sessions leave it by queue pair number. The
  branches of `complete_handshake_for` for an address that is already connected
  or a session that is missing are not separate actions: the lemma
  `TakePendingTakesAll` and the invariant `OneHandshake` show that this protocol
  never reaches them.
* **Topology, Pinning**: a host is a record of what sysfs, nvidia-smi, CUDA and
  the verbs library say, and Topology computes what each crate makes of it.
  Pinning starts from a host and a job: `run_on_numa` with its thread, channel
  and join, or `first_touch` with its threads and the pages they place.

Definitions marked "Mutant" are deliberate errors. Each replaces one definition
to confirm that a property notices it; no specification uses them.

## What the runs show

Passing runs:

| Run | Instance | Properties |
|---|---|---|
| `memory` | 2 keys, pools of 2 and 1 bytes and an uncapped one, a GPU without a pool, 4 specs with every placement and both retentions, 1 region, any removes, queues up to 2 (the uncapped pool's: no put begins while it holds an entry) | `UsedIsExact` and `CapacityRespected`: accounting; `FifoOrderKept`: queues keep their order through deferral; `NoSpaceIsFinal`: a refusal means that nothing evictable was left; `ReplicasLinked`: replicas match their specs; `ImplementsContract`, which includes that eviction spares `Explicit` objects; `MutexReleased` |
| `pinned_pool` | 4 buffers in a pool of 6 aligned units, lengths that need rounding | `ReportsExact`: what `free_bytes` and `largest_free` report, so coalescing is complete; `ImplementsExtentPool`: the list refines the set |
| `local` | 2 putters, 1 getter, pools of 2 and 1, every placement, failing copies, 3 puts | `OneOwner`: every byte is free or has one user (`NoReuse` and `NoLeak`); `WrittenOnce`: a slot is filled by one put and its claim is held until then; `ImplementsContract` |
| `local_remove` | 2 putters that evict each other in one pool, removes at any time, panics included | `CacheReplicasQueued`: replicas stay evictable; `PutsEnd`: every put returns or panics |
| `backends` | the same 3 puts of 2 keys to both backends, 5 specs with every placement, devices without a pool included, a published region, removes, 2 gets that share replicas, copies failing midway | `SameAnswers`: Local answers as the oracle until they part, and differs as told below for a device without a pool; `OneOwner` for shared replicas; `ExternalReplicasLive`: regions retire their replicas |
| `requests` | a largest u64 of 7, regions and lists around it, backends with and without every capability and limit; 2 sockets, 2 GPUs with any affinity, up to 2 replicas anywhere, ranges in and out of the slot; all lists of up to 3 segments of 0 to 2 bytes, all offsets | `AdmitsExactly`: the front end against exact sums and sets of bytes; `NearestRead`: both backends read one replica, the nearest; `CopiesTheRange`: the bytes of the range, as in the reference backend, none outside a region; `RequestsEnd`: without an error |
| `transfer` | 2 callers, 3 NICs on two nodes with 2 sessions each, memory of a node without NICs, 3 registrations of 3 regions that overlap or touch, batches that are refused before and after a NIC is picked | `EntriesApart`, `FindEntryExact`; `RoutedOnce`: whole batches, local NICs, evenly; `InFlightRegistered`; `UnregisteredLeaves` |
| `rc_session` | 3 batches of 5, 3 and 1 operations, send queue of 3, chains of 2; failing requests, failing polls, an oversized operation, callers that are refused after they took the session, invalidation at any time | `OkMeansMoved`, `AnsweredIsQuiet`, `QueueSuffices`, each until a batch is given up (below); `AllAnswered`, `NoThreadLeak` throughout |
| `handshake` | 3 threads, 2 peers, 2 NICs with 2 queue pairs, 3 handshakes | `OneHandshake`, `NoStraySessions`, `OwnSessions`, `HandshakesEnd` |
| `topology` | hosts of 2 nodes, 2 GPUs and 2 NICs with one thing varied at a time: cpulists, PCI domains and nodes, ports and GIDs, the CPUs the process may use; jobs on known, absent and unknown nodes, pools of 2 to 6 pages, up to 3 threads | `HostSeenAlike`, `HostNicsUsable`: what detection makes of the host; `RunsPinned`, `PagesPlaced`, `JobsEnd` |

The bounds leave room for what the properties are about: pools smaller than two
objects, so that eviction, deferral and refusal all happen; objects of one and
two slots, so that stale indices exist; a batch longer than the send queue; two
peers and three threads, so that handshakes overlap and one loses the race;
widths so small that sums cross them. Two
interchangeable sets of threads are symmetric where only invariants and action
properties are checked.

Two runs find a violation of what a comment of the code says; the findings quote
it:

* `memory_stale_index`: a queue entry left by a removed object indexes past the
  slots of the object now under its key, and the panic poisons the mutex.
* `local_dma`: a copy of several segments fails midway; transfers already queued
  outlive the buffer that the put gives back.

### Where the code and its documentation part

The passing runs leave these conditions out, by their constants or by a guard in
the property, so what they establish is what holds without them. Where an item
names a constant to change, the property it names then fails.

* Local has the same stale index as Memory (`local.rs:355`), and a second one
  after the copy (`local.rs:674`). `local_remove` takes both steps and checks
  what still holds after them.
* A stale queue entry can match the object put later under its key and evict it
  before older ones, although `make_room` is said to evict "in FIFO order".
  `FifoOrderKept` is therefore about the entries.
* `Each` with a device listed twice is promised the same room twice and overfills
  Memory's pool: add such a placement to `Specs` of `memory` and
  `CapacityRespected` fails. Local refuses the second one.
* `Memory` is "the semantic oracle; every other backend must match it"
  (`README.md:115`), but a placement that names a device without a pool is
  `InvalidInput` in Local at once; Memory falls back to another device for
  `Prefer`. For `Each` it first makes room on the devices listed before, evicting
  what that takes, and answers `InvalidInput` only if all of them had room,
  `NoSpace` otherwise. `SameAnswers` states this exception. After free memory is in
  pieces, while a get holds memory that was unlinked, or after a failed copy, Local
  may evict more or refuse what Memory places; the property ends there.
* A replica published from two regions is tied to the first and outlives the
  second: add such a source to `PublishSrcs` and `ExternalReplicasLive` fails.
* A buffer of zero bytes is released as an empty extent and keeps its neighbours
  from coalescing: add 0 to `Requests` of `pinned_pool` and `ReportsExact`
  fails.
* With `RemoveDuringPut`, a key removed and put again while an earlier put of it
  copies has a slot filled by both, and `WrittenOnce` fails; the earlier put can
  also clear the claim of the later one when it fails.
* A region's drop does not wait for a get that copies from a replica published
  from it, which `docs/lessons.md:106` asks for.
* A batch that is given up, because a chain cannot be posted or a poll fails,
  leaves requests in flight. Their completions carry the ids of the next batch,
  which can be answered `Ok` before its bytes have moved. The three invariants
  of RcSession hold until then (`GivenUp`).
* A get past the end of a slot without replicas is `InvalidInput` in Memory and
  `Evicted` in Local; `NearestRead` is about ranges inside the slot.
* `PerNicState.pending` holds sessions "in FIFO order (first prepared, first
  connected)" (`state.rs:88`), but a handshake takes its own by queue pair number
  (`mod.rs:308`), in whatever order handshakes complete; `OwnSessions` is about
  that.
* `batch_transfer_async` returns a receiver per session that has work, not "per
  NIC that had work".
* `unregister` takes a region from the map at once, from the NICs when the last
  batch that refers to it is done. A batch that is given up drops its references
  with requests in flight; Transfer's sessions answer only when all is done.
* A PCI domain of five hex digits or more is cut to four, the name of another
  device or none, in both crates; `HostSeenAlike` is about shorter ones.
  `GpuInfo.device_id` is the index of nvidia-smi, which is CUDA's only when both
  number the devices alike.
* `choose_port_and_gid` says it prefers "RoCEv2 + IPv4-mapped"; the code does not
  look for IPv4-mapped addresses. Its last choice may be a RoCEv1 GID, and with
  none left index 0, even if empty. A NIC whose first active port is InfiniBand
  without a LID or of an unknown link layer does not open, even if another of its
  ports would do; `NicsNear` says that no other NIC with a live port fails.
  `PortUsable` is about ports that have a RoCEv2 GID that is not link-local.
* `enumerate_rdma_nics` "Skips devices with "bond" in the name"; it does not.
* `run_on_numa` fails when its thread cannot be pinned; `first_touch` ignores it and
  places the pages wherever its threads run. `PagesPlaced` is about processes that
  may use a CPU of the node, and about calls that do not panic because a thread
  cannot be spawned.

### Fairness

Only threads that are inside a call are fair, and weakly: an operating system
runs a runnable thread eventually. In Memory this is the holder of the mutex, in
Local each putter, in Requests the one call, in RcSession the worker, the NIC and
the callers that hold the session, in Handshake every thread after
`get_or_prepare`, in Transfer the callers inside `batch_transfer_async` and the
sessions, which answer what they were given (`AllAnswered`), in Pinning the
caller and the threads it spawned, whose closure is taken to return or panic. No
new call is assumed to arrive. `PutsEnd` rests on the number of puts being
bounded: the eviction loop of one put can lose every freed buffer to others as
long as new puts keep coming. `HandshakesEnd` rests on callers completing or
aborting. Deadlock is checked where calls can always be made; Requests and Pinning
stop when their one call returns, and Transfer and Handshake when the bounded
number of batches or handshakes is used up.

## What is proved

TLAPS checks these for every value of the constants that satisfies the named
assumptions.

* **Memory**: `ReplicasAlwaysLinked`, `FifoOrderAlwaysKept`,
  `NoSpaceAlwaysFinal`, `MemoryImplementsContract` (`MemoryProofs`);
  `UsedAlwaysExact`, `TypeCorrect`, `CapacityAlwaysRespected`
  (`MemoryAccounting`). The argument goes in layers. `Shape`
  types the state and the locals of the put in progress, all but the counters.
  `Linked` adds that replicas belong to the object under their key, which needs
  that eviction never drops the object being put. `CacheWaits` adds that every
  pinned replica of a `Cache` object has an entry in its pool's queue or among
  those `make_room` has set aside, and `OwnAside` that the latter are all of the
  key being put; so when the queue has run empty nothing evictable is left.
  `Placing` says that the candidates not yet tried and the targets already
  accepted are what is left of the placement and what was taken of it, which is
  what the contract asks of a slot that is filled. `Accounting` adds that `used`
  is the number of bytes of the replicas: each action adds or drops a finite set
  of replicas of known length and adjusts `used` by the same sum. That `used` is
  a natural number, the missing part of the type invariant, follows only here,
  because it says that subtractions never exceed what is there. `Room` says that
  the devices already accepted for a slot still have the room promised to them,
  which holds while they are distinct; so the theorem on capacity assumes that
  no `Each` repeats a device; with one that does, the pool overfills.
* **PinnedPool** (`PinnedPoolProofs`): `PinnedImplementsExtentPool`,
  `BuffersNeverOverlap`, `BytesNeverLeak` and `LargestFreeAlwaysExact`, for every
  capacity, alignment, number of buffers and all requests of at least one byte.
  The invariant `PoolInv` says that the extents of the list are not empty, in
  order, and that between two of them is a byte that is not free; so a run of
  free bytes lies in one extent, and the first extent that fits starts the lowest
  run. The proof follows `release`: the insertion keeps the order and all gaps but
  the two around the new extent, the merge behind restores one and the merge in
  front the other. That no byte is lost is inductive with it: `alloc` takes from
  the list what it gives to the buffer, and a drop returns it. The theorems assume
  `0 \notin Requests`: a buffer of no bytes breaks the invariant and, as told
  above, the last statement.
* **Local** (`LocalProofs`, and the theorem itself with those on the index):
  `EveryByteHasOneOwner`, for any number of threads, keys, pools and regions. `Shape` types the state and the locals of every put.
  With it `OneOwner` is inductive; `Owned` is the same statement with puts and
  buffers in place of pairs. Its proof follows a buffer from the pool through a
  put's `placed` into a replica and on to the gets that still hold it.
* **Local's index** (`LocalIndexProofs`): `CacheAlwaysEvictable` needs `Linked`,
  that replicas belong to the object under their key. `SlotsAlwaysWrittenOnce` and
  `LocalImplementsContract` need `ClaimInv`: the slots that a put has claimed
  and not dealt with are flagged `writing`, are claimed by no other put and have no
  pinned replica, and the object under the put's key is the one it reserved. They
  assume `~RemoveDuringPut`, without which they are false (see above); the contract
  needs `Placing` as well, as in Memory.
  `ReplicasAlwaysPointToLiveRegions` assumes that a publish takes its segments
  from one region, without which it is false too.
* **RcSession** (`RcSessionProofs`): `OkAlwaysMeansMoved`, `AnsweredAlwaysQuiet`,
  `QueueAlwaysSuffices`, `AnsweredAtMostOnce`, for any number of batches, chain
  length and queue depth. The invariant `SessionInv` is a ledger: a command is
  in one place only, and as long as no batch was given up, what was posted and is
  no longer in flight has moved, the send queue of a working queue pair holds
  requests the worker waits for, in order and after those completed, the two queues
  together hold as many as are in flight, and every successful completion is one
  the worker waits for. What an earlier batch left behind can only be flushed.
* **MemoryMap** (`TransferProofs`): `RegionsAlwaysApart`, `MapTypeCorrect`,
  `FindEntryAlwaysExact`. The core is `NeighboursSuffice`: among regions that are
  apart, the nearest below and the nearest above are the only ones a new region
  can meet first. The nearest ones exist by well-foundedness of the naturals.
* **Transfer** (`TransferProofs`): `EngineRegionsApart`, `EngineFindExact`,
  `InFlightAlwaysRegistered`, `AlwaysRoutedOnce`, for any number of callers, NICs,
  sessions, regions and batches. `ImplementsMap` proves that every step of the
  engine is a step of the memory map or leaves it alone, so the theorems on
  MemoryMap carry over. For the third, the inductive invariant says that the NICs
  have every registration that something refers to, and that what a caller has
  resolved comes from its snapshot, so that a reference handed to a session was
  already one. For the fourth, `RouteInv` says of every operation, from the moment
  it is resolved, what `SentOnce` says of it when it is sent. `CountInv` counts
  over all callers: while every batch begun is under way or sent, the operations
  that a NIC has been given and those that callers have resolved to it are as many
  as the turns it had of its group's counter (`TurnsUsed`). Places in a group are
  a bijection onto the remainders, and two remainders occur equally often among
  the first numbers, but for one (`TurnsEven`).
* **Handshake** (`HandshakeProofs`): `NeverTwoHandshakes`,
  `ConnectingAlwaysExact`, `SessionsNeverStray`, `SessionsAlwaysOwn`,
  `HandshakeTypeCorrect`, for any number of threads, peers, NICs and queue pairs.
  None is inductive alone. The invariant adds that handshakes in progress and
  established connections are numbered apart, that all sessions of a prepared
  handshake are pending, and that a thread holds exactly its own sessions while
  it connects them.

Only model-checked:

* liveness (`MutexReleased`, `PutsEnd`, `RequestsEnd`, `UnregisteredLeaves`,
  `AllAnswered`, `NoThreadLeak`, `HandshakesEnd`, `JobsEnd`), which is out of the
  prover's reach;
* the first half of `ReportsExact`, `AdmitsExactly`, `CopiesTheRange`,
  `NearestRead` and the properties of Topology and Pinning: they say what sums,
  counts and filters over sequences compute, which takes induction over data;
* `SameAnswers`, about the two backends side by side.

## What is not modelled

CUDA and RDMA bindings, which are foreign calls; the encoding of metadata, which
is bincode's; `Layer`, a trait without an implementation here; the examples and
benchmarks (`cpu_bench`, `gpu_rdma_bench`, `weights_fanout`), which are clients
of the crates and keep no state beyond a call; `query_pages_numa`, one system
call whose result is an input of Transfer; and the helpers that print the PCIe
tree. See `components` in `PROJECT.json`. Within the modelled parts: the bytes
themselves (Requests names them by position), `get_many`, whose gets each
complete at their first poll, the setting of queue pair attributes in `connect`,
the wrap of the round-robin counters after 2^64 operations, the failure of a send
to a worker (impossible while the caller holds the session), and background
reclamation of metadata, which `docs/INTERFACE.md` describes and the code does
not have.

## Plan

Done, in this order: Memory with its contract and proofs; PinnedPool and its
abstraction; Local; registered memory; session; handshake; the data path of get;
the front end; Memory and Local side by side; transfers over registered memory,
with proofs; topology and pinned threads.

Next:

1. Transfer composed with RcSession and Handshake: `invalidate_connection` and
   batches that are given up while regions are unregistered.
2. Proofs: the threads of Pinning.
