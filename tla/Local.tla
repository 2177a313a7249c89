-------------------------------- MODULE Local -------------------------------
(***************************************************************************)
(* The single-node CUDA backend (crates/pegastore-cuda/src/local.rs).  The *)
(* metadata is behind one mutex, but a put holds it only to claim its      *)
(* slots, to evict and to publish its replicas, and a get only to pick a   *)
(* replica: allocation and copying run beside whatever other threads do.   *)
(* Readers share the replica's bytes, which return to their pool with the  *)
(* last reference.                                                         *)
(*                                                                         *)
(* A unit of length is one aligned unit of a PinnedPool; a pool is its set *)
(* of free units (module ExtentPool).  Any replica of a slot may be the    *)
(* nearest to some destination.                                            *)
(***************************************************************************)
EXTENDS StoreTypes, Extents

CONSTANTS
  PoolOrder,        \* the devices with a pool, in ascending order
  Capacity,         \* units of every pool
  RegionDevice,     \* the device of every region
  PublishSrcs,      \* the iov lists clients publish: regions and total length
  Removals,         \* the key lists and key prefixes clients remove
  RemoveDuringPut,  \* do clients remove keys that are being put?
  CopyFaults,       \* CUDA errors that happen: "first" or "midway" in a copy
  Putters, Getters, \* threads
  NoRead,           \* a getter that holds no replica
  MaxPuts           \* bound: the number of puts

Pools == {PoolOrder[n] : n \in DOMAIN PoolOrder}

(***************************************************************************)
(* A replica: pinned bytes, with their offset and the thread that put      *)
(* them, or user memory (ReplicaData).                                     *)
(***************************************************************************)
PinnedReplica ==
  [key : Keys, slot : Nat, nth : Nat, len : Nat \ {0}, device : Pools,
   tier : {"Dram"}, misplaced : BOOLEAN, segs : {{}}, region_id : {NoRegion},
   off : Int, by : Putters]

LocalReplica == PinnedReplica \cup {r \in Replica : ~IsOwned(r)}

ASSUME LocalAssumption ==
  /\ PoolOrder \in Seq(Devices)
  /\ \A m, n \in DOMAIN PoolOrder : PoolOrder[m] = PoolOrder[n] => m = n
  /\ Capacity \in [Pools -> Nat]
  /\ RegionDevice \in [Regions -> Devices]
  /\ \A src \in PublishSrcs :
       /\ src \in [regions : Seq(Regions), len : Nat]
       /\ src.regions # <<>>
  /\ Removals \subseteq SUBSET Keys
  /\ RemoveDuringPut \in BOOLEAN
  /\ CopyFaults \subseteq {"first", "midway"}
  /\ MaxPuts \in Nat
  /\ \A s \in Specs : \A i \in DOMAIN s.slots : s.slots[i].len > 0
  /\ NoRead \notin LocalReplica

VARIABLES
  objects,   \* State.objects: the spec under every key, NoObject if none
  reps,      \* the replicas of all slots; an owned one has its offset and putter
  writing,   \* Slot.writing: the claimed slots of every object
  fifo,      \* State.fifo
  free,      \* the free units of every pool
  regions,   \* lifecycle of every region: "new", "live", "dropped"
  puts,      \* the locals of every putting thread
  gets,      \* the replica every getting thread copies from, or NoRead
  dma,       \* copies still under way that no thread waits for
  begun,     \* puts begun so far
  poisoned   \* a panic unwound through the guard of the metadata mutex

vars == <<objects, reps, writing, fifo, free, regions, puts, gets, dma, begun,
          poisoned>>

NoPut == [pc |-> "idle", key |-> CHOOSE k \in Keys : TRUE, spec |-> NoObject,
          slot |-> 0, writable |-> {}, targets |-> <<>>, placed |-> <<>>,
          err |-> "Ok", deferred |-> <<>>]

Slot(k, i) == {r \in reps : r.key = k /\ r.slot = i}

CurrentSlot(p) == puts[p].spec.slots[puts[p].slot]
IsEach(p)      == CurrentSlot(p).placement.kind = "Each"
Target(p)      == Head(puts[p].targets)

(***************************************************************************)
(* The metadata mutex: a thread in the loop of alloc_or_evict holds it,    *)
(* every other critical section is a single step.                          *)
(***************************************************************************)
LockFree == ~poisoned /\ \A p \in Putters : puts[p].pc # "evict"

-----------------------------------------------------------------------------
(***************************************************************************)
(* The units that the replicas of R give back on device d when the store   *)
(* unlinks them: those of its own bytes that no get still holds, for the   *)
(* last reference to a PinnedBuf releases it.                              *)
(***************************************************************************)
Extent(x) == Cells(x.off, x.len)

\* Mutant: the bytes go back to the pool although a get still reads them.
UnlinkedNow(R, d) ==
  UNION {Extent(r) : r \in {q \in R : IsOwned(q) /\ q.device = d}}

Unlinked(R, d) ==
  UNION {Extent(r) : r \in {q \in R : /\ IsOwned(q) /\ q.device = d
                                      /\ \A g \in Getters : gets[g] # q}}

Unplaced(p, d) ==
  UNION {Extent(puts[p].placed[n]) :
           n \in {m \in DOMAIN puts[p].placed : puts[p].placed[m].device = d}}

(***************************************************************************)
(* Regions.  The drop of a region retires the replicas that carry its id   *)
(* and does not wait for gets that copy from them.                         *)
(***************************************************************************)
Register(g) ==
  /\ regions[g] = "new"
  /\ regions' = [regions EXCEPT ![g] = "live"]
  /\ UNCHANGED <<objects, reps, writing, fifo, free, puts, gets, dma, begun, poisoned>>

Retained(g) == {r \in reps : r.region_id # g}

\* Mutant: the published replicas outlive the region.
DropRegionNoRetire(g) ==
  /\ LockFree
  /\ regions[g] = "live"
  /\ regions' = [regions EXCEPT ![g] = "dropped"]
  /\ UNCHANGED <<objects, reps, writing, fifo, free, puts, gets, dma, begun, poisoned>>

DropRegion(g) ==
  /\ LockFree
  /\ regions[g] = "live"
  /\ regions' = [regions EXCEPT ![g] = "dropped"]
  /\ reps' = Retained(g)
  /\ UNCHANGED <<objects, writing, fifo, free, puts, gets, dma, begun, poisoned>>

Publish(k, i, src) ==
  /\ LockFree
  /\ \A n \in DOMAIN src.regions : regions[src.regions[n]] = "live"
  /\ i \in DOMAIN objects[k].slots
  /\ objects[k].slots[i].len = src.len
  /\ reps' = reps \cup
       {ExternalReplica(k, i, src.len, RegionDevice[src.regions[1]], src.regions)}
  /\ UNCHANGED <<objects, writing, fifo, free, regions, puts, gets, dma, begun, poisoned>>

Remove(ks) ==
  /\ LockFree
  /\ \A p \in Putters :
       puts[p].pc # "idle" /\ puts[p].key \in ks => RemoveDuringPut
  /\ LET R == {r \in reps : r.key \in ks}
     IN  /\ reps' = reps \ R
         /\ free' = [d \in Pools |-> free[d] \cup Unlinked(R, d)]
  /\ objects' = [k \in Keys |-> IF k \in ks THEN NoObject ELSE objects[k]]
  /\ writing' = [k \in Keys |-> IF k \in ks THEN {} ELSE writing[k]]
  /\ UNCHANGED <<fifo, regions, puts, gets, dma, begun, poisoned>>

-----------------------------------------------------------------------------
(***************************************************************************)
(* get: pick a replica under the mutex, then copy from it without.  The    *)
(* copy may end in a CUDA error, and one in its middle leaves the copies   *)
(* already queued running.                                                 *)
(***************************************************************************)
GetPick(g, k, i) ==
  /\ LockFree
  /\ gets[g] = NoRead
  /\ \E r \in Slot(k, i) : gets' = [gets EXCEPT ![g] = r]
  /\ UNCHANGED <<objects, reps, writing, fifo, free, regions, puts, dma, begun, poisoned>>

\* The faults after which transfers are still in flight.
LastingFaults == CopyFaults \cap {"midway"}

Orphaned(fault, E) == IF fault \in LastingFaults THEN E ELSE {}

\* Mutant: a get that ends releases bytes that another get still reads.
UnreadFirst(g, d) ==
  UNION {Extent(r) : r \in {q \in {gets[g]} : /\ IsOwned(q) /\ q.device = d
                                             /\ q \notin reps}}

Unread(g, d) ==
  UNION {Extent(r) : r \in {q \in {gets[g]} : /\ IsOwned(q) /\ q.device = d
                                             /\ q \notin reps
                                             /\ \A h \in Getters \ {g} : gets[h] # q}}

GetEnd(g, fault) ==
  LET r == gets[g]
  IN  /\ r # NoRead
      /\ gets' = [gets EXCEPT ![g] = NoRead]
      /\ free' = [d \in Pools |-> free[d] \cup Unread(g, d)]
      /\ dma' = dma \cup Orphaned(fault, {q \in {r} : IsOwned(q)})
      /\ UNCHANGED <<objects, reps, writing, fifo, regions, puts, begun, poisoned>>

DmaEnds ==
  /\ \E x \in dma : dma' = dma \ {x}
  /\ UNCHANGED <<objects, reps, writing, fifo, free, regions, puts, gets, begun, poisoned>>

-----------------------------------------------------------------------------
(***************************************************************************)
(* put, phase 1: reserve the key and claim the slots that are empty and    *)
(* that nobody else is writing.  Another spec answers SpecMismatch.        *)
(***************************************************************************)
\* Mutant: a slot that another put is writing can be claimed.
ClaimableEmpty(k, s) == {i \in DOMAIN s.slots : Slot(k, i) = {}}

Claimable(k, s) == {i \in DOMAIN s.slots : Slot(k, i) = {} /\ i \notin writing[k]}

PutReserve(p, k, s) ==
  /\ LockFree
  /\ puts[p].pc = "idle"
  /\ begun < MaxPuts
  /\ objects[k] \in {NoObject, s}
  /\ objects' = [objects EXCEPT ![k] = s]
  /\ writing' = [writing EXCEPT ![k] = @ \cup Claimable(k, s)]
  /\ puts' = [puts EXCEPT ![p] = [NoPut EXCEPT !.pc = "slot", !.key = k, !.spec = s,
                                    !.slot = 1, !.writable = Claimable(k, s)]]
  /\ begun' = begun + 1
  /\ UNCHANGED <<reps, fifo, free, regions, gets, dma, poisoned>>

(***************************************************************************)
(* Phase 2, slot after slot.                                               *)
(***************************************************************************)
NextSlot(p) ==
  [puts[p] EXCEPT !.pc = "slot", !.slot = @ + 1, !.targets = <<>>, !.placed = <<>>,
                  !.err = "Ok"]

PutSkip(p) ==
  /\ puts[p].pc = "slot"
  /\ puts[p].slot \in DOMAIN puts[p].spec.slots
  /\ puts[p].slot \notin puts[p].writable
  /\ puts' = [puts EXCEPT ![p] = NextSlot(p)]
  /\ UNCHANGED <<objects, reps, writing, fifo, free, regions, gets, dma, begun, poisoned>>

PutReturn(p) ==
  /\ puts[p].pc = "slot"
  /\ puts[p].slot \notin DOMAIN puts[p].spec.slots
  /\ puts' = [puts EXCEPT ![p] = NoPut]
  /\ UNCHANGED <<objects, reps, writing, fifo, free, regions, gets, dma, begun, poisoned>>

(***************************************************************************)
(* Resolve the placement.  A listed device without a pool fails the slot.  *)
(***************************************************************************)
Resolvable(pl) == \A n \in DOMAIN pl.devs : pl.devs[n] \in Pools

Targets(pl) ==
  IF pl.kind = "Prefer"
  THEN Placed(pl.devs) \o Misplaced(Without(PoolOrder, pl.devs[1]))
  ELSE Placed(IF pl.kind = "Anywhere" THEN PoolOrder ELSE pl.devs)

(***************************************************************************)
(* Once no target is left the slot is copied, or it fails: Each needs all  *)
(* its targets, every other placement one.                                 *)
(***************************************************************************)
\* Mutant: Each is content with some of its targets.
SomePlaced(p, q) == q.placed # <<>>

AllPlaced(p, q) == q.placed # <<>> /\ (IsEach(p) => q.err = "Ok")

Settled(p, q) ==
  [q EXCEPT !.pc = IF q.targets # <<>> THEN "alloc"
                   ELSE IF AllPlaced(p, q) THEN "copy" ELSE "fail"]

PutResolve(p) ==
  /\ puts[p].pc = "slot"
  /\ puts[p].slot \in DOMAIN puts[p].spec.slots
  /\ puts[p].slot \in puts[p].writable
  /\ LET pl == CurrentSlot(p).placement
     IN  puts' = [puts EXCEPT ![p] =
                    IF Resolvable(pl)
                    THEN Settled(p, [@ EXCEPT !.targets = Targets(pl)])
                    ELSE [@ EXCEPT !.pc = "fail", !.err = "InvalidInput"]]
  /\ UNCHANGED <<objects, reps, writing, fifo, free, regions, gets, dma, begun, poisoned>>

(***************************************************************************)
(* alloc_or_evict: the pool's own lock makes an allocation one step.       *)
(***************************************************************************)
Fit(p) == FirstFit(free[Target(p).device], CurrentSlot(p).len)

Accepted(p, off) ==
  Settled(p, [puts[p] EXCEPT
                !.placed = Append(@, [device |-> Target(p).device,
                                      misplaced |-> Target(p).misplaced,
                                      off |-> off, len |-> CurrentSlot(p).len]),
                !.targets = IF IsEach(p) THEN Tail(@) ELSE <<>>])

Refused(p) ==
  Settled(p, [puts[p] EXCEPT !.err = "NoSpace",
                             !.targets = IF IsEach(p) THEN <<>> ELSE Tail(@)])

PutAlloc(p) ==
  /\ puts[p].pc \in {"alloc", "retry", "last"}
  /\ \E off \in Fit(p) :
       /\ puts' = [puts EXCEPT ![p] = Accepted(p, off)]
       /\ free' = [free EXCEPT ![Target(p).device] =
                     @ \ Cells(off, CurrentSlot(p).len)]
  /\ UNCHANGED <<objects, reps, writing, fifo, regions, gets, dma, begun, poisoned>>

PutTooLarge(p) ==
  /\ puts[p].pc = "alloc"
  /\ Fit(p) = {}
  /\ CurrentSlot(p).len > Capacity[Target(p).device]
  /\ puts' = [puts EXCEPT ![p] = Refused(p)]
  /\ UNCHANGED <<objects, reps, writing, fifo, free, regions, gets, dma, begun, poisoned>>

PutNoSpace(p) ==
  /\ puts[p].pc = "last"
  /\ Fit(p) = {}
  /\ puts' = [puts EXCEPT ![p] = Refused(p)]
  /\ UNCHANGED <<objects, reps, writing, fifo, free, regions, gets, dma, begun, poisoned>>

PutMustEvict(p) ==
  /\ \/ puts[p].pc = "alloc" /\ CurrentSlot(p).len <= Capacity[Target(p).device]
     \/ puts[p].pc = "retry"
  /\ Fit(p) = {}
  /\ puts' = [puts EXCEPT ![p].pc = "lock"]
  /\ UNCHANGED <<objects, reps, writing, fifo, free, regions, gets, dma, begun, poisoned>>

(***************************************************************************)
(* The loop under the mutex: pop entries until one gives up a replica, or  *)
(* none is left.  Entries of the put's own key are set aside and put back. *)
(***************************************************************************)
EvictBegin(p) ==
  /\ LockFree
  /\ puts[p].pc = "lock"
  /\ puts' = [puts EXCEPT ![p].pc = "evict"]
  /\ UNCHANGED <<objects, reps, writing, fifo, free, regions, gets, dma, begun, poisoned>>

PopEntry(p) ==
  /\ puts[p].pc = "evict"
  /\ fifo[Target(p).device] # <<>>

Popped(p) == Head(fifo[Target(p).device])

\* Mutant: the put evicts slots of its own object.
NothingProtected(p, k) == FALSE

Protected(p, k) == k = puts[p].key

Evictable(k) == objects[k] # NoObject /\ objects[k].retention = "Cache"

\* Mutant: the entry goes back to the queue that is being drained.
EvictRotate(p) ==
  /\ PopEntry(p)
  /\ Protected(p, Popped(p)[1])
  /\ fifo' = [fifo EXCEPT ![Target(p).device] = Append(Tail(@), Popped(p))]
  /\ UNCHANGED <<objects, reps, writing, free, regions, puts, gets, dma, begun, poisoned>>

EvictDefer(p) ==
  /\ PopEntry(p)
  /\ Protected(p, Popped(p)[1])
  /\ fifo' = [fifo EXCEPT ![Target(p).device] = Tail(@)]
  /\ puts' = [puts EXCEPT ![p].deferred = Append(@, Popped(p))]
  /\ UNCHANGED <<objects, reps, writing, free, regions, gets, dma, begun, poisoned>>

EvictForget(p) ==
  /\ PopEntry(p)
  /\ ~Protected(p, Popped(p)[1])
  /\ ~Evictable(Popped(p)[1])
  /\ fifo' = [fifo EXCEPT ![Target(p).device] = Tail(@)]
  /\ UNCHANGED <<objects, reps, writing, free, regions, puts, gets, dma, begun, poisoned>>

Victims(k, i, d) == {r \in Slot(k, i) : r.device = d /\ IsOwned(r)}

Emptied(k, R) == (\A r \in R : r.key # k) /\ writing[k] = {}

Restored(p, q) == puts[p].deferred \o q

EvictEntry(p) ==
  LET k == Popped(p)[1]
      i == Popped(p)[2]
      d == Target(p).device
      V == Victims(k, i, d)
  IN  /\ PopEntry(p)
      /\ ~Protected(p, k)
      /\ Evictable(k)
      /\ i \in DOMAIN objects[k].slots
      /\ reps' = reps \ V
      /\ free' = [free EXCEPT ![d] = @ \cup Unlinked(V, d)]
      /\ objects' = IF Emptied(k, reps') THEN [objects EXCEPT ![k] = NoObject]
                    ELSE objects
      /\ IF V # {}
         THEN /\ fifo' = [fifo EXCEPT ![d] = Restored(p, Tail(@))]
              /\ puts' = [puts EXCEPT ![p].pc = "retry", ![p].deferred = <<>>]
         ELSE /\ fifo' = [fifo EXCEPT ![d] = Tail(@)]
              /\ UNCHANGED puts
      /\ UNCHANGED <<writing, regions, gets, dma, begun, poisoned>>

EvictNothing(p) ==
  /\ puts[p].pc = "evict"
  /\ fifo[Target(p).device] = <<>>
  /\ fifo' = [fifo EXCEPT ![Target(p).device] = Restored(p, @)]
  /\ puts' = [puts EXCEPT ![p].pc = "last", ![p].deferred = <<>>]
  /\ UNCHANGED <<objects, reps, writing, free, regions, gets, dma, begun, poisoned>>

(***************************************************************************)
(* An index out of bounds under the mutex unwinds the put, which drops the *)
(* buffers it placed, and poisons the mutex: whoever locks it next panics. *)
(***************************************************************************)
Unwind(p) ==
  /\ puts' = [puts EXCEPT ![p] = [NoPut EXCEPT !.pc = "panicked"]]
  /\ free' = [d \in Pools |-> free[d] \cup Unplaced(p, d)]
  /\ poisoned' = TRUE

EvictPanic(p) ==
  /\ PopEntry(p)
  /\ ~Protected(p, Popped(p)[1])
  /\ Evictable(Popped(p)[1])
  /\ Popped(p)[2] \notin DOMAIN objects[Popped(p)[1]].slots
  /\ fifo' = [fifo EXCEPT ![Target(p).device] = Tail(@)]
  /\ Unwind(p)
  /\ UNCHANGED <<objects, reps, writing, regions, gets, dma, begun>>

PutPanic(p) ==
  /\ puts[p].pc \in {"publish", "clear"}
  /\ LockFree
  /\ objects[puts[p].key] # NoObject
  /\ puts[p].slot \notin DOMAIN objects[puts[p].key].slots
  /\ Unwind(p)
  /\ UNCHANGED <<objects, reps, writing, fifo, regions, gets, dma, begun>>

PutPoisoned(p) ==
  /\ poisoned
  /\ puts[p].pc \in {"lock", "publish", "clear"}
  /\ Unwind(p)
  /\ UNCHANGED <<objects, reps, writing, fifo, regions, gets, dma, begun>>

(***************************************************************************)
(* The copy runs without the mutex; it ends well or with a CUDA error.     *)
(***************************************************************************)
PutCopied(p) ==
  /\ puts[p].pc = "copy"
  /\ puts' = [puts EXCEPT ![p].pc = "publish"]
  /\ UNCHANGED <<objects, reps, writing, fifo, free, regions, gets, dma, begun, poisoned>>

PutCopyFails(p, fault) ==
  /\ puts[p].pc = "copy"
  /\ puts' = [puts EXCEPT ![p].pc = "fail", ![p].err = "Unexpected"]
  /\ \E n \in DOMAIN puts[p].placed :
       dma' = dma \cup Orphaned(fault, {puts[p].placed[n]})
  /\ UNCHANGED <<objects, reps, writing, fifo, free, regions, gets, begun, poisoned>>

(***************************************************************************)
(* Phase 3: publish the replicas, unless the object is gone.               *)
(***************************************************************************)
NewReplica(p, n) ==
  LET b == puts[p].placed[n]
  IN  [key |-> puts[p].key, slot |-> puts[p].slot, nth |-> n, len |-> b.len,
       device |-> b.device, tier |-> "Dram", misplaced |-> b.misplaced,
       segs |-> {}, region_id |-> NoRegion, off |-> b.off, by |-> p]

NewEntries(p, d) ==
  [n \in 1..Cardinality({m \in DOMAIN puts[p].placed : puts[p].placed[m].device = d})
     |-> <<puts[p].key, puts[p].slot>>]

\* Mutant: the replicas are not queued for eviction.
Unqueued(p, d) == fifo[d]

Queue(p, d) == fifo[d] \o NewEntries(p, d)

PutPublish(p) ==
  /\ LockFree
  /\ puts[p].pc = "publish"
  /\ puts[p].slot \in DOMAIN objects[puts[p].key].slots
  /\ reps' = reps \cup {NewReplica(p, n) : n \in DOMAIN puts[p].placed}
  /\ writing' = [writing EXCEPT ![puts[p].key] = @ \ {puts[p].slot}]
  /\ fifo' = [d \in Pools |-> Queue(p, d)]
  /\ puts' = [puts EXCEPT ![p] = NextSlot(p)]
  /\ UNCHANGED <<objects, free, regions, gets, dma, begun, poisoned>>

PutGone(p) ==
  /\ LockFree
  /\ puts[p].pc = "publish"
  /\ objects[puts[p].key] = NoObject
  /\ puts' = [puts EXCEPT ![p].pc = "fail", ![p].err = "NotFound"]
  /\ UNCHANGED <<objects, reps, writing, fifo, free, regions, gets, dma, begun, poisoned>>

(***************************************************************************)
(* A failed slot drops its buffers, then gives up its claim.               *)
(***************************************************************************)
PutDrop(p) ==
  /\ puts[p].pc = "fail"
  /\ free' = [d \in Pools |-> free[d] \cup Unplaced(p, d)]
  /\ puts' = [puts EXCEPT ![p].pc = "clear", ![p].placed = <<>>]
  /\ UNCHANGED <<objects, reps, writing, fifo, regions, gets, dma, begun, poisoned>>

Unclaimed(k, i) == writing[k] \ {i}

PutClear(p) ==
  /\ LockFree
  /\ puts[p].pc = "clear"
  /\ puts[p].slot \in DOMAIN objects[puts[p].key].slots \/ objects[puts[p].key] = NoObject
  /\ writing' = [writing EXCEPT ![puts[p].key] = Unclaimed(puts[p].key, puts[p].slot)]
  /\ puts' = [puts EXCEPT ![p] = NextSlot(p)]
  /\ UNCHANGED <<objects, reps, fifo, free, regions, gets, dma, begun, poisoned>>

CallPanics ==
  /\ poisoned
  /\ UNCHANGED vars

-----------------------------------------------------------------------------
Init ==
  /\ objects = [k \in Keys |-> NoObject]
  /\ reps = {}
  /\ writing = [k \in Keys |-> {}]
  /\ fifo = [d \in Pools |-> <<>>]
  /\ free = [d \in Pools |-> 0 .. Capacity[d] - 1]
  /\ regions = [g \in Regions |-> "new"]
  /\ puts = [p \in Putters |-> NoPut]
  /\ gets = [g \in Getters |-> NoRead]
  /\ dma = {}
  /\ begun = 0
  /\ poisoned = FALSE

PutStep(p) ==
  \/ PutSkip(p) \/ PutReturn(p) \/ PutResolve(p)
  \/ PutAlloc(p) \/ PutTooLarge(p) \/ PutNoSpace(p) \/ PutMustEvict(p)
  \/ EvictBegin(p) \/ EvictDefer(p) \/ EvictForget(p) \/ EvictEntry(p)
  \/ EvictNothing(p) \/ EvictPanic(p)
  \/ PutCopied(p) \/ (\E f \in CopyFaults : PutCopyFails(p, f))
  \/ PutPublish(p) \/ PutGone(p) \/ PutDrop(p) \/ PutClear(p)
  \/ PutPanic(p) \/ PutPoisoned(p)

Next ==
  \/ \E g \in Regions : Register(g) \/ DropRegion(g)
  \/ \E k \in Keys : \E i \in DOMAIN objects[k].slots :
       \/ \E src \in PublishSrcs : Publish(k, i, src)
       \/ \E g \in Getters : GetPick(g, k, i)
  \/ \E g \in Getters, f \in CopyFaults \cup {"none"} : GetEnd(g, f)
  \/ \E ks \in Removals : Remove(ks)
  \/ \E f \in LastingFaults : DmaEnds
  \/ \E p \in Putters : PutStep(p) \/ \E k \in Keys, s \in Specs : PutReserve(p, k, s)
  \/ CallPanics

(***************************************************************************)
(* Fairness: a thread inside a put keeps running, whatever the others do.  *)
(***************************************************************************)
Spec == Init /\ [][Next]_vars /\ \A p \in Putters : WF_vars(PutStep(p))
-----------------------------------------------------------------------------
(***************************************************************************)
(* Every range of pool memory some thread or replica relies on, as         *)
(* holder and range.                                                       *)
(***************************************************************************)
LiveOn(d) ==
  {r \in reps \cup {gets[g] : g \in {h \in Getters : gets[h] # NoRead}} :
     IsOwned(r) /\ r.device = d}

PlacedOn(d) ==
  {x \in UNION {{p} \X DOMAIN puts[p].placed : p \in Putters} :
     puts[x[1]].placed[x[2]].device = d}

PlacedExtent(x) == Extent(puts[x[1]].placed[x[2]])

(***************************************************************************)
(* "readers clone an `Arc` to the replica bytes, so eviction can drop its  *)
(* reference while a transfer is in flight": bytes that a replica, a       *)
(* running get or an unfinished put still uses are never handed out again. *)
(***************************************************************************)
NoReuse ==
  \A d \in Pools :
    /\ \A r, q \in LiveOn(d) : r # q => Extent(r) \cap Extent(q) = {}
    /\ \A x, y \in PlacedOn(d) : x # y => PlacedExtent(x) \cap PlacedExtent(y) = {}
    /\ \A r \in LiveOn(d), x \in PlacedOn(d) : Extent(r) \cap PlacedExtent(x) = {}
    /\ \A r \in LiveOn(d) : Extent(r) \cap free[d] = {}
    /\ \A x \in PlacedOn(d) : PlacedExtent(x) \cap free[d] = {}

(***************************************************************************)
(* "the memory is returned only when the last reader is done", and then it *)
(* is: bytes nobody uses are free, whichever of eviction, remove, get and  *)
(* a failing put let go of them last.                                      *)
(***************************************************************************)
NoLeak ==
  \A d \in Pools :
    0 .. Capacity[d] - 1 = free[d] \cup (UNION {Extent(r) : r \in LiveOn(d)})
                                   \cup (UNION {PlacedExtent(x) : x \in PlacedOn(d)})

(***************************************************************************)
(* Both together: every byte of every pool is free or has one user, with   *)
(* threads anywhere between allocating, copying, publishing and reading.   *)
(***************************************************************************)
OneOwner == NoReuse /\ NoLeak

(***************************************************************************)
(* "Write-once per slot": all the owned replicas of a slot come from one   *)
(* put; and a slot that is claimed has a put that has yet to fill it or to *)
(* give it up, so that it is never claimed twice and no failure leaves it  *)
(* unwritable for ever.  This holds as long as clients do not remove a key *)
(* that is being put (RemoveDuringPut); if they do, and put it again, both *)
(* puts may fill the slot.                                                 *)
(***************************************************************************)
FilledOnce ==
  \A r, q \in reps :
    (IsOwned(r) /\ IsOwned(q) /\ r.key = q.key /\ r.slot = q.slot) => r.by = q.by

ClaimsHeld ==
  ~poisoned =>
    \A k \in Keys : \A i \in writing[k] :
      \E p \in Putters : /\ puts[p].pc # "idle"
                         /\ puts[p].key = k
                         /\ i \in puts[p].writable
                         /\ i >= puts[p].slot

WrittenOnce == FilledOnce /\ ClaimsHeld

(***************************************************************************)
(* Every owned replica of a Cache object has an entry in its pool's fifo,  *)
(* or one set aside by the put that is evicting from that pool.            *)
(***************************************************************************)
CacheReplicasQueued ==
  ~poisoned =>
    \A r \in reps :
      IsOwned(r) /\ objects[r.key].retention = "Cache" =>
        \/ \E n \in DOMAIN fifo[r.device] : fifo[r.device][n] = <<r.key, r.slot>>
        \/ \E p \in Putters :
             /\ puts[p].pc = "evict"
             /\ Target(p).device = r.device
             /\ \E n \in DOMAIN puts[p].deferred :
                  puts[p].deferred[n] = <<r.key, r.slot>>

(***************************************************************************)
(* The copy engine never touches memory that has been given back: "synced  *)
(* below" says every copy waits for the transfers it queued.               *)
(***************************************************************************)
TransfersHeld ==
  \A x \in dma : x.device \in Pools => Extent(x) \cap free[x.device] = {}

(***************************************************************************)
(* Dropping a region "retires any `External` replicas published from it":  *)
(* no replica in the index points into memory that is not registered.      *)
(***************************************************************************)
ExternalReplicasLive ==
  \A r \in reps : \A g \in r.segs : regions[g] = "live"

(***************************************************************************)
(* Every put returns or panics: evict-and-retry ends.                      *)
(***************************************************************************)
PutsEnd ==
  \A p \in Putters : puts[p].pc # "idle" ~> puts[p].pc \in {"idle", "panicked"}

(***************************************************************************)
(* The backend implements the same contract as Memory.                     *)
(***************************************************************************)
Contract == INSTANCE SlotContract

ImplementsContract == Contract!Spec
=============================================================================
