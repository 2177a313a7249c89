------------------------------- MODULE Memory -------------------------------
(***************************************************************************)
(* The in-process reference backend                                        *)
(* (crates/pegastore/src/services/memory.rs): per-device pools with FIFO   *)
(* eviction behind one mutex.  put and remove loop while they hold the     *)
(* mutex; each iteration is a step here, pc says where the holder is, and  *)
(* no other operation can run until pc is back at "idle".  get and stat    *)
(* change nothing; which replica get reads is in Requests.                 *)
(***************************************************************************)
EXTENDS StoreTypes

CONSTANTS
  DeviceOrder,   \* Inner.device_order: the devices served, in build order
  Capacity,      \* Pool.capacity of every served device, Unlimited for None
  RegionDevice,  \* the device of every region
  PublishSrcs,   \* the iov lists clients publish: regions and total length
  Removals,      \* the key lists and key prefixes clients remove
  MaxFifo        \* bound, by device: no put starts while its fifo is longer

Unlimited == -1

Served == {DeviceOrder[n] : n \in DOMAIN DeviceOrder}

ASSUME MemoryAssumption ==
  /\ DeviceOrder \in Seq(Devices)
  /\ \A m, n \in DOMAIN DeviceOrder : DeviceOrder[m] = DeviceOrder[n] => m = n
  /\ Capacity \in [Served -> Nat \cup {Unlimited}]
  /\ RegionDevice \in [Regions -> Devices]
  /\ \A src \in PublishSrcs :
       /\ src \in [regions : Seq(Regions), len : Nat]
       /\ src.regions # <<>>
       /\ \A n \in DOMAIN src.regions :
            RegionDevice[src.regions[n]] = RegionDevice[src.regions[1]]
  /\ Removals \subseteq SUBSET Keys
  /\ MaxFifo \in [Served -> Nat]

VARIABLES
  objects,   \* State.objects: the spec under every key, NoObject if none
  reps,      \* the replicas of all slots of all objects
  used,      \* Pool.used
  fifo,      \* Pool.fifo: (key, slot) in insertion order, possibly stale
  regions,   \* lifecycle of every region: "new", "live", "dropped"
  pc,        \* where the holder of the mutex is, "idle" if nobody holds it
  put,       \* the locals of the put that holds the mutex
  release,   \* the replicas a remove has unlinked and not yet uncharged
  poisoned   \* a panic unwound through the mutex guard

vars == <<objects, reps, used, fifo, regions, pc, put, release, poisoned>>

Candidate == [device : Devices, misplaced : BOOLEAN]
Outcome   == {"Ok", "AlreadyExists", "NoSpace", "InvalidInput"}
Entry     == Keys \X Nat

NoPut == [key |-> CHOOSE k \in Keys : TRUE, spec |-> NoObject, slot |-> 0,
          writable |-> {}, cands |-> <<>>, targets |-> <<>>, err |-> "Ok",
          deferred |-> <<>>, results |-> <<>>]

Slot(k, i) == {r \in reps : r.key = k /\ r.slot = i}

SlotLen(k, i) == objects[k].slots[i].len

(***************************************************************************)
(* The devices a slot's placement tries, in order, each with the misplaced *)
(* flag its replica would carry.                                           *)
(***************************************************************************)
\* Mutant: a spilled Prefer replica is not flagged misplaced.
CandidatesUnflagged(p) ==
  IF p.kind = "Prefer"
  THEN Placed(p.devs) \o Placed(Without(DeviceOrder, p.devs[1]))
  ELSE Placed(IF p.kind = "Anywhere" THEN DeviceOrder ELSE p.devs)

Candidates(p) ==
  IF p.kind = "Prefer"
  THEN Placed(p.devs) \o Misplaced(Without(DeviceOrder, p.devs[1]))
  ELSE Placed(IF p.kind = "Anywhere" THEN DeviceOrder ELSE p.devs)

CurrentSlot == put.spec.slots[put.slot]
IsEach      == CurrentSlot.placement.kind = "Each"
Cand        == Head(put.cands)

-----------------------------------------------------------------------------
(***************************************************************************)
(* Regions.  register only allocates an id, which is never used again; the *)
(* drop of the region retires the replicas that carry its id.              *)
(***************************************************************************)
Register(g) ==
  /\ regions[g] = "new"
  /\ regions' = [regions EXCEPT ![g] = "live"]
  /\ UNCHANGED <<objects, reps, used, fifo, pc, put, release, poisoned>>

LockFree == pc = "idle" /\ ~poisoned

DropRegion(g) ==
  /\ LockFree
  /\ regions[g] = "live"
  /\ regions' = [regions EXCEPT ![g] = "dropped"]
  /\ reps' = {r \in reps : r.region_id # g}
  /\ UNCHANGED <<objects, used, fifo, pc, put, release, poisoned>>

(***************************************************************************)
(* publish adds an External replica; the region of the first iov is the    *)
(* one it is remembered by.  The caller borrows every region it names.     *)
(***************************************************************************)
Publish(k, i, src) ==
  /\ LockFree
  /\ \A n \in DOMAIN src.regions : regions[src.regions[n]] = "live"
  /\ i \in DOMAIN objects[k].slots
  /\ SlotLen(k, i) = src.len
  /\ reps' = reps \cup
       {ExternalReplica(k, i, src.len, RegionDevice[src.regions[1]], src.regions)}
  /\ UNCHANGED <<objects, used, fifo, regions, pc, put, release, poisoned>>

-----------------------------------------------------------------------------
(***************************************************************************)
(* remove and remove_prefix unlink the objects, then uncharge every owned  *)
(* replica from its pool.  Their fifo entries stay behind.                 *)
(***************************************************************************)
Remove(ks) ==
  /\ LockFree
  /\ release' = {r \in reps : r.key \in ks /\ IsOwned(r)}
  /\ reps' = {r \in reps : r.key \notin ks}
  /\ objects' = [k \in Keys |-> IF k \in ks THEN NoObject ELSE objects[k]]
  /\ pc' = "release"
  /\ UNCHANGED <<used, fifo, regions, put, poisoned>>

Release ==
  /\ pc = "release"
  /\ release # {}
  /\ LET r == CHOOSE q \in release : TRUE
     IN  /\ used' = [used EXCEPT ![r.device] = @ - r.len]
         /\ release' = release \ {r}
  /\ UNCHANGED <<objects, reps, fifo, regions, pc, put, poisoned>>

RemoveReturn ==
  /\ pc = "release"
  /\ release = {}
  /\ pc' = "idle"
  /\ UNCHANGED <<objects, reps, used, fifo, regions, put, release, poisoned>>

-----------------------------------------------------------------------------
(***************************************************************************)
(* put, phase 1: reserve the key and decide which slots are writable.  A   *)
(* put of another spec over an existing object answers SpecMismatch and    *)
(* changes nothing.                                                        *)
(***************************************************************************)
\* Mutant: a put of another spec goes ahead.
SpecIgnored(k, s) == TRUE

SpecAdmitted(k, s) == objects[k] \in {NoObject, s}

PutBegin(k, s) ==
  /\ LockFree
  /\ \A d \in Served : Len(fifo[d]) <= MaxFifo[d]
  /\ SpecAdmitted(k, s)
  /\ objects' = [objects EXCEPT ![k] = s]
  /\ put' = [NoPut EXCEPT !.key = k, !.spec = s, !.slot = 1,
               !.writable = {i \in DOMAIN s.slots : Slot(k, i) = {}}]
  /\ pc' = "slot"
  /\ UNCHANGED <<reps, used, fifo, regions, release, poisoned>>

NextSlot(outcome) ==
  [put EXCEPT !.slot = @ + 1, !.results = Append(@, outcome),
              !.cands = <<>>, !.targets = <<>>, !.err = "Ok"]

(***************************************************************************)
(* put, phase 2: slot after slot.  A slot that had bytes when the put      *)
(* began is refused; any other tries its candidates.                       *)
(***************************************************************************)
PutRefuseSlot ==
  /\ pc = "slot"
  /\ put.slot \in DOMAIN put.spec.slots
  /\ put.slot \notin put.writable
  /\ put' = NextSlot("AlreadyExists")
  /\ UNCHANGED <<objects, reps, used, fifo, regions, pc, release, poisoned>>

PutStartSlot ==
  /\ pc = "slot"
  /\ put.slot \in DOMAIN put.spec.slots
  /\ put.slot \in put.writable
  /\ put' = [put EXCEPT !.cands = Candidates(CurrentSlot.placement)]
  /\ pc' = "try"
  /\ UNCHANGED <<objects, reps, used, fifo, regions, release, poisoned>>

(***************************************************************************)
(* Each needs every candidate, so it stops at the first failure; the other *)
(* placements stop at the first success.                                   *)
(***************************************************************************)
Accepted ==
  [put EXCEPT !.targets = Append(@, Cand), !.deferred = <<>>,
              !.cands = IF IsEach THEN Tail(@) ELSE <<>>]

Refused(kind) ==
  [put EXCEPT !.err = kind, !.deferred = <<>>,
              !.cands = IF IsEach THEN <<>> ELSE Tail(@)]

PutUnknownDevice ==
  /\ pc = "try"
  /\ put.cands # <<>>
  /\ Cand.device \notin Served
  /\ put' = Refused("InvalidInput")
  /\ UNCHANGED <<objects, reps, used, fifo, regions, pc, release, poisoned>>

(***************************************************************************)
(* make_room answers at once for a pool without a capacity and for a slot  *)
(* larger than the pool.                                                   *)
(***************************************************************************)
MakeRoomUnlimited ==
  /\ pc = "try"
  /\ put.cands # <<>>
  /\ Cand.device \in Served
  /\ Capacity[Cand.device] = Unlimited
  /\ put' = Accepted
  /\ UNCHANGED <<objects, reps, used, fifo, regions, pc, release, poisoned>>

MakeRoomTooLarge ==
  /\ pc = "try"
  /\ put.cands # <<>>
  /\ Cand.device \in Served
  /\ Capacity[Cand.device] # Unlimited
  /\ CurrentSlot.len > Capacity[Cand.device]
  /\ put' = Refused("NoSpace")
  /\ UNCHANGED <<objects, reps, used, fifo, regions, pc, release, poisoned>>

MakeRoomBegin ==
  /\ pc = "try"
  /\ put.cands # <<>>
  /\ Cand.device \in Served
  /\ Capacity[Cand.device] # Unlimited
  /\ CurrentSlot.len <= Capacity[Cand.device]
  /\ pc' = "room"
  /\ UNCHANGED <<objects, reps, used, fifo, regions, put, release, poisoned>>

(***************************************************************************)
(* The loop of make_room: while the slot does not fit, pop an entry.  One  *)
(* of the put's own key is set aside, one that names no Cache object is    *)
(* forgotten, any other loses its owned replicas on this device.           *)
(***************************************************************************)
\* Mutant: only the bytes already charged are compared.
FitsIgnoringNeed(d) == used[d] <= Capacity[d]

Fits(d) == used[d] + CurrentSlot.len <= Capacity[d]

PopEntry ==
  /\ pc = "room"
  /\ ~Fits(Cand.device)
  /\ fifo[Cand.device] # <<>>

Popped == Head(fifo[Cand.device])

Protected(k) == k = put.key

Evictable(k) == objects[k] # NoObject /\ objects[k].retention = "Cache"

\* Mutant: an entry of the put's own key goes to the back of the queue.
MakeRoomRotate ==
  /\ PopEntry
  /\ Protected(Popped[1])
  /\ fifo' = [fifo EXCEPT ![Cand.device] = Append(Tail(@), Head(@))]
  /\ UNCHANGED <<objects, reps, used, regions, pc, put, release, poisoned>>

MakeRoomDefer ==
  /\ PopEntry
  /\ Protected(Popped[1])
  /\ fifo' = [fifo EXCEPT ![Cand.device] = Tail(@)]
  /\ put' = [put EXCEPT !.deferred = Append(@, Popped)]
  /\ UNCHANGED <<objects, reps, used, regions, pc, release, poisoned>>

MakeRoomForget ==
  /\ PopEntry
  /\ ~Protected(Popped[1])
  /\ ~Evictable(Popped[1])
  /\ fifo' = [fifo EXCEPT ![Cand.device] = Tail(@)]
  /\ UNCHANGED <<objects, reps, used, regions, pc, put, release, poisoned>>

\* Mutant: the device of the replica is not compared.
VictimsAnywhere(k, i, d) == {r \in Slot(k, i) : IsOwned(r)}

Victims(k, i, d) == {r \in Slot(k, i) : r.device = d /\ IsOwned(r)}

Freed(k, i, d) == Cardinality(Victims(k, i, d)) * SlotLen(k, i)

MakeRoomEvict ==
  LET k == Popped[1]
      i == Popped[2]
      d == Cand.device
  IN  /\ PopEntry
      /\ ~Protected(k)
      /\ Evictable(k)
      /\ i \in DOMAIN objects[k].slots
      /\ fifo' = [fifo EXCEPT ![d] = Tail(@)]
      /\ reps' = reps \ Victims(k, i, d)
      /\ used' = [used EXCEPT ![d] = @ - Freed(k, i, d)]
      /\ objects' = IF \E r \in reps' : r.key = k THEN objects
                    ELSE [objects EXCEPT ![k] = NoObject]
      /\ UNCHANGED <<regions, pc, put, release, poisoned>>

(***************************************************************************)
(* A stale entry may name a slot that the object now under its key does    *)
(* not have.  The index panics, the put unwinds and the mutex stays        *)
(* poisoned: every later call panics on it.                                *)
(***************************************************************************)
MakeRoomPanic ==
  /\ PopEntry
  /\ ~Protected(Popped[1])
  /\ Evictable(Popped[1])
  /\ Popped[2] \notin DOMAIN objects[Popped[1]].slots
  /\ fifo' = [fifo EXCEPT ![Cand.device] = Tail(@)]
  /\ poisoned' = TRUE
  /\ pc' = "idle"
  /\ put' = NoPut
  /\ UNCHANGED <<objects, reps, used, regions, release>>

(***************************************************************************)
(* The end of make_room puts the set-aside entries back in front, and says *)
(* whether the slot fits.                                                  *)
(***************************************************************************)
Restored(d) == put.deferred \o fifo[d]

MakeRoomReturn ==
  /\ pc = "room"
  /\ Fits(Cand.device) \/ fifo[Cand.device] = <<>>
  /\ fifo' = [fifo EXCEPT ![Cand.device] = Restored(Cand.device)]
  /\ put' = IF Fits(Cand.device) THEN Accepted ELSE Refused("NoSpace")
  /\ pc' = "try"
  /\ UNCHANGED <<objects, reps, used, regions, release, poisoned>>

(***************************************************************************)
(* With the candidates exhausted the slot is written to all its targets,   *)
(* which are then charged, or fails.                                       *)
(***************************************************************************)
SlotPlaced ==
  /\ put.targets # <<>>
  /\ IsEach => put.err = "Ok"

TargetsOn(d) == {n \in DOMAIN put.targets : put.targets[n].device = d}

NewEntries(d) == [n \in 1..Cardinality(TargetsOn(d)) |-> <<put.key, put.slot>>]

\* Mutant: charge does not queue the replica.
Unqueued(d) == fifo[d]

\* Mutant: charge queues the replica in front.
PushedFront(d) == NewEntries(d) \o fifo[d]

Pushed(d) == fifo[d] \o NewEntries(d)

PutWriteSlot ==
  /\ pc = "try"
  /\ put.cands = <<>>
  /\ SlotPlaced
  /\ reps' = reps \cup
       {OwnedReplica(put.key, put.slot, n, CurrentSlot.len, put.targets[n]) :
          n \in DOMAIN put.targets}
  /\ used' = [d \in Served |->
                used[d] + Cardinality(TargetsOn(d)) * CurrentSlot.len]
  /\ fifo' = [d \in Served |-> Pushed(d)]
  /\ put' = NextSlot("Ok")
  /\ pc' = "slot"
  /\ UNCHANGED <<objects, regions, release, poisoned>>

PutFailSlot ==
  /\ pc = "try"
  /\ put.cands = <<>>
  /\ ~SlotPlaced
  /\ put' = NextSlot(IF put.err = "Ok" THEN "NoSpace" ELSE put.err)
  /\ pc' = "slot"
  /\ UNCHANGED <<objects, reps, used, fifo, regions, release, poisoned>>

PutReturn ==
  /\ pc = "slot"
  /\ put.slot \notin DOMAIN put.spec.slots
  /\ pc' = "idle"
  /\ put' = NoPut
  /\ UNCHANGED <<objects, reps, used, fifo, regions, release, poisoned>>

(***************************************************************************)
(* Once the mutex is poisoned every call that locks it panics, and nothing *)
(* changes any more.                                                       *)
(***************************************************************************)
CallPanics ==
  /\ poisoned
  /\ UNCHANGED vars

-----------------------------------------------------------------------------
Init ==
  /\ objects = [k \in Keys |-> NoObject]
  /\ reps = {}
  /\ used = [d \in Served |-> 0]
  /\ fifo = [d \in Served |-> <<>>]
  /\ regions = [g \in Regions |-> "new"]
  /\ pc = "idle"
  /\ put = NoPut
  /\ release = {}
  /\ poisoned = FALSE

PutStep ==
  \/ PutRefuseSlot \/ PutStartSlot \/ PutUnknownDevice
  \/ MakeRoomUnlimited \/ MakeRoomTooLarge \/ MakeRoomBegin
  \/ MakeRoomDefer \/ MakeRoomForget \/ MakeRoomEvict \/ MakeRoomPanic
  \/ MakeRoomReturn
  \/ PutWriteSlot \/ PutFailSlot \/ PutReturn

RemoveStep == Release \/ RemoveReturn

Next ==
  \/ \E g \in Regions : Register(g) \/ DropRegion(g)
  \/ \E k \in Keys, src \in PublishSrcs :
       \E i \in DOMAIN objects[k].slots : Publish(k, i, src)
  \/ \E ks \in Removals : Remove(ks)
  \/ RemoveStep
  \/ \E k \in Keys, s \in Specs : PutBegin(k, s)
  \/ PutStep
  \/ CallPanics

(***************************************************************************)
(* Fairness: the thread that holds the mutex keeps running.                *)
(***************************************************************************)
Spec == Init /\ [][Next]_vars /\ WF_vars(PutStep \/ RemoveStep)
-----------------------------------------------------------------------------
(***************************************************************************)
(* Type invariant: the state structs of memory.rs, and the locals of the   *)
(* put that holds the mutex.                                               *)
(***************************************************************************)
PutLocals ==
  [key : Keys, spec : ObjectSpec, slot : Nat, writable : SUBSET Nat,
   cands : Seq(Candidate), targets : Seq(Candidate), err : Outcome,
   deferred : Seq(Entry), results : Seq(Outcome)]

TypeOK ==
  /\ objects \in [Keys -> ObjectSpec]
  /\ reps \subseteq Replica
  /\ used \in [Served -> Nat]
  /\ fifo \in [Served -> Seq(Entry)]
  /\ regions \in [Regions -> {"new", "live", "dropped"}]
  /\ pc \in {"idle", "release", "slot", "try", "room"}
  /\ put \in PutLocals
  /\ release \subseteq Replica
  /\ poisoned \in BOOLEAN

(***************************************************************************)
(* "Add a device whose pool holds at most `capacity` bytes"                *)
(* (device_with_capacity): the charged bytes of a pool never exceed its    *)
(* capacity, through any number of puts, evictions and removes.            *)
(***************************************************************************)
CapacityRespected ==
  \A d \in Served : Capacity[d] # Unlimited => used[d] <= Capacity[d]

(***************************************************************************)
(* Pool.used is exactly the number of bytes of the owned replicas on the   *)
(* device, those a remove is about to uncharge included: no charge,        *)
(* eviction or release is lost or counted twice, and the subtractions from *)
(* the u64 never wrap.  A byte is a replica and an offset into it.         *)
(***************************************************************************)
Bytes(R) == UNION {{r} \X (1..r.len) : r \in R}

OwnedOn(d) == {r \in reps \cup release : IsOwned(r) /\ r.device = d}

UsedIsExact == \A d \in Served : used[d] = Cardinality(Bytes(OwnedOn(d)))

(***************************************************************************)
(* make_room says a slot does not fit only when nothing evictable is left: *)
(* at that point no Cache object but the one being put owns bytes on the   *)
(* device.  An entry lost earlier, by whichever put, would show here.      *)
(***************************************************************************)
NoSpaceIsFinal ==
  (pc = "room" /\ ~Fits(Cand.device) /\ fifo[Cand.device] = <<>>) =>
    \A r \in reps :
      (IsOwned(r) /\ r.device = Cand.device /\ r.key # put.key) =>
        objects[r.key].retention = "Explicit"

(***************************************************************************)
(* Every replica belongs to a slot of the object now under its key and has *)
(* the length that object's spec gives the slot, as the debug_assert of    *)
(* get expects; only served devices hold owned replicas.                   *)
(***************************************************************************)
ReplicasLinked ==
  \A r \in reps :
    /\ r.slot \in DOMAIN objects[r.key].slots
    /\ r.len = SlotLen(r.key, r.slot)
    /\ IsOwned(r) => r.device \in Served

(***************************************************************************)
(* "evicting `Cache` replicas in FIFO order": what waits in a pool, the    *)
(* entries set aside included, keeps its order.  Entries join at the back, *)
(* and one leaves at a time, never one of the object being put, however    *)
(* often make_room takes entries out and puts them back.                   *)
(***************************************************************************)
Waiting(d) ==
  IF pc = "room" /\ d = Cand.device THEN put.deferred \o fifo[d] ELSE fifo[d]

Cut(q, n) == SubSeq(q, 1, n - 1) \o SubSeq(q, n + 1, Len(q))

FifoOrderKept ==
  [][~poisoned' =>
       \A d \in Served :
         \/ /\ Len(Waiting(d)') >= Len(Waiting(d))
            /\ SubSeq(Waiting(d)', 1, Len(Waiting(d))) = Waiting(d)
         \/ \E n \in DOMAIN Waiting(d) :
              Waiting(d)[n][1] # put.key /\ Waiting(d)' = Cut(Waiting(d), n)]_vars

(***************************************************************************)
(* No stale fifo entry makes a put panic under the mutex.                  *)
(***************************************************************************)
NeverPoisoned == ~poisoned

(***************************************************************************)
(* The holder of the mutex always lets go of it: the loops of put, of      *)
(* make_room and of remove end.                                            *)
(***************************************************************************)
MutexReleased == pc # "idle" ~> pc = "idle"

(***************************************************************************)
(* The backend implements the contract, with objects and reps as they are. *)
(***************************************************************************)
Contract == INSTANCE SlotContract

ImplementsContract == Contract!Spec
=============================================================================
