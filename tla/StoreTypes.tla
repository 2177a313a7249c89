----------------------------- MODULE StoreTypes -----------------------------
(***************************************************************************)
(* The vocabulary every backend shares: devices, placements, object specs  *)
(* and replicas (crates/pegastore/src/types.rs).  A key, a device and a    *)
(* region are opaque; the bytes of a replica are not kept, only who owns   *)
(* them.  Slots are numbered from 1.                                       *)
(***************************************************************************)
EXTENDS Integers, Sequences, FiniteSets

CONSTANTS
  Keys,      \* object keys
  Devices,   \* every device a client can name, served by the backend or not
  Regions,   \* ids of registered memory regions
  NoRegion,  \* region_id of a replica whose bytes the store owns
  Specs      \* the object specs clients put

ASSUME NamesAssumption == Keys # {} /\ NoRegion \notin Regions

Retention == {"Cache", "Explicit"}

(***************************************************************************)
(* A placement is its kind and the devices it lists: one for Strict and    *)
(* Prefer, any number for Each, none for Anywhere.                         *)
(***************************************************************************)
Placement == [kind : {"Strict", "Prefer", "Each", "Anywhere"},
              devs : Seq(Devices)]

Strict(d) == [kind |-> "Strict", devs |-> <<d>>]
Prefer(d) == [kind |-> "Prefer", devs |-> <<d>>]
Each(ds)  == [kind |-> "Each", devs |-> ds]
Anywhere  == [kind |-> "Anywhere", devs |-> <<>>]

WellFormed(p) == p.kind \in {"Strict", "Prefer"} => Len(p.devs) = 1

(***************************************************************************)
(* A list of devices as the targets a slot tries, all placed as asked or   *)
(* all misplaced; and a list of distinct devices without one of them.      *)
(***************************************************************************)
Placed(devs) ==
  [n \in DOMAIN devs |-> [device |-> devs[n], misplaced |-> FALSE]]

Misplaced(devs) ==
  [n \in DOMAIN devs |-> [device |-> devs[n], misplaced |-> TRUE]]

Without(devs, d) ==
  IF \E n \in DOMAIN devs : devs[n] = d
  THEN LET n == CHOOSE m \in DOMAIN devs : devs[m] = d
       IN  SubSeq(devs, 1, n - 1) \o SubSeq(devs, n + 1, Len(devs))
  ELSE devs

SlotSpec == {ss \in [len : Nat, placement : Placement] : WellFormed(ss.placement)}

ObjectSpec == [retention : Retention, slots : Seq(SlotSpec)]

(***************************************************************************)
(* The placeholder for a key with no object.  It has no slots, which no    *)
(* valid put can ask for.                                                  *)
(***************************************************************************)
NoObject == [retention |-> "Cache", slots |-> <<>>]

(***************************************************************************)
(* One replica of slot "slot" of object "key".  A Dram replica is owned by *)
(* the store.  An External one is user memory: "segs" are the regions its  *)
(* segments point into, "region_id" the single region the store remembers  *)
(* it by.  "nth" is the replica's position among those of its put, so that *)
(* two replicas of one put on one device stay two.                         *)
(***************************************************************************)
Replica == [key : Keys, slot : Nat, nth : Nat, len : Nat, device : Devices,
            tier : {"Dram", "External"}, misplaced : BOOLEAN,
            segs : SUBSET Regions, region_id : Regions \cup {NoRegion}]

OwnedReplica(k, i, n, len, target) ==
  [key |-> k, slot |-> i, nth |-> n, len |-> len, device |-> target.device,
   tier |-> "Dram", misplaced |-> target.misplaced,
   segs |-> {}, region_id |-> NoRegion]

ExternalReplica(k, i, len, d, regions) ==
  [key |-> k, slot |-> i, nth |-> 0, len |-> len, device |-> d,
   tier |-> "External", misplaced |-> FALSE,
   segs |-> {regions[n] : n \in DOMAIN regions}, region_id |-> regions[1]]

IsOwned(r) == r.tier = "Dram"

(***************************************************************************)
(* A put names at least one slot (OpPut::validate).                        *)
(***************************************************************************)
ASSUME SpecsAssumption == \A s \in Specs : s \in ObjectSpec /\ s.slots # <<>>
=============================================================================
