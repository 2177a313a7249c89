---------------------------- MODULE SlotContract ----------------------------
(***************************************************************************)
(* What a backend promises its clients, without pools, queues or locks:    *)
(* which objects exist and which replicas each slot has.  A slot is filled *)
(* only while the store owns no bytes of it, by replicas that honour its   *)
(* placement; owned replicas of a Cache object may be evicted, those of an *)
(* Explicit object only go with their object; an External replica goes     *)
(* with the region it was published from.  Backends are shown to implement *)
(* this module.                                                            *)
(***************************************************************************)
EXTENDS StoreTypes

VARIABLES
  objects,   \* the spec of every key's object, NoObject if there is none
  reps       \* the set of all replicas

cvars == <<objects, reps>>

Slot(k, i) == {r \in reps : r.key = k /\ r.slot = i}

(***************************************************************************)
(* The replicas R of one put honour placement p.                           *)
(***************************************************************************)
Honours(p, R) ==
  /\ \A r, q \in R : r.nth = q.nth => r = q
  /\ p.kind = "Strict" => \A r \in R : r.device = p.devs[1]
  /\ p.kind = "Prefer" => \A r \in R : r.misplaced <=> r.device # p.devs[1]
  /\ p.kind # "Prefer" => \A r \in R : ~r.misplaced
  /\ IF p.kind = "Each"
     THEN {<<r.nth, r.device>> : r \in R} = {<<n, p.devs[n]>> : n \in DOMAIN p.devs}
     ELSE \A r \in R : r.nth = 1

Create(k, s) ==
  /\ objects[k] = NoObject
  /\ objects' = [objects EXCEPT ![k] = s]
  /\ UNCHANGED reps

Fill(k, i) ==
  /\ \A r \in Slot(k, i) : ~IsOwned(r)
  /\ reps \subseteq reps'
  /\ reps' # reps
  /\ \A r \in reps' \ reps : r.key = k /\ r.slot = i /\ IsOwned(r)
  /\ Honours(objects[k].slots[i].placement, reps' \ reps)
  /\ UNCHANGED objects

Publish(k, i) ==
  /\ \E r \in reps' : /\ reps' = reps \cup {r}
                     /\ r.key = k /\ r.slot = i /\ ~IsOwned(r)
  /\ UNCHANGED objects

(***************************************************************************)
(* An eviction takes the owned replicas of one slot on one device.  The    *)
(* object may go once no slot of it has a replica left.                    *)
(***************************************************************************)
Evict(k, i, d) ==
  /\ objects[k].retention = "Cache"
  /\ reps' = reps \ {r \in Slot(k, i) : r.device = d /\ IsOwned(r)}
  /\ \/ UNCHANGED objects
     \/ /\ \A r \in reps' : r.key # k
        /\ objects' = [objects EXCEPT ![k] = NoObject]

Retire(g) ==
  /\ reps' = {r \in reps : r.region_id # g}
  /\ UNCHANGED objects

Remove(ks) ==
  /\ reps' = {r \in reps : r.key \notin ks}
  /\ objects' = [k \in Keys |-> IF k \in ks THEN NoObject ELSE objects[k]]

Init ==
  /\ objects = [k \in Keys |-> NoObject]
  /\ reps = {}

Next ==
  \/ \E k \in Keys, s \in Specs : Create(k, s)
  \/ \E k \in Keys : \E i \in DOMAIN objects[k].slots :
       \/ Fill(k, i)
       \/ Publish(k, i)
       \/ \E d \in Devices : Evict(k, i, d)
  \/ \E g \in Regions : Retire(g)
  \/ \E ks \in SUBSET Keys : Remove(ks)

Spec == Init /\ [][Next]_cvars
=============================================================================
