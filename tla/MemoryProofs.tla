---------------------------- MODULE MemoryProofs ----------------------------
(***************************************************************************)
(* Proofs about Memory, for every set of keys, devices, specs and regions: *)
(* its replicas stay linked, its queues keep their order, NoSpace is never *)
(* a mistake and every put honours SlotContract.                           *)
(***************************************************************************)
EXTENDS Memory, TLAPS, FiniteSetTheorems

-----------------------------------------------------------------------------
(***************************************************************************)
(* The types, with used a mere integer: that it is never negative takes    *)
(* the accounting invariant below.                                         *)
(***************************************************************************)
Types ==
  /\ objects \in [Keys -> ObjectSpec]
  /\ reps \subseteq Replica
  /\ IsFiniteSet(reps)
  /\ used \in [Served -> Int]
  /\ fifo \in [Served -> Seq(Entry)]
  /\ regions \in [Regions -> {"new", "live", "dropped"}]
  /\ pc \in {"idle", "release", "slot", "try", "room"}
  /\ put \in PutLocals
  /\ release \subseteq Replica
  /\ IsFiniteSet(release)
  /\ poisoned \in BOOLEAN

(***************************************************************************)
(* What the locals of the put in progress satisfy at every step.           *)
(***************************************************************************)
Putting == pc \in {"slot", "try", "room"}

PutShape ==
  /\ Putting =>
       /\ ~poisoned
       /\ put.spec \in Specs
       /\ objects[put.key] = put.spec
       /\ put.slot >= 1
       /\ put.writable \subseteq DOMAIN put.spec.slots
  /\ pc \in {"try", "room"} => put.slot \in put.writable
  /\ pc = "room" =>
       /\ put.cands # <<>>
       /\ Cand.device \in Served
       /\ Capacity[Cand.device] # Unlimited
  /\ \A n \in DOMAIN put.targets : put.targets[n].device \in Served
  /\ pc # "room" => put.deferred = <<>>
  /\ pc \notin {"try", "room"} => put.targets = <<>> /\ put.err = "Ok"
  /\ pc # "release" => release = {}

Shape == Types /\ PutShape

(***************************************************************************)
(* The positions of a sequence.                                            *)
(***************************************************************************)
LEMMA SeqLength ==
  ASSUME NEW S, NEW s \in Seq(S) PROVE Len(s) \in Nat /\ DOMAIN s = 1..Len(s)
  OBVIOUS

(***************************************************************************)
(* The elements of two sequences put end to end.                           *)
(***************************************************************************)
LEMMA SeqConcat ==
  ASSUME NEW S, NEW s \in Seq(S), NEW t \in Seq(S)
  PROVE  /\ s \o t \in Seq(S)
         /\ Len(s \o t) = Len(s) + Len(t)
         /\ \A i \in 1..Len(s) + Len(t) :
              (s \o t)[i] = IF i <= Len(s) THEN s[i] ELSE t[i - Len(s)]
  OBVIOUS

(***************************************************************************)
(* What is left of a sequence without its head.                            *)
(***************************************************************************)
LEMMA SeqTail ==
  ASSUME NEW S, NEW q \in Seq(S), q # <<>>
  PROVE  /\ Tail(q) \in Seq(S)
         /\ Len(Tail(q)) = Len(q) - 1
         /\ \A i \in 1..Len(Tail(q)) : Tail(q)[i] = q[i + 1]
  OBVIOUS

(***************************************************************************)
(* Sequences of one length with the same elements are the same.            *)
(***************************************************************************)
LEMMA SeqSame ==
  ASSUME NEW S, NEW s \in Seq(S), NEW t \in Seq(S), Len(s) = Len(t),
         \A i \in 1..Len(t) : s[i] = t[i]
  PROVE  s = t
  OBVIOUS

(***************************************************************************)
(* The candidates of a well-formed placement are candidates.               *)
(***************************************************************************)
LEMMA PlacedType ==
  ASSUME NEW devs \in Seq(Devices)
  PROVE  /\ Placed(devs) \in Seq(Candidate)
         /\ Len(Placed(devs)) = Len(devs)
         /\ \A n \in DOMAIN devs :
              Placed(devs)[n] = [device |-> devs[n], misplaced |-> FALSE]
<1>1. Placed(devs) \in [1..Len(devs) -> Candidate]
  BY DEF Placed, Candidate
<1> QED
  BY <1>1 DEF Placed

(***************************************************************************)
(* Misplaced keeps the devices and their order, and flags them all.        *)
(***************************************************************************)
LEMMA MisplacedType ==
  ASSUME NEW devs \in Seq(Devices)
  PROVE  /\ Misplaced(devs) \in Seq(Candidate)
         /\ Len(Misplaced(devs)) = Len(devs)
         /\ \A n \in DOMAIN devs :
              Misplaced(devs)[n] = [device |-> devs[n], misplaced |-> TRUE]
<1>1. Misplaced(devs) \in [1..Len(devs) -> Candidate]
  BY DEF Misplaced, Candidate
<1> QED
  BY <1>1 DEF Misplaced

(***************************************************************************)
(* Without leaves the preferred device out of the fallback order.          *)
(***************************************************************************)
LEMMA WithoutType ==
  ASSUME NEW devs \in Seq(Devices), NEW d \in Devices,
         \A m, n \in DOMAIN devs : devs[m] = devs[n] => m = n
  PROVE  /\ Without(devs, d) \in Seq(Devices)
         /\ \A n \in DOMAIN Without(devs, d) : Without(devs, d)[n] # d
<1>1. CASE \E n \in DOMAIN devs : devs[n] = d
  <2> DEFINE n == CHOOSE m \in DOMAIN devs : devs[m] = d
             a == SubSeq(devs, 1, n - 1)
             b == SubSeq(devs, n + 1, Len(devs))
  <2>1. n \in DOMAIN devs /\ devs[n] = d
    BY <1>1
  <2> HIDE DEF n
  <2>2. n \in 1..Len(devs)
    BY <2>1
  <2>3. a \in Seq(Devices) /\ Len(a) = n - 1 /\ \A i \in 1..n-1 : a[i] = devs[i]
    BY <2>2
  <2>4. b \in Seq(Devices) /\ Len(b) = Len(devs) - n
          /\ \A i \in 1..Len(devs)-n : b[i] = devs[n + i]
    BY <2>2
  <2>5. Without(devs, d) = a \o b
    BY Zenon, <1>1 DEF Without, n
  <2> HIDE DEF a, b
  <2>6. ASSUME NEW i \in DOMAIN (a \o b)
        PROVE  (a \o b)[i] # d
    <3>1. i \in 1..(Len(a) + Len(b))
      BY <2>3, <2>4
    <3>2. CASE i <= Len(a)
      <4>1. (a \o b)[i] = devs[i] /\ i \in DOMAIN devs /\ i # n
        BY <2>2, <2>3, <2>4, <3>1, <3>2
      <4> QED
        BY <2>1, <4>1
    <3>3. CASE i > Len(a)
      <4>1. (a \o b)[i] = b[i - Len(a)] /\ i - Len(a) \in 1..Len(b)
        BY <2>3, <2>4, <3>1, <3>3
      <4>2. b[i - Len(a)] = devs[i + 1] /\ i + 1 \in DOMAIN devs /\ i + 1 # n
        BY SMTT(60), <2>2, <2>3, <2>4, <3>1, <3>3
      <4> QED
        BY <2>1, <4>1, <4>2
    <3> QED
      BY <2>3, <3>1, <3>2, <3>3
  <2> QED
    BY <2>3, <2>4, <2>5, <2>6
<1>2. CASE ~\E n \in DOMAIN devs : devs[n] = d
  BY <1>2 DEF Without
<1> QED
  BY <1>1, <1>2

(***************************************************************************)
(* What every candidate, and so every replica put, of placement p obeys.   *)
(***************************************************************************)
Allowed(p, c) ==
  /\ p.kind = "Strict" => c.device = p.devs[1]
  /\ p.kind = "Prefer" => (c.misplaced <=> c.device # p.devs[1])
  /\ p.kind # "Prefer" => ~c.misplaced

(***************************************************************************)
(* put tries only devices that the placement allows, flagged rightly.      *)
(***************************************************************************)
LEMMA CandidatesType ==
  ASSUME NEW p \in Placement, WellFormed(p)
  PROVE  /\ Candidates(p) \in Seq(Candidate)
         /\ \A n \in DOMAIN Candidates(p) : Allowed(p, Candidates(p)[n])
         /\ p.kind = "Each" =>
              /\ Len(Candidates(p)) = Len(p.devs)
              /\ \A n \in DOMAIN p.devs : Candidates(p)[n].device = p.devs[n]
<1> USE DEF Placement
<1>0. DeviceOrder \in Seq(Devices) /\ p.devs \in Seq(Devices)
  BY MemoryAssumption
<1>1. CASE p.kind # "Prefer"
  <2> DEFINE devs == IF p.kind = "Anywhere" THEN DeviceOrder ELSE p.devs
  <2>1. devs \in Seq(Devices) /\ Candidates(p) = Placed(devs)
    BY <1>0, <1>1 DEF Candidates
  <2>2. /\ p.kind = "Each" => devs = p.devs
        /\ p.kind = "Strict" => devs = p.devs /\ Len(devs) = 1
    BY <1>1 DEF WellFormed
  <2> HIDE DEF devs
  <2>3. /\ Placed(devs) \in Seq(Candidate)
        /\ Len(Placed(devs)) = Len(devs)
        /\ \A n \in DOMAIN devs :
              Placed(devs)[n] = [device |-> devs[n], misplaced |-> FALSE]
    BY <2>1, PlacedType
  <2>4. DOMAIN Placed(devs) = DOMAIN devs
    BY <2>1, <2>3, SeqLength, Zenon
  <2>5. ASSUME NEW n \in DOMAIN devs
        PROVE  Allowed(p, Placed(devs)[n])
    <3>1. Placed(devs)[n] = [device |-> devs[n], misplaced |-> FALSE]
      BY <2>3
    <3>2. p.kind = "Strict" => n = 1 /\ devs = p.devs
      BY <2>1, <2>2
    <3>3. Placed(devs)[n].device = devs[n] /\ Placed(devs)[n].misplaced = FALSE
      BY <3>1
    <3> QED
      BY <1>1, <3>2, <3>3, Zenon DEF Allowed
  <2> QED
    BY <2>1, <2>2, <2>3, <2>4, <2>5
<1>2. CASE p.kind = "Prefer"
  <2> DEFINE w == Without(DeviceOrder, p.devs[1])
             a == Placed(p.devs)
             b == Misplaced(w)
  <2>1. Len(p.devs) = 1 /\ p.devs[1] \in Devices
    BY <1>0, <1>2 DEF WellFormed
  <2>2. w \in Seq(Devices) /\ \A n \in DOMAIN w : w[n] # p.devs[1]
    BY <1>0, <2>1, WithoutType, MemoryAssumption
  <2> HIDE DEF w
  <2>3. a \in Seq(Candidate) /\ Len(a) = 1
          /\ a[1] = [device |-> p.devs[1], misplaced |-> FALSE]
    <3>1. /\ Placed(p.devs) \in Seq(Candidate)
          /\ Len(Placed(p.devs)) = Len(p.devs)
          /\ \A n \in DOMAIN p.devs :
               Placed(p.devs)[n] = [device |-> p.devs[n], misplaced |-> FALSE]
      BY <1>0, PlacedType
    <3>2. 1 \in DOMAIN p.devs
      BY <1>0, <2>1
    <3> QED
      BY <2>1, <3>1, <3>2
  <2>4. b \in Seq(Candidate) /\ Len(b) = Len(w)
          /\ \A n \in DOMAIN w : b[n] = [device |-> w[n], misplaced |-> TRUE]
    BY <2>2, MisplacedType
  <2>5. Candidates(p) = a \o b
    BY <1>2 DEF Candidates, w
  <2> HIDE DEF a, b
  <2>6. ASSUME NEW n \in DOMAIN (a \o b)
        PROVE  Allowed(p, (a \o b)[n])
    <3>0. /\ a \o b \in Seq(Candidate)
          /\ Len(a \o b) = Len(a) + Len(b)
          /\ \A i \in 1..Len(a) + Len(b) :
               (a \o b)[i] = IF i <= Len(a) THEN a[i] ELSE b[i - Len(a)]
      <4>1. a \in Seq(Candidate) /\ b \in Seq(Candidate)
        BY <2>3, <2>4
      <4> QED
        BY <4>1
    <3>1. n \in 1..(Len(a) + Len(b)) /\ Len(a) \in Nat /\ Len(b) \in Nat
      BY <2>3, <2>4, <3>0, SeqLength, ZenonT(60)
    <3>2. CASE n = 1
      <4>1. (a \o b)[n] = [device |-> p.devs[1], misplaced |-> FALSE]
        <5>1. Len(a) = 1
          BY <2>3
        <5>2. (a \o b)[n] = a[n]
          BY <3>0, <3>1, <3>2, <5>1
        <5> QED
          BY <2>3, <3>2, <5>2
      <4>2. (a \o b)[n].device = p.devs[1] /\ (a \o b)[n].misplaced = FALSE
        BY <4>1
      <4> QED
        BY <1>2, <4>2, Zenon DEF Allowed
    <3>3. CASE n > 1
      <4>1. (a \o b)[n] = b[n - 1] /\ n - 1 \in DOMAIN w
        BY <2>2, <2>3, <2>4, <3>0, <3>1, <3>3
      <4>2. b[n - 1] = [device |-> w[n - 1], misplaced |-> TRUE]
              /\ w[n - 1] # p.devs[1]
        BY <2>2, <2>4, <4>1
      <4> QED
        BY <1>2, <4>1, <4>2 DEF Allowed
    <3> QED
      BY <3>1, <3>2, <3>3
  <2> QED
    BY <1>2, <2>3, <2>4, <2>5, <2>6
<1> QED
  BY <1>1, <1>2

-----------------------------------------------------------------------------
(***************************************************************************)
(* The slot being placed has a length and a well-formed placement.         *)
(***************************************************************************)
LEMMA CurrentSlotType ==
  ASSUME Shape, Putting, put.slot \in put.writable
  PROVE  /\ CurrentSlot.len \in Nat
         /\ CurrentSlot.placement \in Placement
         /\ WellFormed(CurrentSlot.placement)
         /\ put.slot \in DOMAIN put.spec.slots
<1>1. put.spec.slots \in Seq(SlotSpec) /\ put.slot \in DOMAIN put.spec.slots
  BY DEF Shape, Types, PutShape, PutLocals, ObjectSpec
<1>2. CurrentSlot \in SlotSpec
  BY <1>1 DEF CurrentSlot
<1> QED
  BY <1>1, <1>2 DEF SlotSpec

(***************************************************************************)
(* The locals of no put in progress are well-formed.                       *)
(***************************************************************************)
LEMMA NoPutType == NoPut \in PutLocals
<1>1. NoObject \in ObjectSpec
  BY DEF NoObject, ObjectSpec, Retention
<1>2. (CHOOSE k \in Keys : TRUE) \in Keys
  BY NamesAssumption
<1> QED
  BY <1>1, <1>2 DEF NoPut, PutLocals, Outcome

(***************************************************************************)
(* The three ways a put's locals change within a slot.                     *)
(***************************************************************************)
LEMMA NextSlotType ==
  ASSUME put \in PutLocals, NEW o \in Outcome
  PROVE  /\ NextSlot(o) \in PutLocals
         /\ NextSlot(o).slot = put.slot + 1
         /\ NextSlot(o).key = put.key
         /\ NextSlot(o).spec = put.spec
         /\ NextSlot(o).writable = put.writable
         /\ NextSlot(o).deferred = put.deferred
         /\ NextSlot(o).cands = <<>>
         /\ NextSlot(o).targets = <<>>
         /\ NextSlot(o).err = "Ok"
<1>1. Append(put.results, o) \in Seq(Outcome)
  BY DEF PutLocals
<1>2. "Ok" \in Outcome
  BY DEF Outcome
<1>3. put.slot + 1 \in Nat /\ <<>> \in Seq(Candidate)
  BY DEF PutLocals
<1>4. NextSlot(o) \in PutLocals
  BY Zenon, <1>1, <1>2, <1>3 DEF NextSlot, PutLocals
<1> QED
  BY <1>4 DEF NextSlot, PutLocals

(***************************************************************************)
(* What a refused candidate changes in the locals of the put.              *)
(***************************************************************************)
LEMMA RefusedType ==
  ASSUME put \in PutLocals, put.cands # <<>>, NEW o \in Outcome
  PROVE  /\ Refused(o) \in PutLocals
         /\ Refused(o).slot = put.slot
         /\ Refused(o).key = put.key
         /\ Refused(o).spec = put.spec
         /\ Refused(o).writable = put.writable
         /\ Refused(o).deferred = <<>>
         /\ Refused(o).cands = IF IsEach THEN <<>> ELSE Tail(put.cands)
         /\ Refused(o).targets = put.targets
         /\ Refused(o).err = o
<1>1. Tail(put.cands) \in Seq(Candidate)
  BY DEF PutLocals
<1>2. <<>> \in Seq(Candidate) /\ <<>> \in Seq(Entry)
  OBVIOUS
<1>3. Refused(o) \in PutLocals
  BY Zenon, <1>1, <1>2 DEF Refused, PutLocals
<1> QED
  BY <1>3 DEF Refused, PutLocals

(***************************************************************************)
(* What an accepted candidate changes in the locals of the put.            *)
(***************************************************************************)
LEMMA AcceptedType ==
  ASSUME put \in PutLocals, put.cands # <<>>
  PROVE  /\ Accepted \in PutLocals
         /\ Accepted.slot = put.slot
         /\ Accepted.key = put.key
         /\ Accepted.spec = put.spec
         /\ Accepted.writable = put.writable
         /\ Accepted.deferred = <<>>
         /\ Accepted.cands = IF IsEach THEN Tail(put.cands) ELSE <<>>
         /\ Accepted.targets = Append(put.targets, Cand)
         /\ Accepted.err = put.err
<1>1. Tail(put.cands) \in Seq(Candidate) /\ Cand \in Candidate
  BY DEF PutLocals, Cand
<1>2. Append(put.targets, Cand) \in Seq(Candidate)
  BY <1>1 DEF PutLocals
<1>3. <<>> \in Seq(Candidate) /\ <<>> \in Seq(Entry)
  OBVIOUS
<1>4. Accepted \in PutLocals
  BY Zenon, <1>1, <1>2, <1>3 DEF Accepted, PutLocals
<1> QED
  BY <1>4 DEF Accepted, PutLocals

(***************************************************************************)
(* Devices accepted for a slot have a pool.                                *)
(***************************************************************************)
LEMMA AcceptedServed ==
  ASSUME Shape, put.cands # <<>>, Cand.device \in Served
  PROVE  \A n \in DOMAIN Accepted.targets : Accepted.targets[n].device \in Served
<1>1. put.targets \in Seq(Candidate) /\ Cand \in Candidate
  BY DEF Shape, Types, PutLocals, Cand
<1>2. Accepted.targets = Append(put.targets, Cand)
  BY AcceptedType DEF Shape, Types
<1> SUFFICES ASSUME NEW n \in DOMAIN Append(put.targets, Cand)
             PROVE  Append(put.targets, Cand)[n].device \in Served
  BY <1>2
<1>3. CASE n \in DOMAIN put.targets
  BY <1>1, <1>3 DEF Shape, PutShape
<1>4. CASE n = Len(put.targets) + 1
  BY <1>1, <1>4
<1> QED
  BY <1>1, <1>3, <1>4

(***************************************************************************)
(* The replicas PutWriteSlot adds are as many as the targets, since every  *)
(* one carries its own position.                                           *)
(***************************************************************************)
NewOn(T) ==
  {OwnedReplica(put.key, put.slot, n, CurrentSlot.len, put.targets[n]) : n \in T}

NewReplicas == NewOn(DOMAIN put.targets)

(***************************************************************************)
(* Writing a slot adds as many replicas as it has targets.                 *)
(***************************************************************************)
LEMMA NewReplicasFinite ==
  ASSUME NEW T, IsFiniteSet(T)
  PROVE  IsFiniteSet(NewOn(T)) /\ Cardinality(NewOn(T)) = Cardinality(T)
<1> DEFINE f == [n \in T |-> OwnedReplica(put.key, put.slot, n, CurrentSlot.len,
                                          put.targets[n])]
<1>1. ASSUME NEW m \in T, NEW n \in T, f[m] = f[n]
      PROVE  m = n
  <2>1. f[m].nth = m /\ f[n].nth = n
    BY DEF OwnedReplica
  <2> QED
    BY <1>1, <2>1
<1>2. f \in Bijection(T, NewOn(T))
  <2>1. f \in [T -> NewOn(T)]
    BY DEF NewOn
  <2>2. \A r \in NewOn(T) : \E n \in T : f[n] = r
    BY DEF NewOn
  <2> HIDE DEF f
  <2> QED
    BY <1>1, <2>1, <2>2 DEF Bijection, Injection, Surjection, IsInjective
<1> QED
  BY <1>2, FS_Bijection DEF ExistsBijection

(***************************************************************************)
(* The state that build returns has its shape.                             *)
(***************************************************************************)
LEMMA ShapeInit == Init => Shape
<1> SUFFICES ASSUME Init PROVE Shape
  OBVIOUS
<1>1. Types
  <2>1. NoObject \in ObjectSpec
    BY DEF NoObject, ObjectSpec, Retention
  <2>2. IsFiniteSet({})
    BY FS_EmptySet
  <2> QED
    <3>1. poisoned \in BOOLEAN
      BY Zenon DEF Init
    <3>2. used \in [Served -> Int] /\ fifo \in [Served -> Seq(Entry)]
      BY DEF Init
    <3>3. put \in PutLocals /\ objects \in [Keys -> ObjectSpec]
      BY <2>1, NoPutType DEF Init
    <3> QED
      BY <2>2, <3>1, <3>2, <3>3 DEF Init, Types
<1>2. PutShape
  BY DEF Init, PutShape, NoPut, Putting
<1> QED
  BY <1>1, <1>2 DEF Shape

(***************************************************************************)
(* Every step keeps the shape of the state, case by case.                  *)
(***************************************************************************)
LEMMA ShapeStep == Shape /\ [Next]_vars => Shape'
<1> SUFFICES ASSUME Shape, [Next]_vars PROVE Shape'
  OBVIOUS
<1> USE DEF Shape
<1>1. ASSUME NEW g \in Regions, Register(g) PROVE Shape'
  <2>1. Types'
    BY <1>1 DEF Types, Register
  <2>2. PutShape'
    BY <1>1 DEF PutShape, Register, Putting, Cand
  <2> QED
    BY <2>1, <2>2
<1>2. ASSUME NEW g \in Regions, DropRegion(g) PROVE Shape'
  <2>1. Types'
    BY <1>2, FS_Subset DEF Types, DropRegion
  <2>2. PutShape'
    BY <1>2 DEF PutShape, DropRegion, Putting, Cand
  <2> QED
    BY <2>1, <2>2
<1>3. ASSUME NEW k \in Keys, NEW src \in PublishSrcs,
             NEW i \in DOMAIN objects[k].slots, Publish(k, i, src)
      PROVE  Shape'
  <2>1. ExternalReplica(k, i, src.len, RegionDevice[src.regions[1]], src.regions)
          \in Replica
    <3>1. src.regions \in Seq(Regions) /\ src.regions # <<>> /\ src.len \in Nat
      BY MemoryAssumption
    <3>2. src.regions[1] \in Regions
      BY <3>1
    <3>3. RegionDevice[src.regions[1]] \in Devices
      BY <3>2, MemoryAssumption
    <3>4. i \in Nat
      BY DEF Types, ObjectSpec
    <3>5. {src.regions[n] : n \in DOMAIN src.regions} \in SUBSET Regions
      BY <3>1
    <3> QED
      BY <3>1, <3>2, <3>3, <3>4, <3>5 DEF ExternalReplica, Replica
  <2>3. Types'
    BY Zenon, <1>3, <2>1, FS_AddElement DEF Types, Publish
  <2>2. PutShape'
    BY <1>3 DEF PutShape, Publish, Putting, Cand
  <2> QED
    BY <2>2, <2>3
<1>4. ASSUME NEW ks \in Removals, Remove(ks) PROVE Shape'
  <2>1. Types'
    BY <1>4, FS_Subset DEF Types, Remove, NoObject, ObjectSpec, Retention
  <2>2. PutShape'
    BY <1>4 DEF PutShape, Remove, Putting, Cand, LockFree
  <2> QED
    BY <2>1, <2>2
<1>5. CASE Release
  <2>1. PICK r \in release : /\ used' = [used EXCEPT ![r.device] = @ - r.len]
                             /\ release' = release \ {r}
    BY <1>5, Zenon DEF Release
  <2>2. used' \in [Served -> Int]
    <3>1. r.len \in Int
      BY DEF Types, Replica
    <3>2. CASE r.device \in Served
      BY <2>1, <3>1, <3>2 DEF Types
    <3>3. CASE r.device \notin Served
      BY Zenon, <2>1, <3>3 DEF Types
    <3> QED
      BY <3>2, <3>3
  <2>3. Types'
    BY <1>5, <2>1, <2>2, FS_RemoveElement DEF Types, Release
  <2>4. PutShape'
    BY <1>5 DEF PutShape, Release, Putting, Cand
  <2> QED
    BY <2>3, <2>4
<1>6. CASE RemoveReturn
  <2>1. Types'
    BY <1>6 DEF Types, RemoveReturn
  <2>2. PutShape'
    BY <1>6 DEF PutShape, RemoveReturn, Putting, Cand
  <2> QED
    BY <2>1, <2>2
<1>7. ASSUME NEW k \in Keys, NEW s \in Specs, PutBegin(k, s) PROVE Shape'
  <2>0. s \in ObjectSpec /\ DOMAIN s.slots \subseteq Nat
    BY SpecsAssumption DEF ObjectSpec
  <2>3. put' \in PutLocals
    BY Zenon, <1>7, <2>0, NoPutType DEF PutBegin, PutLocals
  <2>1. Types'
    BY <1>7, <2>0, <2>3 DEF Types, PutBegin
  <2>2. PutShape'
    BY <1>7 DEF PutShape, PutBegin, Putting, LockFree, NoPut, Types
  <2> QED
    BY <2>1, <2>2
<1>8. CASE PutRefuseSlot
  <2>1. Types'
    BY <1>8, NextSlotType DEF Types, PutRefuseSlot, Outcome
  <2>2. PutShape'
    BY SMTT(60), <1>8, NextSlotType DEF PutShape, PutRefuseSlot, Putting, Types, PutLocals, Outcome
  <2> QED
    BY <2>1, <2>2
<1>9. CASE PutStartSlot
  <2>1. Candidates(CurrentSlot.placement) \in Seq(Candidate)
    BY <1>9, CurrentSlotType, CandidatesType DEF PutStartSlot, Putting
  <2>2. Types'
    BY Zenon, <1>9, <2>1 DEF Types, PutStartSlot, PutLocals
  <2>3. PutShape'
    BY <1>9 DEF PutShape, PutStartSlot, Putting, Types, PutLocals
  <2> QED
    BY <2>2, <2>3
<1>10. ASSUME NEW e \in {"NoSpace", "InvalidInput"}, pc = "try", put.cands # <<>>,
              put' = Refused(e),
              UNCHANGED <<objects, reps, used, fifo, regions, pc, release, poisoned>>
       PROVE  Shape'
  <2>1. Types'
    BY <1>10, RefusedType DEF Types, Outcome
  <2>2. PutShape'
    BY <1>10, RefusedType DEF PutShape, Putting, Types, Outcome
  <2> QED
    BY <2>1, <2>2
<1>11. CASE PutUnknownDevice
  BY <1>10, <1>11 DEF PutUnknownDevice
<1>12. CASE MakeRoomUnlimited
  <2>1. Types'
    BY <1>12, AcceptedType DEF Types, MakeRoomUnlimited
  <2>2. \A n \in DOMAIN Accepted.targets : Accepted.targets[n].device \in Served
    BY <1>12, AcceptedServed DEF MakeRoomUnlimited
  <2>3. PutShape'
    BY <1>12, <2>2, AcceptedType DEF PutShape, MakeRoomUnlimited, Putting, Types
  <2> QED
    BY <2>1, <2>3
<1>13. CASE MakeRoomTooLarge
  BY <1>10, <1>13 DEF MakeRoomTooLarge
<1>14. CASE MakeRoomBegin
  <2>1. Types'
    BY <1>14 DEF Types, MakeRoomBegin
  <2>2. PutShape'
    BY <1>14 DEF PutShape, MakeRoomBegin, Putting, Cand
  <2> QED
    BY <2>1, <2>2
<1>15. ASSUME PopEntry
       PROVE  /\ Cand.device \in Served
              /\ fifo[Cand.device] \in Seq(Entry)
              /\ fifo[Cand.device] # <<>>
              /\ Tail(fifo[Cand.device]) \in Seq(Entry)
              /\ Popped \in Entry
              /\ [fifo EXCEPT ![Cand.device] = Tail(@)] \in [Served -> Seq(Entry)]
  <2>1. Cand.device \in Served /\ fifo[Cand.device] # <<>>
    BY <1>15 DEF PopEntry, PutShape
  <2>2. fifo[Cand.device] \in Seq(Entry)
    BY <2>1 DEF Types
  <2>3. Tail(fifo[Cand.device]) \in Seq(Entry) /\ Popped \in Entry
    BY <2>1, <2>2 DEF Popped
  <2> QED
    BY <2>1, <2>2, <2>3 DEF Types
<1>16. CASE MakeRoomDefer
  <2>1. Append(put.deferred, Popped) \in Seq(Entry)
    BY <1>15, <1>16 DEF MakeRoomDefer, Types, PutLocals
  <2>2. put' \in PutLocals
    BY Zenon, <1>16, <2>1 DEF MakeRoomDefer, Types, PutLocals
  <2>3. Types'
    BY <1>15, <1>16, <2>2 DEF Types, MakeRoomDefer
  <2>4. PutShape'
    BY <1>16 DEF PutShape, MakeRoomDefer, PopEntry, Putting, Types, PutLocals, Cand
  <2> QED
    BY <2>3, <2>4
<1>17. CASE MakeRoomForget
  <2>1. Types'
    BY <1>15, <1>17 DEF Types, MakeRoomForget
  <2>2. PutShape'
    BY <1>17 DEF PutShape, MakeRoomForget, Putting, Cand
  <2> QED
    BY <2>1, <2>2
<1>18. CASE MakeRoomEvict
  <2> DEFINE k == Popped[1]
             i == Popped[2]
             d == Cand.device
  <2>1. k \in Keys /\ i \in DOMAIN objects[k].slots /\ k # put.key /\ d \in Served
    BY <1>15, <1>18 DEF MakeRoomEvict, Entry, Protected
  <2>2. SlotLen(k, i) \in Nat
    <3>1. objects[k].slots \in Seq(SlotSpec)
      BY <2>1 DEF Types, ObjectSpec
    <3>2. objects[k].slots[i] \in SlotSpec
      BY <2>1, <3>1
    <3> QED
      BY <3>2 DEF SlotLen, SlotSpec
  <2>3. IsFiniteSet(Victims(k, i, d))
    BY FS_Subset DEF Types, Victims, Slot
  <2>4. Freed(k, i, d) \in Nat
    BY <2>2, <2>3, FS_CardinalityType DEF Freed
  <2>5. IsFiniteSet(reps')
    BY Zenon, <1>18, FS_Difference DEF MakeRoomEvict, Types
  <2>6. used' \in [Served -> Int]
    BY <1>18, <2>1, <2>4 DEF MakeRoomEvict, Types
  <2>7. objects' = objects \/ objects' = [objects EXCEPT ![k] = NoObject]
    BY <1>18 DEF MakeRoomEvict
  <2>8. objects' \in [Keys -> ObjectSpec]
    <3>1. NoObject \in ObjectSpec
      BY DEF NoObject, ObjectSpec, Retention
    <3> QED
      BY <2>7, <3>1 DEF Types
  <2>9. objects'[put.key] = objects[put.key]
    BY <2>1, <2>7 DEF Types, PutLocals
  <2>10. fifo' \in [Served -> Seq(Entry)] /\ reps' \subseteq Replica
    BY <1>15, <1>18 DEF MakeRoomEvict, Types
  <2>11. Types'
    BY <1>18, <2>5, <2>6, <2>8, <2>10 DEF MakeRoomEvict, Types
  <2>12. PutShape'
    BY <1>18, <2>9 DEF PutShape, MakeRoomEvict, Putting, Cand
  <2> QED
    BY <2>11, <2>12
<1>19. CASE MakeRoomPanic
  <2>1. Types'
    BY <1>15, <1>19, NoPutType DEF Types, MakeRoomPanic
  <2>2. PutShape'
    BY <1>19 DEF PutShape, MakeRoomPanic, PopEntry, Putting, NoPut
  <2> QED
    BY <2>1, <2>2
<1>20. CASE MakeRoomReturn
  <2> DEFINE d == Cand.device
  <2>1. d \in Served /\ put.cands # <<>> /\ fifo[d] \in Seq(Entry)
    BY <1>20 DEF MakeRoomReturn, PutShape, Types
  <2>2. Restored(d) \in Seq(Entry)
    BY <2>1 DEF Restored, Types, PutLocals
  <2>3. put' \in PutLocals
    BY <1>20, <2>1, AcceptedType, RefusedType DEF MakeRoomReturn, Types, Outcome
  <2>4. Types'
    BY <1>20, <2>1, <2>2, <2>3 DEF Types, MakeRoomReturn
  <2>5. \A n \in DOMAIN put'.targets : put'.targets[n].device \in Served
    BY <1>20, <2>1, AcceptedServed, AcceptedType, RefusedType
    DEF MakeRoomReturn, PutShape, Types, Outcome
  <2>6. PutShape'
    BY <1>20, <2>1, <2>5, AcceptedType, RefusedType
    DEF PutShape, MakeRoomReturn, Putting, Types, Outcome
  <2> QED
    BY <2>4, <2>6
<1>21. CASE PutWriteSlot
  <2>1. CurrentSlot.len \in Nat /\ put.slot \in Nat /\ put.key \in Keys
    BY <1>21, CurrentSlotType DEF PutWriteSlot, PutShape, Putting, Types, PutLocals
  <2>2. ASSUME NEW n \in DOMAIN put.targets
        PROVE  OwnedReplica(put.key, put.slot, n, CurrentSlot.len, put.targets[n])
                 \in Replica
    <3>1. put.targets[n] \in Candidate /\ n \in Nat
      BY DEF Types, PutLocals
    <3> QED
      BY <2>1, <3>1 DEF OwnedReplica, Replica, Candidate
  <2>3. IsFiniteSet(DOMAIN put.targets)
    BY FS_Interval DEF Types, PutLocals
  <2>4. IsFiniteSet(NewReplicas)
    BY <2>3, NewReplicasFinite DEF NewReplicas
  <2>5. reps' \subseteq Replica /\ IsFiniteSet(reps')
    <3>1. reps' = reps \cup NewReplicas
      BY <1>21 DEF PutWriteSlot, NewReplicas, NewOn
    <3>2. NewReplicas \subseteq Replica
      BY <2>2 DEF NewReplicas, NewOn
    <3> QED
      BY Zenon, <2>4, <3>1, <3>2, FS_Union DEF Types
  <2>6. ASSUME NEW d \in Served
        PROVE  Cardinality(TargetsOn(d)) \in Nat
    BY <2>3, FS_Subset, FS_CardinalityType DEF TargetsOn
  <2>7. used' \in [Served -> Int]
    BY <1>21, <2>1, <2>6 DEF PutWriteSlot, Types
  <2>8. ASSUME NEW d \in Served
        PROVE  Pushed(d) \in Seq(Entry)
    <3>1. <<put.key, put.slot>> \in Entry
      BY <2>1 DEF Entry
    <3>2. NewEntries(d) \in Seq(Entry)
      BY SMTT(60), <2>6, <3>1 DEF NewEntries
    <3>3. fifo[d] \in Seq(Entry)
      BY DEF Types
    <3> QED
      BY <3>2, <3>3 DEF Pushed
  <2>9. fifo' \in [Served -> Seq(Entry)]
    BY <1>21, <2>8 DEF PutWriteSlot
  <2>10. Types'
    BY <1>21, <2>5, <2>7, <2>9, NextSlotType DEF PutWriteSlot, Types, Outcome
  <2>11. PutShape'
    BY SMTT(60), <1>21, NextSlotType
    DEF PutShape, PutWriteSlot, Putting, Types, PutLocals, Outcome
  <2> QED
    BY <2>10, <2>11
<1>22. CASE PutFailSlot
  <2>1. PICK o \in Outcome : put' = NextSlot(o)
    BY <1>22 DEF PutFailSlot, Types, PutLocals, Outcome
  <2>2. Types'
    BY <1>22, <2>1, NextSlotType DEF Types, PutFailSlot
  <2>3. PutShape'
    BY <1>22, <2>1, NextSlotType DEF PutShape, PutFailSlot, Putting, Types, PutLocals
  <2> QED
    BY <2>2, <2>3
<1>23. CASE PutReturn
  <2>1. Types'
    BY <1>23, NoPutType DEF Types, PutReturn
  <2>2. PutShape'
    BY <1>23 DEF PutShape, PutReturn, Putting, NoPut
  <2> QED
    BY <2>1, <2>2
<1>24. CASE UNCHANGED vars
  <2>1. Types'
    BY <1>24 DEF Types, vars
  <2>2. PutShape'
    BY <1>24 DEF PutShape, Putting, Cand, vars
  <2> QED
    BY <2>1, <2>2
<1> QED
  BY <1>1, <1>2, <1>3, <1>4, <1>5, <1>6, <1>7, <1>8, <1>9, <1>11, <1>12, <1>13,
     <1>14, <1>16, <1>17, <1>18, <1>19, <1>20, <1>21, <1>22, <1>23, <1>24
  DEF Next, PutStep, RemoveStep, CallPanics

(***************************************************************************)
(* put, make_room and remove keep every structure well-formed.             *)
(***************************************************************************)
LEMMA ShapeInvariant == Spec => []Shape
  BY ShapeInit, ShapeStep, PTL DEF Spec

-----------------------------------------------------------------------------
(***************************************************************************)
(* Every replica hangs off its object; a slot the put in progress will     *)
(* still write is empty; what a remove unlinked is owned, on a served      *)
(* device, and no longer linked.                                           *)
(***************************************************************************)
PendingEmpty ==
  Putting => \A i \in put.writable : i >= put.slot => Slot(put.key, i) = {}

ReleaseUnlinked ==
  \A r \in release : IsOwned(r) /\ r.device \in Served /\ r \notin reps

Linked == ReplicasLinked /\ PendingEmpty /\ ReleaseUnlinked

(***************************************************************************)
(* There are no replicas at first.                                         *)
(***************************************************************************)
LEMMA LinkedInit == Init => Linked
  BY DEF Init, Linked, ReplicasLinked, PendingEmpty, ReleaseUnlinked, Putting

(***************************************************************************)
(* A key without an object has no replicas.                                *)
(***************************************************************************)
LEMMA NoObjectNoReplica ==
  ASSUME Linked, NEW r \in reps
  PROVE  objects[r.key] # NoObject
  BY DEF Linked, ReplicasLinked, NoObject

(***************************************************************************)
(* Dropping replicas, or objects that have none, keeps the links.          *)
(***************************************************************************)
LEMMA FewerReplicas ==
  ASSUME ReplicasLinked, reps' \subseteq reps,
         \A r \in reps' : objects'[r.key] = objects[r.key]
  PROVE  ReplicasLinked'
  BY DEF ReplicasLinked, SlotLen

(***************************************************************************)
(* Every step keeps replicas linked: eviction spares the object being put. *)
(***************************************************************************)
LEMMA LinkedStep == Shape /\ Linked /\ [Next]_vars => Linked'
<1> SUFFICES ASSUME Shape, Linked, [Next]_vars PROVE Linked'
  OBVIOUS
<1> USE DEF Linked
<1>1. ASSUME NEW g \in Regions, Register(g) PROVE Linked'
  BY <1>1 DEF Register, ReplicasLinked, PendingEmpty, ReleaseUnlinked, Putting, Slot, SlotLen
<1>2. ASSUME NEW g \in Regions, DropRegion(g) PROVE Linked'
  <2>1. ReplicasLinked'
    BY <1>2, FewerReplicas DEF DropRegion
  <2>2. PendingEmpty' /\ ReleaseUnlinked'
    BY <1>2 DEF DropRegion, PendingEmpty, ReleaseUnlinked, Putting, LockFree
  <2> QED
    BY <2>1, <2>2
<1>3. ASSUME NEW k \in Keys, NEW src \in PublishSrcs,
             NEW i \in DOMAIN objects[k].slots, Publish(k, i, src)
      PROVE  Linked'
  <2> DEFINE x == ExternalReplica(k, i, src.len, RegionDevice[src.regions[1]],
                                  src.regions)
  <2>1. /\ reps' = reps \cup {x}
        /\ x.key = k /\ x.slot = i /\ x.len = src.len /\ ~IsOwned(x)
    BY Zenon, <1>3 DEF Publish, ExternalReplica, IsOwned
  <2> HIDE DEF x
  <2>2. ReplicasLinked'
    BY Zenon, <1>3, <2>1 DEF ReplicasLinked, Publish, SlotLen
  <2>3. PendingEmpty' /\ ReleaseUnlinked'
    BY <1>3, <2>1 DEF Publish, PendingEmpty, ReleaseUnlinked, Putting, LockFree
  <2> QED
    BY <2>2, <2>3
<1>4. ASSUME NEW ks \in Removals, Remove(ks) PROVE Linked'
  <2>1. ReplicasLinked'
    <3>1. /\ reps' \subseteq reps
          /\ \A r \in reps' : r.key \in Keys /\ r.key \notin ks
      BY <1>4 DEF Remove, Shape, Types, Replica
    <3>2. \A k \in Keys : k \notin ks => objects'[k] = objects[k]
      BY <1>4 DEF Remove
    <3> QED
      BY <3>1, <3>2, FewerReplicas
  <2>2. PendingEmpty' /\ ReleaseUnlinked'
    BY <1>4 DEF Remove, PendingEmpty, ReleaseUnlinked, Putting, LockFree, ReplicasLinked
  <2> QED
    BY <2>1, <2>2
<1>5. CASE Release
  BY <1>5 DEF Release, ReplicasLinked, PendingEmpty, ReleaseUnlinked, Putting, SlotLen
<1>6. CASE RemoveReturn
  BY <1>6 DEF RemoveReturn, ReplicasLinked, PendingEmpty, ReleaseUnlinked, Putting, SlotLen
<1>7. ASSUME NEW k \in Keys, NEW s \in Specs, PutBegin(k, s) PROVE Linked'
  <2>1. \A r \in reps : objects'[r.key] = objects[r.key]
    BY <1>7, NoObjectNoReplica DEF PutBegin, SpecAdmitted, Shape, Types, Replica
  <2>2. ReplicasLinked'
    BY <1>7, <2>1, FewerReplicas DEF PutBegin
  <2>3. put'.writable = {i \in DOMAIN s.slots : Slot(k, i) = {}} /\ put'.key = k
    BY <1>7 DEF PutBegin, NoPut
  <2>4. PendingEmpty' /\ ReleaseUnlinked'
    BY <1>7, <2>3 DEF PutBegin, PendingEmpty, ReleaseUnlinked, Putting, Slot
  <2> QED
    BY <2>2, <2>4
(***************************************************************************)
(* The steps of a put that leave objects, reps and release alone, and do   *)
(* not turn the slot counter back.                                         *)
(***************************************************************************)
<1>8. ASSUME Putting, UNCHANGED <<objects, reps, release>>,
             Putting' => /\ put'.key = put.key
                         /\ put'.writable = put.writable
                         /\ put'.slot \in {put.slot, put.slot + 1}
      PROVE  Linked'
  <2>1. ReplicasLinked' /\ ReleaseUnlinked'
    BY <1>8 DEF ReplicasLinked, ReleaseUnlinked, SlotLen
  <2>2. put.slot \in Nat /\ put.writable \subseteq Nat
    BY DEF Shape, Types, PutLocals
  <2>3. PendingEmpty'
    BY <1>8, <2>2 DEF PendingEmpty, Slot
  <2> QED
    BY <2>1, <2>3
<1>9. CASE PutRefuseSlot
  BY <1>8, <1>9, NextSlotType DEF PutRefuseSlot, Putting, Shape, Types, Outcome
<1>10. CASE PutStartSlot
  BY <1>8, <1>10 DEF PutStartSlot, Putting, Shape, Types, PutLocals
<1>11. CASE PutUnknownDevice
  BY <1>8, <1>11, RefusedType DEF PutUnknownDevice, Putting, Shape, Types, Outcome
<1>12. CASE MakeRoomUnlimited
  BY <1>8, <1>12, AcceptedType DEF MakeRoomUnlimited, Putting, Shape, Types
<1>13. CASE MakeRoomTooLarge
  BY <1>8, <1>13, RefusedType DEF MakeRoomTooLarge, Putting, Shape, Types, Outcome
<1>14. CASE MakeRoomBegin
  BY <1>8, <1>14 DEF MakeRoomBegin, Putting
<1>15. CASE MakeRoomDefer
  BY <1>8, <1>15 DEF MakeRoomDefer, PopEntry, Putting, Shape, Types, PutLocals
<1>16. CASE MakeRoomForget
  BY <1>8, <1>16 DEF MakeRoomForget, PopEntry, Putting
<1>17. CASE MakeRoomEvict
  <2>1. /\ reps' \subseteq reps
        /\ \A r \in reps' : objects'[r.key] = objects[r.key]
    BY <1>17 DEF MakeRoomEvict, Shape, Types, Replica
  <2>2. ReplicasLinked'
    BY <2>1, FewerReplicas
  <2>3. PendingEmpty' /\ ReleaseUnlinked'
    BY <1>17, <2>1 DEF MakeRoomEvict, PopEntry, PendingEmpty, ReleaseUnlinked, Putting, Slot
  <2> QED
    BY <2>2, <2>3
<1>18. CASE MakeRoomPanic
  BY Zenon, <1>8, <1>18 DEF MakeRoomPanic, PopEntry, Putting
<1>19. CASE MakeRoomReturn
  BY Zenon, <1>8, <1>19, AcceptedType, RefusedType
  DEF MakeRoomReturn, Putting, Shape, Types, PutShape, Outcome
<1>20. CASE PutWriteSlot
  <2>1. reps' = reps \cup NewReplicas
    BY <1>20 DEF PutWriteSlot, NewReplicas, NewOn
  <2>2. ASSUME NEW r \in NewReplicas
        PROVE  /\ r.key = put.key
               /\ r.slot = put.slot
               /\ r.len = CurrentSlot.len
               /\ r.device \in Served
    BY <1>20 DEF NewReplicas, NewOn, OwnedReplica, Shape, PutShape
  <2>3. put.slot \in DOMAIN put.spec.slots /\ objects[put.key] = put.spec
    BY Zenon, <1>20, CurrentSlotType DEF PutWriteSlot, Putting, Shape, PutShape
  <2>4. UNCHANGED objects
    BY Zenon, <1>20 DEF PutWriteSlot
  <2>5. ReplicasLinked'
    BY <2>1, <2>2, <2>3, <2>4 DEF ReplicasLinked, SlotLen, CurrentSlot
  <2>6. put'.key = put.key /\ put'.writable = put.writable /\ put'.slot = put.slot + 1
    BY <1>20, NextSlotType DEF PutWriteSlot, Shape, Types, Outcome
  <2>7. put.slot \in Nat /\ put.writable \subseteq Nat
    BY DEF Shape, Types, PutLocals
  <2>8. PendingEmpty'
    BY <1>20, <2>1, <2>2, <2>6, <2>7 DEF PutWriteSlot, PendingEmpty, Putting, Slot
  <2>9. ReleaseUnlinked'
    BY <1>20 DEF PutWriteSlot, ReleaseUnlinked, Shape, PutShape
  <2> QED
    BY <2>5, <2>8, <2>9
<1>21. CASE PutFailSlot
  <2>1. PICK o \in Outcome : put' = NextSlot(o)
    BY <1>21 DEF PutFailSlot, Shape, Types, PutLocals, Outcome
  <2> QED
    BY Zenon, <1>8, <1>21, <2>1, NextSlotType DEF PutFailSlot, Putting, Shape, Types
<1>22. CASE PutReturn
  BY <1>8, <1>22 DEF PutReturn, Putting
<1>23. CASE UNCHANGED vars
  BY <1>23 DEF vars, ReplicasLinked, PendingEmpty, ReleaseUnlinked, Putting, Slot, SlotLen
<1> QED
  BY <1>1, <1>2, <1>3, <1>4, <1>5, <1>6, <1>7, <1>9, <1>10, <1>11, <1>12, <1>13,
     <1>14, <1>15, <1>16, <1>17, <1>18, <1>19, <1>20, <1>21, <1>22, <1>23
  DEF Next, PutStep, RemoveStep, CallPanics

(***************************************************************************)
(* Replicas are linked in every state.                                     *)
(***************************************************************************)
LEMMA LinkedInvariant == Spec => []Linked
<1>1. Spec => []Shape
  BY ShapeInvariant
<1> QED
  BY <1>1, LinkedInit, LinkedStep, PTL DEF Spec

(***************************************************************************)
(* The replicas of a step are those before it, what Publish adds or what   *)
(* PutWriteSlot adds.                                                      *)
(***************************************************************************)
LEMMA WhereReplicasComeFrom ==
  ASSUME [Next]_vars
  PROVE  \/ reps' \subseteq reps
         \/ /\ PutWriteSlot
            /\ reps' = reps \cup NewReplicas
         \/ \E k \in Keys, src \in PublishSrcs : \E i \in DOMAIN objects[k].slots :
              /\ Publish(k, i, src)
              /\ reps' = reps \cup
                   {ExternalReplica(k, i, src.len, RegionDevice[src.regions[1]],
                                    src.regions)}
<1>1. CASE \E k \in Keys, src \in PublishSrcs :
             \E i \in DOMAIN objects[k].slots : Publish(k, i, src)
  BY Zenon, <1>1 DEF Publish
<1>2. CASE PutWriteSlot
  BY Zenon, <1>2 DEF PutWriteSlot, NewReplicas, NewOn
<1>3. CASE \E g \in Regions : Register(g) \/ DropRegion(g)
  BY Zenon, <1>3 DEF Register, DropRegion
<1>4. CASE \E ks \in Removals : Remove(ks)
  BY <1>4 DEF Remove
<1>5. CASE RemoveStep
  BY <1>5 DEF RemoveStep, Release, RemoveReturn
<1>6. CASE \E k \in Keys, s \in Specs : PutBegin(k, s)
  BY <1>6 DEF PutBegin
<1>7. CASE PutStep /\ ~PutWriteSlot
  BY <1>7 DEF PutStep, PutRefuseSlot, PutStartSlot, PutUnknownDevice,
     MakeRoomUnlimited, MakeRoomTooLarge, MakeRoomBegin, MakeRoomDefer,
     MakeRoomForget, MakeRoomEvict, MakeRoomPanic, MakeRoomReturn, PutFailSlot,
     PutReturn
<1>8. CASE CallPanics \/ UNCHANGED vars
  BY <1>8 DEF CallPanics, vars
<1> QED
  BY Zenon, <1>1, <1>2, <1>3, <1>4, <1>5, <1>6, <1>7, <1>8 DEF Next

(***************************************************************************)
(* No region can retire an owned replica.                                  *)
(***************************************************************************)
OwnedTagged == \A r \in reps : IsOwned(r) => r.region_id = NoRegion /\ r.segs = {}

(***************************************************************************)
(* The bytes a put writes are tied to no region, in every state.           *)
(***************************************************************************)
LEMMA OwnedTaggedInvariant == Spec => []OwnedTagged
<1>1. Init => OwnedTagged
  BY DEF Init, OwnedTagged
<1>2. OwnedTagged /\ [Next]_vars => OwnedTagged'
  <2> SUFFICES ASSUME OwnedTagged, [Next]_vars, NEW r \in reps', IsOwned(r)
               PROVE  r.region_id = NoRegion /\ r.segs = {}
    BY DEF OwnedTagged
  <2>1. CASE r \in reps
    BY <2>1 DEF OwnedTagged
  <2>2. CASE r \in NewReplicas
    BY <2>2 DEF NewReplicas, NewOn, OwnedReplica
  <2>3. CASE \E k \in Keys, src \in PublishSrcs : \E i \in DOMAIN objects[k].slots :
               r = ExternalReplica(k, i, src.len, RegionDevice[src.regions[1]],
                                   src.regions)
    BY <2>3 DEF ExternalReplica, IsOwned
  <2> QED
    BY <2>1, <2>2, <2>3, WhereReplicasComeFrom
<1> QED
  BY <1>1, <1>2, PTL DEF Spec

(***************************************************************************)
(* Every replica belongs to a slot of the object now under its key, with   *)
(* the length its spec gives (the debug_assert of get), whatever puts,     *)
(* evictions, removes and retirements came before.                         *)
(***************************************************************************)
THEOREM ReplicasAlwaysLinked == Spec => []ReplicasLinked
  BY LinkedInvariant, PTL DEF Linked

-----------------------------------------------------------------------------
(***************************************************************************)
(* Setting the head of a queue aside, behind those set aside already,      *)
(* leaves what waits as it was.                                            *)
(***************************************************************************)
LEMMA DeferKeepsOrder ==
  ASSUME NEW S, NEW s \in Seq(S), NEW q \in Seq(S), q # <<>>
  PROVE  Append(s, Head(q)) \o Tail(q) = s \o q
<1>1. /\ Head(q) \in S /\ Tail(q) \in Seq(S) /\ Len(Tail(q)) = Len(q) - 1
      /\ \A i \in 1 .. Len(Tail(q)) : Tail(q)[i] = q[i + 1]
      /\ Head(q) = q[1] /\ Len(q) \in Nat /\ Len(s) \in Nat /\ Len(q) > 0
  OBVIOUS
<1> DEFINE h == Head(q)
           t == Tail(q)
           a == Append(s, h)
<1>2. /\ a \in Seq(S) /\ Len(a) = Len(s) + 1
      /\ \A i \in 1 .. Len(s) : a[i] = s[i]
      /\ a[Len(s) + 1] = h
  BY <1>1
<1> HIDE DEF h, t, a
<1>3. /\ h = q[1] /\ t \in Seq(S) /\ Len(t) = Len(q) - 1
      /\ \A i \in 1 .. Len(t) : t[i] = q[i + 1]
  BY <1>1 DEF h, t
<1>4. /\ a \o t \in Seq(S) /\ Len(a \o t) = Len(s) + Len(q)
      /\ \A i \in 1 .. Len(a) + Len(t) :
           (a \o t)[i] = IF i <= Len(a) THEN a[i] ELSE t[i - Len(a)]
  <2>1. Len(a) + Len(t) = Len(s) + Len(q)
    BY <1>1, <1>2, <1>3
  <2>2. /\ a \o t \in Seq(S) /\ Len(a \o t) = Len(a) + Len(t)
        /\ \A i \in 1 .. Len(a) + Len(t) :
             (a \o t)[i] = IF i <= Len(a) THEN a[i] ELSE t[i - Len(a)]
    BY Zenon, <1>2, <1>3, SeqConcat
  <2> QED
    BY <2>1, <2>2, Zenon
<1>5. /\ s \o q \in Seq(S) /\ Len(s \o q) = Len(s) + Len(q)
      /\ \A i \in 1 .. Len(s) + Len(q) :
           (s \o q)[i] = IF i <= Len(s) THEN s[i] ELSE q[i - Len(s)]
  OBVIOUS
<1>6. ASSUME NEW i \in 1 .. Len(s) + Len(q) PROVE (a \o t)[i] = (s \o q)[i]
  <2>1. CASE i <= Len(s)
    BY <1>1, <1>2, <1>3, <1>4, <1>5, <2>1
  <2>2. CASE i = Len(s) + 1
    BY <1>1, <1>2, <1>3, <1>4, <1>5, <2>2
  <2>3. CASE i > Len(s) + 1
    <3>1. (a \o t)[i] = t[i - Len(a)] /\ i - Len(a) \in 1 .. Len(t)
      BY SMTT(60), <1>1, <1>2, <1>3, <1>4, <2>3
    <3>2. t[i - Len(a)] = q[i - Len(a) + 1] /\ i - Len(a) + 1 = i - Len(s)
      BY SMTT(60), <1>1, <1>2, <1>3, <3>1
    <3>3. (s \o q)[i] = q[i - Len(s)]
      BY <1>1, <1>5, <2>3
    <3> QED
      BY <3>1, <3>2, <3>3
  <2>4. i <= Len(s) \/ i = Len(s) + 1 \/ i > Len(s) + 1
    BY <1>1
  <2> QED
    BY <2>1, <2>2, <2>3, <2>4, Zenon
<1>7. a \o t = s \o q
  BY SMTT(60), <1>4, <1>5, <1>6
<1> QED
  BY <1>7 DEF h, t, a

(***************************************************************************)
(* Popping the head of a queue behind those set aside cuts one entry out.  *)
(***************************************************************************)
LEMMA PopCuts ==
  ASSUME NEW S, NEW s \in Seq(S), NEW q \in Seq(S), q # <<>>
  PROVE  /\ Len(s) + 1 \in DOMAIN (s \o q)
         /\ (s \o q)[Len(s) + 1] = Head(q)
         /\ s \o Tail(q) = Cut(s \o q, Len(s) + 1)
<1>1. /\ Tail(q) \in Seq(S) /\ Len(Tail(q)) = Len(q) - 1
      /\ \A i \in 1 .. Len(Tail(q)) : Tail(q)[i] = q[i + 1]
      /\ Head(q) = q[1] /\ Len(q) \in Nat /\ Len(s) \in Nat /\ Len(q) > 0
  OBVIOUS
<1> DEFINE w == s \o q
           t == Tail(q)
<1>2. /\ w \in Seq(S) /\ Len(w) = Len(s) + Len(q) /\ DOMAIN w = 1 .. Len(w)
      /\ \A i \in 1 .. Len(s) + Len(q) :
           w[i] = IF i <= Len(s) THEN s[i] ELSE q[i - Len(s)]
  OBVIOUS
<1>3. t \in Seq(S) /\ Len(t) = Len(q) - 1 /\ \A i \in 1 .. Len(t) : t[i] = q[i + 1]
  BY <1>1
<1> HIDE DEF w, t
<1>4. /\ SubSeq(w, 1, Len(s)) \in Seq(S) /\ Len(SubSeq(w, 1, Len(s))) = Len(s)
      /\ \A i \in 1 .. Len(s) : SubSeq(w, 1, Len(s))[i] = w[i]
  <2>1. \A i \in 1 .. Len(s) : w[i] \in S
    BY <1>1, <1>2
  <2> QED
    BY <1>1, <2>1
<1>5. SubSeq(w, 1, Len(s)) = s
  <2>1. \A i \in 1 .. Len(s) : SubSeq(w, 1, Len(s))[i] = s[i]
    BY <1>1, <1>2, <1>4
  <2> QED
    BY <1>4, <2>1
<1>6. PICK m : m = Len(s) + 2
  OBVIOUS
<1>7. /\ SubSeq(w, m, Len(w)) \in Seq(S)
      /\ Len(SubSeq(w, m, Len(w))) = Len(t)
      /\ \A i \in 1 .. Len(t) : SubSeq(w, m, Len(w))[i] = w[m + i - 1]
  <2>1. \A i \in m .. Len(w) : w[i] \in S
    BY <1>1, <1>2, <1>6
  <2>2. m \in Int /\ Len(w) \in Int
    BY <1>1, <1>2, <1>6
  <2>3. /\ SubSeq(w, m, Len(w)) \in Seq(S)
        /\ Len(SubSeq(w, m, Len(w))) = IF m <= Len(w) THEN Len(w) - m + 1 ELSE 0
        /\ \A i \in 1 .. Len(w) - m + 1 : SubSeq(w, m, Len(w))[i] = w[m + i - 1]
    BY <2>1, <2>2
  <2>4. Len(t) = Len(w) - m + 1 /\ Len(t) = IF m <= Len(w) THEN Len(w) - m + 1 ELSE 0
    BY <1>1, <1>2, <1>3, <1>6
  <2> QED
    BY <2>3, <2>4
<1>8. SubSeq(w, m, Len(w)) = t
  <2>1. ASSUME NEW i \in 1 .. Len(t) PROVE w[m + i - 1] = t[i]
    <3>1. m + i - 1 \in 1 .. Len(s) + Len(q) /\ ~(m + i - 1 <= Len(s))
          /\ (m + i - 1) - Len(s) = i + 1
      BY <1>1, <1>3, <1>6
    <3>2. w[m + i - 1] = q[(m + i - 1) - Len(s)]
      BY <1>2, <3>1
    <3> QED
      BY <1>3, <3>1, <3>2
  <2> QED
    BY Zenon, <1>3, <1>7, <2>1, SeqSame
<1>9. w[Len(s) + 1] = q[1] /\ Len(s) + 1 \in DOMAIN w
  BY <1>1, <1>2
<1>10. Cut(w, Len(s) + 1) = s \o t
  <2>1. (Len(s) + 1) - 1 = Len(s) /\ (Len(s) + 1) + 1 = m
    BY <1>1, <1>6
  <2>2. Cut(w, Len(s) + 1) = SubSeq(w, 1, (Len(s) + 1) - 1) \o SubSeq(w, (Len(s) + 1) + 1, Len(w))
    BY DEF Cut
  <2> QED
    BY <1>5, <1>8, <2>1, <2>2, Zenon
<1> QED
  BY <1>1, <1>9, <1>10 DEF w, t

(***************************************************************************)
(* What a longer sequence starts with.                                     *)
(***************************************************************************)
LEMMA ConcatStarts ==
  ASSUME NEW S, NEW s \in Seq(S), NEW t \in Seq(S)
  PROVE  Len(s \o t) >= Len(s) /\ SubSeq(s \o t, 1, Len(s)) = s
<1> DEFINE w == s \o t
<1>1. /\ w \in Seq(S) /\ Len(w) = Len(s) + Len(t) /\ Len(s) \in Nat /\ Len(t) \in Nat
      /\ \A i \in 1 .. Len(s) + Len(t) :
           w[i] = IF i <= Len(s) THEN s[i] ELSE t[i - Len(s)]
  OBVIOUS
<1> HIDE DEF w
<1>2. \A i \in 1 .. Len(s) : w[i] \in S /\ w[i] = s[i]
  BY <1>1
<1>3. /\ SubSeq(w, 1, Len(s)) \in Seq(S) /\ Len(SubSeq(w, 1, Len(s))) = Len(s)
      /\ \A i \in 1 .. Len(s) : SubSeq(w, 1, Len(s))[i] = w[i]
  BY <1>1, <1>2
<1>4. SubSeq(w, 1, Len(s)) = s
  BY <1>2, <1>3
<1> QED
  BY <1>1, <1>4 DEF w

(***************************************************************************)
(* charge: a written slot queues one entry for each of its targets.        *)
(***************************************************************************)
LEMMA NewEntriesType ==
  ASSUME Shape, NEW d
  PROVE  /\ NewEntries(d) \in Seq(Entry)
         /\ \A n \in DOMAIN put.targets : put.targets[n].device = d =>
              \E m \in DOMAIN NewEntries(d) : NewEntries(d)[m] = <<put.key, put.slot>>
<1>1. put.key \in Keys /\ put.slot \in Nat /\ put.targets \in Seq(Candidate)
  BY DEF Shape, Types, PutLocals
<1>2. IsFiniteSet(DOMAIN put.targets)
  <2>1. DOMAIN put.targets = 1 .. Len(put.targets) /\ Len(put.targets) \in Nat
    BY <1>1
  <2>2. 1 \in Int /\ Len(put.targets) \in Int
    BY <2>1
  <2> QED
    BY Zenon, <2>1, <2>2, FS_Interval
<1>3. IsFiniteSet(TargetsOn(d))
  BY <1>2, FS_Subset DEF TargetsOn
<1>4. Cardinality(TargetsOn(d)) \in Nat
  BY <1>3, FS_CardinalityType
<1>5. NewEntries(d) \in Seq(Entry)
  BY <1>1, <1>4 DEF NewEntries, Entry
<1>6. ASSUME NEW n \in DOMAIN put.targets, put.targets[n].device = d
      PROVE  \E m \in DOMAIN NewEntries(d) : NewEntries(d)[m] = <<put.key, put.slot>>
  <2>1. Cardinality(TargetsOn(d)) # 0
    BY <1>3, <1>6, FS_EmptySet DEF TargetsOn
  <2>2. 1 \in DOMAIN NewEntries(d) /\ NewEntries(d)[1] = <<put.key, put.slot>>
    BY <1>4, <2>1 DEF NewEntries
  <2> QED
    BY <2>2
<1> QED
  BY <1>5, <1>6

\* make_room pops an entry of another key from the queue of d.
Drops(d) ==
  /\ MakeRoomForget \/ MakeRoomEvict
  /\ pc = "room" /\ d = Cand.device /\ fifo[d] # <<>>
  /\ Popped[1] # put.key
  /\ Waiting(d)' = put.deferred \o Tail(fifo[d])

(***************************************************************************)
(* What a step does to the entries that wait in a pool: nothing, unless a  *)
(* slot is written or make_room pops an entry of another key.              *)
(***************************************************************************)
LEMMA WaitingStep ==
  ASSUME Shape, [Next]_vars, ~poisoned', NEW d \in Served
  PROVE  \/ Waiting(d)' = Waiting(d)
         \/ PutWriteSlot /\ Waiting(d)' = Waiting(d) \o NewEntries(d)
         \/ Drops(d)
<1>0. /\ fifo \in [Served -> Seq(Entry)] /\ put.deferred \in Seq(Entry)
      /\ fifo[d] \in Seq(Entry) /\ put \in PutLocals
  BY DEF Shape, Types, PutLocals
<1>1. CASE UNCHANGED <<fifo, pc, put>>
  BY <1>1, Zenon DEF Waiting, Cand
<1>2. ASSUME UNCHANGED fifo, pc # "room", pc' # "room" PROVE Waiting(d)' = Waiting(d)
  BY <1>2 DEF Waiting
<1>3. CASE MakeRoomBegin
  <2>1. put.deferred = <<>> /\ UNCHANGED <<fifo, put>> /\ pc # "room" /\ pc' = "room"
    BY <1>3 DEF MakeRoomBegin, Shape, PutShape
  <2>2. <<>> \o fifo[d] = fifo[d]
    BY <1>0
  <2>3. Waiting(d) = fifo[d]
    BY <2>1 DEF Waiting
  <2>4. Waiting(d)' = fifo[d] \/ Waiting(d)' = put.deferred \o fifo[d]
    BY Zenon, <2>1 DEF Waiting
  <2> QED
    BY <2>1, <2>2, <2>3, <2>4, Zenon
<1>4. CASE MakeRoomDefer
  <2>1. /\ pc = "room" /\ UNCHANGED pc /\ fifo[Cand.device] # <<>> /\ Cand.device \in Served
        /\ fifo' = [fifo EXCEPT ![Cand.device] = Tail(@)]
        /\ put' = [put EXCEPT !.deferred = Append(@, Popped)]
    BY <1>4 DEF MakeRoomDefer, PopEntry, Shape, PutShape
  <2>2. put'.cands = put.cands /\ put'.deferred = Append(put.deferred, Popped)
    BY <1>0, <2>1 DEF PutLocals
  <2>3. Cand' = Cand
    BY <2>2 DEF Cand
  <2>4. CASE d = Cand.device
    <3>1. /\ Waiting(d) = put.deferred \o fifo[d]
          /\ Waiting(d)' = Append(put.deferred, Head(fifo[d])) \o fifo'[d]
      BY <2>1, <2>2, <2>3, <2>4, Zenon DEF Waiting, Popped
    <3>2. fifo'[d] = Tail(fifo[d]) /\ fifo[d] # <<>>
      BY <1>0, <2>1, <2>4
    <3>3. Append(put.deferred, Head(fifo[d])) \o Tail(fifo[d]) = put.deferred \o fifo[d]
      BY SMTT(60), <1>0, <3>2, DeferKeepsOrder
    <3> QED
      BY <3>1, <3>2, <3>3, Zenon
  <2>5. CASE d # Cand.device
    <3>1. fifo'[d] = fifo[d]
      BY <1>0, <2>1, <2>5
    <3> QED
      BY <2>1, <2>3, <2>5, <3>1, Zenon DEF Waiting
  <2> QED
    BY <2>4, <2>5
<1>5. CASE MakeRoomForget \/ MakeRoomEvict
  <2>1. /\ pc = "room" /\ UNCHANGED <<pc, put>>
        /\ fifo[Cand.device] # <<>> /\ Popped[1] # put.key
        /\ fifo' = [fifo EXCEPT ![Cand.device] = Tail(@)]
    BY <1>5, Zenon DEF MakeRoomForget, MakeRoomEvict, PopEntry, Protected
  <2>2. Cand' = Cand /\ Cand.device \in Served
    BY <2>1 DEF Cand, Shape, PutShape
  <2>3. CASE d = Cand.device
    <3>1. fifo'[d] = Tail(fifo[d])
      BY <1>0, <2>1, <2>3
    <3>2. Waiting(d)' = put.deferred \o fifo'[d]
      BY <2>1, <2>2, <2>3, Zenon DEF Waiting
    <3> QED
      BY <1>5, <2>1, <2>3, <3>1, <3>2, Zenon DEF Drops
  <2>4. CASE d # Cand.device
    <3>1. fifo'[d] = fifo[d]
      BY <1>0, <2>1, <2>4
    <3> QED
      BY <2>1, <2>2, <2>4, <3>1, Zenon DEF Waiting
  <2> QED
    BY <2>3, <2>4
<1>6. CASE MakeRoomReturn
  <2>1. /\ pc = "room" /\ pc' = "try" /\ Cand.device \in Served
        /\ fifo' = [fifo EXCEPT ![Cand.device] = Restored(Cand.device)]
    BY <1>6 DEF MakeRoomReturn, Shape, PutShape
  <2>2. fifo'[d] = IF d = Cand.device THEN put.deferred \o fifo[d] ELSE fifo[d]
    BY <1>0, <2>1 DEF Restored
  <2> QED
    BY <2>1, <2>2, Zenon DEF Waiting
<1>7. CASE PutWriteSlot
  <2>1. pc = "try" /\ pc' = "slot" /\ fifo'[d] = fifo[d] \o NewEntries(d)
    BY <1>7 DEF PutWriteSlot, Pushed
  <2> QED
    BY <1>7, <2>1 DEF Waiting
<1>8. CASE MakeRoomPanic
  BY <1>8 DEF MakeRoomPanic
<1>9. CASE \/ PutRefuseSlot \/ PutStartSlot \/ PutUnknownDevice \/ MakeRoomUnlimited
           \/ MakeRoomTooLarge \/ PutFailSlot \/ PutReturn
           \/ \E k \in Keys, s \in Specs : PutBegin(k, s)
  BY Zenon, <1>2, <1>9 DEF PutRefuseSlot, PutStartSlot, PutUnknownDevice, MakeRoomUnlimited,
     MakeRoomTooLarge, PutFailSlot, PutReturn, PutBegin, LockFree
<1>10. CASE \/ \E g \in Regions : Register(g) \/ DropRegion(g)
            \/ \E k \in Keys, src \in PublishSrcs :
                 \E i \in DOMAIN objects[k].slots : Publish(k, i, src)
            \/ Release \/ CallPanics \/ UNCHANGED vars
  BY <1>1, <1>10 DEF Register, DropRegion, Publish, Release, CallPanics, vars
<1>11. CASE RemoveReturn \/ \E ks \in Removals : Remove(ks)
  BY <1>2, <1>11 DEF RemoveReturn, Remove, LockFree
<1> QED
  BY <1>3, <1>4, <1>5, <1>6, <1>7, <1>8, <1>9, <1>10, <1>11, Zenon
  DEF Next, PutStep, RemoveStep

(***************************************************************************)
(* "evicting `Cache` replicas in FIFO order": however often make_room sets *)
(* entries of the object being put aside and puts them back, what waits in *)
(* a pool keeps its order, joins at the back, and leaves one at a time and *)
(* never for the object being put.                                         *)
(***************************************************************************)
THEOREM FifoOrderAlwaysKept == Spec => FifoOrderKept
<1> DEFINE Kept(d) ==
      \/ /\ Len(Waiting(d)') >= Len(Waiting(d))
         /\ SubSeq(Waiting(d)', 1, Len(Waiting(d))) = Waiting(d)
      \/ \E n \in DOMAIN Waiting(d) :
           Waiting(d)[n][1] # put.key /\ Waiting(d)' = Cut(Waiting(d), n)
<1>1. ASSUME Shape, [Next]_vars, ~poisoned', NEW d \in Served PROVE Kept(d)
  <2>0. /\ fifo[d] \in Seq(Entry) /\ put.deferred \in Seq(Entry)
        /\ Waiting(d) \in Seq(Entry)
    BY Zenon, <1>1, SeqConcat DEF Shape, Types, PutLocals, Waiting
  <2>1. CASE Waiting(d)' = Waiting(d) \o <<>>
    BY <2>0, <2>1, ConcatStarts
  <2>2. CASE Waiting(d)' = Waiting(d)
    BY <2>0, <2>1, <2>2
  <2>3. CASE Waiting(d)' = Waiting(d) \o NewEntries(d)
    BY <1>1, <2>0, <2>3, ConcatStarts, NewEntriesType
  <2>4. CASE Drops(d)
    <3>1. /\ fifo[d] # <<>> /\ Head(fifo[d])[1] # put.key
          /\ Waiting(d) = put.deferred \o fifo[d]
          /\ Waiting(d)' = put.deferred \o Tail(fifo[d])
      BY <2>4, Zenon DEF Drops, Popped, Waiting
    <3>2. PICK n : n = Len(put.deferred) + 1
      OBVIOUS
    <3>3. /\ n \in DOMAIN (put.deferred \o fifo[d])
          /\ (put.deferred \o fifo[d])[n] = Head(fifo[d])
          /\ put.deferred \o Tail(fifo[d]) = Cut(put.deferred \o fifo[d], n)
      BY Zenon, <2>0, <3>1, <3>2, PopCuts
    <3>4. n \in DOMAIN Waiting(d) /\ Waiting(d)[n][1] # put.key
          /\ Waiting(d)' = Cut(Waiting(d), n)
      BY <3>1, <3>3, Zenon
    <3> QED
      BY <3>4, Zenon
  <2> HIDE DEF Kept
  <2> QED
    BY <1>1, <2>2, <2>3, <2>4, WaitingStep, Zenon
<1>2. Shape /\ [Next]_vars => [~poisoned' => \A d \in Served : Kept(d)]_vars
  BY <1>1, Zenon
<1>3. Spec => []Shape
  BY ShapeInvariant
<1> QED
  BY <1>2, <1>3, PTL DEF Spec, FifoOrderKept

-----------------------------------------------------------------------------
(***************************************************************************)
(* The owned replicas of a Cache object can always be evicted: until a     *)
(* panic poisons the mutex each has an entry waiting in the pool of its    *)
(* device.  Entries are only set aside for the object being put.           *)
(***************************************************************************)
Waits(e, d) == \E n \in DOMAIN Waiting(d) : Waiting(d)[n] = e

CacheWaits ==
  ~poisoned =>
    \A r \in reps :
      IsOwned(r) /\ objects[r.key].retention = "Cache" => Waits(<<r.key, r.slot>>, r.device)

OwnAside == \A n \in DOMAIN put.deferred : put.deferred[n][1] = put.key

(***************************************************************************)
(* An entry goes on waiting unless make_room pops it for good.             *)
(***************************************************************************)
LEMMA WaitsStep ==
  ASSUME Shape, [Next]_vars, ~poisoned', NEW d \in Served, NEW e, Waits(e, d)
  PROVE  Waits(e, d)' \/ (Drops(d) /\ Popped = e)
<1>0. /\ fifo[d] \in Seq(Entry) /\ put.deferred \in Seq(Entry)
      /\ Waiting(d) \in Seq(Entry)
  BY DEF Shape, Types, PutLocals, Waiting
<1>1. CASE Waiting(d)' = Waiting(d)
  BY <1>1 DEF Waits
<1>2. CASE Waiting(d)' = Waiting(d) \o NewEntries(d)
  <2>1. PICK n \in DOMAIN Waiting(d) : Waiting(d)[n] = e
    BY DEF Waits
  <2>2. PICK w \in Seq(Entry), t \in Seq(Entry) : w = Waiting(d) /\ t = NewEntries(d)
    BY <1>0, NewEntriesType
  <2>3. n \in DOMAIN (w \o t) /\ (w \o t)[n] = w[n]
    BY <2>1, <2>2
  <2> QED
    BY <1>2, <2>1, <2>2, <2>3, Zenon DEF Waits
<1>3. CASE Drops(d)
  <2>1. /\ fifo[d] # <<>> /\ Waiting(d) = put.deferred \o fifo[d]
        /\ Waiting(d)' = put.deferred \o Tail(fifo[d]) /\ Popped = Head(fifo[d])
    BY <1>3, Zenon DEF Drops, Popped, Waiting
  <2>2. PICK s \in Seq(Entry), q \in Seq(Entry) : s = put.deferred /\ q = fifo[d]
    BY <1>0
  <2>3. PICK n \in DOMAIN (s \o q) : (s \o q)[n] = e
    BY <2>1, <2>2, Zenon DEF Waits
  <2>4. PICK t \in Seq(Entry) : t = Tail(q) /\ Len(t) = Len(q) - 1
                               /\ \A i \in 1 .. Len(t) : t[i] = q[i + 1]
    BY Zenon, <2>1, <2>2, SeqTail
  <2>5. Len(s) \in Nat /\ Len(t) \in Nat /\ Len(q) = Len(t) + 1 /\ q[1] = Head(q)
    BY <2>1, <2>2, <2>4
  <2>6. /\ DOMAIN (s \o q) = 1 .. Len(s) + Len(q)
        /\ \A i \in 1 .. Len(s) + Len(q) : (s \o q)[i] = IF i <= Len(s) THEN s[i] ELSE q[i - Len(s)]
    OBVIOUS
  <2>7. /\ DOMAIN (s \o t) = 1 .. Len(s) + Len(t)
        /\ \A i \in 1 .. Len(s) + Len(t) : (s \o t)[i] = IF i <= Len(s) THEN s[i] ELSE t[i - Len(s)]
    OBVIOUS
  <2>8. ASSUME n <= Len(s) PROVE n \in DOMAIN (s \o t) /\ (s \o t)[n] = e
    BY <2>3, <2>5, <2>6, <2>7, <2>8
  <2>9. ASSUME n = Len(s) + 1 PROVE Head(q) = e
    BY <2>3, <2>5, <2>6, <2>9
  <2>10. ASSUME n > Len(s) + 1
         PROVE  \E m \in DOMAIN (s \o t) : (s \o t)[m] = e
    <3>1. PICK m, i : m = n - 1 /\ i = n - 1 - Len(s)
      OBVIOUS
    <3>2. /\ m \in 1 .. Len(s) + Len(t) /\ ~(m <= Len(s)) /\ m - Len(s) = i
          /\ i \in 1 .. Len(t) /\ ~(n <= Len(s)) /\ n - Len(s) = i + 1
          /\ n \in 1 .. Len(s) + Len(q)
      BY SMTT(60), <2>3, <2>5, <2>6, <2>10, <3>1
    <3>3. (s \o t)[m] = t[i] /\ (s \o q)[n] = q[i + 1] /\ t[i] = q[i + 1]
      BY <2>4, <2>6, <2>7, <3>2
    <3> QED
      BY SMTT(60), <2>3, <2>7, <3>2, <3>3
  <2>11. n <= Len(s) \/ n = Len(s) + 1 \/ n > Len(s) + 1
    BY <2>3, <2>5, <2>6
  <2>12. Waiting(d)' = s \o t /\ Popped = Head(q)
    BY <2>1, <2>2, <2>4, Zenon
  <2> QED
    BY <1>3, <2>8, <2>9, <2>10, <2>11, <2>12, Zenon DEF Waits
<1> QED
  BY <1>1, <1>2, <1>3, WaitingStep, Zenon

(***************************************************************************)
(* An object that has replicas after a step had the same spec before it.   *)
(***************************************************************************)
LEMMA SpecKept ==
  ASSUME Shape, Linked, [Next]_vars, NEW r \in reps, r \in reps'
  PROVE  objects'[r.key] = objects[r.key]
<1>1. objects \in [Keys -> ObjectSpec] /\ r.key \in Keys
  BY DEF Shape, Types, Replica
<1>2. CASE \E k \in Keys, s \in Specs : PutBegin(k, s)
  BY <1>1, <1>2, NoObjectNoReplica DEF PutBegin, SpecAdmitted
<1>3. CASE \E ks \in Removals : Remove(ks)
  BY <1>1, <1>3 DEF Remove
<1>4. CASE MakeRoomEvict
  BY <1>1, <1>4 DEF MakeRoomEvict
<1>5. UNCHANGED objects
      \/ (\E k \in Keys, s \in Specs : PutBegin(k, s))
      \/ (\E ks \in Removals : Remove(ks))
      \/ MakeRoomEvict
  BY Zenon DEF Next, vars, PutStep, RemoveStep, CallPanics, Register, DropRegion, Publish,
     Release, RemoveReturn, PutRefuseSlot, PutStartSlot, PutUnknownDevice,
     MakeRoomUnlimited, MakeRoomTooLarge, MakeRoomBegin, MakeRoomDefer, MakeRoomForget,
     MakeRoomPanic, MakeRoomReturn, PutWriteSlot, PutFailSlot, PutReturn
<1> QED
  BY <1>2, <1>3, <1>4, <1>5

(***************************************************************************)
(* Every step keeps the replicas of Cache objects waiting: the entry of an *)
(* evictable slot is popped only together with the slot's replicas.        *)
(***************************************************************************)
LEMMA CacheWaitsStep == Shape /\ Linked /\ CacheWaits /\ [Next]_vars => CacheWaits'
<1> SUFFICES ASSUME Shape, Linked, CacheWaits, [Next]_vars, ~poisoned',
                    NEW r \in reps', IsOwned(r), objects'[r.key].retention = "Cache"
             PROVE  Waits(<<r.key, r.slot>>, r.device)'
  BY Zenon DEF CacheWaits
<1> DEFINE e == <<r.key, r.slot>>
           d == r.device
<1>0. ~poisoned
  BY Zenon DEF Next, vars, PutStep, RemoveStep, CallPanics, Register, DropRegion, Publish,
     Release, RemoveReturn, PutRefuseSlot, PutStartSlot, PutUnknownDevice,
     MakeRoomUnlimited, MakeRoomTooLarge, MakeRoomBegin, MakeRoomDefer, MakeRoomForget,
     MakeRoomEvict, MakeRoomPanic, MakeRoomReturn, PutWriteSlot, PutFailSlot, PutReturn,
     Remove, PutBegin
<1>1. Linked'
  BY LinkedStep
<1>2. d \in Served
  BY <1>1 DEF Linked, ReplicasLinked
<1>3. CASE r \in reps
  <2>1. objects[r.key] = objects'[r.key] /\ objects[r.key] # NoObject
    BY <1>3, SpecKept, NoObjectNoReplica
  <2>2. Waits(e, d)
    BY <1>0, <1>3, <2>1 DEF CacheWaits
  <2>3. ASSUME Drops(d), Popped = e PROVE FALSE
    <3>1. Popped[1] = r.key /\ Popped[2] = r.slot /\ d = Cand.device
      BY <2>3 DEF Drops
    <3>2. CASE MakeRoomForget
      BY <2>1, <3>1, <3>2 DEF MakeRoomForget, Evictable
    <3>3. CASE MakeRoomEvict
      <4>1. reps' = reps \ Victims(Popped[1], Popped[2], Cand.device)
        BY <3>3, Zenon DEF MakeRoomEvict
      <4>2. r \in Victims(Popped[1], Popped[2], Cand.device)
        BY <1>3, <3>1 DEF Victims, Slot
      <4> QED
        BY <4>1, <4>2
    <3> QED
      BY <2>3, <3>2, <3>3 DEF Drops
  <2> HIDE DEF e, d
  <2>4. Waits(e, d)'
    BY <1>2, <2>2, <2>3, WaitsStep
  <2> QED
    BY <2>4 DEF e, d
<1>4. CASE r \notin reps
  <2>1. CASE /\ PutWriteSlot
             /\ reps' = reps \cup NewReplicas
    <3>1. PICK n \in DOMAIN put.targets :
            r = OwnedReplica(put.key, put.slot, n, CurrentSlot.len, put.targets[n])
      BY <1>4, <2>1 DEF NewReplicas, NewOn
    <3>2. e = <<put.key, put.slot>> /\ put.targets[n].device = d
      BY <3>1 DEF OwnedReplica
    <3> HIDE DEF e, d
    <3>3. PICK m \in DOMAIN NewEntries(d) : NewEntries(d)[m] = e
      BY Zenon, <3>2, NewEntriesType
    <3>4. PICK w \in Seq(Entry), t \in Seq(Entry) : w = fifo[d] /\ t = NewEntries(d)
      BY <1>2, NewEntriesType DEF Shape, Types
    <3>5. Waiting(d)' = w \o t
      <4>1. /\ fifo' = [c \in Served |-> Pushed(c)]
            /\ pc' # "room"
        BY Zenon, <2>1 DEF PutWriteSlot
      <4>2. Waiting(d)' = fifo'[d]
        BY Zenon, <4>1 DEF Waiting
      <4>3. fifo'[d] = Pushed(d)
        BY Zenon, <1>2, <4>1
      <4> QED
        BY Zenon, <3>4, <4>2, <4>3 DEF Pushed
    <3>6. PICK x : x = Len(w) + m
      OBVIOUS
    <3>7. x \in DOMAIN (w \o t) /\ (w \o t)[x] = t[m]
      <4>1. /\ Len(w) \in Nat /\ Len(t) \in Nat /\ m \in 1 .. Len(t)
            /\ DOMAIN (w \o t) = 1 .. Len(w) + Len(t)
            /\ \A i \in 1 .. Len(w) + Len(t) :
                 (w \o t)[i] = IF i <= Len(w) THEN w[i] ELSE t[i - Len(w)]
        BY <3>3, <3>4
      <4>2. x \in 1 .. Len(w) + Len(t) /\ ~(x <= Len(w)) /\ x - Len(w) = m
        BY <3>6, <4>1
      <4> QED
        BY <4>1, <4>2
    <3>8. Waits(e, d)'
      BY <3>3, <3>4, <3>5, <3>7, Zenon DEF Waits
    <3> QED
      BY <3>8 DEF e, d
  <2>2. ASSUME NEW k \in Keys, NEW src \in PublishSrcs, NEW i,
               reps' = reps \cup
                 {ExternalReplica(k, i, src.len, RegionDevice[src.regions[1]], src.regions)}
        PROVE  FALSE
    BY <1>4, <2>2 DEF ExternalReplica, IsOwned
  <2> QED
    BY <1>4, <2>1, <2>2, WhereReplicasComeFrom, Zenon
<1> QED
  BY <1>3, <1>4

(***************************************************************************)
(* make_room sets aside nothing but entries of the object being put.       *)
(***************************************************************************)
LEMMA OwnAsideStep == Shape /\ OwnAside /\ [Next]_vars => OwnAside'
<1> SUFFICES ASSUME Shape, OwnAside, [Next]_vars PROVE OwnAside'
  OBVIOUS
<1>0. put \in PutLocals /\ put.deferred \in Seq(Entry)
  BY DEF Shape, Types, PutLocals
<1>1. CASE put'.deferred = <<>>
  BY <1>1 DEF OwnAside
<1>2. CASE UNCHANGED put
  BY <1>2 DEF OwnAside
<1>3. CASE MakeRoomDefer
  <2>1. Popped \in Entry /\ Popped[1] = put.key /\ put' = [put EXCEPT !.deferred = Append(@, Popped)]
    BY <1>3
    DEF MakeRoomDefer, PopEntry, Protected, Popped, Shape, Types, PutShape
  <2>2. put'.key = put.key /\ put'.deferred = Append(put.deferred, Popped)
    BY <1>0, <2>1 DEF PutLocals
  <2> HIDE DEF Entry
  <2>3. \A n \in DOMAIN Append(put.deferred, Popped) :
          \/ n \in DOMAIN put.deferred /\ Append(put.deferred, Popped)[n] = put.deferred[n]
          \/ Append(put.deferred, Popped)[n] = Popped
    BY <1>0, <2>1
  <2> QED
    BY <2>1, <2>2, <2>3, Zenon DEF OwnAside
<1>4. Shape'
  BY ShapeStep
<1>5. pc' # "room" => put'.deferred = <<>>
  BY <1>4 DEF Shape, PutShape
<1>6. \/ UNCHANGED put \/ pc' # "room" \/ MakeRoomDefer
  BY Zenon DEF Next, vars, PutStep, RemoveStep, CallPanics, Register, DropRegion, Publish,
     Release, RemoveReturn, PutRefuseSlot, PutStartSlot, PutUnknownDevice,
     MakeRoomUnlimited, MakeRoomTooLarge, MakeRoomBegin, MakeRoomForget,
     MakeRoomEvict, MakeRoomPanic, MakeRoomReturn, PutWriteSlot, PutFailSlot, PutReturn,
     Remove, PutBegin
<1> QED
  BY <1>1, <1>2, <1>3, <1>5, <1>6

(***************************************************************************)
(* make_room answers that a slot does not fit only when nothing evictable  *)
(* is left on the device, after any number of puts that set entries aside, *)
(* of removes that leave stale ones and of evictions: no entry of a Cache  *)
(* replica is ever lost.                                                   *)
(***************************************************************************)
THEOREM NoSpaceAlwaysFinal == Spec => []NoSpaceIsFinal
<1>1. Init => CacheWaits /\ OwnAside
  BY DEF Init, CacheWaits, OwnAside, NoPut
<1>2. Shape /\ Linked /\ CacheWaits /\ OwnAside /\ [Next]_vars => (CacheWaits /\ OwnAside)'
  BY CacheWaitsStep, OwnAsideStep
<1>3. Shape /\ Linked /\ CacheWaits /\ OwnAside => NoSpaceIsFinal
  <2> SUFFICES ASSUME Shape, CacheWaits, OwnAside, pc = "room", fifo[Cand.device] = <<>>,
                      NEW r \in reps, IsOwned(r), r.device = Cand.device, r.key # put.key
               PROVE  objects[r.key].retention = "Explicit"
    BY DEF NoSpaceIsFinal
  <2>1. ~poisoned /\ put.deferred \in Seq(Entry) /\ Cand.device \in Served
    BY DEF Shape, Types, PutShape, Putting, PutLocals
  <2>2. Waiting(Cand.device) = put.deferred
    BY <2>1 DEF Waiting
  <2>3. ~Waits(<<r.key, r.slot>>, r.device)
    BY <2>2 DEF Waits, OwnAside
  <2>4. objects[r.key].retention \in Retention
    BY DEF Shape, Types, Replica, ObjectSpec
  <2> QED
    BY <2>1, <2>3, <2>4 DEF CacheWaits, Retention
<1> QED
  BY <1>1, <1>2, <1>3, ShapeInvariant, LinkedInvariant, PTL DEF Spec

-----------------------------------------------------------------------------
(***************************************************************************)
(* What a put has accepted for a slot and has left to try honour the       *)
(* placement.  For Each they are its devices in their order, as long as    *)
(* none has been refused; any other placement has one target at most.      *)
(***************************************************************************)
WellPlaced(pl, q) ==
  /\ \A n \in DOMAIN q.targets : Allowed(pl, q.targets[n])
  /\ \A n \in DOMAIN q.cands : Allowed(pl, q.cands[n])
  /\ pl.kind # "Each" /\ q.targets # <<>> => Len(q.targets) = 1 /\ q.cands = <<>>
  /\ pl.kind = "Each" /\ q.err = "Ok" =>
       /\ Len(q.targets) + Len(q.cands) = Len(pl.devs)
       /\ \A n \in DOMAIN q.targets : q.targets[n].device = pl.devs[n]
       /\ \A n \in DOMAIN q.cands : q.cands[n].device = pl.devs[Len(q.targets) + n]

Placing == pc \in {"try", "room"} => WellPlaced(CurrentSlot.placement, put)

(***************************************************************************)
(* A slot starts with the candidates of its placement.                     *)
(***************************************************************************)
LEMMA StartWell ==
  ASSUME Shape, PutStartSlot PROVE Placing'
<1> DEFINE pl == CurrentSlot.placement
           C == Candidates(pl)
<1>1. /\ put \in PutLocals /\ put.slot \in put.writable /\ put.targets = <<>>
      /\ put' = [put EXCEPT !.cands = C] /\ put.spec \in Specs
      /\ put.slot \in DOMAIN put.spec.slots
  BY DEF PutStartSlot, Shape, Types, PutShape, Putting
<1>2. pl \in Placement /\ WellFormed(pl)
  BY <1>1, CurrentSlotType DEF PutStartSlot, Putting
<1>3. /\ C \in Seq(Candidate) /\ \A n \in DOMAIN C : Allowed(pl, C[n])
      /\ pl.kind = "Each" => /\ Len(C) = Len(pl.devs)
                             /\ \A n \in DOMAIN pl.devs : C[n].device = pl.devs[n]
  BY <1>2, CandidatesType
<1>4. /\ put'.cands = C /\ put'.targets = <<>>
      /\ put'.spec = put.spec /\ put'.slot = put.slot
  BY <1>1 DEF PutLocals
<1>5. CurrentSlot'.placement = pl
  BY <1>4 DEF CurrentSlot
<1>6. pl.devs \in Seq(Devices)
  BY <1>2 DEF Placement
<1> HIDE DEF C, pl
<1>7. pl.kind = "Each" =>
        /\ 0 + Len(C) = Len(pl.devs)
        /\ \A n \in DOMAIN C : C[n].device = pl.devs[0 + n]
  BY <1>3, <1>6
<1>8. WellPlaced(pl, put')
  <2>1. DOMAIN <<>> = {} /\ Len(<<>>) = 0
    OBVIOUS
  <2> QED
    BY <1>3, <1>4, <1>7, <2>1, Zenon DEF WellPlaced
<1> QED
  BY <1>5, <1>8 DEF Placing

(***************************************************************************)
(* A refused candidate leaves the others as they were; for Each it is the  *)
(* end of the slot.                                                        *)
(***************************************************************************)
LEMMA RefuseWell ==
  ASSUME Shape, Placing, pc \in {"try", "room"}, put.cands # <<>>,
         NEW o \in Outcome, o # "Ok", put' = Refused(o)
  PROVE  Placing'
<1> DEFINE pl == CurrentSlot.placement
           cs == put.cands
<1>1. put \in PutLocals /\ cs \in Seq(Candidate) /\ WellPlaced(pl, put)
  BY DEF Shape, Types, PutLocals, Placing
<1>2. /\ put'.spec = put.spec /\ put'.slot = put.slot /\ put'.targets = put.targets
      /\ put'.err = o /\ put'.cands = IF IsEach THEN <<>> ELSE Tail(cs)
  BY <1>1, RefusedType
<1>3. CurrentSlot'.placement = pl /\ (IsEach <=> pl.kind = "Each")
  BY <1>2 DEF CurrentSlot, IsEach
<1>4. PICK t : t = put'.cands
  OBVIOUS
<1>5. \A n \in DOMAIN t : n + 1 \in DOMAIN cs /\ t[n] = cs[n + 1]
  <2>1. CASE t = <<>>
    BY <2>1
  <2>2. CASE t = Tail(cs)
    BY <1>1, <2>2
  <2> QED
    BY <1>2, <1>4, <2>1, <2>2
<1>6. \A n \in DOMAIN t : Allowed(pl, t[n])
  BY <1>1, <1>5, Zenon DEF WellPlaced
<1>7. pl.kind # "Each" => put.targets = <<>>
  BY <1>1 DEF WellPlaced
<1>8. WellPlaced(pl, put')
  BY <1>1, <1>2, <1>4, <1>6, <1>7, Zenon DEF WellPlaced
<1> QED
  BY <1>3, <1>8 DEF Placing

(***************************************************************************)
(* An accepted candidate is the next target.                               *)
(***************************************************************************)
LEMMA AcceptWell ==
  ASSUME Shape, Placing, pc \in {"try", "room"}, put.cands # <<>>, put' = Accepted
  PROVE  Placing'
<1> DEFINE pl == CurrentSlot.placement
           cs == put.cands
           ts == put.targets
           B == Append(ts, Cand)
<1>1. /\ put \in PutLocals /\ cs \in Seq(Candidate) /\ ts \in Seq(Candidate)
      /\ WellPlaced(pl, put)
  BY DEF Shape, Types, PutLocals, Placing
<1>2. /\ put'.spec = put.spec /\ put'.slot = put.slot /\ put'.targets = B
      /\ put'.err = put.err /\ put'.cands = IF IsEach THEN Tail(cs) ELSE <<>>
  BY <1>1, AcceptedType
<1>3. CurrentSlot'.placement = pl /\ (IsEach <=> pl.kind = "Each")
  BY <1>2 DEF CurrentSlot, IsEach
<1>4. Cand = cs[1] /\ 1 \in DOMAIN cs /\ Cand \in Candidate
  BY <1>1 DEF Cand
<1>5. Allowed(pl, Cand)
  BY <1>1, <1>4 DEF WellPlaced
<1>6. PICK c : c = Cand
  OBVIOUS
<1>7. /\ Len(ts) \in Nat /\ DOMAIN ts = 1 .. Len(ts) /\ DOMAIN B = 1 .. Len(ts) + 1
      /\ Len(B) = Len(ts) + 1
      /\ \A n \in 1 .. Len(ts) : B[n] = ts[n]
      /\ B[Len(ts) + 1] = c
  BY <1>1, <1>4, <1>6
<1>8. \A n \in DOMAIN B : (n \in DOMAIN ts /\ B[n] = ts[n]) \/ (n = Len(ts) + 1 /\ B[n] = c)
  <2>1. \A n \in DOMAIN B : n \in DOMAIN ts \/ n = Len(ts) + 1
    BY <1>7
  <2> HIDE DEF B
  <2> QED
    BY <1>7, <2>1, Zenon
<1> HIDE DEF B, pl
<1>9. \A n \in DOMAIN B : Allowed(pl, B[n])
  BY <1>1, <1>5, <1>6, <1>8, Zenon DEF WellPlaced
<1>10. CASE IsEach
  <2>1. Len(cs) \in Nat /\ DOMAIN cs = 1 .. Len(cs)
    BY <1>1
  <2>2. PICK t \in Seq(Candidate) :
          /\ t = put'.cands /\ Len(t) = Len(cs) - 1 /\ DOMAIN t = 1 .. Len(cs) - 1
          /\ \A n \in 1 .. Len(cs) - 1 : t[n] = cs[n + 1]
    <3>1. /\ Tail(cs) \in Seq(Candidate) /\ Len(Tail(cs)) = Len(cs) - 1
          /\ \A n \in 1 .. Len(Tail(cs)) : Tail(cs)[n] = cs[n + 1]
          /\ DOMAIN Tail(cs) = 1 .. Len(Tail(cs))
      BY <1>1
    <3>2. put'.cands = Tail(cs)
      BY <1>2, <1>10
    <3> QED
      BY <3>1, <3>2, Zenon
  <2>3. \A n \in DOMAIN t : n \in Int /\ n + 1 \in DOMAIN cs /\ t[n] = cs[n + 1]
    BY <2>1, <2>2
  <2>4. \A n \in DOMAIN t : Allowed(pl, t[n])
    BY <1>1, <2>3, Zenon DEF WellPlaced
  <2>5. ASSUME put.err = "Ok"
        PROVE  /\ Len(B) + Len(t) = Len(pl.devs)
               /\ \A n \in DOMAIN B : B[n].device = pl.devs[n]
               /\ \A n \in DOMAIN t : t[n].device = pl.devs[Len(B) + n]
    <3>1. /\ Len(ts) + Len(cs) = Len(pl.devs)
          /\ \A n \in DOMAIN ts : ts[n].device = pl.devs[n]
          /\ \A n \in DOMAIN cs : cs[n].device = pl.devs[Len(ts) + n]
      BY Zenon, <1>1, <1>3, <1>10, <2>5 DEF WellPlaced
    <3> HIDE DEF ts, cs
    <3>2. Len(B) + Len(t) = Len(pl.devs)
      <4>1. Len(B) + Len(t) = Len(ts) + Len(cs)
        <5>1. /\ Len(B) = Len(ts) + 1 /\ Len(t) = Len(cs) - 1
              /\ Len(ts) \in Nat /\ Len(cs) \in Nat
          BY <1>7, <2>1, <2>2, Zenon
        <5> QED
          BY <5>1
      <4> QED
        BY <3>1, <4>1, Zenon
    <3>3. \A n \in DOMAIN B : B[n].device = pl.devs[n]
      BY <1>4, <1>6, <1>8, <3>1, Zenon
    <3>4. ASSUME NEW n \in DOMAIN t PROVE t[n].device = pl.devs[Len(B) + n]
      <4>1. n \in Int /\ n + 1 \in DOMAIN cs /\ t[n] = cs[n + 1]
        BY <2>3
      <4>2. Len(B) + n = Len(ts) + (n + 1)
        BY <1>7, <4>1
      <4> QED
        BY <3>1, <4>1, <4>2, Zenon
    <3> QED
      BY <3>2, <3>3, <3>4
  <2>6. WellPlaced(pl, put')
    BY <1>2, <1>3, <1>9, <1>10, <2>2, <2>4, <2>5, Zenon DEF WellPlaced
  <2> QED
    BY <1>3, <2>6 DEF Placing
<1>11. CASE ~IsEach
  <2>1. ts = <<>> /\ put'.cands = <<>>
    BY <1>1, <1>2, <1>3, <1>11 DEF WellPlaced
  <2>2. Len(B) = 1
    BY <1>7, <2>1
  <2>3. WellPlaced(pl, put')
    BY <1>2, <1>3, <1>9, <1>11, <2>1, <2>2 DEF WellPlaced
  <2> QED
    BY <1>3, <2>3 DEF Placing
<1> QED
  BY <1>10, <1>11

(***************************************************************************)
(* Every step keeps the put in progress to the placement of its slot.      *)
(***************************************************************************)
LEMMA PlacingStep == Shape /\ Placing /\ [Next]_vars => Placing'
<1> SUFFICES ASSUME Shape, Placing, [Next]_vars PROVE Placing'
  OBVIOUS
<1>1. ASSUME UNCHANGED put, pc \in {"try", "room"} PROVE Placing'
  BY <1>1, Zenon DEF Placing, CurrentSlot
<1>2. CASE pc' \notin {"try", "room"}
  BY <1>2 DEF Placing
<1>3. CASE PutStartSlot
  BY <1>3, StartWell
<1>4. CASE PutUnknownDevice \/ MakeRoomTooLarge
  BY <1>4, RefuseWell DEF PutUnknownDevice, MakeRoomTooLarge, Outcome
<1>5. CASE MakeRoomUnlimited
  BY <1>5, AcceptWell DEF MakeRoomUnlimited
<1>6. CASE MakeRoomReturn
  <2>1. pc = "room" /\ put.cands # <<>> /\ (put' = Accepted \/ put' = Refused("NoSpace"))
    BY <1>6 DEF MakeRoomReturn, Shape, PutShape
  <2> QED
    BY <2>1, AcceptWell, RefuseWell DEF Outcome
<1>7. CASE MakeRoomDefer
  <2>1. /\ pc = "room" /\ put \in PutLocals
        /\ put' = [put EXCEPT !.deferred = Append(@, Popped)]
    BY <1>7 DEF MakeRoomDefer, PopEntry, Shape, Types
  <2>2. /\ put'.spec = put.spec /\ put'.slot = put.slot /\ put'.targets = put.targets
        /\ put'.cands = put.cands /\ put'.err = put.err
    BY <2>1 DEF PutLocals
  <2>3. CurrentSlot' = CurrentSlot /\ WellPlaced(CurrentSlot.placement, put)
    BY <2>1, <2>2 DEF CurrentSlot, Placing
  <2> QED
    BY <2>2, <2>3, Zenon DEF Placing, WellPlaced
<1>8. \/ UNCHANGED <<pc, put>> \/ pc' \notin {"try", "room"}
      \/ UNCHANGED put /\ pc \in {"try", "room"}
      \/ PutStartSlot \/ PutUnknownDevice \/ MakeRoomTooLarge \/ MakeRoomUnlimited
      \/ MakeRoomReturn \/ MakeRoomDefer
  BY Zenon DEF Next, vars, PutStep, RemoveStep, CallPanics, Register, DropRegion, Publish,
     Release, RemoveReturn, PutRefuseSlot, MakeRoomBegin, MakeRoomForget,
     MakeRoomEvict, MakeRoomPanic, PutWriteSlot, PutFailSlot, PutReturn,
     Remove, PutBegin, PopEntry
<1>9. CASE UNCHANGED <<pc, put>>
  BY <1>9, Zenon DEF Placing, CurrentSlot
<1> QED
  BY <1>1, <1>2, <1>3, <1>4, <1>5, <1>6, <1>7, <1>8, <1>9

(***************************************************************************)
(* The names of the contract that Memory gives the same meaning.           *)
(***************************************************************************)
LEMMA ContractTerms ==
  /\ Contract!NoObject = NoObject
  /\ \A r : Contract!IsOwned(r) <=> IsOwned(r)
  /\ \A k, i : Contract!Slot(k, i) = Slot(k, i)
  BY DEF Contract!NoObject, NoObject, Contract!IsOwned, IsOwned, Contract!Slot, Slot

(***************************************************************************)
(* The replicas that a put writes honour the placement of their slot.      *)
(***************************************************************************)
LEMMA WriteHonours ==
  ASSUME Shape, Placing, PutWriteSlot
  PROVE  Contract!Honours(CurrentSlot.placement, NewReplicas)
<1> DEFINE pl == CurrentSlot.placement
           P == put.targets
           New(n) == OwnedReplica(put.key, put.slot, n, CurrentSlot.len, P[n])
           R == NewReplicas
<1>1. /\ pc = "try" /\ P \in Seq(Candidate) /\ put.cands = <<>>
      /\ WellPlaced(pl, put) /\ P # <<>> /\ (IsEach => put.err = "Ok")
  BY DEF PutWriteSlot, SlotPlaced, Shape, Types, PutLocals, Placing
<1>2. pl \in Placement
  BY <1>1, CurrentSlotType DEF Putting, Shape, PutShape
<1>3. \A n \in DOMAIN P : /\ New(n).nth = n /\ New(n).device = P[n].device
                          /\ New(n).misplaced = P[n].misplaced
  BY DEF OwnedReplica
<1>4. R = {New(n) : n \in DOMAIN P}
  BY DEF NewReplicas, NewOn
<1> HIDE DEF New, R
<1>5. \A n \in DOMAIN P : Allowed(pl, P[n])
  BY <1>1 DEF WellPlaced
<1>6. pl.kind # "Each" => \A n \in DOMAIN P : n = 1
  <2>1. pl.kind # "Each" => Len(P) = 1
    BY <1>1 DEF WellPlaced
  <2> HIDE DEF P, pl
  <2> QED
    BY <1>1, <2>1
<1>7. pl.kind = "Each" => DOMAIN P = DOMAIN pl.devs /\ \A n \in DOMAIN P : P[n].device = pl.devs[n]
  <2>1. pl.kind = "Each" => /\ Len(P) + Len(<<>>) = Len(pl.devs)
                            /\ \A n \in DOMAIN P : P[n].device = pl.devs[n]
    BY <1>1 DEF WellPlaced, IsEach
  <2>2. pl.devs \in Seq(Devices)
    BY <1>2 DEF Placement
  <2> HIDE DEF P, pl
  <2> QED
    BY <1>1, <2>1, <2>2
<1> HIDE DEF P, pl
<1>8. \A r \in R : \E n \in DOMAIN P : /\ r = New(n) /\ r.nth = n
                                       /\ r.device = P[n].device /\ r.misplaced = P[n].misplaced
  BY <1>3, <1>4
<1>9. \A r, q \in R : r.nth = q.nth => r = q
  BY <1>8
<1>10. /\ pl.kind = "Strict" => \A r \in R : r.device = pl.devs[1]
       /\ pl.kind = "Prefer" => \A r \in R : r.misplaced <=> r.device # pl.devs[1]
       /\ pl.kind # "Prefer" => \A r \in R : ~r.misplaced
       /\ pl.kind # "Each" => \A r \in R : r.nth = 1
  <2>1. \A r \in R : Allowed(pl, r)
    BY <1>5, <1>8 DEF Allowed
  <2>2. pl.kind # "Each" => \A r \in R : r.nth = 1
    BY <1>6, <1>8
  <2> QED
    BY <2>1, <2>2, Zenon DEF Allowed
<1>11. ASSUME pl.kind = "Each"
       PROVE  {<<r.nth, r.device>> : r \in R} = {<<n, pl.devs[n]>> : n \in DOMAIN pl.devs}
  <2>1. \A n \in DOMAIN P : New(n) \in R /\ New(n).nth = n /\ New(n).device = pl.devs[n]
    BY <1>3, <1>4, <1>7, <1>11
  <2>2. \A r \in R : \E n \in DOMAIN P : r.nth = n /\ r.device = pl.devs[n]
    BY <1>7, <1>8, <1>11
  <2>3. DOMAIN P = DOMAIN pl.devs
    BY <1>7, <1>11
  <2> QED
    BY <2>1, <2>2, <2>3
<1>12. Contract!Honours(pl, R)
  BY <1>9, <1>10, <1>11 DEF Contract!Honours
<1> QED
  BY <1>12 DEF pl, R, P

(***************************************************************************)
(* Every step of the backend is a step of the contract or changes neither  *)
(* an object nor a replica.                                                *)
(***************************************************************************)
LEMMA ContractStep ==
  ASSUME Shape, Linked, Placing, [Next]_vars
  PROVE  [Contract!Next]_(Contract!cvars)
<1> DEFINE Goal == [Contract!Next]_(Contract!cvars)
<1>0. objects \in [Keys -> ObjectSpec] /\ reps \subseteq Replica /\ put.key \in Keys
  BY DEF Shape, Types, PutLocals
<1>1. CASE UNCHANGED <<objects, reps>>
  BY <1>1 DEF Contract!cvars
<1>2. ASSUME NEW g \in Regions, DropRegion(g) PROVE Goal
  <2>1. Contract!Retire(g)
    BY <1>2 DEF DropRegion, Contract!Retire
  <2> QED
    BY <2>1 DEF Contract!Next
<1>3. ASSUME NEW k \in Keys, NEW src \in PublishSrcs, NEW i \in DOMAIN objects[k].slots,
             Publish(k, i, src)
      PROVE  Goal
  <2> DEFINE e == ExternalReplica(k, i, src.len, RegionDevice[src.regions[1]], src.regions)
  <2>1. reps' = reps \cup {e} /\ UNCHANGED objects
    BY Zenon, <1>3 DEF Publish
  <2>2. e.key = k /\ e.slot = i /\ ~IsOwned(e)
    BY Zenon DEF ExternalReplica, IsOwned
  <2> HIDE DEF e
  <2>3. Contract!Publish(k, i)
    BY Zenon, <2>1, <2>2, ContractTerms DEF Contract!Publish
  <2> QED
    BY <2>3 DEF Contract!Next
<1>4. ASSUME NEW ks \in Removals, Remove(ks) PROVE Goal
  <2>1. ks \in SUBSET Keys
    BY MemoryAssumption
  <2>2. Contract!Remove(ks)
    BY <1>4, ContractTerms DEF Remove, Contract!Remove
  <2> QED
    BY <2>1, <2>2 DEF Contract!Next
<1>5. ASSUME MakeRoomEvict PROVE Goal
  <2> DEFINE k == Popped[1]
             i == Popped[2]
             d == Cand.device
  <2>1. /\ PopEntry /\ Evictable(k) /\ i \in DOMAIN objects[k].slots
        /\ reps' = reps \ Victims(k, i, d)
        /\ objects' = IF \E r \in reps' : r.key = k THEN objects
                      ELSE [objects EXCEPT ![k] = NoObject]
    BY <1>5, Zenon DEF MakeRoomEvict
  <2>2. d \in Served /\ fifo[d] \in Seq(Entry) /\ fifo[d] # <<>>
    BY Zenon, <2>1 DEF PopEntry, Shape, Types, PutShape
  <2>3. k \in Keys
    BY <2>2 DEF Entry, Popped
  <2>4. d \in Devices
    BY <2>2, MemoryAssumption DEF Served
  <2> HIDE DEF k, i, d
  <2>5. Contract!Evict(k, i, d)
    <3>1. reps' = reps \ {r \in Contract!Slot(k, i) : r.device = d /\ Contract!IsOwned(r)}
      BY <2>1, ContractTerms DEF Victims
    <3>2. \/ UNCHANGED objects
          \/ /\ \A r \in reps' : r.key # k
             /\ objects' = [objects EXCEPT ![k] = Contract!NoObject]
      BY <2>1, ContractTerms
    <3> QED
      BY <2>1, <3>1, <3>2 DEF Contract!Evict, Evictable
  <2> QED
    BY <2>1, <2>3, <2>4, <2>5 DEF Contract!Next
<1>6. ASSUME PutWriteSlot PROVE Goal
  <2> DEFINE k == put.key
             i == put.slot
             R == NewReplicas
  <2>1. /\ pc = "try" /\ reps' = reps \cup R /\ UNCHANGED objects
        /\ put.targets # <<>>
    BY <1>6 DEF PutWriteSlot, SlotPlaced, NewReplicas, NewOn
  <2>2. /\ i \in put.writable /\ objects[k] = put.spec /\ i \in DOMAIN objects[k].slots
        /\ i \in Nat
    BY Zenon, <2>1, CurrentSlotType DEF Shape, Types, PutLocals, PutShape, Putting
  <2>3. Slot(k, i) = {}
    BY <2>1, <2>2 DEF Linked, PendingEmpty, Putting
  <2>4. \A r \in R : r.key = k /\ r.slot = i /\ IsOwned(r)
    BY DEF NewReplicas, NewOn, OwnedReplica, IsOwned
  <2>5. Contract!Honours(CurrentSlot.placement, R)
    BY <1>6, WriteHonours
  <2>6. CurrentSlot.placement = objects[k].slots[i].placement
    BY <2>2 DEF CurrentSlot
  <2>7. R # {}
    <3>1. put.targets \in Seq(Candidate)
      BY DEF Shape, Types, PutLocals
    <3>2. 1 \in DOMAIN put.targets
      BY <2>1, <3>1
    <3> QED
      BY <3>2 DEF NewReplicas, NewOn
  <2> HIDE DEF k, i, R
  <2>8. reps' \ reps = R
    BY <2>1, <2>3, <2>4 DEF Slot
  <2>9. Contract!Fill(k, i)
    BY Zenon, <2>1, <2>3, <2>4, <2>5, <2>6, <2>7, <2>8, ContractTerms DEF Contract!Fill
  <2> QED
    BY <1>0, <2>2, <2>9 DEF Contract!Next, k
<1>7. ASSUME NEW k \in Keys, NEW s \in Specs, PutBegin(k, s) PROVE Goal
  <2>1. /\ objects[k] \in {NoObject, s} /\ objects' = [objects EXCEPT ![k] = s]
        /\ UNCHANGED reps
    BY <1>7 DEF PutBegin, SpecAdmitted
  <2>2. CASE objects[k] = NoObject
    <3>1. Contract!Create(k, s)
      BY <2>1, <2>2, ContractTerms DEF Contract!Create
    <3> QED
      BY <3>1 DEF Contract!Next
  <2>3. CASE objects[k] = s
    <3>1. UNCHANGED objects
      BY <1>0, <2>1, <2>3
    <3> QED
      BY <1>1, <2>1, <3>1
  <2> QED
    BY <2>1, <2>2, <2>3
<1>8. \/ UNCHANGED <<objects, reps>>
      \/ (\E g \in Regions : DropRegion(g))
      \/ (\E k \in Keys, src \in PublishSrcs :
            \E i \in DOMAIN objects[k].slots : Publish(k, i, src))
      \/ (\E ks \in Removals : Remove(ks))
      \/ (\E k \in Keys, s \in Specs : PutBegin(k, s))
      \/ MakeRoomEvict \/ PutWriteSlot
  BY Zenon DEF Next, vars, PutStep, RemoveStep, CallPanics, Register,
     Release, RemoveReturn, PutRefuseSlot, PutStartSlot, PutUnknownDevice,
     MakeRoomUnlimited, MakeRoomTooLarge, MakeRoomBegin, MakeRoomDefer, MakeRoomForget,
     MakeRoomPanic, MakeRoomReturn, PutFailSlot, PutReturn
<1> HIDE DEF Goal
<1>9. Goal
  BY <1>1, <1>2, <1>3, <1>4, <1>5, <1>6, <1>7, <1>8, Zenon DEF Goal
<1> QED
  BY <1>9 DEF Goal

(***************************************************************************)
(* The reference backend implements the contract: put, publish, remove,    *)
(* eviction and the drop of a region change objects and replicas only as   *)
(* clients may see them change.                                            *)
(***************************************************************************)
THEOREM MemoryImplementsContract == Spec => ImplementsContract
<1>1. Init => Placing /\ Contract!Init
  BY ContractTerms DEF Init, Placing, Contract!Init
<1>2. Shape /\ Placing /\ [Next]_vars => Placing'
  BY PlacingStep
<1>3. Shape /\ Linked /\ Placing /\ [Next]_vars => [Contract!Next]_(Contract!cvars)
  BY ContractStep
<1> QED
  BY <1>1, <1>2, <1>3, ShapeInvariant, LinkedInvariant, PTL
  DEF Spec, ImplementsContract, Contract!Spec
=============================================================================
