-------------------------- MODULE MemoryAccounting --------------------------
(***************************************************************************)
(* Memory's byte accounting is exact and, when no Each lists a device      *)
(* twice, no pool ever holds more than its capacity.  A sum over replicas  *)
(* is the cardinality of their set of bytes, so adding or dropping         *)
(* replicas is a union or a difference of finite sets.                     *)
(***************************************************************************)
EXTENDS MemoryProofs

(***************************************************************************)
(* Replicas of one length have that many bytes each.                       *)
(***************************************************************************)
LEMMA BytesUniform ==
  ASSUME NEW R, IsFiniteSet(R), NEW len \in Nat, \A r \in R : r.len = len
  PROVE  /\ IsFiniteSet(Bytes(R))
         /\ Cardinality(Bytes(R)) = Cardinality(R) * len
<1>1. Bytes(R) = R \X (1..len)
  BY DEF Bytes
<1>2. IsFiniteSet(1..len) /\ Cardinality(1..len) = len
  BY FS_Interval
<1> QED
  BY ZenonT(60), <1>1, <1>2, FS_Product

(***************************************************************************)
(* The size of the union of two disjoint finite sets.                      *)
(***************************************************************************)
LEMMA DisjointUnion ==
  ASSUME NEW A, NEW B, IsFiniteSet(A), IsFiniteSet(B), A \cap B = {}
  PROVE  /\ IsFiniteSet(A \cup B)
         /\ Cardinality(A \cup B) = Cardinality(A) + Cardinality(B)
<1>1. /\ IsFiniteSet(A \cup B)
      /\ Cardinality(A \cup B) = Cardinality(A) + Cardinality(B) - Cardinality(A \cap B)
  BY FS_Union
<1>2. Cardinality(A) \in Nat /\ Cardinality(B) \in Nat
  BY FS_CardinalityType
<1>3. Cardinality(A \cap B) = 0
  BY FS_EmptySet
<1> QED
  BY <1>1, <1>2, <1>3

(***************************************************************************)
(* The size of a finite set without one of its subsets.                    *)
(***************************************************************************)
LEMMA SubsetDifference ==
  ASSUME NEW A, NEW B, IsFiniteSet(A), B \subseteq A
  PROVE  /\ IsFiniteSet(A \ B)
         /\ IsFiniteSet(B)
         /\ Cardinality(A \ B) = Cardinality(A) - Cardinality(B)
<1>1. A \cap B = B
  OBVIOUS
<1> QED
  BY ZenonT(60), <1>1, FS_Difference, FS_Subset

(***************************************************************************)
(* New replicas add their bytes.                                           *)
(***************************************************************************)
LEMMA BytesAdd ==
  ASSUME NEW R, NEW S, R \cap S = {},
         IsFiniteSet(Bytes(R)), IsFiniteSet(Bytes(S))
  PROVE  /\ IsFiniteSet(Bytes(R \cup S))
         /\ Cardinality(Bytes(R \cup S)) = Cardinality(Bytes(R)) + Cardinality(Bytes(S))
<1>1. Bytes(R \cup S) = Bytes(R) \cup Bytes(S)
  BY DEF Bytes
<1>2. Bytes(R) \cap Bytes(S) = {}
  BY DEF Bytes
<1> QED
  BY <1>1, <1>2, DisjointUnion

(***************************************************************************)
(* Replicas that go take their bytes with them.                            *)
(***************************************************************************)
LEMMA BytesDrop ==
  ASSUME NEW R, NEW S, S \subseteq R, IsFiniteSet(Bytes(R))
  PROVE  /\ IsFiniteSet(Bytes(R \ S))
         /\ IsFiniteSet(Bytes(S))
         /\ Cardinality(Bytes(R \ S)) = Cardinality(Bytes(R)) - Cardinality(Bytes(S))
<1>1. Bytes(R \ S) = Bytes(R) \ Bytes(S)
  BY DEF Bytes
<1>2. Bytes(S) \subseteq Bytes(R)
  BY DEF Bytes
<1> QED
  BY SMTT(60), <1>1, <1>2, SubsetDifference

(***************************************************************************)
(* No replicas, no bytes.                                                  *)
(***************************************************************************)
LEMMA BytesNone == IsFiniteSet(Bytes({})) /\ Cardinality(Bytes({})) = 0
<1>1. Bytes({}) = {}
  BY DEF Bytes
<1> QED
  BY <1>1, FS_EmptySet

-----------------------------------------------------------------------------
(***************************************************************************)
(* UsedIsExact with the finiteness its cardinalities need.                 *)
(***************************************************************************)
Accounting ==
  \A d \in Served : /\ IsFiniteSet(Bytes(OwnedOn(d)))
                    /\ used[d] = Cardinality(Bytes(OwnedOn(d)))

(***************************************************************************)
(* Empty pools use nothing.                                                *)
(***************************************************************************)
LEMMA AccountingInit == Init => Accounting
<1> SUFFICES ASSUME Init, NEW d \in Served
             PROVE  /\ IsFiniteSet(Bytes(OwnedOn(d)))
                    /\ used[d] = Cardinality(Bytes(OwnedOn(d)))
  BY DEF Accounting
<1>1. OwnedOn(d) = {} /\ used[d] = 0
  BY DEF Init, OwnedOn
<1> QED
  BY <1>1, BytesNone

(***************************************************************************)
(* A step that changes neither used nor the owned replicas is neutral.     *)
(***************************************************************************)
LEMMA SameAccounting ==
  ASSUME Accounting, used' = used, \A d \in Served : OwnedOn(d)' = OwnedOn(d)
  PROVE  Accounting'
  BY DEF Accounting

(***************************************************************************)
(* Every step adjusts used by the bytes it adds or drops.                  *)
(***************************************************************************)
LEMMA AccountingStep ==
  Shape /\ Linked /\ OwnedTagged /\ Accounting /\ [Next]_vars => Accounting'
<1> SUFFICES ASSUME Shape, Linked, OwnedTagged, Accounting, [Next]_vars
             PROVE  Accounting'
  OBVIOUS
<1>1. ASSUME UNCHANGED <<reps, release, used>> PROVE Accounting'
  BY <1>1, SameAccounting DEF OwnedOn
<1>2. ASSUME NEW g \in Regions, Register(g) PROVE Accounting'
  BY <1>1, <1>2 DEF Register
<1>3. ASSUME NEW g \in Regions, DropRegion(g) PROVE Accounting'
  <2>1. \A r \in reps : IsOwned(r) => r \in reps'
    BY <1>3, NamesAssumption DEF DropRegion, OwnedTagged
  <2>2. \A d \in Served : OwnedOn(d)' = OwnedOn(d)
    BY <1>3, <2>1 DEF DropRegion, OwnedOn
  <2> QED
    BY <1>3, <2>2, SameAccounting DEF DropRegion
<1>4. ASSUME NEW k \in Keys, NEW src \in PublishSrcs,
             NEW i \in DOMAIN objects[k].slots, Publish(k, i, src)
      PROVE  Accounting'
  <2> DEFINE x == ExternalReplica(k, i, src.len, RegionDevice[src.regions[1]],
                                  src.regions)
  <2>1. reps' = reps \cup {x} /\ ~IsOwned(x)
    BY <1>4 DEF Publish, ExternalReplica, IsOwned
  <2> HIDE DEF x
  <2>2. \A d \in Served : OwnedOn(d)' = OwnedOn(d)
    BY Zenon, <1>4, <2>1 DEF Publish, OwnedOn
  <2> QED
    BY Zenon, <1>4, <2>2, SameAccounting DEF Publish
<1>5. ASSUME NEW ks \in Removals, Remove(ks) PROVE Accounting'
  <2>1. release = {}
    BY Zenon, <1>5 DEF Remove, LockFree, Shape, PutShape
  <2>2. \A d \in Served : OwnedOn(d)' = OwnedOn(d)
    BY <1>5, <2>1 DEF Remove, OwnedOn
  <2> QED
    BY <1>5, <2>2, SameAccounting DEF Remove
<1>6. CASE Release
  <2>1. PICK r \in release : /\ used' = [used EXCEPT ![r.device] = @ - r.len]
                             /\ release' = release \ {r}
    BY <1>6, Zenon DEF Release
  <2>2. IsOwned(r) /\ r.device \in Served /\ r \notin reps /\ r.len \in Nat
    BY DEF Linked, ReleaseUnlinked, Shape, Types, Replica
  <2>3. UNCHANGED reps
    BY <1>6 DEF Release
  <2> SUFFICES ASSUME NEW d \in Served
               PROVE  /\ IsFiniteSet(Bytes(OwnedOn(d)'))
                      /\ used'[d] = Cardinality(Bytes(OwnedOn(d)'))
    BY DEF Accounting, Bytes
  <2>4. CASE d # r.device
    <3>1. OwnedOn(d)' = OwnedOn(d)
      BY <2>1, <2>3, <2>4 DEF OwnedOn
    <3>2. used'[d] = used[d]
      BY <2>1, <2>4 DEF Shape, Types
    <3> QED
      BY <3>1, <3>2 DEF Accounting
  <2>5. CASE d = r.device
    <3>1. OwnedOn(d)' = OwnedOn(d) \ {r} /\ {r} \subseteq OwnedOn(d)
      BY <2>1, <2>2, <2>3, <2>5 DEF OwnedOn
    <3>2. used'[d] = used[d] - r.len
      BY <2>1, <2>2, <2>5 DEF Shape, Types
    <3>3. Cardinality({r}) = 1 /\ IsFiniteSet({r})
      BY Zenon, FS_Singleton
    <3>4. Cardinality(Bytes({r})) = r.len
      BY <2>2, <3>3, BytesUniform
    <3> QED
      BY <3>1, <3>2, <3>4, BytesDrop DEF Accounting
  <2> QED
    BY <2>4, <2>5
<1>7. CASE RemoveReturn
  BY <1>1, <1>7 DEF RemoveReturn
<1>8. ASSUME NEW k \in Keys, NEW s \in Specs, PutBegin(k, s) PROVE Accounting'
  BY <1>1, <1>8 DEF PutBegin
<1>9. CASE MakeRoomEvict
  <2> DEFINE k == Popped[1]
             i == Popped[2]
             d == Cand.device
             V == Victims(k, i, d)
  <2>1. k \in Keys /\ i \in DOMAIN objects[k].slots /\ d \in Served
    <3>1. d \in Served /\ fifo[d] # <<>>
      BY <1>9 DEF MakeRoomEvict, PopEntry, Shape, PutShape
    <3>2. Popped \in Entry
      BY <3>1 DEF Popped, Shape, Types
    <3> QED
      BY <1>9, <3>1, <3>2 DEF MakeRoomEvict, Entry
  <2>2. SlotLen(k, i) \in Nat
    <3>1. objects[k].slots \in Seq(SlotSpec)
      BY Zenon, <2>1 DEF Shape, Types, ObjectSpec
    <3>2. objects[k].slots[i] \in SlotSpec
      BY <2>1, <3>1
    <3> QED
      BY <3>2 DEF SlotLen, SlotSpec
  <2>3. V \subseteq reps /\ \A r \in V : r.len = SlotLen(k, i) /\ IsOwned(r) /\ r.device = d
    BY DEF Victims, Slot, Linked, ReplicasLinked
  <2>4. IsFiniteSet(V)
    BY <2>3, FS_Subset DEF Shape, Types
  <2>5. Cardinality(Bytes(V)) = Freed(k, i, d)
    BY <2>2, <2>3, <2>4, BytesUniform DEF Freed
  <2>6. /\ reps' = reps \ V
        /\ used' = [used EXCEPT ![d] = @ - Freed(k, i, d)]
        /\ release' = release
    BY <1>9 DEF MakeRoomEvict
  <2>7. release = {}
    BY Zenon, <1>9 DEF MakeRoomEvict, PopEntry, Shape, PutShape
  <2> HIDE DEF k, i, d, V
  <2> SUFFICES ASSUME NEW e \in Served
               PROVE  /\ IsFiniteSet(Bytes(OwnedOn(e)'))
                      /\ used'[e] = Cardinality(Bytes(OwnedOn(e)'))
    BY DEF Accounting, Bytes
  <2>8. CASE e # d
    <3>1. OwnedOn(e)' = OwnedOn(e)
      BY <2>3, <2>6, <2>8 DEF OwnedOn
    <3>2. used'[e] = used[e]
      BY <2>6, <2>8 DEF Shape, Types
    <3> QED
      BY <3>1, <3>2 DEF Accounting
  <2>9. CASE e = d
    <3>1. OwnedOn(e)' = OwnedOn(e) \ V /\ V \subseteq OwnedOn(e)
      BY <2>3, <2>6, <2>7, <2>9 DEF OwnedOn
    <3>2. used'[e] = used[e] - Cardinality(Bytes(V))
      BY <2>1, <2>5, <2>6, <2>9 DEF Shape, Types
    <3> QED
      BY <3>1, <3>2, BytesDrop DEF Accounting
  <2> QED
    BY <2>8, <2>9
<1>10. CASE PutWriteSlot
  <2>1. CurrentSlot.len \in Nat
    BY <1>10, CurrentSlotType DEF PutWriteSlot, Putting, Shape, PutShape
  <2>2. reps' = reps \cup NewReplicas /\ release' = release
    BY Zenon, <1>10 DEF PutWriteSlot, NewReplicas, NewOn
  <2>3. Slot(put.key, put.slot) = {} /\ release = {}
    <3>1. put.slot \in Nat
      BY DEF Shape, Types, PutLocals
    <3>2. put.slot >= put.slot
      BY <3>1
    <3> QED
      BY <1>10, <3>2 DEF PutWriteSlot, Linked, PendingEmpty, Putting, Shape, PutShape
  <2>4. \A r \in NewReplicas : r \notin reps
    BY <2>3 DEF NewReplicas, NewOn, OwnedReplica, Slot
  <2> SUFFICES ASSUME NEW d \in Served
               PROVE  /\ IsFiniteSet(Bytes(OwnedOn(d)'))
                      /\ used'[d] = Cardinality(Bytes(OwnedOn(d)'))
    BY DEF Accounting, Bytes
  <2> DEFINE T == TargetsOn(d)
             N == NewOn(T)
  <2>5. \A r \in N : r.len = CurrentSlot.len /\ r \in NewReplicas
    BY DEF NewOn, OwnedReplica, NewReplicas, TargetsOn
  <2>6. OwnedOn(d)' = OwnedOn(d) \cup N
    BY <2>2, <2>3 DEF OwnedOn, NewReplicas, NewOn, OwnedReplica, IsOwned, TargetsOn
  <2>7. IsFiniteSet(T)
    <3>1. put.targets \in Seq(Candidate)
      BY DEF Shape, Types, PutLocals
    <3> DEFINE len == Len(put.targets)
    <3>2. len \in Nat /\ T \subseteq 1..len
      BY <3>1 DEF TargetsOn
    <3> HIDE DEF len
    <3>3. IsFiniteSet(1..len)
      BY <3>2, FS_Interval
    <3> QED
      BY <3>2, <3>3, FS_Subset
  <2>8. IsFiniteSet(N) /\ Cardinality(N) = Cardinality(T)
    BY <2>7, NewReplicasFinite
  <2>9. used'[d] = used[d] + Cardinality(T) * CurrentSlot.len
    BY <1>10 DEF PutWriteSlot
  <2> HIDE DEF T, N
  <2>10. OwnedOn(d) \cap N = {}
    BY <2>3, <2>4, <2>5 DEF OwnedOn
  <2>11. /\ IsFiniteSet(Bytes(N))
         /\ Cardinality(Bytes(N)) = Cardinality(T) * CurrentSlot.len
    BY <2>1, <2>5, <2>8, BytesUniform
  <2> QED
    BY <2>6, <2>9, <2>10, <2>11, BytesAdd DEF Accounting
<1>11. CASE PutStep /\ ~PutWriteSlot /\ ~MakeRoomEvict
  BY <1>1, <1>11 DEF PutStep, PutRefuseSlot, PutStartSlot, PutUnknownDevice,
     MakeRoomUnlimited, MakeRoomTooLarge, MakeRoomBegin, MakeRoomDefer,
     MakeRoomForget, MakeRoomPanic, MakeRoomReturn, PutFailSlot, PutReturn
<1>12. CASE CallPanics \/ UNCHANGED vars
  BY <1>1, <1>12 DEF CallPanics, vars
<1> QED
  BY <1>2, <1>3, <1>4, <1>5, <1>6, <1>7, <1>8, <1>9, <1>10, <1>11, <1>12
  DEF Next, RemoveStep

(***************************************************************************)
(* The accounting is exact in every state.                                 *)
(***************************************************************************)
LEMMA AccountingInvariant == Spec => []Accounting
  BY AccountingInit, AccountingStep, ShapeInvariant, LinkedInvariant,
     OwnedTaggedInvariant, PTL DEF Spec

(***************************************************************************)
(* Pool.used always equals the bytes of the owned replicas on the device,  *)
(* for any number of keys, devices, slots and replicas.                    *)
(***************************************************************************)
THEOREM UsedAlwaysExact == Spec => []UsedIsExact
<1>1. Accounting => UsedIsExact
  BY DEF Accounting, UsedIsExact
<1> QED
  BY <1>1, AccountingInvariant, PTL

(***************************************************************************)
(* Every variable keeps its type; used is a natural, so no subtraction     *)
(* from the u64 wraps.                                                     *)
(***************************************************************************)
THEOREM TypeCorrect == Spec => []TypeOK
<1>1. Shape /\ Accounting => TypeOK
  <2> SUFFICES ASSUME Shape, Accounting PROVE TypeOK
    OBVIOUS
  <2>1. used \in [Served -> Nat]
    BY FS_CardinalityType DEF Shape, Types, Accounting
  <2> QED
    BY <2>1 DEF TypeOK, Shape, Types
<1> QED
  BY <1>1, ShapeInvariant, AccountingInvariant, PTL

-----------------------------------------------------------------------------
(***************************************************************************)
(* No Each of a client's specs lists a device twice.  Without this put     *)
(* overfills a pool: it makes room for every device before it charges any. *)
(***************************************************************************)
Distinct(devs) == \A m, n \in DOMAIN devs : devs[m] = devs[n] => m = n

EachDistinct ==
  \A s \in Specs : \A i \in DOMAIN s.slots :
    s.slots[i].placement.kind = "Each" => Distinct(s.slots[i].placement.devs)

Trying == pc \in {"try", "room"}

(***************************************************************************)
(* Every target accepted so far fits next to what its pool holds, and no   *)
(* pool is, or can become, a target twice.                                 *)
(***************************************************************************)
TargetsFit ==
  Trying => \A n \in DOMAIN put.targets :
              LET d == put.targets[n].device
              IN  Capacity[d] # Unlimited => used[d] + CurrentSlot.len <= Capacity[d]

DevicesDiffer(t, c) ==
  /\ \A m, n \in DOMAIN t : t[m].device = t[n].device => m = n
  /\ \A m, n \in DOMAIN c : c[m].device = c[n].device => m = n
  /\ \A m \in DOMAIN t, n \in DOMAIN c : t[m].device # c[n].device

TargetsDiffer ==
  Trying => /\ IsEach => DevicesDiffer(put.targets, put.cands)
            /\ ~IsEach => \/ put.targets = <<>>
                          \/ Len(put.targets) = 1 /\ put.cands = <<>>

Room == CapacityRespected /\ TargetsFit /\ TargetsDiffer

(***************************************************************************)
(* No room is promised at first.                                           *)
(***************************************************************************)
LEMMA RoomInit == Init => Room
<1> SUFFICES ASSUME Init PROVE Room
  OBVIOUS
<1>1. CapacityRespected
  BY MemoryAssumption DEF Init, CapacityRespected
<1>2. ~Trying
  BY DEF Init, Trying
<1> QED
  BY <1>1, <1>2 DEF Room, TargetsFit, TargetsDiffer

(***************************************************************************)
(* Accepting the first candidate, or giving up on it, keeps the devices    *)
(* apart.                                                                  *)
(***************************************************************************)
LEMMA DifferAccept ==
  ASSUME NEW t \in Seq(Candidate), NEW c \in Seq(Candidate), c # <<>>,
         DevicesDiffer(t, c)
  PROVE  DevicesDiffer(Append(t, Head(c)), Tail(c))
<1> DEFINE u == Append(t, Head(c))
           w == Tail(c)
<1>1. /\ u \in Seq(Candidate) /\ Len(u) = Len(t) + 1
      /\ \A m \in 1..Len(t) : u[m] = t[m]
      /\ u[Len(t) + 1] = c[1]
  OBVIOUS
<1>2. w \in Seq(Candidate) /\ Len(c) = Len(w) + 1 /\ \A n \in 1..Len(w) : w[n] = c[n + 1]
  OBVIOUS
<1> HIDE DEF u, w
<1>3. \A m, n \in DOMAIN u : u[m].device = u[n].device => m = n
  <2> SUFFICES ASSUME NEW m \in 1..Len(t) + 1, NEW n \in 1..Len(t) + 1,
                      u[m].device = u[n].device
               PROVE  m = n
    BY <1>1
  <2>0. 1 \in DOMAIN c
    BY <1>2
  <2>1. CASE m \in 1..Len(t) /\ n \in 1..Len(t)
    BY SMTT(60), <1>1, <2>1 DEF DevicesDiffer
  <2>2. CASE m \in 1..Len(t) /\ n = Len(t) + 1
    BY <1>1, <2>0, <2>2 DEF DevicesDiffer
  <2>3. CASE n \in 1..Len(t) /\ m = Len(t) + 1
    BY <1>1, <2>0, <2>3 DEF DevicesDiffer
  <2> QED
    BY <2>1, <2>2, <2>3
<1>4. \A n \in DOMAIN w : n + 1 \in DOMAIN c /\ n + 1 # 1 /\ w[n] = c[n + 1]
  BY SMTT(60), <1>2
<1>5. \A m, n \in DOMAIN w : w[m].device = w[n].device => m = n
  <2> SUFFICES ASSUME NEW m \in DOMAIN w, NEW n \in DOMAIN w,
                      w[m].device = w[n].device
               PROVE  m = n
    OBVIOUS
  <2>1. m + 1 = n + 1
    BY <1>4 DEF DevicesDiffer
  <2>2. m \in Nat /\ n \in Nat
    BY <1>2
  <2> QED
    BY <2>1, <2>2
<1>6. \A m \in DOMAIN u, n \in DOMAIN w : u[m].device # w[n].device
  <2> SUFFICES ASSUME NEW m \in 1..Len(t) + 1, NEW n \in DOMAIN w
               PROVE  u[m].device # w[n].device
    BY <1>1
  <2>1. CASE m \in 1..Len(t)
    BY <1>1, <1>4, <2>1 DEF DevicesDiffer
  <2>2. CASE m = Len(t) + 1
    BY SMTT(60), <1>1, <1>2, <1>4, <2>2 DEF DevicesDiffer
  <2> QED
    BY <2>1, <2>2
<1> QED
  BY SMTT(60), <1>3, <1>5, <1>6 DEF DevicesDiffer, u, w

(***************************************************************************)
(* Devices that differ still do when the remaining candidates go.          *)
(***************************************************************************)
LEMMA DifferRefuse ==
  ASSUME NEW t, NEW c, DevicesDiffer(t, c)
  PROVE  DevicesDiffer(t, <<>>)
  BY DEF DevicesDiffer

(***************************************************************************)
(* A device accepted for the slot has the room make_room found.            *)
(***************************************************************************)
LEMMA RoomAccept ==
  ASSUME Shape, Room, Trying, put.cands # <<>>, put' = Accepted, used' = used,
         Capacity[Cand.device] = Unlimited \/ Fits(Cand.device)
  PROVE  Room'
<1>1. put \in PutLocals /\ put.targets \in Seq(Candidate) /\ put.cands \in Seq(Candidate)
  BY DEF Shape, Types, PutLocals
<1>2. /\ put'.targets = Append(put.targets, Cand)
      /\ put'.cands = IF IsEach THEN Tail(put.cands) ELSE <<>>
      /\ put'.spec = put.spec /\ put'.slot = put.slot
  BY <1>1, AcceptedType
<1>3. CurrentSlot' = CurrentSlot /\ (IsEach' <=> IsEach)
  BY <1>2 DEF CurrentSlot, IsEach
<1>4. CapacityRespected'
  BY DEF Room, CapacityRespected
<1>5. TargetsFit'
  <2> SUFFICES ASSUME NEW n \in DOMAIN put'.targets,
                      Capacity[put'.targets[n].device] # Unlimited
               PROVE  used[put'.targets[n].device] + CurrentSlot.len
                        <= Capacity[put'.targets[n].device]
    BY <1>3 DEF TargetsFit
  <2>1. CASE n \in DOMAIN put.targets
    <3>1. put'.targets[n] = put.targets[n]
      BY <1>1, <1>2, <2>1
    <3> QED
      BY <2>1, <3>1 DEF Room, TargetsFit
  <2>2. CASE n = Len(put.targets) + 1
    <3>1. put'.targets[n] = Cand
      BY <1>1, <1>2, <2>2
    <3> QED
      BY <3>1 DEF Fits
  <2> QED
    BY <1>1, <1>2, <2>1, <2>2
<1>6. TargetsDiffer'
  <2>1. CASE IsEach
    <3>1. DevicesDiffer(put.targets, put.cands)
      BY <2>1 DEF Room, TargetsDiffer
    <3>2. DevicesDiffer(put'.targets, put'.cands)
      BY <1>1, <1>2, <2>1, <3>1, DifferAccept DEF Cand
    <3> QED
      BY <1>3, <2>1, <3>2 DEF TargetsDiffer, DevicesDiffer
  <2>2. CASE ~IsEach
    <3>1. put.targets = <<>>
      BY <2>2 DEF Room, TargetsDiffer
    <3>2. Len(put'.targets) = 1
      BY <1>1, <1>2, <3>1
    <3>3. put'.cands = <<>>
      BY <1>2, <2>2
    <3> QED
      BY <1>3, <2>2, <3>2, <3>3 DEF TargetsDiffer
  <2> QED
    BY <2>1, <2>2
<1> QED
  BY <1>4, <1>5, <1>6 DEF Room

(***************************************************************************)
(* A refused candidate leaves the promised room alone.                     *)
(***************************************************************************)
LEMMA RoomRefuse ==
  ASSUME Shape, Room, Trying, put.cands # <<>>, NEW o \in Outcome,
         put' = Refused(o), used' = used
  PROVE  Room'
<1>1. put \in PutLocals
  BY DEF Shape, Types
<1>2. /\ put'.targets = put.targets
      /\ put'.cands = IF IsEach THEN <<>> ELSE Tail(put.cands)
      /\ put'.spec = put.spec /\ put'.slot = put.slot
  BY <1>1, RefusedType
<1>3. CurrentSlot' = CurrentSlot /\ (IsEach' <=> IsEach)
  BY <1>2 DEF CurrentSlot, IsEach
<1>4. CapacityRespected'
  BY DEF Room, CapacityRespected
<1>5. TargetsFit'
  BY <1>2, <1>3 DEF Room, TargetsFit
<1>6. TargetsDiffer'
  <2>1. CASE IsEach
    <3>1. DevicesDiffer(put'.targets, put'.cands)
      BY <1>2, <2>1, DifferRefuse DEF Room, TargetsDiffer
    <3> QED
      BY <1>3, <2>1, <3>1 DEF TargetsDiffer, DevicesDiffer
  <2>2. CASE ~IsEach
    BY <1>2, <1>3, <2>2 DEF Room, TargetsDiffer
  <2> QED
    BY <2>1, <2>2
<1> QED
  BY <1>4, <1>5, <1>6 DEF Room

(***************************************************************************)
(* A step that charges nothing and leaves the loop over the candidates     *)
(* alone, or ends it.                                                      *)
(***************************************************************************)
LEMMA RoomLess ==
  ASSUME Shape, Room,
         used' \in [Served -> Int], \A d \in Served : used'[d] <= used[d],
         \/ ~Trying'
         \/ Trying /\ put'.spec = put.spec /\ put'.slot = put.slot
                   /\ put'.targets = put.targets /\ put'.cands = put.cands
  PROVE  Room'
<1>0. Capacity \in [Served -> Nat \cup {Unlimited}] /\ used \in [Served -> Int]
  BY MemoryAssumption DEF Shape, Types
<1>1. CapacityRespected'
  <2> SUFFICES ASSUME NEW d \in Served, Capacity[d] # Unlimited
               PROVE  used'[d] <= Capacity[d]
    BY DEF CapacityRespected
  <2>1. used[d] <= Capacity[d]
    BY DEF Room, CapacityRespected
  <2>2. used'[d] \in Int /\ used[d] \in Int /\ used'[d] <= used[d] /\ Capacity[d] \in Nat
    BY <1>0
  <2> QED
    BY <2>1, <2>2
<1>2. CASE ~Trying'
  BY <1>1, <1>2 DEF Room, TargetsFit, TargetsDiffer
<1>3. CASE Trying'
  <2>1. /\ Trying /\ put'.spec = put.spec /\ put'.slot = put.slot
        /\ put'.targets = put.targets /\ put'.cands = put.cands
    BY <1>3
  <2>2. CurrentSlot' = CurrentSlot /\ (IsEach' <=> IsEach)
    BY <2>1 DEF CurrentSlot, IsEach
  <2>3. CurrentSlot.len \in Nat
    BY <2>1, CurrentSlotType DEF Trying, Putting, Shape, PutShape
  <2>4. TargetsFit'
    <3> SUFFICES ASSUME NEW n \in DOMAIN put.targets,
                        Capacity[put.targets[n].device] # Unlimited
                 PROVE  used'[put.targets[n].device] + CurrentSlot.len
                          <= Capacity[put.targets[n].device]
      BY <2>1, <2>2 DEF TargetsFit
    <3> DEFINE d == put.targets[n].device
    <3>1. d \in Served /\ used[d] + CurrentSlot.len <= Capacity[d]
      BY <2>1 DEF Room, TargetsFit, Shape, PutShape
    <3> HIDE DEF d
    <3>2. used'[d] \in Int /\ used[d] \in Int /\ used'[d] <= used[d]
            /\ Capacity[d] \in Nat \cup {Unlimited}
      BY <1>0, <3>1
    <3>3. used'[d] + CurrentSlot.len <= Capacity[d]
      BY <2>3, <3>1, <3>2 DEF Unlimited
    <3> QED
      BY <3>3 DEF d
  <2>5. TargetsDiffer'
    BY <2>1, <2>2 DEF Room, TargetsDiffer, DevicesDiffer
  <2> QED
    BY <1>1, <2>4, <2>5 DEF Room
<1> QED
  BY <1>2, <1>3

(***************************************************************************)
(* Every step keeps the promised room, if no Each repeats a device.        *)
(***************************************************************************)
LEMMA RoomStep ==
  ASSUME EachDistinct
  PROVE  Shape /\ Linked /\ Accounting /\ Room /\ Accounting' /\ Shape'
           /\ [Next]_vars => Room'
<1> SUFFICES ASSUME Shape, Linked, Accounting, Room, Accounting', Shape', [Next]_vars
             PROVE  Room'
  OBVIOUS
<1>0. used \in [Served -> Int] /\ used' \in [Served -> Int]
  BY DEF Shape, Types
<1>1. \A d \in Served : used[d] <= used[d]
  BY <1>0
<1>2. ASSUME NEW g \in Regions, Register(g) \/ DropRegion(g) PROVE Room'
  BY <1>0, <1>1, <1>2, RoomLess DEF Register, DropRegion, Trying, LockFree
<1>3. ASSUME NEW k \in Keys, NEW src \in PublishSrcs,
             NEW i \in DOMAIN objects[k].slots, Publish(k, i, src)
      PROVE  Room'
  BY <1>0, <1>1, <1>3, RoomLess DEF Publish, Trying, LockFree
<1>4. ASSUME NEW ks \in Removals, Remove(ks) PROVE Room'
  BY <1>0, <1>1, <1>4, RoomLess DEF Remove, Trying
<1>5. CASE Release
  <2>1. PICK r \in release : used' = [used EXCEPT ![r.device] = @ - r.len]
    BY <1>5, Zenon DEF Release
  <2>2. r.len \in Nat
    BY DEF Shape, Types, Replica
  <2>3. \A d \in Served : used'[d] <= used[d]
    BY <1>0, <2>1, <2>2
  <2> QED
    BY <1>0, <1>5, <2>3, RoomLess DEF Release, Trying
<1>6. CASE RemoveReturn
  BY <1>0, <1>1, <1>6, RoomLess DEF RemoveReturn, Trying
<1>7. ASSUME NEW k \in Keys, NEW s \in Specs, PutBegin(k, s) PROVE Room'
  BY <1>0, <1>1, <1>7, RoomLess DEF PutBegin, Trying
<1>8. CASE PutRefuseSlot \/ PutReturn \/ PutFailSlot \/ MakeRoomPanic
  BY <1>0, <1>1, <1>8, RoomLess
  DEF PutRefuseSlot, PutReturn, PutFailSlot, MakeRoomPanic, Trying
<1>9. CASE PutStartSlot
  <2>1. CurrentSlot.placement \in Placement /\ WellFormed(CurrentSlot.placement)
          /\ put.slot \in DOMAIN put.spec.slots /\ put.spec \in Specs
    BY <1>9, CurrentSlotType DEF PutStartSlot, Shape, PutShape, Putting
  <2>2. put \in PutLocals /\ put.targets = <<>>
    BY <1>9 DEF PutStartSlot, Shape, Types, PutShape
  <2>3. /\ put'.spec = put.spec /\ put'.slot = put.slot /\ put'.targets = <<>>
        /\ put'.cands = Candidates(CurrentSlot.placement)
    BY <1>9, <2>2 DEF PutStartSlot, PutLocals
  <2>4. CurrentSlot' = CurrentSlot /\ (IsEach' <=> IsEach)
    BY <2>3 DEF CurrentSlot, IsEach
  <2>5. CapacityRespected'
    BY <1>9 DEF PutStartSlot, Room, CapacityRespected
  <2>6. TargetsFit'
    BY <2>3 DEF TargetsFit
  <2>7. ASSUME IsEach PROVE DevicesDiffer(put'.targets, put'.cands)
    <3> DEFINE p == CurrentSlot.placement
    <3>1. Distinct(p.devs)
      BY <2>1, <2>7 DEF EachDistinct, CurrentSlot, IsEach
    <3>2. /\ Candidates(p) \in Seq(Candidate) /\ p.devs \in Seq(Devices)
          /\ Len(Candidates(p)) = Len(p.devs)
          /\ \A n \in DOMAIN p.devs : Candidates(p)[n].device = p.devs[n]
      BY <2>1, <2>7, CandidatesType DEF IsEach, Placement
    <3> HIDE DEF p
    <3>3. DOMAIN Candidates(p) = DOMAIN p.devs
      BY <3>2
    <3>4. \A m, n \in DOMAIN Candidates(p) :
            Candidates(p)[m].device = Candidates(p)[n].device => m = n
      BY <3>1, <3>2, <3>3 DEF Distinct
    <3> QED
      BY <2>3, <3>4 DEF DevicesDiffer, p
  <2>8. TargetsDiffer'
    <3>1. CASE IsEach
      BY <2>4, <2>7, <3>1 DEF TargetsDiffer, DevicesDiffer
    <3>2. CASE ~IsEach
      BY <2>3, <2>4, <3>2 DEF TargetsDiffer
    <3> QED
      BY <3>1, <3>2
  <2> QED
    BY <2>5, <2>6, <2>8 DEF Room
<1>10. CASE PutUnknownDevice
  BY <1>10, RoomRefuse DEF PutUnknownDevice, Trying, Outcome
<1>11. CASE MakeRoomUnlimited
  BY <1>11, RoomAccept DEF MakeRoomUnlimited, Trying
<1>12. CASE MakeRoomTooLarge
  BY <1>12, RoomRefuse DEF MakeRoomTooLarge, Trying, Outcome
<1>13. CASE MakeRoomBegin \/ MakeRoomForget
  BY <1>0, <1>1, <1>13, RoomLess DEF MakeRoomBegin, MakeRoomForget, PopEntry, Trying
<1>14. CASE MakeRoomDefer
  <2>1. /\ put'.spec = put.spec /\ put'.slot = put.slot
        /\ put'.targets = put.targets /\ put'.cands = put.cands
    BY <1>14 DEF MakeRoomDefer, Shape, Types, PutLocals
  <2> QED
    BY <1>0, <1>1, <1>14, <2>1, RoomLess DEF MakeRoomDefer, PopEntry, Trying
<1>15. CASE MakeRoomEvict
  <2> DEFINE k == Popped[1]
             i == Popped[2]
             d == Cand.device
             V == Victims(k, i, d)
  <2>1. Cardinality(V) \in Nat
    BY FS_Subset, FS_CardinalityType DEF Victims, Slot, Shape, Types
  <2>2. SlotLen(k, i) \in Nat
    <3>1. d \in Served /\ fifo[d] # <<>>
      BY Zenon, <1>15 DEF MakeRoomEvict, PopEntry, Shape, PutShape
    <3>2. Popped \in Entry
      BY <3>1 DEF Popped, Shape, Types
    <3>3. k \in Keys /\ i \in DOMAIN objects[k].slots
      BY <1>15, <3>2 DEF MakeRoomEvict, Entry
    <3>4. objects[k].slots \in Seq(SlotSpec)
      BY <3>3 DEF Shape, Types, ObjectSpec
    <3>5. objects[k].slots[i] \in SlotSpec
      BY <3>3, <3>4
    <3> QED
      BY <3>5 DEF SlotLen, SlotSpec
  <2>3. Freed(k, i, d) \in Nat
    BY <2>1, <2>2 DEF Freed
  <2>4. used' = [used EXCEPT ![d] = @ - Freed(k, i, d)]
    BY <1>15 DEF MakeRoomEvict
  <2> HIDE DEF k, i, d, V
  <2>5. \A e \in Served : used'[e] <= used[e]
    BY <1>0, <2>3, <2>4
  <2> QED
    BY <1>0, <1>15, <2>5, RoomLess DEF MakeRoomEvict, PopEntry, Trying
<1>16. CASE MakeRoomReturn
  <2>1. Trying /\ put.cands # <<>> /\ used' = used
    BY <1>16 DEF MakeRoomReturn, Trying, Shape, PutShape
  <2>2. CASE Fits(Cand.device)
    BY <1>16, <2>1, <2>2, RoomAccept DEF MakeRoomReturn
  <2>3. CASE ~Fits(Cand.device)
    BY <1>16, <2>1, <2>3, RoomRefuse DEF MakeRoomReturn, Outcome
  <2> QED
    BY <2>2, <2>3
<1>17. CASE PutWriteSlot
  <2>1. CurrentSlot.len \in Nat /\ put.targets \in Seq(Candidate) /\ Trying
    BY Zenon, <1>17, CurrentSlotType
    DEF PutWriteSlot, Putting, Shape, PutShape, Types, PutLocals, Trying
  <2>2. \A m, n \in DOMAIN put.targets :
          put.targets[m].device = put.targets[n].device => m = n
    <3>1. CASE IsEach
      BY <2>1, <3>1 DEF Room, TargetsDiffer, DevicesDiffer
    <3>2. CASE ~IsEach
      <4>1. Len(put.targets) = 1
        BY <1>17, <2>1, <3>2 DEF Room, TargetsDiffer, PutWriteSlot, SlotPlaced
      <4> QED
        BY <2>1, <4>1
    <3> QED
      BY <3>1, <3>2
  <2>3. CapacityRespected'
    <3> SUFFICES ASSUME NEW d \in Served, Capacity[d] # Unlimited
                 PROVE  used'[d] <= Capacity[d]
      BY DEF CapacityRespected
    <3>0. used'[d] = used[d] + Cardinality(TargetsOn(d)) * CurrentSlot.len
            /\ used[d] \in Int
      BY <1>0, <1>17 DEF PutWriteSlot
    <3>1. CASE TargetsOn(d) = {}
      <4>1. Cardinality(TargetsOn(d)) = 0
        BY <3>1, FS_EmptySet
      <4>2. used'[d] = used[d]
        BY <2>1, <3>0, <4>1
      <4> QED
        BY <4>2 DEF Room, CapacityRespected
    <3>2. CASE TargetsOn(d) # {}
      <4>1. PICK n \in DOMAIN put.targets : put.targets[n].device = d
        BY <3>2 DEF TargetsOn
      <4>2. TargetsOn(d) = {n}
        BY <2>2, <4>1 DEF TargetsOn
      <4>3. Cardinality(TargetsOn(d)) = 1
        BY <4>2, FS_Singleton
      <4>4. used'[d] = used[d] + CurrentSlot.len
        BY <2>1, <3>0, <4>3
      <4>5. used[d] + CurrentSlot.len <= Capacity[d]
        BY Zenon, <2>1, <3>2, <4>1 DEF Room, TargetsFit
      <4> QED
        BY Zenon, <4>4, <4>5
    <3> QED
      BY <3>1, <3>2
  <2> QED
    BY <1>17, <2>3 DEF PutWriteSlot, Room, TargetsFit, TargetsDiffer, Trying
<1>18. CASE CallPanics \/ UNCHANGED vars
  <2>1. UNCHANGED <<used, pc, put>>
    BY <1>18 DEF CallPanics, vars
  <2> QED
    BY <1>0, <1>1, <2>1, RoomLess DEF Trying
<1> QED
  BY <1>2, <1>3, <1>4, <1>5, <1>6, <1>7, <1>8, <1>9, <1>10, <1>11, <1>12, <1>13,
     <1>14, <1>15, <1>16, <1>17, <1>18
  DEF Next, RemoveStep, PutStep

(***************************************************************************)
(* If no Each lists a device twice, the charged bytes of a pool never      *)
(* exceed its capacity, for any number of keys, devices, slots and         *)
(* replicas: make_room's answer still holds when charge acts on it.        *)
(***************************************************************************)
THEOREM CapacityAlwaysRespected ==
  ASSUME EachDistinct
  PROVE  Spec => []CapacityRespected
<1>1. Shape /\ Linked /\ Accounting /\ Room /\ Accounting' /\ Shape'
        /\ [Next]_vars => Room'
  BY RoomStep
<1>2. Room => CapacityRespected
  BY DEF Room
<1> QED
  BY <1>1, <1>2, RoomInit, ShapeInvariant, LinkedInvariant, AccountingInvariant, PTL
  DEF Spec
=============================================================================
