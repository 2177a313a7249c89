---------------------------- MODULE LocalProofs -----------------------------
(***************************************************************************)
(* Lemmas about the CUDA backend, for any pools, any clients and any       *)
(* number of putting and getting threads: each step keeps the types of the *)
(* variables and the owners of the bytes.  The theorems they lead to are   *)
(* at the end of LocalIndexProofs.                                         *)
(***************************************************************************)
EXTENDS Local, TLAPS

-----------------------------------------------------------------------------
(***************************************************************************)
(* The type of every variable.                                             *)
(***************************************************************************)
TargetType == [device : Pools, misplaced : BOOLEAN]
BufferType == [device : Pools, misplaced : BOOLEAN, off : Int, len : Nat \ {0}]
Entry      == Keys \X Nat
Outcomes   == {"Ok", "InvalidInput", "NoSpace", "Unexpected", "NotFound"}
AtRest     == {"idle", "panicked"}
Allocating == {"alloc", "retry", "last", "lock", "evict"}
InSlot     == Allocating \cup {"copy", "publish", "fail", "clear"}

PutType ==
  [pc : AtRest \cup {"slot"} \cup InSlot, key : Keys, spec : ObjectSpec, slot : Nat,
   writable : SUBSET Nat, targets : Seq(TargetType), placed : Seq(BufferType),
   err : Outcomes, deferred : Seq(Entry)]

Types ==
  /\ objects \in [Keys -> Specs \cup {NoObject}]
  /\ reps \subseteq LocalReplica
  /\ writing \in [Keys -> SUBSET Nat]
  /\ fifo \in [Pools -> Seq(Entry)]
  /\ free \in [Pools -> SUBSET Int]
  /\ regions \in [Regions -> {"new", "live", "dropped"}]
  /\ puts \in [Putters -> PutType]
  /\ gets \in [Getters -> LocalReplica \cup {NoRead}]
  /\ poisoned \in BOOLEAN

(***************************************************************************)
(* How the locals of a put hang together: q is at a slot it has claimed,   *)
(* with targets left while it allocates, and holds buffers only inside it. *)
(***************************************************************************)
PutShape(q) ==
  /\ q.pc \in AtRest => q.writable = {}
  /\ q.pc \notin AtRest =>
       q.spec \in Specs /\ q.slot # 0 /\ q.writable \subseteq DOMAIN q.spec.slots
  /\ q.pc \in InSlot => q.slot \in q.writable
  /\ q.pc \in Allocating => q.targets # <<>>
  /\ q.pc \notin InSlot \ {"clear"} => q.placed = <<>>

Shape == Types /\ \A p \in Putters : PutShape(puts[p])

-----------------------------------------------------------------------------
(***************************************************************************)
(* The positions of a sequence.                                            *)
(***************************************************************************)
LEMMA SeqLength ==
  ASSUME NEW S, NEW s \in Seq(S) PROVE Len(s) \in Nat /\ DOMAIN s = 1..Len(s)
  OBVIOUS

(***************************************************************************)
(* The elements of two sequences put end to end.                           *)
(***************************************************************************)
LEMMA SeqConcat ==
  ASSUME NEW S, NEW s \in Seq(S), NEW t \in Seq(S)
  PROVE  /\ s \o t \in Seq(S)
         /\ Len(s \o t) = Len(s) + Len(t)
         /\ \A i \in 1..Len(s) + Len(t) :
              (s \o t)[i] = IF i <= Len(s) THEN s[i] ELSE t[i - Len(s)]
  OBVIOUS

(***************************************************************************)
(* A pinned replica has its bytes in a pool; no other replica has any.     *)
(***************************************************************************)
LEMMA ReplicaFields ==
  ASSUME NEW r \in LocalReplica
  PROVE  /\ r # NoRead
         /\ r.key \in Keys /\ r.slot \in Nat
         /\ IsOwned(r) => /\ r.device \in Pools /\ r.off \in Int /\ r.len \in Nat \ {0}
                          /\ r.segs = {} /\ r.region_id = NoRegion
         /\ ~IsOwned(r) => r.region_id \in Regions \cup {NoRegion}
<1>1. r # NoRead
  BY LocalAssumption
<1>2. CASE r \in PinnedReplica
  BY <1>1, <1>2 DEF PinnedReplica, IsOwned
<1>3. CASE r \in Replica /\ ~IsOwned(r)
  BY <1>1, <1>3 DEF Replica
<1> QED
  BY <1>2, <1>3 DEF LocalReplica

(***************************************************************************)
(* Pool devices are devices.                                               *)
(***************************************************************************)
LEMMA PoolsAreDevices == Pools \subseteq Devices /\ PoolOrder \in Seq(Pools)
<1>1. PoolOrder \in Seq(Devices)
  BY LocalAssumption
<1>2. \A n \in 1..Len(PoolOrder) : PoolOrder[n] \in Pools
  BY <1>1 DEF Pools
<1>3. PoolOrder \in Seq(Pools)
  BY <1>1, <1>2
<1> QED
  BY <1>1, <1>3 DEF Pools

(***************************************************************************)
(* Placed keeps the devices and their order, and flags none.               *)
(***************************************************************************)
LEMMA PlacedType ==
  ASSUME NEW devs \in Seq(Pools)
  PROVE  /\ Placed(devs) \in Seq(TargetType)
         /\ Len(Placed(devs)) = Len(devs)
         /\ \A n \in DOMAIN devs :
              Placed(devs)[n] = [device |-> devs[n], misplaced |-> FALSE]
<1>1. Placed(devs) \in [1..Len(devs) -> TargetType]
  BY DEF Placed, TargetType
<1> QED
  BY <1>1 DEF Placed

(***************************************************************************)
(* Misplaced keeps the devices and their order, and flags them all.        *)
(***************************************************************************)
LEMMA MisplacedType ==
  ASSUME NEW devs \in Seq(Pools)
  PROVE  /\ Misplaced(devs) \in Seq(TargetType)
         /\ Len(Misplaced(devs)) = Len(devs)
         /\ \A n \in DOMAIN devs :
              Misplaced(devs)[n] = [device |-> devs[n], misplaced |-> TRUE]
<1>1. Misplaced(devs) \in [1..Len(devs) -> TargetType]
  BY DEF Misplaced, TargetType
<1> QED
  BY <1>1 DEF Misplaced

(***************************************************************************)
(* Prefer falls back to the pools other than the preferred one.            *)
(***************************************************************************)
LEMMA FallbackOrder ==
  ASSUME NEW d \in Pools
  PROVE  /\ Without(PoolOrder, d) \in Seq(Pools)
         /\ \A n \in DOMAIN Without(PoolOrder, d) : Without(PoolOrder, d)[n] # d
<1> DEFINE n == CHOOSE m \in DOMAIN PoolOrder : PoolOrder[m] = d
           a == SubSeq(PoolOrder, 1, n - 1)
           b == SubSeq(PoolOrder, n + 1, Len(PoolOrder))
<1>0. PoolOrder \in Seq(Pools)
  BY PoolsAreDevices
<1>1. n \in DOMAIN PoolOrder /\ PoolOrder[n] = d /\ \E m \in DOMAIN PoolOrder : PoolOrder[m] = d
  BY DEF Pools
<1>2. \A m \in DOMAIN PoolOrder : PoolOrder[m] = d => m = n
  BY <1>1, LocalAssumption, Zenon
<1>3. Without(PoolOrder, d) = a \o b
  BY <1>1, Zenon DEF Without
<1> HIDE DEF n
<1>4. n \in 1..Len(PoolOrder) /\ Len(PoolOrder) \in Nat
  BY <1>0, <1>1
<1>5. a \in Seq(Pools) /\ Len(a) = n - 1 /\ \A i \in 1..n-1 : a[i] = PoolOrder[i]
  BY <1>0, <1>4
<1>6. b \in Seq(Pools) /\ Len(b) = Len(PoolOrder) - n
        /\ \A i \in 1..Len(PoolOrder)-n : b[i] = PoolOrder[n + i]
  BY <1>0, <1>4
<1> HIDE DEF a, b
<1>7. ASSUME NEW i \in DOMAIN (a \o b)
      PROVE  (a \o b)[i] # d
  <2>1. i \in 1..(Len(a) + Len(b))
    BY <1>5, <1>6
  <2>2. CASE i <= Len(a)
    <3>1. (a \o b)[i] = PoolOrder[i] /\ i \in 1..Len(PoolOrder) /\ i # n
      BY <1>4, <1>5, <1>6, <2>1, <2>2
    <3> QED
      BY <1>0, <1>2, <3>1
  <2>3. CASE i > Len(a)
    <3>1. (a \o b)[i] = b[i - Len(a)] /\ i - Len(a) \in 1..Len(b)
      BY <1>5, <1>6, <2>1, <2>3
    <3>2. b[i - Len(a)] = PoolOrder[i + 1] /\ i + 1 \in 1..Len(PoolOrder) /\ i + 1 # n
      BY SMTT(60), <1>4, <1>5, <1>6, <2>1, <2>3
    <3> QED
      BY <1>0, <1>2, <3>1, <3>2
  <2> QED
    BY <1>4, <1>5, <2>1, <2>2, <2>3
<1> QED
  BY <1>3, <1>5, <1>6, <1>7

(***************************************************************************)
(* What every target of placement pl obeys, and so every buffer placed.    *)
(***************************************************************************)
Allowed(pl, t) ==
  /\ pl.kind = "Strict" => t.device = pl.devs[1]
  /\ pl.kind = "Prefer" => (t.misplaced <=> t.device # pl.devs[1])
  /\ pl.kind # "Prefer" => ~t.misplaced

(***************************************************************************)
(* A placement that can be resolved has targets with a pool.               *)
(***************************************************************************)
LEMMA TargetsType ==
  ASSUME NEW pl \in Placement, WellFormed(pl), Resolvable(pl)
  PROVE  /\ Targets(pl) \in Seq(TargetType)
         /\ \A n \in DOMAIN Targets(pl) : Allowed(pl, Targets(pl)[n])
         /\ pl.kind = "Each" =>
              /\ Len(Targets(pl)) = Len(pl.devs)
              /\ \A n \in DOMAIN pl.devs : Targets(pl)[n].device = pl.devs[n]
<1>0. PoolOrder \in Seq(Pools) /\ pl.devs \in Seq(Pools)
  <2>1. pl.devs \in Seq(Devices) /\ \A n \in 1..Len(pl.devs) : pl.devs[n] \in Pools
    BY DEF Placement, Resolvable
  <2> QED
    BY <2>1, PoolsAreDevices
<1>1. CASE pl.kind # "Prefer"
  <2> DEFINE devs == IF pl.kind = "Anywhere" THEN PoolOrder ELSE pl.devs
  <2>1. devs \in Seq(Pools) /\ Targets(pl) = Placed(devs)
    BY <1>0, <1>1 DEF Targets
  <2>2. /\ pl.kind = "Each" => devs = pl.devs
        /\ pl.kind = "Strict" => devs = pl.devs /\ Len(devs) = 1
    BY <1>1 DEF WellFormed
  <2> HIDE DEF devs
  <2>3. /\ Placed(devs) \in Seq(TargetType)
        /\ Len(Placed(devs)) = Len(devs)
        /\ \A n \in DOMAIN devs :
              Placed(devs)[n] = [device |-> devs[n], misplaced |-> FALSE]
    BY <2>1, PlacedType
  <2>4. DOMAIN Placed(devs) = DOMAIN devs
    BY <2>1, <2>3, SeqLength, Zenon
  <2>5. ASSUME NEW n \in DOMAIN devs
        PROVE  Allowed(pl, Placed(devs)[n])
    <3>1. Placed(devs)[n] = [device |-> devs[n], misplaced |-> FALSE]
      BY <2>3
    <3>2. pl.kind = "Strict" => n = 1 /\ devs = pl.devs
      BY <2>1, <2>2
    <3>3. Placed(devs)[n].device = devs[n] /\ Placed(devs)[n].misplaced = FALSE
      BY <3>1
    <3> QED
      BY <1>1, <3>2, <3>3, Zenon DEF Allowed
  <2> QED
    BY <2>1, <2>2, <2>3, <2>4, <2>5
<1>2. CASE pl.kind = "Prefer"
  <2> DEFINE w == Without(PoolOrder, pl.devs[1])
             a == Placed(pl.devs)
             b == Misplaced(w)
  <2>1. Len(pl.devs) = 1 /\ pl.devs[1] \in Pools /\ 1 \in DOMAIN pl.devs
    <3>1. PICK ds \in Seq(Pools) : ds = pl.devs
      BY Zenon, <1>0
    <3>2. Len(ds) = 1
      BY <1>2, <3>1 DEF WellFormed
    <3>3. 1 \in DOMAIN ds /\ ds[1] \in Pools
      BY <3>2
    <3> QED
      BY Zenon, <3>1, <3>2, <3>3
  <2>2. w \in Seq(Pools) /\ \A n \in DOMAIN w : w[n] # pl.devs[1]
    BY <2>1, FallbackOrder
  <2>3. a \in Seq(TargetType) /\ Len(a) = 1
          /\ a[1] = [device |-> pl.devs[1], misplaced |-> FALSE]
    BY <1>0, <2>1, PlacedType
  <2>5. Targets(pl) = a \o b
    BY <1>2 DEF Targets
  <2> HIDE DEF w
  <2>4. b \in Seq(TargetType) /\ Len(b) = Len(w)
          /\ \A n \in DOMAIN w : b[n] = [device |-> w[n], misplaced |-> TRUE]
    BY <2>2, MisplacedType
  <2> HIDE DEF a, b
  <2>6. ASSUME NEW n \in DOMAIN (a \o b)
        PROVE  Allowed(pl, (a \o b)[n])
    <3>0. /\ a \o b \in Seq(TargetType)
          /\ Len(a \o b) = Len(a) + Len(b)
          /\ \A i \in 1..Len(a) + Len(b) :
               (a \o b)[i] = IF i <= Len(a) THEN a[i] ELSE b[i - Len(a)]
      <4>1. a \in Seq(TargetType) /\ b \in Seq(TargetType)
        BY <2>3, <2>4
      <4> QED
        BY <4>1, SeqConcat
    <3>1. n \in 1..(Len(a) + Len(b)) /\ Len(a) \in Nat /\ Len(b) \in Nat
      BY <2>3, <2>4, <3>0, SeqLength, ZenonT(60)
    <3>2. CASE n = 1
      <4>1. (a \o b)[n] = a[1]
        <5>1. Len(a) = 1
          BY <2>3
        <5> QED
          BY <3>0, <3>1, <3>2, <5>1
      <4>2. (a \o b)[n].device = pl.devs[1] /\ (a \o b)[n].misplaced = FALSE
        BY <2>3, <4>1
      <4> QED
        BY <1>2, <4>2, Zenon DEF Allowed
    <3>3. CASE n > 1
      <4>1. (a \o b)[n] = b[n - 1] /\ n - 1 \in DOMAIN w
        BY <2>2, <2>3, <2>4, <3>0, <3>1, <3>3
      <4>2. b[n - 1] = [device |-> w[n - 1], misplaced |-> TRUE]
              /\ w[n - 1] # pl.devs[1]
        BY <2>2, <2>4, <4>1
      <4> QED
        BY <1>2, <4>1, <4>2 DEF Allowed
    <3> QED
      BY <3>1, <3>2, <3>3
  <2> QED
    BY <1>2, <2>3, <2>4, <2>5, <2>6
<1> QED
  BY <1>1, <1>2

-----------------------------------------------------------------------------
(***************************************************************************)
(* A thread at rest holds no claim and no buffer.                          *)
(***************************************************************************)
LEMMA NoPutType ==
  /\ NoPut \in PutType /\ PutShape(NoPut)
  /\ [NoPut EXCEPT !.pc = "panicked"] \in PutType
  /\ PutShape([NoPut EXCEPT !.pc = "panicked"])
  /\ NoPut.placed = <<>> /\ NoPut.writable = {} /\ NoPut.pc = "idle"
<1>1. NoObject \in ObjectSpec
  BY DEF NoObject, ObjectSpec, Retention
<1>2. (CHOOSE k \in Keys : TRUE) \in Keys
  BY NamesAssumption
<1>3. <<>> \in Seq(TargetType) /\ <<>> \in Seq(BufferType) /\ <<>> \in Seq(Entry)
  OBVIOUS
<1>4. NoPut \in PutType
  BY <1>1, <1>2, <1>3 DEF NoPut, PutType, Outcomes, AtRest
<1>5. [NoPut EXCEPT !.pc = "panicked"] \in PutType
  BY <1>4, Zenon DEF PutType, AtRest
<1>6. PutShape(NoPut) /\ PutShape([NoPut EXCEPT !.pc = "panicked"])
  BY DEF PutShape, NoPut, AtRest, InSlot, Allocating
<1> QED
  BY <1>4, <1>5, <1>6 DEF NoPut

(***************************************************************************)
(* The slot a put is at has bytes to store and a well-formed placement.    *)
(***************************************************************************)
LEMMA CurrentSlotType ==
  ASSUME Shape, NEW p \in Putters, puts[p].pc \in {"slot"} \cup InSlot,
         puts[p].slot \in puts[p].writable
  PROVE  /\ CurrentSlot(p).len \in Nat \ {0}
         /\ CurrentSlot(p).placement \in Placement
         /\ WellFormed(CurrentSlot(p).placement)
<1>1. puts[p].spec \in Specs /\ puts[p].slot \in DOMAIN puts[p].spec.slots
  BY DEF Shape, PutShape, AtRest, InSlot, Allocating
<1>2. puts[p].spec.slots \in Seq(SlotSpec) /\ puts[p].spec.slots[puts[p].slot].len > 0
  BY <1>1, SpecsAssumption, LocalAssumption DEF ObjectSpec
<1>3. CurrentSlot(p) \in SlotSpec /\ CurrentSlot(p).len > 0
  BY <1>1, <1>2 DEF CurrentSlot
<1> QED
  BY <1>3 DEF SlotSpec

(***************************************************************************)
(* A put that allocates tries a pool.                                      *)
(***************************************************************************)
LEMMA TargetIsPool ==
  ASSUME Shape, NEW p \in Putters, puts[p].pc \in Allocating
  PROVE  /\ Target(p) \in TargetType /\ Target(p).device \in Pools
         /\ Tail(puts[p].targets) \in Seq(TargetType)
<1>1. puts[p].targets \in Seq(TargetType) /\ puts[p].targets # <<>>
  BY DEF Shape, Types, PutType, PutShape
<1>2. Target(p) \in TargetType /\ Tail(puts[p].targets) \in Seq(TargetType)
  BY <1>1 DEF Target
<1> QED
  BY <1>2 DEF TargetType

(***************************************************************************)
(* Settled changes the program counter alone, to one that fits.            *)
(***************************************************************************)
LEMMA SettledType ==
  ASSUME NEW p \in Putters, NEW q \in PutType
  PROVE  /\ Settled(p, q) \in PutType
         /\ Settled(p, q).pc = IF q.targets # <<>> THEN "alloc"
                                ELSE IF AllPlaced(p, q) THEN "copy" ELSE "fail"
         /\ Settled(p, q).key = q.key
         /\ Settled(p, q).spec = q.spec
         /\ Settled(p, q).slot = q.slot
         /\ Settled(p, q).writable = q.writable
         /\ Settled(p, q).targets = q.targets
         /\ Settled(p, q).placed = q.placed
         /\ Settled(p, q).err = q.err
         /\ Settled(p, q).deferred = q.deferred
<1>1. Settled(p, q) \in PutType
  BY Zenon DEF Settled, PutType, InSlot, Allocating
<1> QED
  BY Zenon, <1>1 DEF Settled, PutType

(***************************************************************************)
(* A put that has settled is well-formed if it is at a slot it claimed.    *)
(***************************************************************************)
LEMMA SettledShape ==
  ASSUME NEW p \in Putters, NEW q \in PutType, q.spec \in Specs, q.slot # 0,
         q.writable \subseteq DOMAIN q.spec.slots, q.slot \in q.writable
  PROVE  PutShape(Settled(p, q))
<1> DEFINE s == Settled(p, q)
<1>1. /\ s.spec = q.spec /\ s.slot = q.slot /\ s.writable = q.writable
      /\ s.targets = q.targets
      /\ (s.pc = "alloc" /\ q.targets # <<>>) \/ s.pc \in {"copy", "fail"}
  BY SettledType
<1> HIDE DEF s
<1>2. PutShape(s)
  BY <1>1 DEF PutShape, AtRest, InSlot, Allocating
<1> QED
  BY <1>2 DEF s

(***************************************************************************)
(* The steps of put p that stay at its slot and keep its buffers: it finds *)
(* its targets, has no room, evicts, copies or fails.                      *)
(***************************************************************************)
StaysAtSlot(p) ==
  \/ PutResolve(p) \/ PutTooLarge(p) \/ PutNoSpace(p) \/ PutMustEvict(p)
  \/ EvictBegin(p) \/ EvictDefer(p) \/ EvictForget(p) \/ EvictEntry(p) \/ EvictNothing(p)
  \/ PutCopied(p) \/ (\E f \in CopyFaults : PutCopyFails(p, f)) \/ PutGone(p)

SameSlot(p) ==
  /\ \A q \in Putters \ {p} : puts'[q] = puts[q]
  /\ puts[p].pc \in {"slot"} \cup InSlot /\ puts'[p].pc \in InSlot
  /\ puts'[p].key = puts[p].key
  /\ puts'[p].spec = puts[p].spec
  /\ puts'[p].slot = puts[p].slot
  /\ puts'[p].writable = puts[p].writable
  /\ puts'[p].placed = puts[p].placed

(***************************************************************************)
(* A put whose locals change in its program counter, its error and its     *)
(* deferred entries.                                                       *)
(***************************************************************************)
LEMMA PcMoves ==
  ASSUME Shape, NEW p \in Putters, NEW c \in InSlot \ {"clear"}, NEW e \in Outcomes,
         NEW D \in Seq(Entry), puts[p].pc \in InSlot,
         c \in Allocating => puts[p].pc \in Allocating,
         puts' = [puts EXCEPT ![p] = [puts[p] EXCEPT !.pc = c, !.err = e, !.deferred = D]]
  PROVE  puts' \in [Putters -> PutType] /\ PutShape(puts'[p]) /\ SameSlot(p)
<1> DEFINE x == [puts[p] EXCEPT !.pc = c, !.err = e, !.deferred = D]
<1>1. puts \in [Putters -> PutType] /\ puts[p] \in PutType /\ PutShape(puts[p])
  BY DEF Shape, Types
<1>2. x \in PutType
  BY Zenon, <1>1 DEF PutType
<1>3. /\ x.pc = c /\ x.key = puts[p].key /\ x.spec = puts[p].spec
      /\ x.slot = puts[p].slot /\ x.writable = puts[p].writable
      /\ x.targets = puts[p].targets /\ x.placed = puts[p].placed
  BY <1>1 DEF PutType
<1> HIDE DEF x
<1>4. puts' = [puts EXCEPT ![p] = x]
  BY DEF x
<1>5. puts'[p] = x /\ \A q \in Putters \ {p} : puts'[q] = puts[q]
  BY <1>1, <1>4
<1>6. puts' \in [Putters -> PutType]
  BY Zenon, <1>1, <1>2, <1>4
<1>7. PutShape(x)
  BY <1>1, <1>3 DEF PutShape, AtRest, InSlot, Allocating
<1>8. SameSlot(p)
  BY <1>3, <1>5, Zenon DEF SameSlot
<1> QED
  BY <1>5, <1>6, <1>7, <1>8

(***************************************************************************)
(* The entry that an eviction pops is a slot of some object.               *)
(***************************************************************************)
LEMMA PoppedType ==
  ASSUME Shape, NEW p \in Putters, PopEntry(p)
  PROVE  /\ Popped(p) \in Entry
         /\ fifo[Target(p).device] \in Seq(Entry)
         /\ fifo[Target(p).device] # <<>>
         /\ Tail(fifo[Target(p).device]) \in Seq(Entry)
         /\ puts[p].pc \in Allocating /\ Target(p).device \in Pools
<1>1. puts[p].pc \in Allocating /\ fifo[Target(p).device] # <<>>
  BY DEF PopEntry, Allocating
<1>2. Target(p).device \in Pools
  BY <1>1, TargetIsPool
<1>3. fifo[Target(p).device] \in Seq(Entry)
  BY <1>2 DEF Shape, Types
<1> HIDE DEF Entry
<1> QED
  BY <1>1, <1>2, <1>3 DEF Popped

(***************************************************************************)
(* Resolving a placement finds targets or fails the slot.                  *)
(***************************************************************************)
LEMMA ResolveMoves ==
  ASSUME Shape, NEW p \in Putters, PutResolve(p)
  PROVE  puts' \in [Putters -> PutType] /\ PutShape(puts'[p]) /\ SameSlot(p)
<1> DEFINE pl == CurrentSlot(p).placement
           q == [puts[p] EXCEPT !.targets = Targets(pl)]
           f == [puts[p] EXCEPT !.pc = "fail", !.err = "InvalidInput"]
           x == IF Resolvable(pl) THEN Settled(p, q) ELSE f
<1>1. /\ puts[p].pc = "slot"
      /\ puts[p].slot \in puts[p].writable
      /\ puts' = [puts EXCEPT ![p] = x]
  BY DEF PutResolve
<1>2. puts \in [Putters -> PutType] /\ puts[p] \in PutType /\ PutShape(puts[p])
  BY DEF Shape, Types
<1>3. pl \in Placement /\ WellFormed(pl)
  BY <1>1, CurrentSlotType
<1>4. ASSUME Resolvable(pl)
      PROVE  /\ x \in PutType /\ PutShape(x) /\ x.pc \in InSlot
             /\ x.key = puts[p].key /\ x.spec = puts[p].spec
             /\ x.slot = puts[p].slot /\ x.writable = puts[p].writable
             /\ x.placed = puts[p].placed
  <2> DEFINE T == Targets(pl)
  <2>1. T \in Seq(TargetType)
    BY <1>3, <1>4, TargetsType
  <2> HIDE DEF T
  <2>2. q \in PutType
    BY Zenon, <1>2, <2>1 DEF PutType, T
  <2>3. /\ q.key = puts[p].key /\ q.spec = puts[p].spec
        /\ q.slot = puts[p].slot /\ q.writable = puts[p].writable
        /\ q.placed = puts[p].placed
    BY <1>2 DEF PutType
  <2>4. x = Settled(p, q)
    BY <1>4
  <2> HIDE DEF q
  <2>5. q.spec \in Specs /\ q.slot # 0 /\ q.writable \subseteq DOMAIN q.spec.slots
          /\ q.slot \in q.writable
    BY <1>1, <1>2, <2>3 DEF PutShape, AtRest
  <2>6. PutShape(Settled(p, q))
    BY <2>2, <2>5, SettledShape
  <2>7. Settled(p, q).pc \in InSlot
    BY <2>2, SettledType DEF InSlot, Allocating
  <2> HIDE DEF x
  <2> QED
    BY <2>2, <2>3, <2>4, <2>6, <2>7, SettledType
<1>5. ASSUME ~Resolvable(pl)
      PROVE  /\ x \in PutType /\ PutShape(x) /\ x.pc \in InSlot
             /\ x.key = puts[p].key /\ x.spec = puts[p].spec
             /\ x.slot = puts[p].slot /\ x.writable = puts[p].writable
             /\ x.placed = puts[p].placed
  <2>1. f \in PutType
    BY Zenon, <1>2 DEF PutType, InSlot, Outcomes
  <2>2. /\ f.key = puts[p].key /\ f.spec = puts[p].spec
        /\ f.slot = puts[p].slot /\ f.writable = puts[p].writable
        /\ f.placed = puts[p].placed /\ f.targets = puts[p].targets /\ f.pc = "fail"
    BY <1>2 DEF PutType
  <2>3. x = f
    BY <1>5
  <2> HIDE DEF f, x
  <2>4. PutShape(f) /\ f.pc \in InSlot
    BY <1>1, <1>2, <2>2 DEF PutShape, AtRest, InSlot, Allocating
  <2> QED
    BY <2>1, <2>2, <2>3, <2>4
<1> HIDE DEF x, pl
<1>6. /\ x \in PutType /\ PutShape(x) /\ x.pc \in InSlot
      /\ x.key = puts[p].key /\ x.spec = puts[p].spec
      /\ x.slot = puts[p].slot /\ x.writable = puts[p].writable
      /\ x.placed = puts[p].placed
  BY <1>4, <1>5, Zenon
<1>7. puts'[p] = x /\ \A r \in Putters \ {p} : puts'[r] = puts[r]
  BY <1>1, <1>2
<1>8. puts' \in [Putters -> PutType]
  BY Zenon, <1>1, <1>2, <1>6
<1>9. SameSlot(p)
  BY <1>1, <1>6, <1>7, Zenon DEF SameSlot
<1> QED
  BY <1>6, <1>7, <1>8, <1>9

(***************************************************************************)
(* A candidate without room is passed over, or ends an Each.               *)
(***************************************************************************)
LEMMA RefusedMoves ==
  ASSUME Shape, NEW p \in Putters, puts[p].pc \in Allocating,
         puts' = [puts EXCEPT ![p] = Refused(p)]
  PROVE  puts' \in [Putters -> PutType] /\ PutShape(puts'[p]) /\ SameSlot(p)
<1> DEFINE T == IF IsEach(p) THEN <<>> ELSE Tail(puts[p].targets)
           q == [puts[p] EXCEPT !.err = "NoSpace", !.targets = T]
           x == Settled(p, q)
<1>1. puts \in [Putters -> PutType] /\ puts[p] \in PutType /\ PutShape(puts[p])
  BY DEF Shape, Types
<1>2. T \in Seq(TargetType)
  BY TargetIsPool
<1>3. Refused(p) = x
  BY DEF Refused
<1> HIDE DEF T
<1>4. q \in PutType
  BY Zenon, <1>1, <1>2 DEF PutType, Outcomes
<1>5. /\ q.key = puts[p].key /\ q.spec = puts[p].spec
      /\ q.slot = puts[p].slot /\ q.writable = puts[p].writable
      /\ q.placed = puts[p].placed
  BY <1>1 DEF PutType
<1> HIDE DEF q
<1>6. q.spec \in Specs /\ q.slot # 0 /\ q.writable \subseteq DOMAIN q.spec.slots
        /\ q.slot \in q.writable
  BY <1>1, <1>5 DEF PutShape, AtRest, InSlot, Allocating
<1>7. PutShape(x)
  BY <1>4, <1>6, SettledShape
<1>8. /\ x \in PutType /\ x.pc \in InSlot
      /\ x.key = puts[p].key /\ x.spec = puts[p].spec
      /\ x.slot = puts[p].slot /\ x.writable = puts[p].writable
      /\ x.placed = puts[p].placed
  BY <1>4, <1>5, SettledType DEF InSlot, Allocating
<1> HIDE DEF x
<1>9. puts'[p] = x /\ \A r \in Putters \ {p} : puts'[r] = puts[r]
  BY <1>1, <1>3
<1>10. puts' \in [Putters -> PutType]
  BY Zenon, <1>1, <1>3, <1>8
<1>11. puts[p].pc \in InSlot
  BY DEF InSlot
<1>12. SameSlot(p)
  BY <1>8, <1>9, <1>11, Zenon DEF SameSlot
<1> QED
  BY <1>7, <1>9, <1>10, <1>12

(***************************************************************************)
(* All the steps of a put that keep its slot and its buffers.              *)
(***************************************************************************)
LEMMA StaysMoves ==
  ASSUME Shape, NEW p \in Putters, StaysAtSlot(p)
  PROVE  puts' \in [Putters -> PutType] /\ PutShape(puts'[p]) /\ SameSlot(p)
<1> DEFINE q == puts[p]
<1>1. puts \in [Putters -> PutType] /\ q \in PutType
  BY DEF Shape, Types
<1>2. /\ q.pc \in AtRest \cup {"slot"} \cup InSlot /\ q.err \in Outcomes
      /\ q.deferred \in Seq(Entry) /\ <<>> \in Seq(Entry)
  BY <1>1 DEF PutType
<1>e. Allocating \subseteq InSlot
  BY DEF InSlot
<1>4. CASE PutResolve(p)
  BY <1>4, ResolveMoves
<1>5. CASE PutTooLarge(p) \/ PutNoSpace(p)
  <2>1. puts[p].pc \in Allocating /\ puts' = [puts EXCEPT ![p] = Refused(p)]
    BY <1>5 DEF PutTooLarge, PutNoSpace, Allocating
  <2> QED
    BY Zenon, <2>1, RefusedMoves
<1>6. CASE PutMustEvict(p)
  <2>1. q.pc \in Allocating /\ "lock" \in Allocating /\ "lock" # "clear"
    BY <1>6 DEF PutMustEvict, Allocating
  <2>2. puts' = [puts EXCEPT ![p] =
                   [puts[p] EXCEPT !.pc = "lock", !.err = q.err, !.deferred = q.deferred]]
    BY Zenon, <1>1, <1>6 DEF PutMustEvict, PutType
  <2> QED
    BY Zenon, <1>2, <1>e, <2>1, <2>2, PcMoves
<1>7. CASE EvictBegin(p)
  <2>1. q.pc \in Allocating /\ "evict" \in Allocating /\ "evict" # "clear"
    BY <1>7 DEF EvictBegin, Allocating
  <2>2. puts' = [puts EXCEPT ![p] =
                   [puts[p] EXCEPT !.pc = "evict", !.err = q.err, !.deferred = q.deferred]]
    BY Zenon, <1>1, <1>7 DEF EvictBegin, PutType
  <2> QED
    BY Zenon, <1>2, <1>e, <2>1, <2>2, PcMoves
<1>8. CASE EvictDefer(p)
  <2>1. PopEntry(p) /\ puts' = [puts EXCEPT ![p].deferred = Append(@, Popped(p))]
    BY <1>8 DEF EvictDefer
  <2> DEFINE D == Append(q.deferred, Popped(p))
  <2>2. D \in Seq(Entry) /\ q.pc \in Allocating /\ q.pc # "clear"
    <3>1. Popped(p) \in Entry /\ q.pc \in Allocating
      BY <2>1, PoppedType
    <3> QED
      BY <1>2, <3>1 DEF Allocating
  <2>3. puts' = [puts EXCEPT ![p] =
                   [puts[p] EXCEPT !.pc = q.pc, !.err = q.err, !.deferred = D]]
    BY Zenon, <1>1, <2>1 DEF PutType
  <2> HIDE DEF D
  <2> QED
    BY Zenon, <1>2, <1>e, <2>2, <2>3, PcMoves
<1>9. CASE EvictForget(p) \/ (EvictEntry(p) /\ puts' = puts)
  <2>1. PopEntry(p) /\ puts' = puts
    BY <1>9 DEF EvictForget, EvictEntry
  <2>2. q.pc \in Allocating /\ q.pc # "clear"
    BY <2>1 DEF PopEntry, Allocating
  <2>3. puts' = [puts EXCEPT ![p] =
                   [puts[p] EXCEPT !.pc = q.pc, !.err = q.err, !.deferred = q.deferred]]
    BY Zenon, <1>1, <2>1 DEF PutType
  <2> QED
    BY Zenon, <1>2, <1>e, <2>2, <2>3, PcMoves
<1>10. CASE EvictEntry(p) /\ puts' # puts
  <2>1. PopEntry(p) /\ puts' = [puts EXCEPT ![p].pc = "retry", ![p].deferred = <<>>]
    BY <1>10, Zenon DEF EvictEntry
  <2>2. q.pc \in Allocating /\ "retry" \in Allocating /\ "retry" # "clear"
    BY <2>1 DEF PopEntry, Allocating
  <2>3. puts' = [puts EXCEPT ![p] =
                   [puts[p] EXCEPT !.pc = "retry", !.err = q.err, !.deferred = <<>>]]
    BY Zenon, <1>1, <2>1 DEF PutType
  <2> QED
    BY Zenon, <1>2, <1>e, <2>2, <2>3, PcMoves
<1>11. CASE EvictNothing(p)
  <2>1. q.pc = "evict" /\ puts' = [puts EXCEPT ![p].pc = "last", ![p].deferred = <<>>]
    BY <1>11 DEF EvictNothing
  <2>2. q.pc \in Allocating /\ "last" \in Allocating /\ "last" # "clear"
    BY <2>1 DEF Allocating
  <2>3. puts' = [puts EXCEPT ![p] =
                   [puts[p] EXCEPT !.pc = "last", !.err = q.err, !.deferred = <<>>]]
    BY Zenon, <1>1, <2>1 DEF PutType
  <2> QED
    BY Zenon, <1>2, <1>e, <2>2, <2>3, PcMoves
<1>12. CASE PutCopied(p)
  <2>1. q.pc \in InSlot /\ "publish" \in InSlot \ {"clear"} /\ "publish" \notin Allocating
    BY <1>12 DEF PutCopied, InSlot, Allocating
  <2>2. puts' = [puts EXCEPT ![p] =
                   [puts[p] EXCEPT !.pc = "publish", !.err = q.err, !.deferred = q.deferred]]
    BY Zenon, <1>1, <1>12 DEF PutCopied, PutType
  <2> QED
    BY Zenon, <1>2, <2>1, <2>2, PcMoves
<1>13. CASE (\E f \in CopyFaults : PutCopyFails(p, f)) \/ PutGone(p)
  <2>1. PICK e \in {"Unexpected", "NotFound"} :
          /\ puts[p].pc \in {"copy", "publish"}
          /\ puts' = [puts EXCEPT ![p].pc = "fail", ![p].err = e]
    BY <1>13, Zenon DEF PutCopyFails, PutGone
  <2>2. /\ e \in Outcomes /\ q.pc \in InSlot
        /\ "fail" \in InSlot \ {"clear"} /\ "fail" \notin Allocating
    BY <2>1 DEF InSlot, Allocating, Outcomes
  <2>3. puts' = [puts EXCEPT ![p] =
                   [puts[p] EXCEPT !.pc = "fail", !.err = e, !.deferred = q.deferred]]
    BY Zenon, <1>1, <2>1 DEF PutType
  <2> QED
    BY Zenon, <1>2, <2>2, <2>3, PcMoves
<1> QED
  BY <1>4, <1>5, <1>6, <1>7, <1>8, <1>9, <1>10, <1>11, <1>12, <1>13, Zenon
     DEF StaysAtSlot

(***************************************************************************)
(* A put goes on to its next slot with no buffer in hand.                  *)
(***************************************************************************)
MovesOn(p) ==
  /\ \A q \in Putters \ {p} : puts'[q] = puts[q]
  /\ puts'[p].pc = "slot"
  /\ puts'[p].key = puts[p].key
  /\ puts'[p].spec = puts[p].spec
  /\ puts'[p].slot = puts[p].slot + 1
  /\ puts'[p].writable = puts[p].writable
  /\ puts'[p].placed = <<>>

(***************************************************************************)
(* Moving to the next slot leaves the locals well-formed.                  *)
(***************************************************************************)
LEMMA NextSlotMoves ==
  ASSUME Shape, NEW p \in Putters, puts[p].pc \notin AtRest,
         puts' = [puts EXCEPT ![p] = NextSlot(p)]
  PROVE  puts' \in [Putters -> PutType] /\ PutShape(puts'[p]) /\ MovesOn(p)
<1> DEFINE x == NextSlot(p)
<1>1. puts \in [Putters -> PutType] /\ puts[p] \in PutType /\ PutShape(puts[p])
  BY DEF Shape, Types
<1>2. puts[p].slot + 1 \in Nat /\ <<>> \in Seq(TargetType) /\ <<>> \in Seq(BufferType)
        /\ puts[p].slot \in Nat
  BY <1>1 DEF PutType
<1>3. x \in PutType
  BY <1>1, <1>2, Zenon DEF NextSlot, PutType, Outcomes
<1>4. /\ x.pc = "slot" /\ x.key = puts[p].key /\ x.spec = puts[p].spec
      /\ x.slot = puts[p].slot + 1 /\ x.writable = puts[p].writable
      /\ x.placed = <<>>
  BY <1>1 DEF NextSlot, PutType
<1> HIDE DEF x
<1>5. puts'[p] = x /\ \A q \in Putters \ {p} : puts'[q] = puts[q]
  BY <1>1 DEF x
<1>6. puts' \in [Putters -> PutType]
  BY Zenon, <1>1, <1>3 DEF x
<1>7. x.slot # 0
  BY <1>2, <1>4
<1>8. PutShape(x)
  BY <1>1, <1>4, <1>7 DEF PutShape, AtRest, InSlot, Allocating
<1>9. MovesOn(p)
  BY <1>4, <1>5, Zenon DEF MovesOn
<1> QED
  BY <1>5, <1>6, <1>8, <1>9

(***************************************************************************)
(* A put returns, or a panic ends it.                                      *)
(***************************************************************************)
Ends(p) ==
  /\ \A q \in Putters \ {p} : puts'[q] = puts[q]
  /\ puts'[p].pc \in AtRest
  /\ puts'[p].writable = {}
  /\ puts'[p].placed = <<>>

(***************************************************************************)
(* The end of a put, with or without a panic, clears its locals.           *)
(***************************************************************************)
LEMMA EndMoves ==
  ASSUME Shape, NEW p \in Putters,
         \/ puts' = [puts EXCEPT ![p] = NoPut]
         \/ puts' = [puts EXCEPT ![p] = [NoPut EXCEPT !.pc = "panicked"]]
  PROVE  puts' \in [Putters -> PutType] /\ PutShape(puts'[p]) /\ Ends(p)
<1>1. puts \in [Putters -> PutType]
  BY DEF Shape, Types
<1>2. PICK x \in {NoPut, [NoPut EXCEPT !.pc = "panicked"]} :
        puts' = [puts EXCEPT ![p] = x]
  BY Zenon
<1>3. x \in PutType /\ PutShape(x)
  BY NoPutType
<1>4. x.pc \in AtRest /\ x.writable = {} /\ x.placed = <<>>
  <2>1. /\ NoPut.pc = "idle" /\ [NoPut EXCEPT !.pc = "panicked"].pc = "panicked"
        /\ NoPut.writable = {} /\ [NoPut EXCEPT !.pc = "panicked"].writable = {}
        /\ NoPut.placed = <<>> /\ [NoPut EXCEPT !.pc = "panicked"].placed = <<>>
    BY DEF NoPut
  <2> QED
    BY <1>2, <2>1, Zenon DEF AtRest
<1>5. puts'[p] = x /\ \A q \in Putters \ {p} : puts'[q] = puts[q]
  BY <1>1, <1>2
<1>6. puts' \in [Putters -> PutType]
  BY Zenon, <1>1, <1>2, <1>3
<1>7. Ends(p)
  BY <1>4, <1>5, Zenon DEF Ends
<1> QED
  BY <1>3, <1>5, <1>6, <1>7

(***************************************************************************)
(* A put drops the buffers of the slot it failed to fill.                  *)
(***************************************************************************)
Drops(p) ==
  /\ \A q \in Putters \ {p} : puts'[q] = puts[q]
  /\ puts[p].pc \in InSlot /\ puts'[p].pc = "clear"
  /\ puts'[p].key = puts[p].key
  /\ puts'[p].spec = puts[p].spec
  /\ puts'[p].slot = puts[p].slot
  /\ puts'[p].writable = puts[p].writable
  /\ puts'[p].placed = <<>>

(***************************************************************************)
(* A failed put drops its buffers and keeps the rest.                      *)
(***************************************************************************)
LEMMA DropMoves ==
  ASSUME Shape, NEW p \in Putters, PutDrop(p)
  PROVE  puts' \in [Putters -> PutType] /\ PutShape(puts'[p]) /\ Drops(p)
<1> DEFINE x == [puts[p] EXCEPT !.pc = "clear", !.placed = <<>>]
<1>1. puts \in [Putters -> PutType] /\ puts[p] \in PutType /\ PutShape(puts[p])
  BY DEF Shape, Types
<1>2. puts[p].pc = "fail" /\ puts' = [puts EXCEPT ![p] = x]
  BY Zenon, <1>1 DEF PutDrop, PutType
<1>3. <<>> \in Seq(BufferType)
  OBVIOUS
<1>4. x \in PutType
  BY <1>1, <1>3, Zenon DEF PutType, InSlot
<1>5. /\ x.pc = "clear" /\ x.key = puts[p].key /\ x.spec = puts[p].spec
      /\ x.slot = puts[p].slot /\ x.writable = puts[p].writable
      /\ x.placed = <<>>
  BY <1>1 DEF PutType
<1> HIDE DEF x
<1>6. puts'[p] = x /\ \A q \in Putters \ {p} : puts'[q] = puts[q]
  BY <1>1, <1>2
<1>7. puts' \in [Putters -> PutType]
  BY Zenon, <1>1, <1>2, <1>4
<1>8. PutShape(x) /\ puts[p].pc \in InSlot
  BY <1>1, <1>2, <1>5 DEF PutShape, AtRest, InSlot, Allocating
<1>9. Drops(p)
  BY <1>5, <1>6, <1>8, Zenon DEF Drops
<1> QED
  BY <1>6, <1>7, <1>8, <1>9

(***************************************************************************)
(* A put begins: it claims what nobody has and is at its first slot.       *)
(***************************************************************************)
Starts(p, k, s) ==
  /\ \A q \in Putters \ {p} : puts'[q] = puts[q]
  /\ puts'[p].pc = "slot"
  /\ puts'[p].key = k
  /\ puts'[p].spec = s
  /\ puts'[p].slot = 1
  /\ puts'[p].writable = Claimable(k, s)
  /\ puts'[p].placed = <<>>

(***************************************************************************)
(* reserve starts a put at its first slot, with the slots it may fill.     *)
(***************************************************************************)
LEMMA ReserveMoves ==
  ASSUME Shape, NEW p \in Putters, NEW k \in Keys, NEW s \in Specs, PutReserve(p, k, s)
  PROVE  /\ puts' \in [Putters -> PutType] /\ PutShape(puts'[p]) /\ Starts(p, k, s)
         /\ Claimable(k, s) \subseteq Nat
<1> DEFINE C == Claimable(k, s)
           x == [NoPut EXCEPT !.pc = "slot", !.key = k, !.spec = s,
                              !.slot = 1, !.writable = C]
<1>1. puts \in [Putters -> PutType]
  BY DEF Shape, Types
<1>2. puts' = [puts EXCEPT ![p] = x]
  BY DEF PutReserve
<1>3. s \in ObjectSpec /\ s.slots \in Seq(SlotSpec) /\ C \subseteq DOMAIN s.slots
  BY SpecsAssumption DEF ObjectSpec, Claimable
<1> HIDE DEF C
<1>4. C \in SUBSET Nat
  BY <1>3
<1>5. x \in PutType
  BY <1>3, <1>4, NoPutType, Zenon DEF PutType
<1>6. x.pc = "slot" /\ x.key = k /\ x.spec = s /\ x.slot = 1 /\ x.writable = C
        /\ x.placed = <<>>
  BY DEF NoPut
<1> HIDE DEF x
<1>7. puts'[p] = x /\ \A q \in Putters \ {p} : puts'[q] = puts[q]
  BY <1>1, <1>2
<1>8. puts' \in [Putters -> PutType]
  BY Zenon, <1>1, <1>2, <1>5
<1>9. PutShape(x)
  BY <1>3, <1>6 DEF PutShape, AtRest, InSlot, Allocating
<1>10. Starts(p, k, s)
  BY <1>6, <1>7, Zenon DEF Starts, C
<1> QED
  BY <1>4, <1>7, <1>8, <1>9, <1>10 DEF C

(***************************************************************************)
(* A put allocates: one more buffer, from the bytes that were free.        *)
(***************************************************************************)
Buffer(p, off) ==
  [device |-> Target(p).device, misplaced |-> Target(p).misplaced, off |-> off,
   len |-> CurrentSlot(p).len]

Places(p, off) ==
  /\ \A q \in Putters \ {p} : puts'[q] = puts[q]
  /\ puts[p].pc \in InSlot /\ puts'[p].pc \in InSlot
  /\ puts'[p].key = puts[p].key
  /\ puts'[p].spec = puts[p].spec
  /\ puts'[p].slot = puts[p].slot
  /\ puts'[p].writable = puts[p].writable
  /\ puts'[p].placed = Append(puts[p].placed, Buffer(p, off))

(***************************************************************************)
(* An allocation adds a buffer to those of the put.                        *)
(***************************************************************************)
LEMMA AllocMoves ==
  ASSUME Shape, NEW p \in Putters, puts[p].pc \in Allocating, NEW off \in Int,
         puts' = [puts EXCEPT ![p] = Accepted(p, off)]
  PROVE  /\ puts' \in [Putters -> PutType] /\ PutShape(puts'[p]) /\ Places(p, off)
         /\ Buffer(p, off) \in BufferType
<1> DEFINE T == IF IsEach(p) THEN Tail(puts[p].targets) ELSE <<>>
           b == Buffer(p, off)
           B == Append(puts[p].placed, b)
           q == [puts[p] EXCEPT !.placed = B, !.targets = T]
           x == Settled(p, q)
<1>1. puts \in [Putters -> PutType] /\ puts[p] \in PutType /\ PutShape(puts[p])
  BY DEF Shape, Types
<1>2. T \in Seq(TargetType)
  BY TargetIsPool
<1>3. Accepted(p, off) = x
  BY DEF Accepted, Buffer
<1>4. puts[p].slot \in puts[p].writable /\ puts[p].pc \in InSlot
  BY <1>1 DEF PutShape, InSlot
<1>5. b \in BufferType
  <2>1. CurrentSlot(p).len \in Nat \ {0}
    BY <1>4, CurrentSlotType
  <2>2. Target(p).device \in Pools /\ Target(p).misplaced \in BOOLEAN
    BY TargetIsPool DEF TargetType
  <2> QED
    BY <2>1, <2>2, Zenon DEF BufferType, Buffer
<1> HIDE DEF T, b
<1>6. B \in Seq(BufferType)
  BY <1>1, <1>5 DEF PutType
<1> HIDE DEF B
<1>7. q \in PutType
  BY Zenon, <1>1, <1>2, <1>6 DEF PutType
<1>8. /\ q.key = puts[p].key /\ q.spec = puts[p].spec
      /\ q.slot = puts[p].slot /\ q.writable = puts[p].writable /\ q.placed = B
  BY <1>1 DEF PutType
<1> HIDE DEF q
<1>9. q.spec \in Specs /\ q.slot # 0 /\ q.writable \subseteq DOMAIN q.spec.slots
        /\ q.slot \in q.writable
  BY <1>1, <1>8 DEF PutShape, AtRest, InSlot, Allocating
<1>10. PutShape(x)
  BY <1>7, <1>9, SettledShape
<1>11. /\ x \in PutType /\ x.pc \in InSlot
       /\ x.key = puts[p].key /\ x.spec = puts[p].spec
       /\ x.slot = puts[p].slot /\ x.writable = puts[p].writable
       /\ x.placed = B
  BY <1>7, <1>8, SettledType DEF InSlot, Allocating
<1> HIDE DEF x
<1>12. puts'[p] = x /\ \A r \in Putters \ {p} : puts'[r] = puts[r]
  BY <1>1, <1>3
<1>13. puts' \in [Putters -> PutType]
  BY Zenon, <1>1, <1>3, <1>11
<1>14. Places(p, off)
  BY <1>4, <1>11, <1>12, Zenon DEF Places, B, b
<1> QED
  BY <1>5, <1>10, <1>12, <1>13, <1>14 DEF b

(***************************************************************************)
(* The locals of every thread keep their type and hang together.           *)
(***************************************************************************)
LEMMA PutsStep ==
  ASSUME Shape, [Next]_vars
  PROVE  puts' \in [Putters -> PutType] /\ \A p \in Putters : PutShape(puts'[p])
<1> DEFINE Goal == puts' \in [Putters -> PutType] /\ \A p \in Putters : PutShape(puts'[p])
<1>1. puts \in [Putters -> PutType] /\ \A p \in Putters : PutShape(puts[p])
  BY DEF Shape, Types
<1>2. ASSUME NEW p \in Putters, puts' \in [Putters -> PutType], PutShape(puts'[p]),
             \A q \in Putters \ {p} : puts'[q] = puts[q]
      PROVE  Goal
  BY <1>1, <1>2
<1>3. CASE puts' = puts
  BY <1>1, <1>3
<1>4. ASSUME NEW p \in Putters, PutStep(p) PROVE Goal
  <2>1. CASE StaysAtSlot(p)
    <3>1. puts' \in [Putters -> PutType] /\ PutShape(puts'[p]) /\ SameSlot(p)
      BY <2>1, StaysMoves
    <3> QED
      BY <1>2, <3>1 DEF SameSlot
  <2>2. CASE PutSkip(p) \/ PutPublish(p) \/ PutClear(p)
    <3>1. puts[p].pc \notin AtRest /\ puts' = [puts EXCEPT ![p] = NextSlot(p)]
      BY <2>2 DEF PutSkip, PutPublish, PutClear, AtRest
    <3>2. puts' \in [Putters -> PutType] /\ PutShape(puts'[p]) /\ MovesOn(p)
      BY Zenon, <3>1, NextSlotMoves
    <3> QED
      BY <1>2, <3>2 DEF MovesOn
  <2>3. CASE PutReturn(p) \/ EvictPanic(p) \/ PutPanic(p) \/ PutPoisoned(p)
    <3>1. \/ puts' = [puts EXCEPT ![p] = NoPut]
          \/ puts' = [puts EXCEPT ![p] = [NoPut EXCEPT !.pc = "panicked"]]
      BY <2>3, Zenon DEF PutReturn, EvictPanic, PutPanic, PutPoisoned, Unwind
    <3>2. puts' \in [Putters -> PutType] /\ PutShape(puts'[p]) /\ Ends(p)
      BY <3>1, EndMoves
    <3> QED
      BY <1>2, <3>2 DEF Ends
  <2>4. CASE PutDrop(p)
    <3>1. puts' \in [Putters -> PutType] /\ PutShape(puts'[p]) /\ Drops(p)
      BY <2>4, DropMoves
    <3> QED
      BY <1>2, <3>1 DEF Drops
  <2>5. CASE PutAlloc(p)
    <3>1. puts[p].pc \in Allocating /\ \E off \in Fit(p) :
            puts' = [puts EXCEPT ![p] = Accepted(p, off)]
      BY <2>5, Zenon DEF PutAlloc, Allocating
    <3>2. Fit(p) \subseteq Int
      BY <3>1, TargetIsPool DEF Fit, FirstFit, Runs, Shape, Types
    <3>3. PICK off \in Int : puts' = [puts EXCEPT ![p] = Accepted(p, off)]
      BY Zenon, <3>1, <3>2
    <3>4. puts' \in [Putters -> PutType] /\ PutShape(puts'[p]) /\ Places(p, off)
      BY Zenon, <3>1, <3>3, AllocMoves
    <3> QED
      BY <1>2, <3>4 DEF Places
  <2> QED
    BY <1>4, <2>1, <2>2, <2>3, <2>4, <2>5, Zenon DEF PutStep, StaysAtSlot
<1>5. ASSUME NEW p \in Putters, NEW k \in Keys, NEW s \in Specs, PutReserve(p, k, s)
      PROVE  Goal
  <2>1. puts' \in [Putters -> PutType] /\ PutShape(puts'[p]) /\ Starts(p, k, s)
    BY <1>5, ReserveMoves
  <2> QED
    BY <1>2, <2>1 DEF Starts
<1>6. \/ puts' = puts
      \/ \E p \in Putters : PutStep(p) \/ \E k \in Keys, s \in Specs : PutReserve(p, k, s)
  BY Zenon DEF Next, vars, Register, DropRegion, Publish, GetPick, GetEnd, Remove,
     DmaEnds, CallPanics
<1> QED
  BY <1>3, <1>4, <1>5, <1>6, Zenon

(***************************************************************************)
(* What put publishes, and what clients publish, are replicas.             *)
(***************************************************************************)
LEMMA NewReplicaType ==
  ASSUME Shape, NEW p \in Putters, NEW n \in DOMAIN puts[p].placed
  PROVE  /\ NewReplica(p, n) \in LocalReplica /\ IsOwned(NewReplica(p, n))
         /\ puts[p].placed[n] \in BufferType
         /\ NewReplica(p, n).device = puts[p].placed[n].device
         /\ NewReplica(p, n).off = puts[p].placed[n].off
         /\ NewReplica(p, n).len = puts[p].placed[n].len
         /\ NewReplica(p, n).key = puts[p].key
         /\ NewReplica(p, n).slot = puts[p].slot
         /\ NewReplica(p, n).by = p
         /\ NewReplica(p, n).nth = n
         /\ NewReplica(p, n).misplaced = puts[p].placed[n].misplaced
<1>1. puts[p].placed \in Seq(BufferType) /\ puts[p].key \in Keys /\ puts[p].slot \in Nat
  BY DEF Shape, Types, PutType
<1>2. puts[p].placed[n] \in BufferType /\ n \in Nat
  BY <1>1
<1>3. NewReplica(p, n) \in PinnedReplica
  BY Zenon, <1>1, <1>2 DEF NewReplica, PinnedReplica, BufferType
<1> QED
  BY Zenon, <1>2, <1>3 DEF LocalReplica, NewReplica, IsOwned

(***************************************************************************)
(* A published replica is external, and names the regions of its source.   *)
(***************************************************************************)
LEMMA ExternalReplicaType ==
  ASSUME NEW k \in Keys, NEW i \in Nat, NEW src \in PublishSrcs, NEW r,
         r = ExternalReplica(k, i, src.len, RegionDevice[src.regions[1]], src.regions)
  PROVE  /\ r \in LocalReplica /\ ~IsOwned(r) /\ r.region_id = src.regions[1]
         /\ r.key = k /\ r.slot = i
         /\ r.segs = {src.regions[n] : n \in DOMAIN src.regions}
<1> DEFINE G == {src.regions[n] : n \in DOMAIN src.regions}
<1>1. src.regions \in Seq(Regions) /\ src.len \in Nat /\ src.regions # <<>>
  BY LocalAssumption
<1>2. src.regions[1] \in Regions /\ RegionDevice[src.regions[1]] \in Devices
        /\ G \in SUBSET Regions
  BY <1>1, LocalAssumption
<1>3. /\ r.tier = "External" /\ r.region_id = src.regions[1]
      /\ r.key = k /\ r.slot = i /\ r.segs = G
  BY DEF ExternalReplica
<1> HIDE DEF G
<1>4. r = [key |-> k, slot |-> i, nth |-> 0, len |-> src.len,
           device |-> RegionDevice[src.regions[1]], tier |-> "External",
           misplaced |-> FALSE, segs |-> G, region_id |-> src.regions[1]]
  BY DEF ExternalReplica, G
<1>5. r \in Replica
  BY <1>1, <1>2, <1>4 DEF Replica
<1>6. r \in LocalReplica /\ ~IsOwned(r)
  BY <1>3, <1>5 DEF LocalReplica, IsOwned
<1> QED
  BY Zenon, <1>3, <1>6 DEF G

(***************************************************************************)
(* A fresh store is well-formed.                                           *)
(***************************************************************************)
LEMMA ShapeInit == Init => Shape
<1> SUFFICES ASSUME Init PROVE Shape
  OBVIOUS
<1>1. puts \in [Putters -> PutType] /\ \A p \in Putters : PutShape(puts[p])
  BY NoPutType DEF Init
<1>2. \A d \in Pools : 0 .. Capacity[d] - 1 \in SUBSET Int
  OBVIOUS
<1>3. <<>> \in Seq(Entry)
  OBVIOUS
<1>4. Types
  BY <1>1, <1>2, <1>3, Zenon DEF Init, Types
<1> QED
  BY <1>1, <1>4 DEF Shape

(***************************************************************************)
(* The units that go back to a pool are units.                             *)
(***************************************************************************)
LEMMA UnitsGoBack ==
  ASSUME Shape
  PROVE  /\ \A d \in Pools, R \in SUBSET LocalReplica : Unlinked(R, d) \subseteq Int
         /\ \A d \in Pools, p \in Putters : Unplaced(p, d) \subseteq Int
         /\ \A d \in Pools, g \in Getters : Unread(g, d) \subseteq Int
<1>1. \A x : Extent(x) \subseteq Int
  BY DEF Extent, Cells
<1> QED
  BY <1>1 DEF Unlinked, Unplaced, Unread

(***************************************************************************)
(* The metadata keeps its type.                                            *)
(***************************************************************************)
LEMMA MetadataStep ==
  ASSUME Shape, [Next]_vars
  PROVE  /\ objects' \in [Keys -> Specs \cup {NoObject}]
         /\ reps' \subseteq LocalReplica
         /\ writing' \in [Keys -> SUBSET Nat]
         /\ regions' \in [Regions -> {"new", "live", "dropped"}]
         /\ gets' \in [Getters -> LocalReplica \cup {NoRead}]
         /\ poisoned' \in BOOLEAN
<1> DEFINE Goal ==
      /\ objects' \in [Keys -> Specs \cup {NoObject}]
      /\ reps' \subseteq LocalReplica
      /\ writing' \in [Keys -> SUBSET Nat]
      /\ regions' \in [Regions -> {"new", "live", "dropped"}]
      /\ gets' \in [Getters -> LocalReplica \cup {NoRead}]
      /\ poisoned' \in BOOLEAN
<1>0. /\ objects \in [Keys -> Specs \cup {NoObject}]
      /\ reps \subseteq LocalReplica
      /\ writing \in [Keys -> SUBSET Nat]
      /\ regions \in [Regions -> {"new", "live", "dropped"}]
      /\ gets \in [Getters -> LocalReplica \cup {NoRead}]
      /\ poisoned \in BOOLEAN
  BY DEF Shape, Types
<1>1. ASSUME NEW g \in Regions, Register(g) PROVE Goal
  BY <1>0, <1>1, Zenon DEF Register
<1>2. ASSUME NEW g \in Regions, DropRegion(g) PROVE Goal
  <2>1. reps' \subseteq reps
    BY <1>2 DEF DropRegion, Retained
  <2> QED
    BY <1>0, <1>2, <2>1, Zenon DEF DropRegion
<1>3. ASSUME NEW k \in Keys, NEW i \in DOMAIN objects[k].slots, NEW src \in PublishSrcs,
             Publish(k, i, src)
      PROVE  Goal
  <2>1. objects[k].slots \in Seq(SlotSpec)
    BY <1>0, SpecsAssumption DEF ObjectSpec, NoObject
  <2>2. i \in Nat
    BY <2>1
  <2>3. ExternalReplica(k, i, src.len, RegionDevice[src.regions[1]], src.regions)
          \in LocalReplica
    BY <2>2, ExternalReplicaType
  <2>4. reps' \subseteq LocalReplica
    BY <1>0, <1>3, <2>3, Zenon DEF Publish
  <2> QED
    BY <1>0, <1>3, <2>4, Zenon DEF Publish
<1>4. ASSUME NEW k \in Keys, NEW i \in DOMAIN objects[k].slots, NEW g \in Getters,
             GetPick(g, k, i)
      PROVE  Goal
  <2>1. PICK r \in reps : gets' = [gets EXCEPT ![g] = r]
    BY Zenon, <1>4 DEF GetPick, Slot
  <2> QED
    BY <1>0, <1>4, <2>1, Zenon DEF GetPick
<1>5. ASSUME NEW g \in Getters, NEW f \in CopyFaults \cup {"none"}, GetEnd(g, f)
      PROVE  Goal
  BY <1>0, <1>5, Zenon DEF GetEnd
<1>6. ASSUME NEW ks \in Removals, Remove(ks) PROVE Goal
  <2>1. reps' \subseteq reps
    BY <1>6 DEF Remove
  <2> QED
    BY <1>0, <1>6, <2>1, Zenon DEF Remove
<1>7. ASSUME NEW p \in Putters, NEW k \in Keys, NEW s \in Specs, PutReserve(p, k, s)
      PROVE  Goal
  <2>1. Claimable(k, s) \subseteq Nat
    BY <1>7, ReserveMoves
  <2>2. writing[k] \cup Claimable(k, s) \in SUBSET Nat
    BY <1>0, <2>1
  <2> QED
    BY <1>0, <1>7, <2>2, Zenon DEF PutReserve
<1>8. ASSUME NEW p \in Putters, EvictEntry(p) PROVE Goal
  <2>1. reps' \subseteq reps
    BY <1>8 DEF EvictEntry
  <2>2. objects' \in [Keys -> Specs \cup {NoObject}]
    BY <1>0, <1>8, Zenon DEF EvictEntry
  <2> QED
    BY <1>0, <1>8, <2>1, <2>2, Zenon DEF EvictEntry
<1>9. ASSUME NEW p \in Putters, PutPublish(p) PROVE Goal
  <2>1. reps' \subseteq LocalReplica
    BY <1>0, <1>9, NewReplicaType DEF PutPublish
  <2>2. writing[puts[p].key] \ {puts[p].slot} \in SUBSET Nat
    BY <1>0 DEF Shape, Types, PutType
  <2> QED
    BY <1>0, <1>9, <2>1, <2>2, Zenon DEF PutPublish
<1>10. ASSUME NEW p \in Putters, PutClear(p) PROVE Goal
  <2>1. Unclaimed(puts[p].key, puts[p].slot) \in SUBSET Nat
    BY <1>0 DEF Shape, Types, PutType, Unclaimed
  <2> QED
    BY <1>0, <1>10, <2>1, Zenon DEF PutClear
<1>11. ASSUME NEW p \in Putters, EvictPanic(p) \/ PutPanic(p) \/ PutPoisoned(p)
       PROVE  Goal
  BY <1>0, <1>11, Zenon DEF EvictPanic, PutPanic, PutPoisoned, Unwind
<1>12. CASE UNCHANGED <<objects, reps, writing, regions, gets, poisoned>>
  BY <1>0, <1>12
<1>13. ASSUME NEW p \in Putters, PutStep(p) PROVE Goal
  <2>1. \/ EvictEntry(p) \/ PutPublish(p) \/ PutClear(p)
        \/ EvictPanic(p) \/ PutPanic(p) \/ PutPoisoned(p)
        \/ UNCHANGED <<objects, reps, writing, regions, gets, poisoned>>
    BY <1>13, Zenon DEF PutStep, PutSkip, PutReturn, PutResolve, PutAlloc, PutTooLarge,
       PutNoSpace, PutMustEvict, EvictBegin, EvictDefer, EvictForget, EvictNothing,
       PutCopied, PutCopyFails, PutGone, PutDrop
  <2> QED
    BY <1>8, <1>9, <1>10, <1>11, <1>12, <2>1
<1>14. CASE UNCHANGED vars \/ DmaEnds \/ CallPanics
  BY <1>12, <1>14, Zenon DEF vars, DmaEnds, CallPanics
<1> QED
  BY <1>1, <1>2, <1>3, <1>4, <1>5, <1>6, <1>7, <1>13, <1>14, Zenon DEF Next

(***************************************************************************)
(* A published slot is queued on the device of every buffer placed for it. *)
(* The entries are counted, so this takes facts about cardinality: it is   *)
(* NewEntriesType of LocalIndexProofs.                                     *)
(***************************************************************************)
EntriesWell ==
  \A p \in Putters, d \in Pools :
    /\ NewEntries(p, d) \in Seq(Entry)
    /\ \A m \in DOMAIN puts[p].placed : puts[p].placed[m].device = d =>
         \E n \in DOMAIN NewEntries(p, d) : NewEntries(p, d)[n] = <<puts[p].key, puts[p].slot>>

(***************************************************************************)
(* The queues and the pools keep their type.                               *)
(***************************************************************************)
LEMMA PoolsStep ==
  ASSUME Shape, EntriesWell, [Next]_vars
  PROVE  fifo' \in [Pools -> Seq(Entry)] /\ free' \in [Pools -> SUBSET Int]
<1> DEFINE Goal == fifo' \in [Pools -> Seq(Entry)] /\ free' \in [Pools -> SUBSET Int]
<1>0. fifo \in [Pools -> Seq(Entry)] /\ free \in [Pools -> SUBSET Int]
  BY DEF Shape, Types
<1>1. ASSUME NEW g \in Getters, NEW f \in CopyFaults \cup {"none"}, GetEnd(g, f)
      PROVE  Goal
  <2>1. \A d \in Pools : free[d] \cup Unread(g, d) \in SUBSET Int
    BY <1>0, UnitsGoBack
  <2> QED
    BY <1>0, <1>1, <2>1, Zenon DEF GetEnd
<1>2. ASSUME NEW ks \in Removals, Remove(ks) PROVE Goal
  <2> DEFINE R == {r \in reps : r.key \in ks}
  <2>1. R \in SUBSET LocalReplica
    BY DEF Shape, Types
  <2>2. fifo' = fifo /\ free' = [d \in Pools |-> free[d] \cup Unlinked(R, d)]
    BY <1>2 DEF Remove
  <2> HIDE DEF R
  <2>3. \A d \in Pools : free[d] \cup Unlinked(R, d) \in SUBSET Int
    BY <1>0, <2>1, UnitsGoBack
  <2> QED
    BY <1>0, <2>2, <2>3, Zenon
<1>3. ASSUME NEW p \in Putters, PutAlloc(p) PROVE Goal
  <2>1. PICK off : /\ fifo' = fifo
                   /\ free' = [free EXCEPT ![Target(p).device] =
                                 @ \ Cells(off, CurrentSlot(p).len)]
    BY <1>3, Zenon DEF PutAlloc
  <2>2. \A d \in Pools : free[d] \ Cells(off, CurrentSlot(p).len) \in SUBSET Int
    BY <1>0
  <2> QED
    BY <1>0, <2>1, <2>2, Zenon
<1>4. ASSUME NEW p \in Putters, EvictDefer(p) \/ EvictForget(p) PROVE Goal
  <2>1. /\ PopEntry(p) /\ free' = free
        /\ fifo' = [fifo EXCEPT ![Target(p).device] = Tail(@)]
    BY <1>4 DEF EvictDefer, EvictForget
  <2>2. Tail(fifo[Target(p).device]) \in Seq(Entry)
    BY <2>1, PoppedType
  <2> QED
    BY <1>0, <2>1, <2>2, Zenon
<1>5. ASSUME NEW p \in Putters, EvictEntry(p) PROVE Goal
  <2> DEFINE d == Target(p).device
             V == Victims(Popped(p)[1], Popped(p)[2], d)
  <2>1. /\ PopEntry(p)
        /\ free' = [free EXCEPT ![d] = @ \cup Unlinked(V, d)]
        /\ \/ fifo' = [fifo EXCEPT ![d] = Restored(p, Tail(@))]
           \/ fifo' = [fifo EXCEPT ![d] = Tail(@)]
    BY <1>5, Zenon DEF EvictEntry
  <2>2. d \in Pools /\ Tail(fifo[d]) \in Seq(Entry)
    BY <2>1, PoppedType
  <2>3. V \in SUBSET LocalReplica
    BY DEF Victims, Slot, Shape, Types
  <2> HIDE DEF V, d
  <2>4. free[d] \cup Unlinked(V, d) \in SUBSET Int
    BY <1>0, <2>2, <2>3, UnitsGoBack
  <2>5. Restored(p, Tail(fifo[d])) \in Seq(Entry)
    <3>1. puts[p].deferred \in Seq(Entry)
      BY DEF Shape, Types, PutType
    <3> QED
      BY <2>2, <3>1, SeqConcat DEF Restored
  <2> QED
    BY <1>0, <2>1, <2>2, <2>4, <2>5, Zenon
<1>6. ASSUME NEW p \in Putters, EvictNothing(p) PROVE Goal
  <2> DEFINE d == Target(p).device
  <2>1. puts[p].pc \in Allocating /\ free' = free
          /\ fifo' = [fifo EXCEPT ![d] = Restored(p, @)]
    BY <1>6 DEF EvictNothing, Allocating
  <2>2. d \in Pools /\ fifo[d] \in Seq(Entry)
    BY <1>0, <2>1, TargetIsPool
  <2> HIDE DEF d
  <2>3. Restored(p, fifo[d]) \in Seq(Entry)
    <3>1. puts[p].deferred \in Seq(Entry)
      BY DEF Shape, Types, PutType
    <3> QED
      BY <2>2, <3>1, SeqConcat DEF Restored
  <2> QED
    BY <1>0, <2>1, <2>2, <2>3, Zenon
<1>7. ASSUME NEW p \in Putters, EvictPanic(p) \/ PutPanic(p) \/ PutPoisoned(p) \/ PutDrop(p)
      PROVE  Goal
  <2>1. \A d \in Pools : free[d] \cup Unplaced(p, d) \in SUBSET Int
    BY <1>0, UnitsGoBack
  <2>2. /\ free' = [d \in Pools |-> free[d] \cup Unplaced(p, d)]
        /\ \/ fifo' = fifo
           \/ PopEntry(p) /\ fifo' = [fifo EXCEPT ![Target(p).device] = Tail(@)]
    BY <1>7, Zenon DEF EvictPanic, PutPanic, PutPoisoned, PutDrop, Unwind
  <2>3. PopEntry(p) => Tail(fifo[Target(p).device]) \in Seq(Entry)
    BY PoppedType
  <2> QED
    BY <1>0, <2>1, <2>2, <2>3, Zenon
<1>8. ASSUME NEW p \in Putters, PutPublish(p) PROVE Goal
  <2>1. ASSUME NEW d \in Pools PROVE Queue(p, d) \in Seq(Entry)
    <3>1. NewEntries(p, d) \in Seq(Entry)
      BY Zenon DEF EntriesWell
    <3> QED
      BY <1>0, <3>1, SeqConcat DEF Queue
  <2> QED
    BY <1>0, <1>8, <2>1, Zenon DEF PutPublish
<1>9. CASE UNCHANGED <<fifo, free>>
  BY <1>0, <1>9
<1>10. ASSUME NEW p \in Putters, PutStep(p) PROVE Goal
  <2>1. \/ PutAlloc(p) \/ EvictDefer(p) \/ EvictForget(p) \/ EvictEntry(p) \/ EvictNothing(p)
        \/ EvictPanic(p) \/ PutPanic(p) \/ PutPoisoned(p) \/ PutDrop(p) \/ PutPublish(p)
        \/ UNCHANGED <<fifo, free>>
    BY <1>10, Zenon DEF PutStep, PutSkip, PutReturn, PutResolve, PutTooLarge,
       PutNoSpace, PutMustEvict, EvictBegin, PutCopied, PutCopyFails, PutGone, PutClear
  <2> QED
    BY <1>3, <1>4, <1>5, <1>6, <1>7, <1>8, <1>9, <2>1
<1>11. \/ UNCHANGED <<fifo, free>>
       \/ \E g \in Getters, f \in CopyFaults \cup {"none"} : GetEnd(g, f)
       \/ \E ks \in Removals : Remove(ks)
       \/ \E p \in Putters : PutStep(p)
  BY Zenon DEF Next, vars, Register, DropRegion, Publish, GetPick,
     DmaEnds, CallPanics, PutReserve
<1> QED
  BY <1>1, <1>2, <1>9, <1>10, <1>11, Zenon

(***************************************************************************)
(* Every step keeps the store well-formed.                                 *)
(***************************************************************************)
LEMMA ShapeStep == Shape /\ EntriesWell /\ [Next]_vars => Shape'
<1> SUFFICES ASSUME Shape, EntriesWell, [Next]_vars PROVE Shape'
  OBVIOUS
<1> QED
  BY PutsStep, MetadataStep, PoolsStep, Zenon DEF Shape, Types

-----------------------------------------------------------------------------
(***************************************************************************)
(* OneOwner, thread by thread and unit by unit.                            *)
(***************************************************************************)
PlacedAt(p, d) == {m \in DOMAIN puts[p].placed : puts[p].placed[m].device = d}

BufExtent(p, m) == Extent(puts[p].placed[m])

OwnedOnceOn(d) ==
  /\ \A r, q \in LiveOn(d) : r # q => Extent(r) \cap Extent(q) = {}
  /\ \A p, q \in Putters : \A m \in PlacedAt(p, d), n \in PlacedAt(q, d) :
       p # q \/ m # n => BufExtent(p, m) \cap BufExtent(q, n) = {}
  /\ \A r \in LiveOn(d), p \in Putters : \A m \in PlacedAt(p, d) :
       Extent(r) \cap BufExtent(p, m) = {}
  /\ \A r \in LiveOn(d) : Extent(r) \cap free[d] = {}
  /\ \A p \in Putters : \A m \in PlacedAt(p, d) : BufExtent(p, m) \cap free[d] = {}

Used(d, c) ==
  \/ \E r \in LiveOn(d) : c \in Extent(r)
  \/ \E p \in Putters : \E m \in PlacedAt(p, d) : c \in BufExtent(p, m)

OwnedOn(d) ==
  OwnedOnceOn(d) /\ \A c : c \in 0 .. Capacity[d] - 1 <=> c \in free[d] \/ Used(d, c)

Owned == \A d \in Pools : OwnedOn(d)

(***************************************************************************)
(* The two ways to say it agree.                                           *)
(***************************************************************************)
LEMMA OwnedIsOneOwner == Owned <=> OneOwner
<1> DEFINE Lived(d) == UNION {Extent(r) : r \in LiveOn(d)}
           Held(d) == UNION {PlacedExtent(x) : x \in PlacedOn(d)}
           All(d) == 0 .. Capacity[d] - 1
           Apart(d) ==
             /\ \A r, q \in LiveOn(d) : r # q => Extent(r) \cap Extent(q) = {}
             /\ \A x, y \in PlacedOn(d) :
                  x # y => PlacedExtent(x) \cap PlacedExtent(y) = {}
             /\ \A r \in LiveOn(d), x \in PlacedOn(d) : Extent(r) \cap PlacedExtent(x) = {}
             /\ \A r \in LiveOn(d) : Extent(r) \cap free[d] = {}
             /\ \A x \in PlacedOn(d) : PlacedExtent(x) \cap free[d] = {}
           Covered(d) == All(d) = free[d] \cup Lived(d) \cup Held(d)
           Counted(d) == \A c : c \in All(d) <=> c \in free[d] \/ Used(d, c)
<1>a. OneOwner <=> \A d \in Pools : Apart(d) /\ Covered(d)
  <2>1. NoReuse <=> \A d \in Pools : Apart(d)
    BY DEF NoReuse
  <2>2. NoLeak <=> \A d \in Pools : Covered(d)
    BY DEF NoLeak
  <2> HIDE DEF Apart, Covered
  <2> QED
    BY <2>1, <2>2 DEF OneOwner
<1>b. Owned <=> \A d \in Pools : OwnedOnceOn(d) /\ Counted(d)
  BY Zenon DEF Owned, OwnedOn
<1> SUFFICES ASSUME NEW d \in Pools
             PROVE  (OwnedOnceOn(d) <=> Apart(d)) /\ (Counted(d) <=> Covered(d))
  <2> HIDE DEF Apart, Covered, Counted
  <2> QED
    BY <1>a, <1>b
<1>1. \A p \in Putters : \A m : m \in PlacedAt(p, d) =>
        <<p, m>> \in PlacedOn(d) /\ PlacedExtent(<<p, m>>) = BufExtent(p, m)
  BY DEF PlacedAt, PlacedOn, PlacedExtent, BufExtent
<1>2. \A x \in PlacedOn(d) :
        /\ x = <<x[1], x[2]>> /\ x[1] \in Putters /\ x[2] \in PlacedAt(x[1], d)
        /\ PlacedExtent(x) = BufExtent(x[1], x[2])
  BY DEF PlacedAt, PlacedOn, PlacedExtent, BufExtent
<1> HIDE DEF PlacedAt, PlacedOn, PlacedExtent, BufExtent, LiveOn, Extent
<1>3. (\A x, y \in PlacedOn(d) : x # y => PlacedExtent(x) \cap PlacedExtent(y) = {})
       <=> \A p, q \in Putters : \A m \in PlacedAt(p, d), n \in PlacedAt(q, d) :
             p # q \/ m # n => BufExtent(p, m) \cap BufExtent(q, n) = {}
  <2>1. ASSUME \A x, y \in PlacedOn(d) : x # y => PlacedExtent(x) \cap PlacedExtent(y) = {},
               NEW p \in Putters, NEW q \in Putters,
               NEW m \in PlacedAt(p, d), NEW n \in PlacedAt(q, d), p # q \/ m # n
        PROVE  BufExtent(p, m) \cap BufExtent(q, n) = {}
    <3>1. <<p, m>> \in PlacedOn(d) /\ <<q, n>> \in PlacedOn(d) /\ <<p, m>> # <<q, n>>
      BY <1>1, <2>1
    <3> QED
      BY <1>1, <2>1, <3>1
  <2>2. ASSUME \A p, q \in Putters : \A m \in PlacedAt(p, d), n \in PlacedAt(q, d) :
                 p # q \/ m # n => BufExtent(p, m) \cap BufExtent(q, n) = {},
               NEW x \in PlacedOn(d), NEW y \in PlacedOn(d), x # y
        PROVE  PlacedExtent(x) \cap PlacedExtent(y) = {}
    <3>1. x[1] # y[1] \/ x[2] # y[2]
      BY <1>2, <2>2
    <3> QED
      BY <1>2, <2>2, <3>1
  <2> QED
    BY <2>1, <2>2
<1>4. (\A r \in LiveOn(d), x \in PlacedOn(d) : Extent(r) \cap PlacedExtent(x) = {})
       <=> \A r \in LiveOn(d), p \in Putters : \A m \in PlacedAt(p, d) :
             Extent(r) \cap BufExtent(p, m) = {}
  <2>1. ASSUME \A r \in LiveOn(d), x \in PlacedOn(d) : Extent(r) \cap PlacedExtent(x) = {},
               NEW r \in LiveOn(d), NEW p \in Putters, NEW m \in PlacedAt(p, d)
        PROVE  Extent(r) \cap BufExtent(p, m) = {}
    <3>1. <<p, m>> \in PlacedOn(d) /\ PlacedExtent(<<p, m>>) = BufExtent(p, m)
      BY <1>1
    <3> QED
      BY <2>1, <3>1
  <2>2. ASSUME \A r \in LiveOn(d), p \in Putters : \A m \in PlacedAt(p, d) :
                 Extent(r) \cap BufExtent(p, m) = {},
               NEW r \in LiveOn(d), NEW x \in PlacedOn(d)
        PROVE  Extent(r) \cap PlacedExtent(x) = {}
    BY <1>2, <2>2
  <2> QED
    BY <2>1, <2>2, Zenon
<1>5. (\A x \in PlacedOn(d) : PlacedExtent(x) \cap free[d] = {})
       <=> \A p \in Putters : \A m \in PlacedAt(p, d) : BufExtent(p, m) \cap free[d] = {}
  <2>1. ASSUME \A x \in PlacedOn(d) : PlacedExtent(x) \cap free[d] = {},
               NEW p \in Putters, NEW m \in PlacedAt(p, d)
        PROVE  BufExtent(p, m) \cap free[d] = {}
    <3>1. <<p, m>> \in PlacedOn(d) /\ PlacedExtent(<<p, m>>) = BufExtent(p, m)
      BY <1>1
    <3> QED
      BY <2>1, <3>1
  <2>2. ASSUME \A p \in Putters : \A m \in PlacedAt(p, d) : BufExtent(p, m) \cap free[d] = {},
               NEW x \in PlacedOn(d)
        PROVE  PlacedExtent(x) \cap free[d] = {}
    BY <1>2, <2>2
  <2> QED
    BY <2>1, <2>2, Zenon
<1>6. ASSUME NEW c
      PROVE  Used(d, c) <=> c \in Lived(d) \/ c \in Held(d)
  <2>1. c \in Lived(d) <=> \E r \in LiveOn(d) : c \in Extent(r)
    OBVIOUS
  <2>2. c \in Held(d) <=> \E x \in PlacedOn(d) : c \in PlacedExtent(x)
    OBVIOUS
  <2>3. ASSUME NEW p \in Putters, NEW m \in PlacedAt(p, d), c \in BufExtent(p, m)
        PROVE  \E x \in PlacedOn(d) : c \in PlacedExtent(x)
    <3>1. <<p, m>> \in PlacedOn(d) /\ PlacedExtent(<<p, m>>) = BufExtent(p, m)
      BY <1>1
    <3> QED
      BY <2>3, <3>1
  <2>4. ASSUME NEW x \in PlacedOn(d), c \in PlacedExtent(x)
        PROVE  \E p \in Putters : \E m \in PlacedAt(p, d) : c \in BufExtent(p, m)
    BY <1>2, <2>4
  <2> HIDE DEF Lived, Held
  <2> QED
    BY <2>1, <2>2, <2>3, <2>4, Zenon DEF Used
<1> HIDE DEF Lived, Held, All
<1>7. (\A c : c \in All(d) <=> c \in free[d] \/ Used(d, c)) <=> All(d) = free[d] \cup Lived(d) \cup Held(d)
  BY <1>6
<1>8. OwnedOnceOn(d) <=> Apart(d)
  BY <1>3, <1>4, <1>5, Zenon DEF OwnedOnceOn
<1> QED
  BY <1>7, <1>8, Zenon

(***************************************************************************)
(* Ownership does not change: the same live replicas, buffers and free     *)
(* units.                                                                  *)
(***************************************************************************)
LEMMA OwnedKept ==
  ASSUME Owned, free' = free, \A d \in Pools : LiveOn(d)' = LiveOn(d),
         \A p \in Putters : puts'[p].placed = puts[p].placed
  PROVE  Owned'
<1> SUFFICES ASSUME NEW d \in Pools PROVE OwnedOn(d)'
  BY DEF Owned
<1>1. OwnedOn(d) /\ LiveOn(d)' = LiveOn(d) /\ free'[d] = free[d]
  BY DEF Owned
<1>2. \A p \in Putters : PlacedAt(p, d)' = PlacedAt(p, d)
  BY DEF PlacedAt
<1>3. \A p \in Putters : \A m : BufExtent(p, m)' = BufExtent(p, m)
  BY DEF BufExtent
<1> HIDE DEF Extent, LiveOn, PlacedAt, BufExtent
<1>4. OwnedOnceOn(d)'
  BY <1>1, <1>2, <1>3 DEF OwnedOn, OwnedOnceOn
<1>5. \A c : Used(d, c)' <=> Used(d, c)
  BY <1>1, <1>2, <1>3, Zenon DEF Used
<1> QED
  BY <1>1, <1>4, <1>5, Zenon DEF OwnedOn

(***************************************************************************)
(* The store lets go of the replicas X(d) on every device: their units are *)
(* free, and nobody else used them.                                        *)
(***************************************************************************)
LEMMA OwnedReleased ==
  ASSUME Owned, NEW X \in [Pools -> SUBSET LocalReplica],
         \A d \in Pools : LiveOn(d)' = LiveOn(d) \ X[d],
         \A d \in Pools : X[d] \subseteq LiveOn(d),
         \A d \in Pools : free'[d] = free[d] \cup UNION {Extent(r) : r \in X[d]},
         \A p \in Putters : puts'[p].placed = puts[p].placed
  PROVE  Owned'
<1> SUFFICES ASSUME NEW d \in Pools PROVE OwnedOn(d)'
  BY DEF Owned
<1>1. OwnedOn(d) /\ LiveOn(d)' = LiveOn(d) \ X[d] /\ X[d] \subseteq LiveOn(d)
  BY DEF Owned
<1>2. \A p \in Putters : PlacedAt(p, d)' = PlacedAt(p, d)
  BY DEF PlacedAt
<1>3. \A p \in Putters : \A m : BufExtent(p, m)' = BufExtent(p, m)
  BY DEF BufExtent
<1>4. \A c : c \in free'[d] <=> c \in free[d] \/ \E r \in X[d] : c \in Extent(r)
  OBVIOUS
<1> HIDE DEF Extent, LiveOn, PlacedAt, BufExtent
<1>5. OwnedOnceOn(d)'
  BY <1>1, <1>2, <1>3, <1>4 DEF OwnedOn, OwnedOnceOn
<1>6. \A c : c \in free[d] \/ Used(d, c) <=> c \in free'[d] \/ Used(d, c)'
  BY <1>1, <1>2, <1>3, <1>4 DEF Used
<1> QED
  BY <1>1, <1>5, <1>6, Zenon DEF OwnedOn

(***************************************************************************)
(* A put that fails gives its buffers back.                                *)
(***************************************************************************)
LEMMA OwnedUnplaced ==
  ASSUME Owned, NEW p \in Putters, \A d \in Pools : LiveOn(d)' = LiveOn(d),
         free' = [d \in Pools |-> free[d] \cup Unplaced(p, d)],
         \A q \in Putters \ {p} : puts'[q] = puts[q],
         puts'[p].placed = <<>>
  PROVE  Owned'
<1> SUFFICES ASSUME NEW d \in Pools PROVE OwnedOn(d)'
  BY Zenon DEF Owned
<1>1. OwnedOn(d) /\ LiveOn(d)' = LiveOn(d)
  BY DEF Owned
<1>2. \A q \in Putters \ {p} : PlacedAt(q, d)' = PlacedAt(q, d)
  BY DEF PlacedAt
<1>3. PlacedAt(p, d)' = {}
  BY DEF PlacedAt
<1>4. \A q \in Putters \ {p} : \A m : BufExtent(q, m)' = BufExtent(q, m)
  BY DEF BufExtent
<1>5. \A c : c \in free'[d] <=> c \in free[d] \/ \E m \in PlacedAt(p, d) : c \in BufExtent(p, m)
  BY DEF Unplaced, PlacedAt, BufExtent
<1> HIDE DEF Extent, LiveOn, PlacedAt, BufExtent
<1>6. OwnedOnceOn(d)'
  BY <1>1, <1>2, <1>3, <1>4, <1>5 DEF OwnedOn, OwnedOnceOn
<1>7. \A c : c \in free[d] \/ Used(d, c) <=> c \in free'[d] \/ Used(d, c)'
  BY <1>1, <1>2, <1>3, <1>4, <1>5 DEF Used
<1> QED
  BY <1>1, <1>6, <1>7, Zenon DEF OwnedOn

(***************************************************************************)
(* A put publishes its buffers: what it owned its replicas own.            *)
(***************************************************************************)
LEMMA OwnedPublished ==
  ASSUME Owned, NEW p \in Putters, free' = free,
         \A d \in Pools : LiveOn(d)' = LiveOn(d) \cup
                                        {NewReplica(p, n) : n \in PlacedAt(p, d)},
         \A n \in DOMAIN puts[p].placed : Extent(NewReplica(p, n)) = BufExtent(p, n),
         \A q \in Putters \ {p} : puts'[q] = puts[q],
         puts'[p].placed = <<>>
  PROVE  Owned'
<1> SUFFICES ASSUME NEW d \in Pools PROVE OwnedOn(d)'
  BY DEF Owned
<1> DEFINE N == {NewReplica(p, n) : n \in PlacedAt(p, d)}
<1>1. OwnedOn(d) /\ LiveOn(d)' = LiveOn(d) \cup N /\ free'[d] = free[d]
  BY DEF Owned
<1>2. \A q \in Putters \ {p} : PlacedAt(q, d)' = PlacedAt(q, d)
  BY DEF PlacedAt
<1>3. PlacedAt(p, d)' = {}
  BY DEF PlacedAt
<1>4. \A q \in Putters \ {p} : \A m : BufExtent(q, m)' = BufExtent(q, m)
  BY DEF BufExtent
<1>5. \A r \in N : \E n \in PlacedAt(p, d) : r = NewReplica(p, n) /\ Extent(r) = BufExtent(p, n)
  BY DEF PlacedAt
<1>6. \A n \in PlacedAt(p, d) : NewReplica(p, n) \in N /\ Extent(NewReplica(p, n)) = BufExtent(p, n)
  BY DEF PlacedAt
<1> HIDE DEF Extent, LiveOn, PlacedAt, BufExtent, NewReplica, N
<1>7. OwnedOnceOn(d)'
  <2>1. ASSUME NEW r \in LiveOn(d)', NEW q \in LiveOn(d)', r # q
        PROVE  Extent(r) \cap Extent(q) = {}
    <3>1. CASE r \in N /\ q \in N
      BY <1>1, <1>5, <2>1, <3>1 DEF OwnedOn, OwnedOnceOn
    <3>2. CASE r \in LiveOn(d) /\ q \in N
      BY <1>1, <1>5, <2>1, <3>2 DEF OwnedOn, OwnedOnceOn
    <3>3. CASE r \in N /\ q \in LiveOn(d)
      BY <1>1, <1>5, <2>1, <3>3 DEF OwnedOn, OwnedOnceOn
    <3>4. CASE r \in LiveOn(d) /\ q \in LiveOn(d)
      BY <1>1, <2>1, <3>4 DEF OwnedOn, OwnedOnceOn
    <3> QED
      BY <1>1, <2>1, <3>1, <3>2, <3>3, <3>4
  <2>2. ASSUME NEW r \in LiveOn(d)', NEW q \in Putters, NEW m \in PlacedAt(q, d)'
        PROVE  Extent(r) \cap BufExtent(q, m)' = {}
    <3>1. q # p
      BY <1>3, <2>2
    <3>2. CASE r \in N
      BY <1>1, <1>2, <1>4, <1>5, <2>2, <3>1, <3>2 DEF OwnedOn, OwnedOnceOn
    <3>3. CASE r \in LiveOn(d)
      BY <1>1, <1>2, <1>4, <2>2, <3>1, <3>3 DEF OwnedOn, OwnedOnceOn
    <3> QED
      BY <1>1, <3>2, <3>3
  <2>3. ASSUME NEW r \in LiveOn(d)'
        PROVE  Extent(r) \cap free'[d] = {}
    BY <1>1, <1>5 DEF OwnedOn, OwnedOnceOn
  <2>4. ASSUME NEW q \in Putters, NEW s \in Putters, NEW m \in PlacedAt(q, d)',
               NEW n \in PlacedAt(s, d)', q # s \/ m # n
        PROVE  BufExtent(q, m)' \cap BufExtent(s, n)' = {}
    BY <1>1, <1>2, <1>3, <1>4, <2>4 DEF OwnedOn, OwnedOnceOn
  <2>5. ASSUME NEW q \in Putters, NEW m \in PlacedAt(q, d)'
        PROVE  BufExtent(q, m)' \cap free'[d] = {}
    BY <1>1, <1>2, <1>3, <1>4 DEF OwnedOn, OwnedOnceOn
  <2> QED
    BY <2>1, <2>2, <2>3, <2>4, <2>5, Zenon DEF OwnedOnceOn
<1>8. \A c : Used(d, c)' <=> Used(d, c)
  BY <1>1, <1>2, <1>3, <1>4, <1>5, <1>6 DEF Used
<1> QED
  BY <1>1, <1>7, <1>8, Zenon DEF OwnedOn

(***************************************************************************)
(* An allocation moves free units to one more buffer of the put.           *)
(***************************************************************************)
LEMMA OwnedPlaced ==
  ASSUME Owned, Shape, NEW p \in Putters, NEW b \in BufferType,
         \A d \in Pools : LiveOn(d)' = LiveOn(d),
         Extent(b) \subseteq free[b.device],
         free' = [free EXCEPT ![b.device] = @ \ Extent(b)],
         \A q \in Putters \ {p} : puts'[q] = puts[q],
         puts'[p].placed = Append(puts[p].placed, b)
  PROVE  Owned'
<1> SUFFICES ASSUME NEW d \in Pools PROVE OwnedOn(d)'
  BY DEF Owned
<1> DEFINE B == puts[p].placed
<1>k. PICK k : k = Len(B) + 1
  OBVIOUS
<1>0. B \in Seq(BufferType) /\ b.device \in Pools /\ free \in [Pools -> SUBSET Int]
  BY DEF Shape, Types, PutType, BufferType
<1>1. OwnedOn(d) /\ LiveOn(d)' = LiveOn(d)
  BY DEF Owned
<1>2. \A q \in Putters \ {p} : PlacedAt(q, d)' = PlacedAt(q, d)
  BY DEF PlacedAt
<1>3. \A q \in Putters \ {p} : \A m : BufExtent(q, m)' = BufExtent(q, m)
  BY DEF BufExtent
<1>4. /\ DOMAIN puts'[p].placed = DOMAIN B \cup {k} /\ k \notin DOMAIN B
      /\ puts'[p].placed[k] = b
      /\ \A m \in DOMAIN B : puts'[p].placed[m] = B[m]
  BY <1>0, <1>k
<1>5. /\ PlacedAt(p, d)' = PlacedAt(p, d) \cup (IF d = b.device THEN {k} ELSE {})
      /\ k \notin PlacedAt(p, d)
      /\ BufExtent(p, k)' = Extent(b)
      /\ \A m \in PlacedAt(p, d) : BufExtent(p, m)' = BufExtent(p, m)
  <2>1. BufExtent(p, k)' = Extent(b)
    BY <1>4, Zenon DEF BufExtent
  <2>2. \A m \in PlacedAt(p, d) : BufExtent(p, m)' = BufExtent(p, m)
    BY <1>4, Zenon DEF PlacedAt, BufExtent
  <2>3. k \notin PlacedAt(p, d)
    BY <1>4 DEF PlacedAt
  <2>4. PlacedAt(p, d)' = PlacedAt(p, d) \cup (IF d = b.device THEN {k} ELSE {})
    <3>1. \A m : m \in PlacedAt(p, d)' <=> m \in PlacedAt(p, d) \/ (m = k /\ d = b.device)
      BY SMTT(60), <1>4 DEF PlacedAt
    <3> HIDE DEF PlacedAt
    <3> QED
      BY <3>1
  <2> QED
    BY <2>1, <2>2, <2>3, <2>4
<1>6. free'[d] = IF d = b.device THEN free[d] \ Extent(b) ELSE free[d]
  BY Zenon, <1>0
<1> HIDE DEF Extent, LiveOn, PlacedAt, BufExtent, B
<1>7. CASE d # b.device
  <2>1. \A q \in Putters : PlacedAt(q, d)' = PlacedAt(q, d)
    BY Zenon, <1>2, <1>5, <1>7
  <2>2. \A q \in Putters : \A m \in PlacedAt(q, d) : BufExtent(q, m)' = BufExtent(q, m)
    BY <1>3, <1>5, <1>7
  <2>3. OwnedOnceOn(d)'
    <3>1. OwnedOnceOn(d) /\ free'[d] = free[d]
      BY Zenon, <1>1, <1>6, <1>7 DEF OwnedOn
    <3>2. ASSUME NEW q \in Putters, NEW m \in PlacedAt(q, d)'
          PROVE  m \in PlacedAt(q, d) /\ BufExtent(q, m)' = BufExtent(q, m)
      BY Zenon, <2>1, <2>2, <3>2
    <3>3. ASSUME NEW q \in Putters, NEW s \in Putters, NEW m \in PlacedAt(q, d)',
                 NEW n \in PlacedAt(s, d)', q # s \/ m # n
          PROVE  BufExtent(q, m)' \cap BufExtent(s, n)' = {}
      <4>1. BufExtent(q, m) \cap BufExtent(s, n) = {}
        BY Zenon, <3>1, <3>2, <3>3 DEF OwnedOnceOn
      <4> QED
        BY Zenon, <3>2, <3>3, <4>1
    <3>4. ASSUME NEW q \in Putters, NEW m \in PlacedAt(q, d)'
          PROVE  /\ BufExtent(q, m)' \cap free'[d] = {}
                 /\ \A r \in LiveOn(d) : Extent(r) \cap BufExtent(q, m)' = {}
      <4>1. /\ BufExtent(q, m) \cap free[d] = {}
            /\ \A r \in LiveOn(d) : Extent(r) \cap BufExtent(q, m) = {}
        BY Zenon, <3>1, <3>2, <3>4 DEF OwnedOnceOn
      <4> QED
        BY Zenon, <3>1, <3>2, <3>4, <4>1
    <3> QED
      BY Zenon, <1>1, <3>1, <3>3, <3>4 DEF OwnedOnceOn
  <2>4. \A c : Used(d, c)' <=> Used(d, c)
    BY <1>1, <2>1, <2>2, Zenon DEF Used
  <2> QED
    BY <1>1, <1>6, <1>7, <2>3, <2>4 DEF OwnedOn
<1>8. CASE d = b.device
  <2>1. /\ free'[d] = free[d] \ Extent(b) /\ Extent(b) \subseteq free[d]
        /\ PlacedAt(p, d)' = PlacedAt(p, d) \cup {k}
    BY <1>5, <1>6, <1>8
  <2>2. \A q \in Putters : \A m \in PlacedAt(q, d)' :
          \/ q = p /\ m = k /\ BufExtent(q, m)' = Extent(b)
          \/ m \in PlacedAt(q, d) /\ BufExtent(q, m)' = BufExtent(q, m)
    <3>1. ASSUME NEW q \in Putters \ {p}, NEW m \in PlacedAt(q, d)'
          PROVE  m \in PlacedAt(q, d) /\ BufExtent(q, m)' = BufExtent(q, m)
      BY <1>2, <1>3, <3>1
    <3>2. ASSUME NEW m \in PlacedAt(p, d)'
          PROVE  \/ m = k /\ BufExtent(p, m)' = Extent(b)
                 \/ m \in PlacedAt(p, d) /\ BufExtent(p, m)' = BufExtent(p, m)
      BY <1>5, <2>1, <3>2
    <3> QED
      BY <3>1, <3>2, Zenon
  <2>3. OwnedOnceOn(d)'
    <3>1. ASSUME NEW q \in Putters, NEW s \in Putters, NEW m \in PlacedAt(q, d)',
                 NEW n \in PlacedAt(s, d)', q # s \/ m # n
          PROVE  BufExtent(q, m)' \cap BufExtent(s, n)' = {}
      BY <1>1, <2>1, <2>2, <3>1 DEF OwnedOn, OwnedOnceOn
    <3>2. ASSUME NEW q \in Putters, NEW m \in PlacedAt(q, d)'
          PROVE  /\ BufExtent(q, m)' \cap free'[d] = {}
                 /\ \A r \in LiveOn(d) : Extent(r) \cap BufExtent(q, m)' = {}
      BY <1>1, <2>1, <2>2 DEF OwnedOn, OwnedOnceOn
    <3>3. ASSUME NEW r \in LiveOn(d)
          PROVE  Extent(r) \cap free'[d] = {}
      BY <1>1, <2>1 DEF OwnedOn, OwnedOnceOn
    <3> QED
      BY Zenon, <1>1, <3>1, <3>2, <3>3 DEF OwnedOn, OwnedOnceOn
  <2>4. \A c : c \in free[d] \/ Used(d, c) <=> c \in free'[d] \/ Used(d, c)'
    <3>1. ASSUME NEW c, Used(d, c)' PROVE c \in free[d] \/ Used(d, c)
      BY <1>1, <2>1, <2>2, <3>1 DEF Used
    <3>2. ASSUME NEW c, Used(d, c) PROVE Used(d, c)'
      BY <1>1, <1>2, <1>3, <1>5, <2>1, <3>2 DEF Used
    <3>3. ASSUME NEW c \in Extent(b) PROVE Used(d, c)'
      <4>1. k \in PlacedAt(p, d)' /\ c \in BufExtent(p, k)'
        BY <1>5, <2>1, <3>3
      <4> QED
        BY <4>1, Zenon DEF Used
    <3> QED
      BY Zenon, <2>1, <3>1, <3>2, <3>3
  <2> QED
    BY <1>1, <2>3, <2>4, Zenon DEF OwnedOn
<1> QED
  BY <1>7, <1>8

(***************************************************************************)
(* A fresh store has every unit free.                                      *)
(***************************************************************************)
LEMMA OwnedInit == Init => Owned
<1> SUFFICES ASSUME Init, NEW d \in Pools PROVE OwnedOn(d)
  BY DEF Owned
<1>1. LiveOn(d) = {}
  BY DEF Init, LiveOn
<1>2. \A p \in Putters : PlacedAt(p, d) = {}
  BY NoPutType DEF Init, PlacedAt
<1>3. free[d] = 0 .. Capacity[d] - 1
  BY DEF Init
<1>4. OwnedOnceOn(d)
  BY <1>1, <1>2 DEF OwnedOnceOn
<1>5. \A c : ~Used(d, c)
  BY <1>1, <1>2 DEF Used
<1> QED
  BY <1>3, <1>4, <1>5 DEF OwnedOn

(***************************************************************************)
(* Who is live: a replica in the index, or one that a get holds.           *)
(***************************************************************************)
LEMMA LiveOnMembers ==
  ASSUME NEW d, NEW r
  PROVE  r \in LiveOn(d) <=>
           /\ r \in reps \/ \E g \in Getters : gets[g] = r /\ gets[g] # NoRead
           /\ IsOwned(r) /\ r.device = d
  BY DEF LiveOn

(***************************************************************************)
(* A remove or an eviction frees the bytes that no get holds.              *)
(***************************************************************************)
LEMMA OwnedUnlinked ==
  ASSUME Owned, Shape, NEW R \in SUBSET reps, reps' = reps \ R, UNCHANGED gets,
         \A d \in Pools : free'[d] = free[d] \cup Unlinked(R, d),
         \A p \in Putters : puts'[p].placed = puts[p].placed
  PROVE  Owned'
<1> DEFINE Y(d) == {q \in R : IsOwned(q) /\ q.device = d /\ \A g \in Getters : gets[g] # q}
<1>1. PICK X : X = [d \in Pools |-> Y(d)]
  BY Zenon
<1>2. \A d \in Pools : X[d] = Y(d)
  BY <1>1, Zenon
<1>3. reps \subseteq LocalReplica /\ \A r \in reps : r # NoRead
  BY ReplicaFields DEF Shape, Types
<1>4. X \in [Pools -> SUBSET LocalReplica]
  BY <1>1, <1>3
<1>5. ASSUME NEW d \in Pools
      PROVE  LiveOn(d)' = LiveOn(d) \ X[d] /\ X[d] \subseteq LiveOn(d)
  <2>1. \A r : r \in X[d] <=> /\ r \in R /\ IsOwned(r) /\ r.device = d
                              /\ \A g \in Getters : gets[g] # r
    BY <1>2
  <2>2. \A r : r \in LiveOn(d)' <=>
           /\ r \in reps \ R \/ \E g \in Getters : gets[g] = r /\ gets[g] # NoRead
           /\ IsOwned(r) /\ r.device = d
    BY DEF LiveOn
  <2> HIDE DEF Y
  <2>3. \A r : r \in LiveOn(d)' <=> r \in LiveOn(d) /\ r \notin X[d]
    BY <1>3, <2>1, <2>2, LiveOnMembers
  <2>4. \A r \in X[d] : r \in LiveOn(d)
    BY <2>1, LiveOnMembers
  <2> QED
    BY <2>3, <2>4
<1>6. \A d \in Pools : free'[d] = free[d] \cup UNION {Extent(r) : r \in X[d]}
  BY <1>2, Zenon DEF Unlinked
<1> HIDE DEF Y
<1> QED
  BY <1>4, <1>5, <1>6, OwnedReleased

(***************************************************************************)
(* A get that ends frees the bytes that nobody else holds.                 *)
(***************************************************************************)
LEMMA OwnedUnread ==
  ASSUME Owned, Shape, NEW g \in Getters, gets[g] # NoRead,
         gets' = [gets EXCEPT ![g] = NoRead], UNCHANGED reps,
         \A d \in Pools : free'[d] = free[d] \cup Unread(g, d),
         \A p \in Putters : puts'[p].placed = puts[p].placed
  PROVE  Owned'
<1> DEFINE Y(d) == {q \in {gets[g]} : /\ IsOwned(q) /\ q.device = d
                                      /\ q \notin reps
                                      /\ \A h \in Getters \ {g} : gets[h] # q}
<1>1. PICK X : X = [d \in Pools |-> Y(d)]
  BY Zenon
<1>2. \A d \in Pools : X[d] = Y(d)
  BY <1>1, Zenon
<1>3. gets \in [Getters -> LocalReplica \cup {NoRead}] /\ gets[g] \in LocalReplica
  BY DEF Shape, Types
<1>4. X \in [Pools -> SUBSET LocalReplica]
  BY <1>1, <1>3
<1>5. ASSUME NEW d \in Pools
      PROVE  LiveOn(d)' = LiveOn(d) \ X[d] /\ X[d] \subseteq LiveOn(d)
  <2>1. \A r : r \in X[d] <=> /\ r = gets[g] /\ IsOwned(r) /\ r.device = d
                              /\ r \notin reps
                              /\ \A h \in Getters \ {g} : gets[h] # r
    BY <1>2
  <2>2. \A r : r \in LiveOn(d)' <=>
           /\ r \in reps \/ \E h \in Getters : gets'[h] = r /\ gets'[h] # NoRead
           /\ IsOwned(r) /\ r.device = d
    BY DEF LiveOn
  <2>3. gets'[g] = NoRead /\ \A h \in Getters \ {g} : gets'[h] = gets[h]
    BY <1>3
  <2> HIDE DEF Y
  <2>4. \A r : r \in LiveOn(d)' <=> r \in LiveOn(d) /\ r \notin X[d]
    BY <2>1, <2>2, <2>3, LiveOnMembers
  <2>5. \A r \in X[d] : r \in LiveOn(d)
    BY <2>1, LiveOnMembers
  <2> QED
    BY <2>4, <2>5
<1>6. \A d \in Pools : free'[d] = free[d] \cup UNION {Extent(r) : r \in X[d]}
  <2>1. \A d \in Pools : Unread(g, d) = UNION {Extent(r) : r \in Y(d)}
    BY DEF Unread
  <2> HIDE DEF Y
  <2> QED
    BY <1>2, <2>1
<1> HIDE DEF Y
<1> QED
  BY <1>4, <1>5, <1>6, OwnedReleased

(***************************************************************************)
(* Every step leaves every unit with one owner.                            *)
(***************************************************************************)
LEMMA OwnedStep == Shape /\ Owned /\ [Next]_vars => Owned'
<1> SUFFICES ASSUME Shape, Owned, [Next]_vars PROVE Owned'
  OBVIOUS
<1>0. /\ puts \in [Putters -> PutType] /\ \A p \in Putters : PutShape(puts[p])
      /\ free \in [Pools -> SUBSET Int]
      /\ reps \subseteq LocalReplica /\ gets \in [Getters -> LocalReplica \cup {NoRead}]
  BY DEF Shape, Types
<1>1. ASSUME reps' = reps, gets' = gets
      PROVE  \A d \in Pools : LiveOn(d)' = LiveOn(d)
  BY <1>1 DEF LiveOn
<1>2. ASSUME UNCHANGED <<reps, gets, free>>,
             \A p \in Putters : puts'[p].placed = puts[p].placed
      PROVE  Owned'
  BY <1>1, <1>2, OwnedKept
<1>3. ASSUME NEW g \in Regions, DropRegion(g) PROVE Owned'
  <2>1. reps' = {r \in reps : r.region_id # g} /\ UNCHANGED <<gets, free, puts>>
    BY <1>3 DEF DropRegion, Retained
  <2>2. \A r \in reps : IsOwned(r) => r.region_id # g
    BY <1>0, ReplicaFields, NamesAssumption
  <2>3. \A d \in Pools : LiveOn(d)' = LiveOn(d)
    BY <2>1, <2>2 DEF LiveOn
  <2> QED
    BY <2>1, <2>3, OwnedKept
<1>4. ASSUME NEW k \in Keys, NEW i \in DOMAIN objects[k].slots, NEW src \in PublishSrcs,
             Publish(k, i, src)
      PROVE  Owned'
  <2> DEFINE e == ExternalReplica(k, i, src.len, RegionDevice[src.regions[1]], src.regions)
  <2>1. reps' = reps \cup {e} /\ UNCHANGED <<gets, free, puts>>
    BY <1>4 DEF Publish
  <2>2. ~IsOwned(e)
    BY DEF ExternalReplica, IsOwned
  <2> HIDE DEF e
  <2>3. \A d \in Pools : LiveOn(d)' = LiveOn(d)
    BY <2>1, <2>2 DEF LiveOn
  <2> QED
    BY <2>1, <2>3, OwnedKept
<1>5. ASSUME NEW k \in Keys, NEW i \in DOMAIN objects[k].slots, NEW g \in Getters,
             GetPick(g, k, i)
      PROVE  Owned'
  <2>1. PICK r \in reps : gets' = [gets EXCEPT ![g] = r]
    BY Zenon, <1>5 DEF GetPick, Slot
  <2>2. gets[g] = NoRead /\ UNCHANGED <<reps, free, puts>>
    BY <1>5 DEF GetPick
  <2>3. gets'[g] = r /\ \A h \in Getters \ {g} : gets'[h] = gets[h]
    BY <1>0, <2>1
  <2>4. ASSUME NEW d \in Pools PROVE LiveOn(d)' = LiveOn(d)
    <3>1. \A q : q \in LiveOn(d)' <=>
             /\ q \in reps \/ \E h \in Getters : gets'[h] = q /\ gets'[h] # NoRead
             /\ IsOwned(q) /\ q.device = d
      BY <2>2 DEF LiveOn
    <3>2. \A q : q \in LiveOn(d)' <=> q \in LiveOn(d)
      BY <2>1, <2>2, <2>3, <3>1, LiveOnMembers
    <3> QED
      BY Zenon, <3>2
  <2> QED
    BY <2>2, <2>4, OwnedKept
<1>6. ASSUME NEW g \in Getters, NEW f \in CopyFaults \cup {"none"}, GetEnd(g, f)
      PROVE  Owned'
  <2>1. /\ gets[g] # NoRead /\ gets' = [gets EXCEPT ![g] = NoRead]
        /\ free' = [d \in Pools |-> free[d] \cup Unread(g, d)]
        /\ UNCHANGED <<reps, puts>>
    BY <1>6 DEF GetEnd
  <2>2. \A d \in Pools : free'[d] = free[d] \cup Unread(g, d)
    BY <2>1, Zenon
  <2> QED
    BY Zenon, <2>1, <2>2, OwnedUnread
<1>7. ASSUME NEW ks \in Removals, Remove(ks) PROVE Owned'
  <2> DEFINE R == {r \in reps : r.key \in ks}
  <2>1. /\ R \in SUBSET reps /\ reps' = reps \ R
        /\ free' = [d \in Pools |-> free[d] \cup Unlinked(R, d)]
        /\ UNCHANGED <<gets, puts>>
    BY <1>7 DEF Remove
  <2> HIDE DEF R
  <2>2. \A d \in Pools : free'[d] = free[d] \cup Unlinked(R, d)
    BY <2>1, Zenon
  <2>3. PICK S : S = R
    OBVIOUS
  <2> QED
    BY <2>1, <2>2, <2>3, OwnedUnlinked
<1>8. ASSUME NEW p \in Putters, EvictEntry(p) PROVE Owned'
  <2> DEFINE e == Target(p).device
             V == Victims(Popped(p)[1], Popped(p)[2], e)
  <2>1. /\ PopEntry(p) /\ reps' = reps \ V
        /\ free' = [free EXCEPT ![e] = @ \cup Unlinked(V, e)]
        /\ UNCHANGED gets
    BY <1>8 DEF EvictEntry
  <2>2. V \in SUBSET reps /\ \A r \in V : r.device = e
    BY DEF Victims, Slot
  <2>3. e \in Pools
    BY <2>1, PoppedType
  <2>4. \A q \in Putters : puts'[q].placed = puts[q].placed
    BY Zenon, <1>8, StaysMoves DEF StaysAtSlot, SameSlot
  <2> HIDE DEF V, e
  <2>5. \A d \in Pools : d # e => Unlinked(V, d) = {}
    BY <2>2 DEF Unlinked
  <2>6. \A d \in Pools : free'[d] = free[d] \cup Unlinked(V, d)
    BY <1>0, <2>1, <2>3, <2>5
  <2> QED
    BY <2>1, <2>2, <2>4, <2>6, OwnedUnlinked
<1>9. ASSUME NEW p \in Putters, PutAlloc(p) PROVE Owned'
  <2>1. PICK off \in Fit(p) :
          /\ puts' = [puts EXCEPT ![p] = Accepted(p, off)]
          /\ free' = [free EXCEPT ![Target(p).device] = @ \ Cells(off, CurrentSlot(p).len)]
    BY <1>9, Zenon DEF PutAlloc
  <2>2. puts[p].pc \in Allocating /\ UNCHANGED <<reps, gets>>
    BY <1>9 DEF PutAlloc, Allocating
  <2>3. Target(p).device \in Pools
    BY <2>2, TargetIsPool
  <2>4. off \in free[Target(p).device]
          /\ Cells(off, CurrentSlot(p).len) \subseteq free[Target(p).device]
    BY <2>1 DEF Fit, FirstFit, Runs
  <2>5. off \in Int
    BY <1>0, <2>3, <2>4
  <2>6. Places(p, off) /\ Buffer(p, off) \in BufferType
    BY Zenon, <2>1, <2>2, <2>5, AllocMoves
  <2>7. PICK b : b = Buffer(p, off)
    OBVIOUS
  <2>8. b.device = Target(p).device /\ Extent(b) = Cells(off, CurrentSlot(p).len)
    BY <2>7 DEF Buffer, Extent
  <2>9. /\ \A q \in Putters \ {p} : puts'[q] = puts[q]
        /\ puts'[p].placed = Append(puts[p].placed, b)
    BY <2>6, <2>7 DEF Places
  <2>10. \A d \in Pools : LiveOn(d)' = LiveOn(d)
    BY <1>1, <2>2
  <2> QED
    BY Zenon, <2>1, <2>4, <2>6, <2>7, <2>8, <2>9, <2>10, OwnedPlaced
<1>10. ASSUME NEW p \in Putters, EvictPanic(p) \/ PutPanic(p) \/ PutPoisoned(p) \/ PutDrop(p)
       PROVE  Owned'
  <2>1. /\ free' = [d \in Pools |-> free[d] \cup Unplaced(p, d)]
        /\ UNCHANGED <<reps, gets>>
        /\ \/ puts' = [puts EXCEPT ![p] = [NoPut EXCEPT !.pc = "panicked"]]
           \/ PutDrop(p)
    BY <1>10, Zenon DEF EvictPanic, PutPanic, PutPoisoned, PutDrop, Unwind
  <2>2. puts'[p].placed = <<>> /\ \A q \in Putters \ {p} : puts'[q] = puts[q]
    BY <2>1, EndMoves, DropMoves DEF Ends, Drops
  <2>3. \A d \in Pools : LiveOn(d)' = LiveOn(d)
    BY <1>1, <2>1
  <2> QED
    BY <2>1, <2>2, <2>3, OwnedUnplaced
<1>11. ASSUME NEW p \in Putters, PutPublish(p) PROVE Owned'
  <2>1. /\ puts[p].pc = "publish" /\ UNCHANGED <<free, gets>>
        /\ reps' = reps \cup {NewReplica(p, n) : n \in DOMAIN puts[p].placed}
        /\ puts' = [puts EXCEPT ![p] = NextSlot(p)]
    BY <1>11 DEF PutPublish
  <2>2. MovesOn(p)
    BY Zenon, <2>1, NextSlotMoves DEF AtRest
  <2>3. \A n \in DOMAIN puts[p].placed :
          /\ IsOwned(NewReplica(p, n))
          /\ NewReplica(p, n).device = puts[p].placed[n].device
          /\ Extent(NewReplica(p, n)) = BufExtent(p, n)
    BY NewReplicaType DEF Extent, BufExtent
  <2>4. ASSUME NEW d \in Pools
        PROVE  LiveOn(d)' = LiveOn(d) \cup {NewReplica(p, n) : n \in PlacedAt(p, d)}
    <3> DEFINE N == {NewReplica(p, n) : n \in DOMAIN puts[p].placed}
               M == {NewReplica(p, n) : n \in PlacedAt(p, d)}
    <3>1. \A q : q \in LiveOn(d)' <=>
             /\ q \in reps \/ q \in N \/ \E h \in Getters : gets[h] = q /\ gets[h] # NoRead
             /\ IsOwned(q) /\ q.device = d
      BY <2>1 DEF LiveOn
    <3>2. \A q : q \in M <=> q \in N /\ q.device = d
      BY <2>3 DEF PlacedAt
    <3>3. \A q \in N : IsOwned(q)
      BY <2>3
    <3> HIDE DEF N, M
    <3>4. \A q : q \in LiveOn(d)' <=> q \in LiveOn(d) \/ q \in M
      BY <3>1, <3>2, <3>3, LiveOnMembers
    <3>5. LiveOn(d)' = LiveOn(d) \cup M
      BY <3>4
    <3> QED
      BY <3>5 DEF M
  <2> QED
    BY <2>1, <2>2, <2>3, <2>4, OwnedPublished DEF MovesOn
<1>12. ASSUME NEW p \in Putters, StaysAtSlot(p), ~EvictEntry(p) PROVE Owned'
  <2>1. UNCHANGED <<reps, gets, free>>
    BY <1>12, Zenon DEF StaysAtSlot, PutResolve, PutTooLarge, PutNoSpace, PutMustEvict,
       EvictBegin, EvictDefer, EvictForget, EvictNothing, PutCopied, PutCopyFails, PutGone
  <2>2. \A q \in Putters : puts'[q].placed = puts[q].placed
    BY <1>12, StaysMoves DEF SameSlot
  <2> QED
    BY <1>2, <2>1, <2>2
<1>13. ASSUME NEW p \in Putters, PutSkip(p) \/ PutClear(p) \/ PutReturn(p) PROVE Owned'
  <2>1. /\ puts[p].pc \in {"slot", "clear"} /\ UNCHANGED <<reps, gets, free>>
        /\ \/ puts' = [puts EXCEPT ![p] = NextSlot(p)]
           \/ puts' = [puts EXCEPT ![p] = NoPut]
    BY <1>13, Zenon DEF PutSkip, PutClear, PutReturn
  <2>2. puts[p].placed = <<>> /\ puts[p].pc \notin AtRest
    BY <1>0, <2>1 DEF PutShape, InSlot, AtRest, Allocating
  <2>3. puts'[p].placed = <<>> /\ \A q \in Putters \ {p} : puts'[q] = puts[q]
    BY <2>1, <2>2, NextSlotMoves, EndMoves DEF MovesOn, Ends
  <2> QED
    BY <1>2, <2>1, <2>2, <2>3
<1>14. ASSUME NEW p \in Putters, NEW k \in Keys, NEW s \in Specs, PutReserve(p, k, s)
       PROVE  Owned'
  <2>1. puts[p].pc = "idle" /\ UNCHANGED <<reps, gets, free>>
    BY <1>14 DEF PutReserve
  <2>2. puts[p].placed = <<>>
    BY <1>0, <2>1 DEF PutShape, InSlot, AtRest, Allocating
  <2>3. puts'[p].placed = <<>> /\ \A q \in Putters \ {p} : puts'[q] = puts[q]
    BY <1>14, ReserveMoves DEF Starts
  <2> QED
    BY <1>2, <2>1, <2>2, <2>3
<1>15. CASE UNCHANGED <<reps, gets, free, puts>>
  BY <1>2, <1>15
<1>16. ASSUME NEW p \in Putters, PutStep(p) PROVE Owned'
  BY <1>8, <1>9, <1>10, <1>11, <1>12, <1>13, <1>16, Zenon DEF PutStep, StaysAtSlot
<1>17. \/ UNCHANGED <<reps, gets, free, puts>>
       \/ \E g \in Regions : DropRegion(g)
       \/ \E k \in Keys : \E i \in DOMAIN objects[k].slots :
            \/ \E src \in PublishSrcs : Publish(k, i, src)
            \/ \E g \in Getters : GetPick(g, k, i)
       \/ \E g \in Getters, f \in CopyFaults \cup {"none"} : GetEnd(g, f)
       \/ \E ks \in Removals : Remove(ks)
       \/ \E p \in Putters : PutStep(p) \/ \E k \in Keys, s \in Specs : PutReserve(p, k, s)
  BY Zenon DEF Next, vars, Register, DmaEnds, CallPanics
<1> QED
  BY <1>3, <1>4, <1>5, <1>6, <1>7, <1>14, <1>15, <1>16, <1>17, Zenon
=============================================================================
