-------------------------- MODULE LocalIndexProofs --------------------------
(***************************************************************************)
(* Theorems about the CUDA backend: what owns the bytes of its pools, what *)
(* the replicas of its index point to, which of them can be evicted, who   *)
(* may fill a slot, and that a put honours SlotContract.                   *)
(***************************************************************************)
EXTENDS LocalProofs

(***************************************************************************)
(* Which steps change the index, and how.                                  *)
(***************************************************************************)
LEMMA IndexSteps ==
  ASSUME [Next]_vars
  PROVE  \/ UNCHANGED <<objects, reps, writing>>
         \/ \E g \in Regions : DropRegion(g)
         \/ \E k \in Keys : \E i \in DOMAIN objects[k].slots :
              \E src \in PublishSrcs : Publish(k, i, src)
         \/ \E ks \in Removals : Remove(ks)
         \/ \E p \in Putters : \/ EvictEntry(p) \/ PutPublish(p) \/ PutClear(p)
                               \/ \E k \in Keys, s \in Specs : PutReserve(p, k, s)
<1>1. ASSUME NEW p \in Putters, PutStep(p)
      PROVE  \/ UNCHANGED <<objects, reps, writing>>
             \/ EvictEntry(p) \/ PutPublish(p) \/ PutClear(p)
  BY <1>1, Zenon DEF PutStep, PutSkip, PutReturn, PutResolve, PutAlloc, PutTooLarge,
     PutNoSpace, PutMustEvict, EvictBegin, EvictDefer, EvictForget, EvictNothing,
     PutCopied, PutCopyFails, PutGone, PutDrop, EvictPanic, PutPanic, PutPoisoned
<1>2. \/ UNCHANGED <<objects, reps, writing>>
      \/ \E g \in Regions : DropRegion(g)
      \/ \E k \in Keys : \E i \in DOMAIN objects[k].slots :
           \E src \in PublishSrcs : Publish(k, i, src)
      \/ \E ks \in Removals : Remove(ks)
      \/ \E p \in Putters : PutStep(p) \/ \E k \in Keys, s \in Specs : PutReserve(p, k, s)
  BY Zenon DEF Next, vars, Register, GetPick, GetEnd, DmaEnds, CallPanics
<1> QED
  BY <1>1, <1>2, Zenon

(***************************************************************************)
(* A slot of an object has a number.                                       *)
(***************************************************************************)
LEMMA SlotNumber ==
  ASSUME Shape, NEW k \in Keys, NEW i \in DOMAIN objects[k].slots
  PROVE  i \in Nat /\ objects[k] # NoObject
<1>1. objects[k] \in Specs \cup {NoObject}
  BY DEF Shape, Types
<1>2. objects[k].slots \in Seq(SlotSpec)
  BY <1>1, SpecsAssumption DEF ObjectSpec, NoObject
<1>3. objects[k] # NoObject
  BY DEF NoObject
<1> QED
  BY <1>2, <1>3

-----------------------------------------------------------------------------
(***************************************************************************)
(* Clients publish memory of one region at a time.                         *)
(***************************************************************************)
OneRegionEach ==
  \A src \in PublishSrcs : \A n \in DOMAIN src.regions : src.regions[n] = src.regions[1]

(***************************************************************************)
(* A replica points into the region it is remembered by, which is live.    *)
(***************************************************************************)
SegsLive ==
  \A r \in reps : \A g \in r.segs :
    g \in Regions /\ g = r.region_id /\ regions[g] = "live"

(***************************************************************************)
(* Every step keeps it so: a drop retires what points into the region.     *)
(***************************************************************************)
LEMMA SegsLiveStep ==
  ASSUME OneRegionEach PROVE Shape /\ SegsLive /\ [Next]_vars => SegsLive'
<1> SUFFICES ASSUME Shape, SegsLive, [Next]_vars PROVE SegsLive'
  OBVIOUS
<1>0. regions \in [Regions -> {"new", "live", "dropped"}] /\ reps \subseteq LocalReplica
  BY DEF Shape, Types
<1>1. ASSUME NEW g \in Regions, Register(g) PROVE SegsLive'
  BY <1>0, <1>1 DEF Register, SegsLive
<1>2. ASSUME NEW g \in Regions, DropRegion(g) PROVE SegsLive'
  <2>1. reps' = {r \in reps : r.region_id # g} /\ regions' = [regions EXCEPT ![g] = "dropped"]
    BY <1>2 DEF DropRegion, Retained
  <2> QED
    BY <1>0, <2>1 DEF SegsLive
<1>3. ASSUME NEW k \in Keys, NEW i \in DOMAIN objects[k].slots, NEW src \in PublishSrcs,
             Publish(k, i, src)
      PROVE  SegsLive'
  <2> DEFINE e == ExternalReplica(k, i, src.len, RegionDevice[src.regions[1]], src.regions)
  <2>1. /\ reps' = reps \cup {e} /\ UNCHANGED regions
        /\ \A n \in DOMAIN src.regions : regions[src.regions[n]] = "live"
    BY <1>3 DEF Publish
  <2>2. /\ e.region_id = src.regions[1]
        /\ e.segs = {src.regions[n] : n \in DOMAIN src.regions}
    BY DEF ExternalReplica
  <2> HIDE DEF e
  <2>3. src.regions \in Seq(Regions)
    BY LocalAssumption
  <2>4. \A g \in e.segs : g \in Regions /\ g = e.region_id /\ regions[g] = "live"
    BY <2>1, <2>2, <2>3 DEF OneRegionEach
  <2> QED
    BY <2>1, <2>4 DEF SegsLive
<1>4. ASSUME NEW p \in Putters, PutPublish(p) PROVE SegsLive'
  <2>1. /\ reps' = reps \cup {NewReplica(p, n) : n \in DOMAIN puts[p].placed}
        /\ UNCHANGED regions
    BY <1>4 DEF PutPublish
  <2>2. \A n \in DOMAIN puts[p].placed : NewReplica(p, n).segs = {}
    BY DEF NewReplica
  <2> QED
    BY <2>1, <2>2 DEF SegsLive
<1>5. CASE reps' \subseteq reps /\ UNCHANGED regions
  BY <1>5 DEF SegsLive
<1>6. ASSUME NEW p \in Putters, PutStep(p) PROVE UNCHANGED regions
  BY <1>6, Zenon DEF PutStep, PutSkip, PutReturn, PutResolve, PutAlloc, PutTooLarge,
     PutNoSpace, PutMustEvict, EvictBegin, EvictDefer, EvictForget, EvictEntry,
     EvictNothing, PutCopied, PutCopyFails, PutGone, PutDrop, PutClear, PutPublish,
     EvictPanic, PutPanic, PutPoisoned
<1>7. (\E g \in Regions : Register(g) \/ DropRegion(g)) \/ UNCHANGED regions
  BY <1>6, Zenon DEF Next, vars, Publish, GetPick, GetEnd, DmaEnds, CallPanics,
     Remove, PutReserve
<1>8. \/ reps' \subseteq reps
      \/ \E k \in Keys : \E i \in DOMAIN objects[k].slots :
              \E src \in PublishSrcs : Publish(k, i, src)
      \/ \E p \in Putters : PutPublish(p)
  BY Zenon, IndexSteps DEF DropRegion, Retained, Remove, EvictEntry, PutClear, PutReserve
<1> QED
  BY <1>1, <1>2, <1>3, <1>4, <1>5, <1>7, <1>8

-----------------------------------------------------------------------------
(***************************************************************************)
(* A replica belongs to an object.                                         *)
(***************************************************************************)
Linked == \A r \in reps : objects[r.key] # NoObject

(***************************************************************************)
(* Every step keeps it so, and the object stays the same as long as the    *)
(* replica is in the index.                                                *)
(***************************************************************************)
LEMMA LinkedStep ==
  ASSUME Shape, Linked, [Next]_vars
  PROVE  Linked' /\ \A r \in reps \cap reps' : objects'[r.key] = objects[r.key]
<1> DEFINE Goal == Linked' /\ \A r \in reps \cap reps' : objects'[r.key] = objects[r.key]
<1>0. /\ objects \in [Keys -> Specs \cup {NoObject}]
      /\ reps \subseteq LocalReplica /\ \A r \in reps : r.key \in Keys
  BY ReplicaFields DEF Shape, Types
<1>1. CASE reps' \subseteq reps /\ UNCHANGED objects
  BY <1>1 DEF Linked
<1>2. ASSUME NEW k \in Keys, NEW i \in DOMAIN objects[k].slots, NEW src \in PublishSrcs,
             Publish(k, i, src)
      PROVE  Goal
  <2> DEFINE e == ExternalReplica(k, i, src.len, RegionDevice[src.regions[1]], src.regions)
  <2>1. reps' = reps \cup {e} /\ UNCHANGED objects
    BY <1>2 DEF Publish
  <2>2. e.key = k
    BY DEF ExternalReplica
  <2> HIDE DEF e
  <2> QED
    BY <2>1, <2>2, SlotNumber DEF Linked
<1>3. ASSUME NEW ks \in Removals, Remove(ks) PROVE Goal
  <2>1. /\ reps' = reps \ {r \in reps : r.key \in ks}
        /\ objects' = [k \in Keys |-> IF k \in ks THEN NoObject ELSE objects[k]]
    BY <1>3 DEF Remove
  <2>2. \A r \in reps' : r \in reps /\ r.key \notin ks /\ r.key \in Keys
    BY <1>0, <2>1
  <2>3. \A r \in reps' : objects'[r.key] = objects[r.key]
    BY <2>1, <2>2
  <2> QED
    BY <2>2, <2>3 DEF Linked
<1>4. ASSUME NEW p \in Putters, EvictEntry(p) PROVE Goal
  <2>1. PICK k : /\ reps' \subseteq reps
                 /\ objects' = IF Emptied(k, reps') THEN [objects EXCEPT ![k] = NoObject]
                               ELSE objects
    BY <1>4, Zenon DEF EvictEntry
  <2>2. \A r \in reps' : objects'[r.key] = objects[r.key]
    BY <1>0, <2>1 DEF Emptied
  <2> QED
    BY <2>1, <2>2 DEF Linked
<1>5. ASSUME NEW p \in Putters, PutPublish(p) PROVE Goal
  <2>1. /\ reps' = reps \cup {NewReplica(p, n) : n \in DOMAIN puts[p].placed}
        /\ UNCHANGED objects
        /\ puts[p].slot \in DOMAIN objects[puts[p].key].slots
    BY <1>5 DEF PutPublish
  <2>2. objects[puts[p].key] # NoObject
    BY <2>1 DEF NoObject
  <2>3. \A n \in DOMAIN puts[p].placed : NewReplica(p, n).key = puts[p].key
    BY DEF NewReplica
  <2> QED
    BY <2>1, <2>2, <2>3 DEF Linked
<1>6. ASSUME NEW p \in Putters, NEW k \in Keys, NEW s \in Specs, PutReserve(p, k, s)
      PROVE  Goal
  <2>1. /\ objects[k] \in {NoObject, s} /\ objects' = [objects EXCEPT ![k] = s]
        /\ UNCHANGED reps
    BY <1>6 DEF PutReserve
  <2>2. \A r \in reps : objects'[r.key] = objects[r.key]
    BY <1>0, <2>1 DEF Linked
  <2> QED
    BY <2>1, <2>2 DEF Linked
<1>7. CASE \E g \in Regions : DropRegion(g)
  BY <1>1, <1>7 DEF DropRegion, Retained
<1>8. CASE \E p \in Putters : PutClear(p)
  BY <1>1, <1>8 DEF PutClear
<1> HIDE DEF Goal
<1>9. Goal
  BY <1>1, <1>2, <1>3, <1>4, <1>5, <1>6, <1>7, <1>8, IndexSteps, Zenon DEF Goal
<1> QED
  BY <1>9 DEF Goal

(***************************************************************************)
(* An entry is in a queue, or set aside by the put that drains it.         *)
(***************************************************************************)
InSeq(e, s) == \E n \in DOMAIN s : s[n] = e

SetAside(p, e, d) ==
  puts[p].pc = "evict" /\ Target(p).device = d /\ InSeq(e, puts[p].deferred)

Queued(e, d) == InSeq(e, fifo[d]) \/ \E p \in Putters : SetAside(p, e, d)

(***************************************************************************)
(* What two queues put end to end hold.                                    *)
(***************************************************************************)
LEMMA InConcat ==
  ASSUME NEW s \in Seq(Entry), NEW t \in Seq(Entry), NEW e
  PROVE  InSeq(e, s \o t) <=> InSeq(e, s) \/ InSeq(e, t)
<1> HIDE DEF Entry
<1>1. /\ Len(s) \in Nat /\ Len(t) \in Nat /\ DOMAIN s = 1..Len(s) /\ DOMAIN t = 1..Len(t)
      /\ DOMAIN (s \o t) = 1 .. Len(s) + Len(t)
      /\ \A i \in 1 .. Len(s) + Len(t) :
           (s \o t)[i] = IF i <= Len(s) THEN s[i] ELSE t[i - Len(s)]
  OBVIOUS
<1>2. ASSUME InSeq(e, s \o t) PROVE InSeq(e, s) \/ InSeq(e, t)
  <2>1. PICK i \in 1 .. Len(s) + Len(t) : (s \o t)[i] = e
    BY <1>1, <1>2 DEF InSeq
  <2>2. CASE i <= Len(s)
    <3>1. i \in 1..Len(s) /\ s[i] = e
      BY <1>1, <2>1, <2>2
    <3> QED
      BY <1>1, <3>1 DEF InSeq
  <2>3. CASE ~(i <= Len(s))
    <3>1. i - Len(s) \in 1..Len(t) /\ t[i - Len(s)] = e
      BY <1>1, <2>1, <2>3
    <3> QED
      BY <1>1, <3>1 DEF InSeq
  <2> QED
    BY <2>2, <2>3
<1>3. ASSUME InSeq(e, s) PROVE InSeq(e, s \o t)
  <2>1. PICK i \in 1..Len(s) : s[i] = e
    BY <1>1, <1>3 DEF InSeq
  <2>2. i \in 1 .. Len(s) + Len(t) /\ (s \o t)[i] = e
    BY <1>1, <2>1
  <2> QED
    BY <1>1, <2>2 DEF InSeq
<1>4. ASSUME InSeq(e, t) PROVE InSeq(e, s \o t)
  <2>1. PICK i \in 1..Len(t) : t[i] = e
    BY <1>1, <1>4 DEF InSeq
  <2>2. PICK j : j = i + Len(s)
    OBVIOUS
  <2>3. j \in 1 .. Len(s) + Len(t) /\ (s \o t)[j] = e
    BY <1>1, <2>1, <2>2
  <2> QED
    BY <1>1, <2>3 DEF InSeq
<1> QED
  BY <1>2, <1>3, <1>4

(***************************************************************************)
(* What a queue holds with one more entry at its end.                      *)
(***************************************************************************)
LEMMA InAppend ==
  ASSUME NEW s \in Seq(Entry), NEW x \in Entry, NEW e
  PROVE  InSeq(e, Append(s, x)) <=> InSeq(e, s) \/ e = x
<1> HIDE DEF Entry
<1>1. Len(s) \in Nat /\ DOMAIN s = 1..Len(s)
  OBVIOUS
<1>2. /\ DOMAIN Append(s, x) = 1 .. Len(s) + 1
      /\ \A i \in 1 .. Len(s) : Append(s, x)[i] = s[i]
      /\ Append(s, x)[Len(s) + 1] = x
  OBVIOUS
<1>3. \A i \in 1 .. Len(s) + 1 : i \in 1 .. Len(s) \/ i = Len(s) + 1
  BY <1>1
<1>4. Len(s) + 1 \in 1 .. Len(s) + 1 /\ \A i \in 1 .. Len(s) : i \in 1 .. Len(s) + 1
  BY <1>1
<1> QED
  BY <1>1, <1>2, <1>3, <1>4, Zenon DEF InSeq

(***************************************************************************)
(* What a queue holds besides its head is in its tail.                     *)
(***************************************************************************)
LEMMA InTail ==
  ASSUME NEW s \in Seq(Entry), NEW e, s # <<>>, InSeq(e, s)
  PROVE  e = Head(s) \/ InSeq(e, Tail(s))
<1> HIDE DEF Entry
<1>1. Len(s) \in Nat /\ DOMAIN s = 1..Len(s)
  OBVIOUS
<1>2. PICK i \in 1..Len(s) : s[i] = e
  BY <1>1 DEF InSeq
<1>3. CASE i = 1
  BY <1>2, <1>3
<1>4. CASE i # 1
  <2>1. /\ DOMAIN Tail(s) = 1 .. Len(s) - 1
        /\ \A j \in 1 .. Len(s) - 1 : Tail(s)[j] = s[j + 1]
    OBVIOUS
  <2>2. PICK j : j = i - 1
    OBVIOUS
  <2>3. j \in 1 .. Len(s) - 1 /\ Tail(s)[j] = e
    BY <1>1, <1>2, <1>4, <2>1, <2>2
  <2> QED
    BY Zenon, <2>1, <2>3 DEF InSeq
<1> QED
  BY <1>3, <1>4

(***************************************************************************)
(* A thread moves its own put only.                                        *)
(***************************************************************************)
LEMMA OthersKept ==
  ASSUME Shape, NEW p \in Putters, NEW q \in Putters \ {p},
         PutStep(p) \/ \E k \in Keys, s \in Specs : PutReserve(p, k, s)
  PROVE  puts'[q] = puts[q]
<1>0. puts \in [Putters -> PutType]
  BY DEF Shape, Types
<1>1. UNCHANGED puts \/ \E x : puts' = [puts EXCEPT ![p] = x]
  <2>1. CASE \/ PutSkip(p) \/ PutReturn(p) \/ PutResolve(p) \/ PutAlloc(p) \/ PutTooLarge(p)
             \/ PutNoSpace(p) \/ EvictForget(p) \/ EvictPanic(p) \/ PutPublish(p)
             \/ PutClear(p) \/ PutPanic(p) \/ PutPoisoned(p)
             \/ \E k \in Keys, s \in Specs : PutReserve(p, k, s)
    BY <2>1, Zenon DEF PutSkip, PutReturn, PutResolve, PutAlloc, PutTooLarge, PutNoSpace,
       EvictForget, EvictPanic, PutPublish, PutClear, PutPanic, PutPoisoned, Unwind,
       PutReserve
  <2>2. CASE \/ PutMustEvict(p) \/ EvictBegin(p) \/ EvictDefer(p) \/ EvictEntry(p)
             \/ EvictNothing(p) \/ PutCopied(p) \/ (\E f \in CopyFaults : PutCopyFails(p, f))
             \/ PutGone(p) \/ PutDrop(p)
    BY <2>2, Zenon DEF PutMustEvict, EvictBegin, EvictDefer, EvictEntry, EvictNothing,
       PutCopied, PutCopyFails, PutGone, PutDrop
  <2> QED
    BY <2>1, <2>2, Zenon DEF PutStep
<1> QED
  BY <1>0, <1>1

(***************************************************************************)
(* What a thread that drains a queue can do next.                          *)
(***************************************************************************)
LEMMA EvictingSteps ==
  ASSUME Shape, [Next]_vars, NEW p \in Putters, puts[p].pc = "evict"
  PROVE  \/ puts'[p] = puts[p]
         \/ EvictDefer(p) \/ EvictEntry(p) \/ EvictNothing(p) \/ EvictPanic(p)
<1>1. \/ UNCHANGED puts
      \/ \E q \in Putters : PutStep(q) \/ \E k \in Keys, s \in Specs : PutReserve(q, k, s)
  BY Zenon DEF Next, vars, Register, DropRegion, Publish, Remove, GetPick, GetEnd, DmaEnds,
     CallPanics
<1>2. CASE UNCHANGED puts
  BY <1>2
<1>3. ASSUME NEW q \in Putters \ {p},
             PutStep(q) \/ \E k \in Keys, s \in Specs : PutReserve(q, k, s)
      PROVE  puts'[p] = puts[p]
  BY <1>3, OthersKept
<1>4. ~ \E k \in Keys, s \in Specs : PutReserve(p, k, s)
  BY DEF PutReserve
<1>5. ASSUME PutStep(p)
      PROVE  \/ puts'[p] = puts[p]
             \/ EvictDefer(p) \/ EvictEntry(p) \/ EvictNothing(p) \/ EvictPanic(p)
  BY <1>5 DEF PutStep, PutSkip, PutReturn, PutResolve, PutAlloc, PutTooLarge, PutNoSpace,
     PutMustEvict, EvictBegin, EvictForget, PutCopied, PutCopyFails, PutPublish, PutGone,
     PutDrop, PutClear, PutPanic, PutPoisoned
<1> QED
  BY <1>1, <1>2, <1>3, <1>4, <1>5, Zenon

(***************************************************************************)
(* The queues after a step that pops an entry.                             *)
(***************************************************************************)
LEMMA PoppingSteps ==
  ASSUME Shape, NEW p \in Putters, NEW d \in Pools,
         EvictDefer(p) \/ EvictForget(p) \/ EvictEntry(p)
  PROVE  LET t == Target(p).device
         IN  /\ PopEntry(p)
             /\ d # t => fifo'[d] = fifo[d]
             /\ EvictDefer(p) \/ EvictForget(p) => fifo'[t] = Tail(fifo[t])
             /\ EvictEntry(p) =>
                  \/ fifo'[t] = Tail(fifo[t]) /\ UNCHANGED puts
                  \/ /\ fifo'[t] = puts[p].deferred \o Tail(fifo[t])
                     /\ puts' = [puts EXCEPT ![p].pc = "retry", ![p].deferred = <<>>]
<1> DEFINE t == Target(p).device
<1>0. fifo \in [Pools -> Seq(Entry)]
  BY DEF Shape, Types
<1>1. PopEntry(p)
  BY Zenon DEF EvictDefer, EvictForget, EvictEntry
<1>2. t \in Pools
  BY <1>1, PoppedType
<1>3. CASE EvictDefer(p) \/ EvictForget(p)
  <2>1. fifo' = [fifo EXCEPT ![t] = Tail(@)]
    BY <1>3, Zenon DEF EvictDefer, EvictForget
  <2>2. ~EvictEntry(p)
    BY <1>3 DEF EvictEntry, EvictDefer, EvictForget
  <2> HIDE DEF t
  <2>3. fifo'[t] = Tail(fifo[t]) /\ (d # t => fifo'[d] = fifo[d])
    BY <1>0, <1>2, <2>1
  <2> QED
    BY Zenon, <1>1, <2>2, <2>3 DEF t
<1>4. CASE EvictEntry(p)
  <2>1. \/ fifo' = [fifo EXCEPT ![t] = Tail(@)] /\ UNCHANGED puts
        \/ /\ fifo' = [fifo EXCEPT ![t] = puts[p].deferred \o Tail(@)]
           /\ puts' = [puts EXCEPT ![p].pc = "retry", ![p].deferred = <<>>]
    BY <1>4, Zenon DEF EvictEntry, Restored
  <2>2. ~EvictDefer(p) /\ ~EvictForget(p)
    BY <1>4 DEF EvictEntry, EvictDefer, EvictForget
  <2> HIDE DEF t
  <2>3. /\ d # t => fifo'[d] = fifo[d]
        /\ \/ fifo'[t] = Tail(fifo[t]) /\ UNCHANGED puts
           \/ /\ fifo'[t] = puts[p].deferred \o Tail(fifo[t])
              /\ puts' = [puts EXCEPT ![p].pc = "retry", ![p].deferred = <<>>]
    BY Zenon, <1>0, <1>2, <2>1
  <2> QED
    BY Zenon, <1>1, <2>2, <2>3 DEF t
<1> QED
  BY Zenon, <1>3, <1>4

(***************************************************************************)
(* What a put sets aside goes back to the queue when its drain ends.       *)
(***************************************************************************)
LEMMA AsideStep ==
  ASSUME Shape, [Next]_vars, ~poisoned', NEW p \in Putters, NEW e, NEW d \in Pools,
         SetAside(p, e, d)
  PROVE  SetAside(p, e, d)' \/ InSeq(e, fifo'[d])
<1>0. /\ puts \in [Putters -> PutType] /\ puts[p].deferred \in Seq(Entry)
      /\ fifo \in [Pools -> Seq(Entry)]
  BY DEF Shape, Types, PutType
<1>1. puts[p].pc = "evict" /\ Target(p).device = d /\ InSeq(e, puts[p].deferred)
  BY DEF SetAside
<1>2. CASE puts'[p] = puts[p]
  BY <1>1, <1>2 DEF SetAside, Target
<1>3. CASE EvictDefer(p)
  <2>1. puts' = [puts EXCEPT ![p].deferred = Append(@, Popped(p))] /\ Popped(p) \in Entry
    BY <1>3, PoppedType DEF EvictDefer
  <2>2. /\ puts'[p].pc = puts[p].pc /\ puts'[p].targets = puts[p].targets
        /\ puts'[p].deferred = Append(puts[p].deferred, Popped(p))
    BY <1>0, <2>1 DEF PutType
  <2>3. InSeq(e, puts'[p].deferred)
    BY <1>0, <1>1, <2>1, <2>2, InAppend
  <2> QED
    BY <1>1, <2>2, <2>3 DEF SetAside, Target
<1>4. CASE EvictEntry(p)
  <2>1. PopEntry(p)
    BY <1>4, PoppingSteps, Zenon
  <2>2. Tail(fifo[d]) \in Seq(Entry)
    BY <1>1, <2>1, PoppedType
  <2>3. CASE UNCHANGED puts
    BY <1>2, <2>3
  <2>4. CASE fifo'[d] = puts[p].deferred \o Tail(fifo[d])
    <3>1. PICK w \in Seq(Entry) : fifo'[d] = puts[p].deferred \o w
      BY Zenon, <2>2, <2>4
    <3> QED
      BY <1>0, <1>1, <3>1, InConcat
  <2> QED
    BY <1>1, <1>4, <2>3, <2>4, PoppingSteps, Zenon
<1>5. CASE EvictNothing(p)
  <2>1. fifo' = [fifo EXCEPT ![Target(p).device] = puts[p].deferred \o @]
    BY <1>5 DEF EvictNothing, Restored
  <2>2. fifo'[d] = puts[p].deferred \o fifo[d] /\ fifo[d] \in Seq(Entry)
    BY <1>0, <1>1, <2>1
  <2> QED
    BY <1>0, <1>1, <2>2, InConcat
<1>6. CASE EvictPanic(p)
  BY <1>6 DEF EvictPanic, Unwind
<1> QED
  BY <1>1, <1>2, <1>3, <1>4, <1>5, <1>6, EvictingSteps, Zenon

(***************************************************************************)
(* An entry leaves the queues in two ways: its key is not evictable, or    *)
(* the slot it stands for is evicted.                                      *)
(***************************************************************************)
LEMMA QueuedStep ==
  ASSUME Shape, EntriesWell, [Next]_vars, ~poisoned', NEW e, NEW d \in Pools, Queued(e, d)
  PROVE  \/ Queued(e, d)'
         \/ \E p \in Putters : /\ EvictForget(p) \/ EvictEntry(p)
                               /\ Popped(p) = e /\ Target(p).device = d
<1> DEFINE Leaves(p) == /\ EvictForget(p) \/ EvictEntry(p)
                        /\ Popped(p) = e /\ Target(p).device = d
<1>0. fifo \in [Pools -> Seq(Entry)] /\ fifo[d] \in Seq(Entry) /\ puts \in [Putters -> PutType]
  BY DEF Shape, Types
<1>1. ASSUME NEW p \in Putters, SetAside(p, e, d) PROVE Queued(e, d)'
  <2>1. SetAside(p, e, d)' \/ InSeq(e, fifo'[d])
    BY <1>1, AsideStep
  <2> QED
    BY <2>1 DEF Queued
<1>2. ASSUME InSeq(e, fifo[d]) PROVE Queued(e, d)' \/ \E p \in Putters : Leaves(p)
  <2>1. CASE fifo'[d] = fifo[d]
    BY <1>2, <2>1 DEF Queued
  <2>2. ASSUME NEW p \in Putters, EvictDefer(p) \/ EvictForget(p) \/ EvictEntry(p),
               fifo'[d] # fifo[d]
        PROVE  Queued(e, d)' \/ Leaves(p)
    <3>1. Target(p).device = d /\ PopEntry(p)
      BY <2>2, PoppingSteps, Zenon
    <3>2. e = Popped(p) \/ InSeq(e, Tail(fifo[d]))
      BY <1>0, <1>2, <3>1, InTail DEF PopEntry, Popped
    <3>3. Tail(fifo[d]) \in Seq(Entry) /\ Popped(p) \in Entry /\ puts[p].deferred \in Seq(Entry)
      BY <1>0, <3>1, PoppedType DEF PutType
    <3>4. \/ fifo'[d] = Tail(fifo[d])
          \/ fifo'[d] = puts[p].deferred \o Tail(fifo[d])
      BY <2>2, <3>1, PoppingSteps, Zenon
    <3>5. CASE InSeq(e, Tail(fifo[d]))
      <4>1. InSeq(e, fifo'[d])
        <5>1. PICK w \in Seq(Entry) : /\ fifo'[d] = w \/ fifo'[d] = puts[p].deferred \o w
                                      /\ InSeq(e, w)
          BY Zenon, <3>3, <3>4, <3>5
        <5>2. puts[p].deferred \in Seq(Entry)
          BY <3>3
        <5>3. InSeq(e, puts[p].deferred \o w)
          BY <5>1, <5>2, InConcat
        <5> QED
          BY <5>1, <5>3, Zenon
      <4> QED
        BY <4>1 DEF Queued
    <3>6. CASE e = Popped(p) /\ EvictDefer(p)
      <4>1. puts' = [puts EXCEPT ![p].deferred = Append(@, e)] /\ puts[p].pc = "evict"
        BY <3>6 DEF EvictDefer, PopEntry
      <4>2. /\ puts'[p].pc = puts[p].pc /\ puts'[p].targets = puts[p].targets
            /\ puts'[p].deferred = Append(puts[p].deferred, e)
        BY <1>0, <4>1 DEF PutType
      <4>3. InSeq(e, puts'[p].deferred)
        BY <3>3, <3>6, <4>2, InAppend
      <4>4. SetAside(p, e, d)'
        BY <3>1, <4>1, <4>2, <4>3 DEF SetAside, Target
      <4> QED
        BY <4>4 DEF Queued
    <3> QED
      BY <2>2, <3>1, <3>2, <3>5, <3>6
  <2>3. ASSUME NEW p \in Putters, EvictNothing(p) PROVE Queued(e, d)'
    <3>1. /\ fifo' = [fifo EXCEPT ![Target(p).device] = puts[p].deferred \o @]
          /\ fifo[Target(p).device] = <<>>
      BY <2>3 DEF EvictNothing, Restored
    <3>2. Target(p).device # d
      BY <1>2, <3>1 DEF InSeq
    <3>3. fifo'[d] = fifo[d]
      BY <1>0, <3>1, <3>2
    <3> QED
      BY <1>2, <3>3 DEF Queued
  <2>4. ASSUME NEW p \in Putters, PutPublish(p) PROVE Queued(e, d)'
    <3>1. fifo'[d] = fifo[d] \o NewEntries(p, d)
      BY <2>4 DEF PutPublish, Queue
    <3>2. NewEntries(p, d) \in Seq(Entry)
      BY Zenon DEF EntriesWell
    <3>3. InSeq(e, fifo'[d])
      BY <1>0, <1>2, <3>1, <3>2, InConcat
    <3> QED
      BY <3>3 DEF Queued
  <2>5. ~ \E p \in Putters : EvictPanic(p)
    BY DEF EvictPanic, Unwind
  <2>6. \/ UNCHANGED fifo
        \/ \E p \in Putters : \/ EvictDefer(p) \/ EvictForget(p) \/ EvictEntry(p)
                              \/ EvictNothing(p) \/ EvictPanic(p) \/ PutPublish(p)
    <3>1. ASSUME NEW p \in Putters, PutStep(p)
          PROVE  \/ UNCHANGED fifo
                 \/ EvictDefer(p) \/ EvictForget(p) \/ EvictEntry(p)
                 \/ EvictNothing(p) \/ EvictPanic(p) \/ PutPublish(p)
      BY <3>1, Zenon DEF PutStep, PutSkip, PutReturn, PutResolve, PutAlloc, PutTooLarge,
         PutNoSpace, PutMustEvict, EvictBegin, PutCopied, PutCopyFails, PutGone, PutDrop,
         PutClear, PutPanic, PutPoisoned
    <3> QED
      BY <3>1, Zenon DEF Next, vars, Register, DropRegion, Publish, Remove, GetPick, GetEnd,
         DmaEnds, CallPanics, PutReserve
  <2> HIDE DEF Leaves
  <2> QED
    BY <2>1, <2>2, <2>3, <2>4, <2>5, <2>6, Zenon
<1> QED
  BY <1>1, <1>2, Zenon DEF Queued

(***************************************************************************)
(* A poisoned mutex stays poisoned.                                        *)
(***************************************************************************)
LEMMA PoisonStays ==
  ASSUME [Next]_vars, poisoned PROVE poisoned'
<1>1. ASSUME NEW p \in Putters, PutStep(p) PROVE poisoned'
  BY <1>1, Zenon DEF PutStep, PutSkip, PutReturn, PutResolve, PutAlloc, PutTooLarge,
     PutNoSpace, PutMustEvict, EvictBegin, EvictDefer, EvictForget, EvictEntry,
     EvictNothing, EvictPanic, PutCopied, PutCopyFails, PutPublish, PutGone, PutDrop,
     PutClear, PutPanic, PutPoisoned, Unwind
<1> QED
  BY <1>1, Zenon DEF Next, vars, Register, DropRegion, Publish, Remove, GetPick, GetEnd,
     DmaEnds, CallPanics, PutReserve

(***************************************************************************)
(* Every step keeps the pinned replicas of Cache objects queued, since the *)
(* entry of an evictable slot is popped only with the slot's replicas.     *)
(***************************************************************************)
LEMMA CacheQueuedStep ==
  Shape /\ EntriesWell /\ Linked /\ CacheReplicasQueued /\ [Next]_vars => CacheReplicasQueued'
<1> SUFFICES ASSUME Shape, EntriesWell, Linked, CacheReplicasQueued, [Next]_vars, ~poisoned',
                    NEW r \in reps', IsOwned(r), objects'[r.key].retention = "Cache"
             PROVE  Queued(<<r.key, r.slot>>, r.device)'
  BY Zenon DEF CacheReplicasQueued, Queued, SetAside, InSeq
<1>0. ~poisoned
  BY PoisonStays
<1>1. /\ reps' \subseteq LocalReplica /\ reps \subseteq LocalReplica
      /\ fifo \in [Pools -> Seq(Entry)]
  BY MetadataStep DEF Shape, Types
<1>2. r.device \in Pools
  BY <1>1, ReplicaFields
<1>3. CASE r \in reps
  <2>1. objects[r.key].retention = "Cache" /\ objects[r.key] # NoObject
    BY <1>3, LinkedStep DEF Linked
  <2>2. Queued(<<r.key, r.slot>>, r.device)
    BY <1>0, <1>3, <2>1, Zenon DEF CacheReplicasQueued, Queued, SetAside, InSeq
  <2>3. ASSUME NEW p \in Putters, EvictForget(p), Popped(p) = <<r.key, r.slot>> PROVE FALSE
    BY <2>1, <2>3 DEF EvictForget, Evictable
  <2>4. ASSUME NEW p \in Putters, EvictEntry(p), Popped(p) = <<r.key, r.slot>>,
               Target(p).device = r.device
        PROVE  FALSE
    <3>1. r \in Victims(Popped(p)[1], Popped(p)[2], Target(p).device)
      BY <1>3, <2>4 DEF Victims, Slot
    <3>2. reps' = reps \ Victims(Popped(p)[1], Popped(p)[2], Target(p).device)
      BY <2>4, Zenon DEF EvictEntry
    <3> QED
      BY <3>1, <3>2
  <2> QED
    BY <1>2, <2>2, <2>3, <2>4, QueuedStep, Zenon
<1>4. CASE r \notin reps
  <2>1. ASSUME NEW p \in Putters, PutPublish(p) PROVE Queued(<<r.key, r.slot>>, r.device)'
    <3>1. /\ reps' = reps \cup {NewReplica(p, n) : n \in DOMAIN puts[p].placed}
          /\ fifo' = [d \in Pools |-> fifo[d] \o NewEntries(p, d)]
      BY <2>1 DEF PutPublish, Queue
    <3>2. PICK n \in DOMAIN puts[p].placed : r = NewReplica(p, n)
      BY <1>4, <3>1
    <3>3. /\ r.device = puts[p].placed[n].device
          /\ <<r.key, r.slot>> = <<puts[p].key, puts[p].slot>>
      BY <3>2, NewReplicaType
    <3>4. /\ NewEntries(p, r.device) \in Seq(Entry) /\ fifo[r.device] \in Seq(Entry)
          /\ InSeq(<<r.key, r.slot>>, NewEntries(p, r.device))
      BY <1>1, <1>2, <3>3, Zenon DEF InSeq, EntriesWell
    <3>5. fifo'[r.device] = fifo[r.device] \o NewEntries(p, r.device)
      BY Zenon, <1>2, <3>1
    <3>6. InSeq(<<r.key, r.slot>>, fifo'[r.device])
      BY <3>4, <3>5, InConcat
    <3> QED
      BY <3>6 DEF Queued
  <2>2. ASSUME NEW k \in Keys, NEW i \in DOMAIN objects[k].slots, NEW src \in PublishSrcs,
               Publish(k, i, src)
        PROVE  FALSE
    <3>1. r = ExternalReplica(k, i, src.len, RegionDevice[src.regions[1]], src.regions)
      BY Zenon, <1>4, <2>2 DEF Publish
    <3> QED
      BY <3>1, SlotNumber, ExternalReplicaType
  <2>3. \/ reps' \subseteq reps
        \/ \E k \in Keys : \E i \in DOMAIN objects[k].slots :
              \E src \in PublishSrcs : Publish(k, i, src)
        \/ \E p \in Putters : PutPublish(p)
    BY Zenon, IndexSteps DEF DropRegion, Retained, Remove, EvictEntry, PutClear, PutReserve
  <2> QED
    BY <1>4, <2>1, <2>2, <2>3
<1> QED
  BY <1>3, <1>4

-----------------------------------------------------------------------------
(***************************************************************************)
(* The slots put p has claimed and has yet to deal with.  No other put has *)
(* a claim on them, and nobody has filled them.                            *)
(***************************************************************************)
Pending(p) == {i \in puts[p].writable : i >= puts[p].slot}

ClaimsExclusive ==
  \A p \in Putters : \A i \in Pending(p) :
    /\ i \in writing[puts[p].key]
    /\ objects[puts[p].key] = puts[p].spec
    /\ \A q \in Putters : puts[q].key = puts[p].key /\ i \in Pending(q) => q = p
    /\ \A r \in reps : r.key = puts[p].key /\ r.slot = i => ~IsOwned(r)

ClaimInv == WrittenOnce /\ ClaimsExclusive

(***************************************************************************)
(* A step that leaves the claims of q alone, and one that takes nothing    *)
(* from the index that a claim rests on.                                   *)
(***************************************************************************)
ClaimKept(q) ==
  /\ Pending(q)' = Pending(q)
  /\ puts'[q].key = puts[q].key
  /\ puts'[q].spec = puts[q].spec
  /\ puts'[q].pc = "idle" => puts[q].pc = "idle"

IndexKept ==
  /\ \A p \in Putters : \A i \in Pending(p) :
       /\ i \in writing'[puts[p].key]
       /\ objects'[puts[p].key] = objects[puts[p].key]
  /\ \A k \in Keys : writing'[k] \subseteq writing[k]
  /\ \A r \in reps' \ reps : ~IsOwned(r)

(***************************************************************************)
(* Such steps keep the claims exclusive and held.                          *)
(***************************************************************************)
LEMMA ClaimsUndisturbed ==
  ASSUME Shape, ClaimInv, [Next]_vars, IndexKept, NEW p \in Putters,
         \A q \in Putters \ {p} : ClaimKept(q),
         ClaimKept(p) \/ (Pending(p)' = {} /\ (Pending(p) = {} \/ poisoned'))
  PROVE  ClaimInv'
<1>1. FilledOnce'
  BY DEF ClaimInv, WrittenOnce, FilledOnce, IndexKept
<1>2. ASSUME ~poisoned', NEW k \in Keys, NEW i \in writing'[k]
      PROVE  \E q \in Putters : puts'[q].pc # "idle" /\ puts'[q].key = k /\ i \in Pending(q)'
  <2>1. ~poisoned /\ i \in writing[k]
    BY <1>2, PoisonStays DEF IndexKept
  <2>2. PICK q \in Putters : puts[q].pc # "idle" /\ puts[q].key = k /\ i \in Pending(q)
    BY <2>1 DEF ClaimInv, WrittenOnce, ClaimsHeld, Pending
  <2>3. ClaimKept(q)
    BY <1>2, <2>2
  <2> QED
    BY <2>2, <2>3 DEF ClaimKept
<1>3. ClaimsHeld'
  BY <1>2 DEF ClaimsHeld, Pending
<1>4. \A q \in Putters : \A i \in Pending(q)' :
         /\ i \in Pending(q) /\ puts'[q].key = puts[q].key /\ puts'[q].spec = puts[q].spec
  BY DEF ClaimKept
<1>5. ASSUME NEW q \in Putters, NEW i \in Pending(q)'
      PROVE  /\ i \in writing'[puts'[q].key]
             /\ objects'[puts'[q].key] = puts'[q].spec
             /\ \A o \in Putters : puts'[o].key = puts'[q].key /\ i \in Pending(o)' => o = q
             /\ \A r \in reps' : r.key = puts'[q].key /\ r.slot = i => ~IsOwned(r)
  <2>1. i \in Pending(q) /\ puts'[q].key = puts[q].key /\ puts'[q].spec = puts[q].spec
    BY <1>4
  <2>2. i \in writing'[puts[q].key] /\ objects'[puts[q].key] = objects[puts[q].key]
    BY <2>1 DEF IndexKept
  <2>3. /\ objects[puts[q].key] = puts[q].spec
        /\ \A o \in Putters : puts[o].key = puts[q].key /\ i \in Pending(o) => o = q
        /\ \A r \in reps : r.key = puts[q].key /\ r.slot = i => ~IsOwned(r)
    BY <2>1 DEF ClaimInv, ClaimsExclusive
  <2>4. \A r \in reps' : r \in reps \/ ~IsOwned(r)
    BY DEF IndexKept
  <2> QED
    BY <1>4, <2>1, <2>2, <2>3, <2>4
<1>6. ClaimsExclusive'
  BY <1>5 DEF ClaimsExclusive
<1> QED
  BY <1>1, <1>3, <1>6 DEF ClaimInv, WrittenOnce

(***************************************************************************)
(* Whoever has claims is in a put.                                         *)
(***************************************************************************)
LEMMA PendingIsBusy ==
  ASSUME Shape, NEW p \in Putters, Pending(p) # {}
  PROVE  puts[p].pc \notin AtRest /\ puts[p].pc # "idle" /\ puts[p].spec # NoObject
<1>1. puts[p].pc \notin AtRest
  BY DEF Shape, PutShape, Pending
<1>2. puts[p].writable \subseteq DOMAIN puts[p].spec.slots /\ puts[p].writable # {}
  BY <1>1 DEF Shape, PutShape, Pending
<1> QED
  BY <1>1, <1>2 DEF AtRest, NoObject

(***************************************************************************)
(* Only publishing a slot, giving it up and reserving a key disturb what   *)
(* the claims rest on, as long as no key is removed while it is put.       *)
(***************************************************************************)
LEMMA IndexKeptStep ==
  ASSUME ~RemoveDuringPut, Shape, ClaimInv, [Next]_vars,
         ~ \E p \in Putters : \/ PutPublish(p) \/ PutClear(p)
                              \/ \E k \in Keys, s \in Specs : PutReserve(p, k, s)
  PROVE  IndexKept
<1>0. /\ objects \in [Keys -> Specs \cup {NoObject}] /\ writing \in [Keys -> SUBSET Nat]
      /\ \A p \in Putters : puts[p].key \in Keys
  BY DEF Shape, Types, PutType
<1>1. \A p \in Putters : \A i \in Pending(p) : i \in writing[puts[p].key]
  BY DEF ClaimInv, ClaimsExclusive
<1>2. CASE UNCHANGED <<objects, writing>> /\ \A r \in reps' \ reps : ~IsOwned(r)
  BY <1>1, <1>2 DEF IndexKept
<1>3. ASSUME NEW k \in Keys, NEW i \in DOMAIN objects[k].slots, NEW src \in PublishSrcs,
             Publish(k, i, src)
      PROVE  IndexKept
  <2>0. PICK e : e = ExternalReplica(k, i, src.len, RegionDevice[src.regions[1]], src.regions)
    OBVIOUS
  <2>1. reps' = reps \cup {e} /\ UNCHANGED <<objects, writing>>
    BY Zenon, <1>3, <2>0 DEF Publish
  <2>2. ~IsOwned(e)
    BY <2>0, SlotNumber, ExternalReplicaType
  <2> QED
    BY <1>2, <2>1, <2>2
<1>4. ASSUME NEW ks \in Removals, Remove(ks) PROVE IndexKept
  <2>1. \A p \in Putters : Pending(p) # {} => puts[p].key \notin ks
    BY <1>4, PendingIsBusy DEF Remove
  <2>2. /\ objects' = [k \in Keys |-> IF k \in ks THEN NoObject ELSE objects[k]]
        /\ writing' = [k \in Keys |-> IF k \in ks THEN {} ELSE writing[k]]
        /\ reps' \subseteq reps
    BY <1>4 DEF Remove
  <2> QED
    BY <1>0, <1>1, <2>1, <2>2 DEF IndexKept
<1>5. ASSUME NEW p \in Putters, EvictEntry(p) PROVE IndexKept
  <2>1. PICK k : /\ reps' \subseteq reps /\ UNCHANGED writing
                 /\ objects' = IF Emptied(k, reps') THEN [objects EXCEPT ![k] = NoObject]
                               ELSE objects
    BY <1>5, Zenon DEF EvictEntry
  <2>2. \A q \in Putters : \A i \in Pending(q) : objects'[puts[q].key] = objects[puts[q].key]
    BY <1>0, <1>1, <2>1 DEF Emptied
  <2> QED
    BY <1>1, <2>1, <2>2 DEF IndexKept
<1>6. CASE \E g \in Regions : DropRegion(g)
  BY <1>2, <1>6 DEF DropRegion, Retained
<1> QED
  BY <1>2, <1>3, <1>4, <1>5, <1>6, IndexSteps

(***************************************************************************)
(* A put passes by a slot it did not claim with all its claims, and        *)
(* deals with a slot it has claimed by leaving it behind.                  *)
(***************************************************************************)
LEMMA MovesOnPending ==
  ASSUME Shape, NEW p \in Putters, puts[p].pc \notin AtRest,
         puts' = [puts EXCEPT ![p] = NextSlot(p)]
  PROVE  /\ \A q \in Putters \ {p} : ClaimKept(q)
         /\ Pending(p)' = Pending(p) \ {puts[p].slot}
         /\ puts'[p].key = puts[p].key /\ puts'[p].spec = puts[p].spec
         /\ puts'[p].pc = "slot"
<1>1. MovesOn(p)
  BY Zenon, NextSlotMoves
<1>2. \A q \in Putters \ {p} : ClaimKept(q)
  BY <1>1 DEF MovesOn, ClaimKept, Pending
<1>3. puts[p].slot \in Nat /\ puts[p].writable \subseteq Nat
  BY DEF Shape, Types, PutType
<1>4. \A i \in Nat : i >= puts[p].slot + 1 <=> i >= puts[p].slot /\ i # puts[p].slot
  BY <1>3
<1>5. Pending(p)' = Pending(p) \ {puts[p].slot}
  BY <1>1, <1>3, <1>4 DEF MovesOn, Pending
<1> QED
  BY <1>1, <1>2, <1>5 DEF MovesOn

(***************************************************************************)
(* The other steps of a put keep its claims, or end it: a put returns when *)
(* it has dealt with all of them, and panics only with the mutex poisoned. *)
(***************************************************************************)
LEMMA OtherPutMoves ==
  ASSUME Shape, NEW p \in Putters, PutStep(p), ~PutPublish(p), ~PutClear(p)
  PROVE  /\ \A q \in Putters \ {p} : ClaimKept(q)
         /\ ClaimKept(p) \/ (Pending(p)' = {} /\ (Pending(p) = {} \/ poisoned'))
<1> DEFINE Goal ==
      /\ \A q \in Putters \ {p} : ClaimKept(q)
      /\ ClaimKept(p) \/ (Pending(p)' = {} /\ (Pending(p) = {} \/ poisoned'))
<1>1. CASE StaysAtSlot(p)
  <2>1. SameSlot(p)
    BY <1>1, StaysMoves
  <2> QED
    BY <2>1 DEF SameSlot, ClaimKept, Pending, InSlot, Allocating
<1>2. CASE PutDrop(p)
  <2>1. Drops(p)
    BY <1>2, DropMoves
  <2> QED
    BY <2>1 DEF Drops, ClaimKept, Pending
<1>3. CASE PutAlloc(p)
  <2>1. puts[p].pc \in Allocating /\ \E off \in Fit(p) :
          puts' = [puts EXCEPT ![p] = Accepted(p, off)]
    BY <1>3, Zenon DEF PutAlloc, Allocating
  <2>2. Fit(p) \subseteq Int
    BY <2>1, TargetIsPool DEF Fit, FirstFit, Runs, Shape, Types
  <2>3. PICK off \in Int : puts' = [puts EXCEPT ![p] = Accepted(p, off)]
    BY <2>1, <2>2, Zenon
  <2>4. Places(p, off)
    BY <2>1, <2>3, AllocMoves, Zenon
  <2> QED
    BY <2>4 DEF Places, ClaimKept, Pending, InSlot, Allocating
<1>4. CASE PutSkip(p)
  <2>1. /\ puts[p].pc \notin AtRest /\ puts' = [puts EXCEPT ![p] = NextSlot(p)]
        /\ puts[p].slot \notin puts[p].writable
    BY <1>4 DEF PutSkip, AtRest
  <2>2. Pending(p) \ {puts[p].slot} = Pending(p)
    BY <2>1 DEF Pending
  <2> QED
    BY Zenon, <2>1, <2>2, MovesOnPending DEF ClaimKept
<1>5. CASE PutReturn(p)
  <2>1. Ends(p)
    BY Zenon, <1>5, EndMoves DEF PutReturn
  <2>2. Pending(p) = {}
    <3>1. /\ puts[p].slot \in Nat \ {0} /\ puts[p].spec.slots \in Seq(SlotSpec)
          /\ puts[p].writable \subseteq DOMAIN puts[p].spec.slots
          /\ puts[p].slot \notin DOMAIN puts[p].spec.slots
      BY Zenon, <1>5, SpecsAssumption DEF PutReturn, Shape, Types, PutType, PutShape, AtRest, ObjectSpec
    <3>2. PICK N \in Nat : DOMAIN puts[p].spec.slots = 1..N
      BY <3>1
    <3>3. \A i \in 1..N : ~(i >= puts[p].slot)
      BY <3>1, <3>2
    <3> QED
      BY <3>1, <3>2, <3>3 DEF Pending
  <2> QED
    BY <2>1, <2>2 DEF Ends, ClaimKept, Pending
<1>6. CASE EvictPanic(p) \/ PutPanic(p) \/ PutPoisoned(p)
  <2>1. puts' = [puts EXCEPT ![p] = [NoPut EXCEPT !.pc = "panicked"]] /\ poisoned'
    BY <1>6, Zenon DEF EvictPanic, PutPanic, PutPoisoned, Unwind
  <2>2. Ends(p)
    BY Zenon, <2>1, EndMoves
  <2> QED
    BY <2>1, <2>2 DEF Ends, ClaimKept, Pending
<1> HIDE DEF Goal
<1>7. Goal
  BY <1>1, <1>2, <1>3, <1>4, <1>5, <1>6, Zenon DEF PutStep, StaysAtSlot, Goal
<1> QED
  BY <1>7 DEF Goal

(***************************************************************************)
(* A slot leaves its claim when it is published or given up.               *)
(***************************************************************************)
LEMMA ClaimsReleased ==
  ASSUME Shape, ClaimInv, [Next]_vars, NEW p \in Putters, PutPublish(p) \/ PutClear(p)
  PROVE  ClaimInv'
<1> DEFINE k == puts[p].key
           i == puts[p].slot
<1>0. writing \in [Keys -> SUBSET Nat] /\ k \in Keys
  BY DEF Shape, Types, PutType
<1>1. puts[p].pc \in InSlot /\ puts[p].pc \notin AtRest /\ puts' = [puts EXCEPT ![p] = NextSlot(p)]
  BY DEF PutPublish, PutClear, InSlot, AtRest
<1>2. /\ \A q \in Putters \ {p} : ClaimKept(q)
      /\ Pending(p)' = Pending(p) \ {i}
      /\ puts'[p].key = k /\ puts'[p].spec = puts[p].spec /\ puts'[p].pc = "slot"
  BY Zenon, <1>1, MovesOnPending
<1>3. i \in Pending(p)
  BY <1>1 DEF Shape, Types, PutType, PutShape, Pending
<1>4. /\ writing' = [writing EXCEPT ![k] = @ \ {i}] /\ UNCHANGED objects
      /\ reps \subseteq reps'
      /\ \A r \in reps' \ reps : r.key = k /\ r.slot = i /\ r.by = p
  <2>1. CASE PutPublish(p)
    <3>1. /\ reps' = reps \cup {NewReplica(p, n) : n \in DOMAIN puts[p].placed}
          /\ writing' = [writing EXCEPT ![k] = @ \ {i}] /\ UNCHANGED objects
      BY <2>1 DEF PutPublish
    <3> QED
      BY <3>1, NewReplicaType
  <2>2. CASE PutClear(p)
    BY <2>2 DEF PutClear, Unclaimed
  <2> QED
    BY <2>1, <2>2
<1>5. /\ \A r \in reps : r.key = k /\ r.slot = i => ~IsOwned(r)
      /\ \A q \in Putters \ {p} : puts[q].key = k => i \notin Pending(q)
  BY <1>3 DEF ClaimInv, ClaimsExclusive
<1> HIDE DEF k, i
<1>6. FilledOnce'
  BY <1>4, <1>5 DEF ClaimInv, WrittenOnce, FilledOnce
<1>7. \A q \in Putters : /\ puts'[q].key = puts[q].key /\ puts'[q].spec = puts[q].spec
                         /\ puts'[q].pc = "idle" => puts[q].pc = "idle"
                         /\ \A j : j \in Pending(q)' <=> j \in Pending(q) /\ (q = p => j # i)
  BY <1>2 DEF ClaimKept, k
<1>8. \A o \in Keys : \A j : j \in writing'[o] <=> j \in writing[o] /\ (o = k => j # i)
  BY <1>0, <1>4
<1>9. ASSUME ~poisoned', NEW o \in Keys, NEW j \in writing'[o]
      PROVE  \E q \in Putters : puts'[q].pc # "idle" /\ puts'[q].key = o /\ j \in Pending(q)'
  <2>1. ~poisoned /\ j \in writing[o] /\ (o = k => j # i)
    BY <1>8, <1>9, PoisonStays
  <2>2. PICK q \in Putters : puts[q].pc # "idle" /\ puts[q].key = o /\ j \in Pending(q)
    BY <2>1 DEF ClaimInv, WrittenOnce, ClaimsHeld, Pending
  <2> QED
    BY <1>7, <2>1, <2>2 DEF k
<1>10. ClaimsHeld'
  BY <1>9 DEF ClaimsHeld, Pending
<1>11. ASSUME NEW q \in Putters, NEW j \in Pending(q)'
       PROVE  /\ j \in writing'[puts'[q].key]
              /\ objects'[puts'[q].key] = puts'[q].spec
              /\ \A o \in Putters : puts'[o].key = puts'[q].key /\ j \in Pending(o)' => o = q
              /\ \A r \in reps' : r.key = puts'[q].key /\ r.slot = j => ~IsOwned(r)
  <2>1. /\ j \in Pending(q) /\ (q = p => j # i)
        /\ puts'[q].key = puts[q].key /\ puts'[q].spec = puts[q].spec
    BY <1>7
  <2>2. /\ j \in writing[puts[q].key] /\ objects[puts[q].key] = puts[q].spec
        /\ \A o \in Putters : puts[o].key = puts[q].key /\ j \in Pending(o) => o = q
        /\ \A r \in reps : r.key = puts[q].key /\ r.slot = j => ~IsOwned(r)
    BY <2>1 DEF ClaimInv, ClaimsExclusive
  <2>3. puts[q].key = k => j # i
    BY <1>5, <2>1
  <2>4. puts[q].key \in Keys
    BY DEF Shape, Types, PutType
  <2>5. j \in writing'[puts[q].key]
    BY <1>8, <2>2, <2>3, <2>4
  <2>6. \A r \in reps' : r.key = puts[q].key /\ r.slot = j => ~IsOwned(r)
    BY <1>4, <2>2, <2>3
  <2>7. \A o \in Putters : puts'[o].key = puts[q].key /\ j \in Pending(o)' => o = q
    BY <1>7, <2>2
  <2> QED
    BY <1>4, <2>1, <2>2, <2>5, <2>6, <2>7
<1>12. ClaimsExclusive'
  BY <1>11 DEF ClaimsExclusive
<1> QED
  BY <1>6, <1>10, <1>12 DEF ClaimInv, WrittenOnce

(***************************************************************************)
(* A put claims slots that nobody has claimed and nobody has filled.       *)
(***************************************************************************)
LEMMA ClaimsAdded ==
  ASSUME Shape, ClaimInv, [Next]_vars, NEW p \in Putters, NEW k \in Keys, NEW s \in Specs,
         PutReserve(p, k, s)
  PROVE  ClaimInv'
<1> DEFINE C == Claimable(k, s)
<1>0. /\ writing \in [Keys -> SUBSET Nat] /\ objects \in [Keys -> Specs \cup {NoObject}]
      /\ \A q \in Putters : puts[q].key \in Keys
  BY DEF Shape, Types, PutType
<1>1. /\ objects[k] \in {NoObject, s} /\ objects' = [objects EXCEPT ![k] = s]
      /\ writing' = [writing EXCEPT ![k] = @ \cup C]
      /\ UNCHANGED reps /\ puts[p].pc = "idle"
  BY DEF PutReserve
<1>2. Starts(p, k, s)
  BY ReserveMoves
<1>3. \A i \in C : i \in Nat /\ i >= 1 /\ i \notin writing[k] /\ \A r \in reps : ~(r.key = k /\ r.slot = i)
  <2>1. s.slots \in Seq(SlotSpec)
    BY SpecsAssumption DEF ObjectSpec
  <2>2. DOMAIN s.slots \subseteq Nat \ {0}
    BY <2>1
  <2> QED
    BY <2>2 DEF Claimable, Slot
<1>4. Pending(p) = {}
  BY <1>1, PendingIsBusy
<1> HIDE DEF C
<1>5. /\ Pending(p)' = C /\ puts'[p].key = k /\ puts'[p].spec = s /\ puts'[p].pc # "idle"
      /\ \A q \in Putters \ {p} : Pending(q)' = Pending(q) /\ puts'[q] = puts[q]
  BY <1>2, <1>3 DEF Starts, Pending, C
<1>6. /\ \A o \in Keys \ {k} : writing'[o] = writing[o] /\ objects'[o] = objects[o]
      /\ writing'[k] = writing[k] \cup C /\ objects'[k] = s
  BY <1>0, <1>1
<1>7. FilledOnce'
  BY <1>1 DEF ClaimInv, WrittenOnce, FilledOnce
<1>8. ASSUME ~poisoned', NEW o \in Keys, NEW j \in writing'[o]
      PROVE  \E q \in Putters : puts'[q].pc # "idle" /\ puts'[q].key = o /\ j \in Pending(q)'
  <2>1. CASE o = k /\ j \in C
    BY <1>5, <2>1
  <2>2. CASE j \in writing[o]
    <3>1. PICK q \in Putters : puts[q].pc # "idle" /\ puts[q].key = o /\ j \in Pending(q)
      BY <1>8, <2>2, PoisonStays DEF ClaimInv, WrittenOnce, ClaimsHeld, Pending
    <3> QED
      BY <1>1, <1>5, <3>1
  <2> QED
    BY <1>6, <1>8, <2>1, <2>2
<1>9. ClaimsHeld'
  BY <1>8 DEF ClaimsHeld, Pending
<1>10. ASSUME NEW q \in Putters, NEW j \in Pending(q)'
       PROVE  /\ j \in writing'[puts'[q].key]
              /\ objects'[puts'[q].key] = puts'[q].spec
              /\ \A o \in Putters : puts'[o].key = puts'[q].key /\ j \in Pending(o)' => o = q
              /\ \A r \in reps' : r.key = puts'[q].key /\ r.slot = j => ~IsOwned(r)
  <2>1. \A o \in Putters \ {p} : puts[o].key = k => Pending(o) \cap C = {}
    BY <1>3 DEF ClaimInv, ClaimsExclusive
  <2>2. CASE q = p
    <3>1. j \in C
      BY <1>5, <2>2
    <3> QED
      BY <1>1, <1>3, <1>5, <1>6, <2>1, <2>2, <3>1
  <2>3. CASE q # p
    <3>1. j \in Pending(q) /\ puts'[q] = puts[q] /\ puts[q].key \in Keys
      BY <1>0, <1>5, <2>3
    <3>2. /\ j \in writing[puts[q].key] /\ objects[puts[q].key] = puts[q].spec
          /\ \A o \in Putters : puts[o].key = puts[q].key /\ j \in Pending(o) => o = q
          /\ \A r \in reps : r.key = puts[q].key /\ r.slot = j => ~IsOwned(r)
      BY <3>1 DEF ClaimInv, ClaimsExclusive
    <3>3. puts[q].spec # NoObject
      BY <3>1, PendingIsBusy
    <3>4. objects'[puts[q].key] = puts[q].spec /\ j \in writing'[puts[q].key]
      BY <1>1, <1>6, <3>1, <3>2, <3>3
    <3>5. puts[q].key = k => j \notin C
      BY <2>1, <2>3, <3>1
    <3>6. \A o \in Putters : puts'[o].key = puts'[q].key /\ j \in Pending(o)' => o = q
      BY <1>5, <3>1, <3>2, <3>5
    <3> QED
      BY <1>1, <3>1, <3>2, <3>4, <3>6
  <2> QED
    BY <2>2, <2>3
<1>11. ClaimsExclusive'
  BY <1>10 DEF ClaimsExclusive
<1> QED
  BY <1>7, <1>9, <1>11 DEF ClaimInv, WrittenOnce

(***************************************************************************)
(* Every step keeps the claims exclusive and held.                         *)
(***************************************************************************)
LEMMA ClaimStep ==
  ASSUME ~RemoveDuringPut PROVE Shape /\ ClaimInv /\ [Next]_vars => ClaimInv'
<1> SUFFICES ASSUME Shape, ClaimInv, [Next]_vars PROVE ClaimInv'
  OBVIOUS
<1>1. CASE \E p \in Putters : PutPublish(p) \/ PutClear(p)
  BY <1>1, ClaimsReleased
<1>2. CASE \E p \in Putters, k \in Keys, s \in Specs : PutReserve(p, k, s)
  BY <1>2, ClaimsAdded
<1>3. ASSUME ~ \E p \in Putters : \/ PutPublish(p) \/ PutClear(p)
                                  \/ \E k \in Keys, s \in Specs : PutReserve(p, k, s)
      PROVE  ClaimInv'
  <2>1. IndexKept
    BY <1>3, IndexKeptStep
  <2>2. ASSUME NEW p \in Putters, PutStep(p) PROVE ClaimInv'
    BY <1>3, <2>1, <2>2, OtherPutMoves, ClaimsUndisturbed, Zenon
  <2>3. CASE UNCHANGED puts
    <3>1. \A q \in Putters : ClaimKept(q)
      BY <2>3 DEF ClaimKept, Pending
    <3>2. CASE Putters = {}
      BY <2>1, <3>2, PoisonStays DEF ClaimInv, ClaimsExclusive, WrittenOnce, FilledOnce,
         ClaimsHeld, IndexKept
    <3>3. CASE Putters # {}
      <4>1. PICK p \in Putters : TRUE
        BY <3>3
      <4> QED
        BY <2>1, <3>1, <4>1, ClaimsUndisturbed, Zenon
    <3> QED
      BY <3>2, <3>3
  <2> QED
    BY <1>3, <2>2, <2>3, Zenon DEF Next, vars, Register, DropRegion, Publish, Remove,
       GetPick, GetEnd, DmaEnds, CallPanics
<1> QED
  BY <1>1, <1>2, <1>3

-----------------------------------------------------------------------------
(***************************************************************************)
(* What a put has placed and the targets it has left honour the placement  *)
(* pl: Each takes its devices in order and gives up at the first failure,  *)
(* every other placement stops at the first buffer.                        *)
(***************************************************************************)
WellPlaced(pl, q) ==
  /\ \A n \in DOMAIN q.placed : Allowed(pl, q.placed[n])
  /\ \A n \in DOMAIN q.targets : Allowed(pl, q.targets[n])
  /\ pl.kind # "Each" /\ q.placed # <<>> => Len(q.placed) = 1 /\ q.targets = <<>>
  /\ pl.kind = "Each" =>
       /\ q.err = "Ok"
       /\ Len(q.placed) + Len(q.targets) = Len(pl.devs)
       /\ \A n \in DOMAIN q.placed : q.placed[n].device = pl.devs[n]
       /\ \A n \in DOMAIN q.targets : q.targets[n].device = pl.devs[Len(q.placed) + n]

PlacesWell(q) ==
  /\ q.pc = "slot" => q.err = "Ok"
  /\ q.pc \in Allocating \cup {"copy", "publish"} =>
       WellPlaced(q.spec.slots[q.slot].placement, q)
  /\ q.pc \in {"copy", "publish"} => q.targets = <<>>

Placing == \A p \in Putters : PlacesWell(puts[p])

(***************************************************************************)
(* A put that settles keeps what it has placed and has left to try.        *)
(***************************************************************************)
LEMMA SettledWell ==
  ASSUME NEW p \in Putters, NEW q \in PutType,
         WellPlaced(q.spec.slots[q.slot].placement, q)
  PROVE  PlacesWell(Settled(p, q))
<1> DEFINE s == Settled(p, q)
<1>1. /\ s.spec = q.spec /\ s.slot = q.slot
      /\ s.targets = q.targets /\ s.placed = q.placed /\ s.err = q.err
      /\ s.pc \in {"alloc", "copy", "fail"}
      /\ s.pc = "copy" => q.targets = <<>>
  BY SettledType
<1> HIDE DEF s
<1>2. WellPlaced(s.spec.slots[s.slot].placement, s)
  BY Zenon, <1>1 DEF WellPlaced
<1> QED
  BY <1>1, <1>2 DEF PlacesWell, s

(***************************************************************************)
(* Resolving a placement finds targets that honour it.                     *)
(***************************************************************************)
LEMMA ResolveWell ==
  ASSUME Shape, Placing, NEW p \in Putters, PutResolve(p)
  PROVE  PlacesWell(puts'[p])
<1> DEFINE pl == CurrentSlot(p).placement
           T == Targets(pl)
           q == [puts[p] EXCEPT !.targets = T]
           f == [puts[p] EXCEPT !.pc = "fail", !.err = "InvalidInput"]
<1>1. /\ puts[p].pc = "slot" /\ puts[p].slot \in puts[p].writable
      /\ puts' = [puts EXCEPT ![p] = IF Resolvable(pl) THEN Settled(p, q) ELSE f]
  BY DEF PutResolve
<1>2. puts \in [Putters -> PutType] /\ puts[p] \in PutType /\ PutShape(puts[p])
  BY DEF Shape, Types
<1>3. puts'[p] = IF Resolvable(pl) THEN Settled(p, q) ELSE f
  BY <1>1, <1>2
<1>4. CASE ~Resolvable(pl)
  <2>1. puts'[p].pc = "fail"
    BY <1>2, <1>3, <1>4 DEF PutType
  <2> QED
    BY <2>1 DEF PlacesWell, Allocating
<1>5. CASE Resolvable(pl)
  <2>1. pl \in Placement /\ WellFormed(pl)
    BY <1>1, CurrentSlotType
  <2>2. /\ T \in Seq(TargetType)
        /\ \A n \in DOMAIN T : Allowed(pl, T[n])
        /\ pl.kind = "Each" => /\ Len(T) = Len(pl.devs)
                               /\ \A n \in DOMAIN pl.devs : T[n].device = pl.devs[n]
    BY <1>5, <2>1, TargetsType
  <2>3. pl = puts[p].spec.slots[puts[p].slot].placement
    BY DEF CurrentSlot
  <2>4. puts[p].placed = <<>> /\ puts[p].err = "Ok"
    BY <1>1, <1>2 DEF PutShape, InSlot, Allocating, Placing, PlacesWell
  <2> HIDE DEF T, pl
  <2>5. q \in PutType
    BY <1>2, <2>2, Zenon DEF PutType
  <2>6. /\ q.spec = puts[p].spec /\ q.slot = puts[p].slot
        /\ q.targets = T /\ q.placed = <<>> /\ q.err = "Ok"
    BY <1>2, <2>4 DEF PutType
  <2> HIDE DEF q
  <2>7. pl.kind = "Each" =>
          /\ Len(q.placed) + Len(q.targets) = Len(pl.devs)
          /\ \A n \in DOMAIN q.targets : q.targets[n].device = pl.devs[Len(q.placed) + n]
    <3>1. pl.devs \in Seq(Devices)
      BY <2>1 DEF Placement
    <3>2. Len(q.placed) = 0 /\ Len(T) \in Nat /\ DOMAIN T = 1..Len(T)
      BY <2>2, <2>6
    <3>3. ASSUME pl.kind = "Each"
          PROVE  DOMAIN T = DOMAIN pl.devs /\ Len(q.placed) + Len(T) = Len(pl.devs)
      BY <2>2, <3>1, <3>2, <3>3
    <3>4. \A n \in DOMAIN T : Len(q.placed) + n = n
      BY <3>2
    <3> QED
      BY <2>2, <2>6, <3>3, <3>4
  <2>8. WellPlaced(pl, q)
    BY <2>2, <2>6, <2>7 DEF WellPlaced
  <2> QED
    BY <1>3, <1>5, <2>3, <2>5, <2>6, <2>8, SettledWell
<1> QED
  BY <1>4, <1>5

(***************************************************************************)
(* A target without room fails Each and is passed by otherwise.            *)
(***************************************************************************)
LEMMA RefusedWell ==
  ASSUME Shape, Placing, NEW p \in Putters, puts[p].pc \in Allocating,
         puts' = [puts EXCEPT ![p] = Refused(p)]
  PROVE  PlacesWell(puts'[p])
<1> DEFINE pl == puts[p].spec.slots[puts[p].slot].placement
           T == IF IsEach(p) THEN <<>> ELSE Tail(puts[p].targets)
           q == [puts[p] EXCEPT !.err = "NoSpace", !.targets = T]
<1>1. puts \in [Putters -> PutType] /\ puts[p] \in PutType /\ puts[p].targets # <<>>
  BY DEF Shape, Types, PutShape
<1>2. T \in Seq(TargetType)
  BY TargetIsPool
<1>3. puts'[p] = Settled(p, q)
  BY <1>1 DEF Refused
<1>4. IsEach(p) <=> pl.kind = "Each"
  BY DEF IsEach, CurrentSlot
<1>5. WellPlaced(pl, puts[p])
  BY DEF Placing, PlacesWell
<1>6. /\ IsEach(p) => T = <<>>
      /\ ~IsEach(p) => \A n \in DOMAIN T : Allowed(pl, T[n])
  <2>1. ASSUME ~IsEach(p), NEW n \in DOMAIN Tail(puts[p].targets)
        PROVE  Allowed(pl, Tail(puts[p].targets)[n])
    <3>1. puts[p].targets \in Seq(TargetType)
      BY <1>1 DEF PutType
    <3>2. Tail(puts[p].targets)[n] = puts[p].targets[n + 1] /\ n + 1 \in DOMAIN puts[p].targets
      BY <1>1, <2>1, <3>1
    <3> QED
      BY Zenon, <1>5, <3>2 DEF WellPlaced
  <2> QED
    BY <2>1
<1> HIDE DEF T, pl
<1>7. q \in PutType
  BY <1>1, <1>2, Zenon DEF PutType, Outcomes
<1>8. /\ q.spec = puts[p].spec /\ q.slot = puts[p].slot /\ q.targets = T
      /\ q.placed = puts[p].placed /\ q.err = "NoSpace"
  BY <1>1 DEF PutType
<1> HIDE DEF q
<1>9. CASE IsEach(p)
  <2>1. Settled(p, q).pc = "fail"
    BY Zenon, <1>6, <1>7, <1>8, <1>9, SettledType DEF AllPlaced
  <2> QED
    BY <1>3, <2>1 DEF PlacesWell, Allocating
<1>10. CASE ~IsEach(p)
  <2>1. puts[p].placed = <<>>
    BY <1>1, <1>4, <1>5, <1>10 DEF WellPlaced
  <2>2. WellPlaced(pl, q)
    BY <1>4, <1>6, <1>8, <1>10, <2>1 DEF WellPlaced
  <2> QED
    BY <1>3, <1>7, <1>8, <2>2, SettledWell DEF pl
<1> QED
  BY <1>9, <1>10

(***************************************************************************)
(* The target after the first moves one place forward when a buffer is     *)
(* placed for the first.                                                   *)
(***************************************************************************)
LEMMA NextPlace ==
  ASSUME NEW a \in Nat, NEW c \in Nat, NEW n \in 1 .. c - 1
  PROVE  n \in Nat /\ n + 1 \in 1 .. c /\ (a + 1) + n = a + (n + 1)
OBVIOUS

(***************************************************************************)
(* A buffer is placed on the target it was asked for.                      *)
(***************************************************************************)
LEMMA AllocWell ==
  ASSUME Shape, Placing, NEW p \in Putters, puts[p].pc \in Allocating, NEW off \in Int,
         puts' = [puts EXCEPT ![p] = Accepted(p, off)]
  PROVE  PlacesWell(puts'[p])
<1> DEFINE pl == puts[p].spec.slots[puts[p].slot].placement
           ts == puts[p].targets
           ps == puts[p].placed
           T == IF IsEach(p) THEN Tail(ts) ELSE <<>>
           b == Buffer(p, off)
           B == Append(ps, b)
           q == [puts[p] EXCEPT !.placed = B, !.targets = T]
<1>1. /\ puts \in [Putters -> PutType] /\ puts[p] \in PutType /\ ts # <<>>
      /\ ts \in Seq(TargetType) /\ ps \in Seq(BufferType)
  BY DEF Shape, Types, PutShape, PutType
<1>2. T \in Seq(TargetType)
  BY TargetIsPool
<1>3. puts'[p] = Settled(p, q)
  BY <1>1 DEF Accepted, Buffer
<1>4. IsEach(p) <=> pl.kind = "Each"
  BY DEF IsEach, CurrentSlot
<1>5. WellPlaced(pl, puts[p])
  BY DEF Placing, PlacesWell
<1>6. b \in BufferType /\ b.device = ts[1].device /\ b.misplaced = ts[1].misplaced
  <2>1. b \in BufferType
    BY Zenon, AllocMoves
  <2>2. Target(p) = ts[1]
    BY <1>1 DEF Target
  <2> QED
    BY <2>1, <2>2 DEF Buffer
<1>7. 1 \in DOMAIN ts
  BY <1>1
<1>8. Allowed(pl, b)
  BY Zenon, <1>5, <1>6, <1>7 DEF WellPlaced, Allowed
<1> HIDE DEF b, pl
<1>9. B \in Seq(BufferType) /\ Len(B) = Len(ps) + 1
        /\ \A n \in 1..Len(ps) : B[n] = ps[n]
        /\ B[Len(ps) + 1] = b
  BY <1>1, <1>6
<1>10. Len(ps) \in Nat /\ DOMAIN ps = 1..Len(ps) /\ DOMAIN B = 1 .. Len(ps) + 1
  BY <1>1, <1>9
<1>11. \A n \in DOMAIN B : (n \in DOMAIN ps /\ B[n] = ps[n]) \/ (n = Len(ps) + 1 /\ B[n] = b)
  <2>1. \A n \in DOMAIN B : n \in DOMAIN ps \/ n = Len(ps) + 1
    BY <1>10
  <2>2. \A n \in DOMAIN ps : B[n] = ps[n]
    BY <1>9, <1>10
  <2>3. B[Len(ps) + 1] = b
    BY <1>9
  <2> QED
    BY <2>1, <2>2, <2>3, Zenon
<1> HIDE DEF B
<1>12. \A n \in DOMAIN B : Allowed(pl, B[n])
  <2>1. \A n \in DOMAIN ps : Allowed(pl, ps[n])
    BY <1>5 DEF WellPlaced
  <2> HIDE DEF ps
  <2> QED
    BY <1>8, <1>11, <2>1, Zenon
<1>13. q \in PutType
  BY <1>1, <1>2, <1>9, Zenon DEF PutType
<1>14. /\ q.spec = puts[p].spec /\ q.slot = puts[p].slot /\ q.targets = T
       /\ q.placed = B /\ q.err = puts[p].err
  BY <1>1 DEF PutType
<1> HIDE DEF q
<1>15. CASE IsEach(p)
  <2>1. /\ puts[p].err = "Ok" /\ Len(ps) + Len(ts) = Len(pl.devs)
        /\ \A n \in DOMAIN ps : ps[n].device = pl.devs[n]
        /\ \A n \in DOMAIN ts : ts[n].device = pl.devs[Len(ps) + n]
    BY Zenon, <1>4, <1>5, <1>15 DEF WellPlaced
  <2>2. /\ T \in Seq(TargetType) /\ Len(ts) \in Nat /\ DOMAIN ts = 1..Len(ts)
        /\ Len(T) = Len(ts) - 1 /\ DOMAIN T = 1 .. Len(ts) - 1
        /\ \A n \in 1 .. Len(ts) - 1 : T[n] = ts[n + 1]
    BY <1>1, <1>15
  <2> HIDE DEF T, ts, ps
  <2>3. Len(B) + Len(T) = Len(pl.devs)
    <3>1. /\ Len(B) = Len(ps) + 1 /\ Len(T) = Len(ts) - 1
          /\ Len(ps) \in Nat /\ Len(ts) \in Nat /\ Len(pl.devs) = Len(ps) + Len(ts)
      BY <1>9, <1>10, <2>1, <2>2, Zenon
    <3> QED
      BY <3>1
  <2>4. \A n \in DOMAIN B : B[n].device = pl.devs[n]
    <3>1. b.device = pl.devs[Len(ps) + 1]
      BY <1>6, <1>7, <2>1, Zenon
    <3> QED
      BY <1>11, <2>1, <3>1, Zenon
  <2>5. ASSUME NEW n \in DOMAIN T PROVE T[n].device = pl.devs[Len(B) + n]
    <3>1. n \in Nat /\ n + 1 \in DOMAIN ts /\ T[n] = ts[n + 1] /\ Len(B) + n = Len(ps) + (n + 1)
      <4>1. PICK a \in Nat, c \in Nat : a = Len(ps) /\ c = Len(ts)
        BY Zenon, <1>10, <2>2
      <4>2. n \in 1 .. c - 1 /\ Len(B) = a + 1
        BY Zenon, <1>9, <2>2, <4>1
      <4>3. n \in Nat /\ n + 1 \in 1 .. c /\ (a + 1) + n = a + (n + 1)
        BY Zenon, <4>1, <4>2, NextPlace
      <4> QED
        BY Zenon, <2>2, <4>1, <4>2, <4>3
    <3>2. ts[n + 1].device = pl.devs[Len(ps) + (n + 1)]
      BY <2>1, <3>1, Zenon
    <3> QED
      BY <3>1, <3>2, Zenon
  <2>6. ASSUME NEW n \in DOMAIN T PROVE Allowed(pl, T[n])
    <3>1. n + 1 \in DOMAIN ts /\ T[n] = ts[n + 1]
      BY <2>2
    <3> QED
      BY <1>5, <3>1 DEF WellPlaced, ts
  <2>7. WellPlaced(pl, q)
    BY <1>4, <1>12, <1>14, <1>15, <2>1, <2>3, <2>4, <2>5, <2>6, Zenon DEF WellPlaced
  <2> QED
    BY <1>3, <1>13, <1>14, <2>7, SettledWell DEF pl
<1>16. CASE ~IsEach(p)
  <2>1. ps = <<>> /\ T = <<>>
    BY <1>1, <1>4, <1>5, <1>16 DEF WellPlaced
  <2>2. Len(B) = 1
    BY <1>9, <2>1
  <2>3. WellPlaced(pl, q)
    BY <1>4, <1>12, <1>14, <1>16, <2>1, <2>2 DEF WellPlaced
  <2> QED
    BY <1>3, <1>13, <1>14, <2>3, SettledWell DEF pl
<1> QED
  BY <1>15, <1>16

(***************************************************************************)
(* Every step of a put keeps it to its placement.                          *)
(***************************************************************************)
LEMMA PlacingStep == Shape /\ Placing /\ [Next]_vars => Placing'
<1> SUFFICES ASSUME Shape, Placing, [Next]_vars PROVE Placing'
  OBVIOUS
<1>0. puts \in [Putters -> PutType] /\ \A p \in Putters : puts[p] \in PutType
  BY DEF Shape, Types
<1>1. CASE UNCHANGED puts
  BY <1>1 DEF Placing
<1>2. ASSUME NEW p \in Putters, PutStep(p) PROVE PlacesWell(puts'[p])
  <2>1. CASE PutResolve(p)
    BY <2>1, ResolveWell
  <2>2. CASE PutTooLarge(p) \/ PutNoSpace(p)
    <3>1. puts[p].pc \in Allocating /\ puts' = [puts EXCEPT ![p] = Refused(p)]
      BY <2>2 DEF PutTooLarge, PutNoSpace, Allocating
    <3> QED
      BY <3>1, RefusedWell, Zenon
  <2>3. CASE PutAlloc(p)
    <3>1. puts[p].pc \in Allocating /\ \E off \in Fit(p) :
            puts' = [puts EXCEPT ![p] = Accepted(p, off)]
      BY <2>3, Zenon DEF PutAlloc, Allocating
    <3>2. Fit(p) \subseteq Int
      BY <3>1, TargetIsPool DEF Fit, FirstFit, Runs, Shape, Types
    <3>3. PICK off \in Int : puts' = [puts EXCEPT ![p] = Accepted(p, off)]
      BY <3>1, <3>2, Zenon
    <3> QED
      BY <3>1, <3>3, AllocWell, Zenon
  <2>4. CASE PutSkip(p) \/ PutPublish(p) \/ PutClear(p)
    <3>1. puts' = [puts EXCEPT ![p] = NextSlot(p)]
      BY Zenon, <2>4 DEF PutSkip, PutPublish, PutClear
    <3>2. puts'[p].pc = "slot" /\ puts'[p].err = "Ok"
      BY <1>0, <3>1 DEF NextSlot, PutType
    <3> QED
      BY <3>2 DEF PlacesWell, Allocating
  <2>5. CASE \/ PutReturn(p) \/ EvictPanic(p) \/ PutPanic(p) \/ PutPoisoned(p) \/ PutDrop(p)
             \/ PutGone(p) \/ \E f \in CopyFaults : PutCopyFails(p, f)
    <3>1. CASE PutReturn(p) \/ EvictPanic(p) \/ PutPanic(p) \/ PutPoisoned(p)
      <4>1. \/ puts' = [puts EXCEPT ![p] = NoPut]
            \/ puts' = [puts EXCEPT ![p] = [NoPut EXCEPT !.pc = "panicked"]]
        BY <3>1, Zenon DEF PutReturn, EvictPanic, PutPanic, PutPoisoned, Unwind
      <4>2. puts'[p].pc \in AtRest
        BY <4>1, EndMoves DEF Ends
      <4> QED
        BY <4>2 DEF PlacesWell, Allocating, AtRest
    <3>2. CASE PutDrop(p) \/ PutGone(p) \/ \E f \in CopyFaults : PutCopyFails(p, f)
      <4>1. puts'[p].pc \in {"clear", "fail"}
        BY <1>0, <3>2 DEF PutDrop, PutGone, PutCopyFails, PutType
      <4> QED
        BY <4>1 DEF PlacesWell, Allocating
    <3> QED
      BY <2>5, <3>1, <3>2
  <2>6. CASE \/ PutMustEvict(p) \/ EvictBegin(p) \/ EvictDefer(p) \/ EvictForget(p)
             \/ EvictEntry(p) \/ EvictNothing(p) \/ PutCopied(p)
    <3>1. \/ UNCHANGED puts
          \/ \E D : puts' = [puts EXCEPT ![p].deferred = D]
          \/ \E c, D : /\ puts' = [puts EXCEPT ![p].pc = c, ![p].deferred = D]
                       /\ puts[p].pc \in Allocating /\ c \in Allocating
          \/ \E c : /\ puts' = [puts EXCEPT ![p].pc = c]
                    /\ \/ puts[p].pc \in Allocating /\ c \in Allocating
                       \/ puts[p].pc = "copy" /\ c = "publish"
      BY <2>6, Zenon DEF PutMustEvict, EvictBegin, EvictDefer, EvictForget, EvictEntry,
         EvictNothing, PutCopied, PopEntry, Allocating
    <3>2. /\ puts'[p].spec = puts[p].spec /\ puts'[p].slot = puts[p].slot
          /\ puts'[p].targets = puts[p].targets /\ puts'[p].placed = puts[p].placed
          /\ puts'[p].err = puts[p].err
          /\ \/ puts'[p].pc = puts[p].pc
             \/ puts[p].pc \in Allocating /\ puts'[p].pc \in Allocating
             \/ puts[p].pc = "copy" /\ puts'[p].pc = "publish"
      <4> DEFINE Same == /\ puts'[p].spec = puts[p].spec /\ puts'[p].slot = puts[p].slot
                         /\ puts'[p].targets = puts[p].targets
                         /\ puts'[p].placed = puts[p].placed /\ puts'[p].err = puts[p].err
      <4>1. UNCHANGED puts => Same /\ puts'[p].pc = puts[p].pc
        OBVIOUS
      <4>2. \A D : puts' = [puts EXCEPT ![p].deferred = D] => Same /\ puts'[p].pc = puts[p].pc
        BY <1>0 DEF PutType
      <4>3. \A c, D : puts' = [puts EXCEPT ![p].pc = c, ![p].deferred = D] =>
                      Same /\ puts'[p].pc = c
        BY <1>0 DEF PutType
      <4>4. \A c : puts' = [puts EXCEPT ![p].pc = c] => Same /\ puts'[p].pc = c
        BY <1>0 DEF PutType
      <4> HIDE DEF Same
      <4>5. /\ Same
            /\ \/ puts'[p].pc = puts[p].pc
               \/ puts[p].pc \in Allocating /\ puts'[p].pc \in Allocating
               \/ puts[p].pc = "copy" /\ puts'[p].pc = "publish"
        BY <3>1, <4>1, <4>2, <4>3, <4>4, Zenon
      <4> QED
        BY <4>5 DEF Same
    <3>3. PlacesWell(puts[p])
      BY DEF Placing
    <3> QED
      BY Zenon, <3>2, <3>3 DEF PlacesWell, WellPlaced, Allocating
  <2> QED
    BY <1>2, <2>1, <2>2, <2>3, <2>4, <2>5, <2>6, Zenon DEF PutStep
<1>3. ASSUME NEW p \in Putters, NEW k \in Keys, NEW s \in Specs, PutReserve(p, k, s)
      PROVE  PlacesWell(puts'[p])
  <2>1. puts' = [puts EXCEPT ![p] = [NoPut EXCEPT !.pc = "slot", !.key = k, !.spec = s,
                                       !.slot = 1, !.writable = Claimable(k, s)]]
    BY <1>3 DEF PutReserve
  <2>2. puts'[p].pc = "slot" /\ puts'[p].err = "Ok"
    BY <1>0, <2>1 DEF NoPut
  <2> QED
    BY <2>2 DEF PlacesWell, Allocating
<1>4. ASSUME NEW p \in Putters,
             PutStep(p) \/ \E k \in Keys, s \in Specs : PutReserve(p, k, s)
      PROVE  Placing'
  <2>1. PlacesWell(puts'[p])
    BY <1>2, <1>3, <1>4
  <2>2. \A q \in Putters \ {p} : puts'[q] = puts[q]
    BY <1>4, OthersKept, Zenon
  <2> QED
    BY <2>1, <2>2 DEF Placing
<1> QED
  BY <1>1, <1>4, Zenon DEF Next, vars, Register, DropRegion, Publish, Remove, GetPick,
     GetEnd, DmaEnds, CallPanics

(***************************************************************************)
(* The contract and the backend speak of the same objects and replicas.    *)
(***************************************************************************)
LEMMA ContractTerms ==
  /\ Contract!NoObject = NoObject
  /\ \A r : Contract!IsOwned(r) <=> IsOwned(r)
  /\ \A k, i : Contract!Slot(k, i) = Slot(k, i)
  BY DEF Contract!NoObject, NoObject, Contract!IsOwned, IsOwned, Contract!Slot, Slot

(***************************************************************************)
(* The replicas that a put publishes honour the placement of their slot.   *)
(***************************************************************************)
LEMMA PublishHonours ==
  ASSUME Shape, Placing, NEW p \in Putters, puts[p].pc = "publish"
  PROVE  Contract!Honours(CurrentSlot(p).placement,
                          {NewReplica(p, n) : n \in DOMAIN puts[p].placed})
<1> DEFINE pl == CurrentSlot(p).placement
           P == puts[p].placed
           R == {NewReplica(p, n) : n \in DOMAIN P}
<1>1. /\ P \in Seq(BufferType) /\ puts[p].slot \in puts[p].writable
      /\ puts[p].pc \in InSlot
  BY DEF Shape, Types, PutType, PutShape, InSlot
<1>2. pl \in Placement
  BY <1>1, CurrentSlotType
<1>3. WellPlaced(pl, puts[p]) /\ puts[p].targets = <<>>
  BY DEF Placing, PlacesWell, CurrentSlot
<1>4. \A n \in DOMAIN P : /\ NewReplica(p, n).nth = n
                          /\ NewReplica(p, n).device = P[n].device
                          /\ NewReplica(p, n).misplaced = P[n].misplaced
  BY NewReplicaType
<1>5. \A n \in DOMAIN P : Allowed(pl, P[n])
  BY <1>3 DEF WellPlaced
<1>6. pl.kind # "Each" => \A n \in DOMAIN P : n = 1
  <2>1. pl.kind # "Each" => P = <<>> \/ Len(P) = 1
    BY <1>3 DEF WellPlaced
  <2> HIDE DEF P, pl
  <2> QED
    BY <1>1, <2>1
<1>7. pl.kind = "Each" => DOMAIN P = DOMAIN pl.devs /\ \A n \in DOMAIN P : P[n].device = pl.devs[n]
  <2>1. pl.kind = "Each" => /\ Len(P) + Len(<<>>) = Len(pl.devs)
                            /\ \A n \in DOMAIN P : P[n].device = pl.devs[n]
    BY <1>3 DEF WellPlaced
  <2>2. pl.devs \in Seq(Devices)
    BY <1>2 DEF Placement
  <2> HIDE DEF P, pl
  <2> QED
    BY <1>1, <2>1, <2>2
<1> HIDE DEF P, pl
<1>8. \A r \in R : \E n \in DOMAIN P : /\ r = NewReplica(p, n) /\ r.nth = n
                                       /\ r.device = P[n].device /\ r.misplaced = P[n].misplaced
  BY <1>4
<1>9. \A r, q \in R : r.nth = q.nth => r = q
  BY <1>8
<1>10. /\ pl.kind = "Strict" => \A r \in R : r.device = pl.devs[1]
       /\ pl.kind = "Prefer" => \A r \in R : r.misplaced <=> r.device # pl.devs[1]
       /\ pl.kind # "Prefer" => \A r \in R : ~r.misplaced
       /\ pl.kind # "Each" => \A r \in R : r.nth = 1
  <2>1. \A r \in R : Allowed(pl, r)
    BY <1>5, <1>8 DEF Allowed
  <2>2. pl.kind # "Each" => \A r \in R : r.nth = 1
    BY <1>6, <1>8
  <2> HIDE DEF R
  <2> QED
    BY <2>1, <2>2, Zenon DEF Allowed
<1>11. ASSUME pl.kind = "Each"
       PROVE  {<<r.nth, r.device>> : r \in R} = {<<n, pl.devs[n]>> : n \in DOMAIN pl.devs}
  <2>1. \A n \in DOMAIN P : NewReplica(p, n) \in R /\ NewReplica(p, n).nth = n
                              /\ NewReplica(p, n).device = pl.devs[n]
    BY <1>4, <1>7, <1>11
  <2>2. \A r \in R : \E n \in DOMAIN P : r.nth = n /\ r.device = pl.devs[n]
    BY <1>7, <1>8, <1>11
  <2>3. DOMAIN P = DOMAIN pl.devs
    BY <1>7, <1>11
  <2> HIDE DEF R
  <2> QED
    BY <2>1, <2>2, <2>3
<1> HIDE DEF R
<1>12. Contract!Honours(pl, R)
  BY <1>9, <1>10, <1>11 DEF Contract!Honours
<1> QED
  BY <1>12 DEF pl, R, P

(***************************************************************************)
(* Every step of the backend is a step of the contract or changes neither  *)
(* an object nor a replica.                                                *)
(***************************************************************************)
LEMMA ContractStep ==
  ASSUME Shape, ClaimInv, Placing, [Next]_vars
  PROVE  [Contract!Next]_(Contract!cvars)
<1> DEFINE Goal == [Contract!Next]_(Contract!cvars)
<1>0. /\ objects \in [Keys -> Specs \cup {NoObject}] /\ reps \subseteq LocalReplica
      /\ \A p \in Putters : puts[p].key \in Keys
  BY DEF Shape, Types, PutType
<1>1. CASE UNCHANGED <<objects, reps>>
  BY <1>1 DEF Contract!cvars
<1>2. ASSUME NEW g \in Regions, DropRegion(g) PROVE Goal
  <2>1. Contract!Retire(g)
    BY <1>2 DEF DropRegion, Retained, Contract!Retire
  <2> QED
    BY <2>1 DEF Contract!Next
<1>3. ASSUME NEW k \in Keys, NEW i \in DOMAIN objects[k].slots, NEW src \in PublishSrcs,
             Publish(k, i, src)
      PROVE  Goal
  <2>0. PICK e : e = ExternalReplica(k, i, src.len, RegionDevice[src.regions[1]], src.regions)
    OBVIOUS
  <2>1. reps' = reps \cup {e} /\ UNCHANGED objects
    BY Zenon, <1>3, <2>0 DEF Publish
  <2>2. e.key = k /\ e.slot = i /\ ~IsOwned(e)
    <3>1. i \in Nat
      BY Zenon, SlotNumber
    <3> QED
      BY <2>0, <3>1, ExternalReplicaType
  <2>3. Contract!Publish(k, i)
    BY <2>1, <2>2, ContractTerms DEF Contract!Publish
  <2> QED
    BY <2>3 DEF Contract!Next
<1>4. ASSUME NEW ks \in Removals, Remove(ks) PROVE Goal
  <2>1. ks \in SUBSET Keys
    BY LocalAssumption
  <2>2. reps' = {r \in reps : r.key \notin ks}
    BY <1>4 DEF Remove
  <2>3. Contract!Remove(ks)
    BY Zenon, <1>4, <2>2, ContractTerms DEF Remove, Contract!Remove
  <2> QED
    BY <2>1, <2>3 DEF Contract!Next
<1>5. ASSUME NEW p \in Putters, EvictEntry(p) PROVE Goal
  <2> DEFINE k == Popped(p)[1]
             i == Popped(p)[2]
             d == Target(p).device
  <2>1. /\ PopEntry(p) /\ Evictable(k) /\ i \in DOMAIN objects[k].slots
        /\ reps' = reps \ Victims(k, i, d)
        /\ objects' = IF Emptied(k, reps') THEN [objects EXCEPT ![k] = NoObject] ELSE objects
    BY <1>5, Zenon DEF EvictEntry
  <2>2. k \in Keys /\ d \in Devices
    <3>1. Popped(p) \in Keys \X Nat /\ d \in Pools
      BY Zenon, <2>1, PoppedType DEF Entry
    <3> HIDE DEF d
    <3> QED
      BY <3>1, PoolsAreDevices
  <2> HIDE DEF k, i, d
  <2>3. Contract!Evict(k, i, d)
    <3>1. reps' = reps \ {r \in Contract!Slot(k, i) : r.device = d /\ Contract!IsOwned(r)}
      BY <2>1, ContractTerms DEF Victims
    <3>2. \/ UNCHANGED objects
          \/ /\ \A r \in reps' : r.key # k
             /\ objects' = [objects EXCEPT ![k] = Contract!NoObject]
      BY <2>1, ContractTerms DEF Emptied
    <3> QED
      BY <2>1, <3>1, <3>2 DEF Contract!Evict, Evictable
  <2> QED
    BY <2>1, <2>2, <2>3 DEF Contract!Next
<1>6. ASSUME NEW p \in Putters, PutPublish(p) PROVE Goal
  <2> DEFINE k == puts[p].key
             i == puts[p].slot
             R == {NewReplica(p, n) : n \in DOMAIN puts[p].placed}
  <2>1. /\ puts[p].pc = "publish" /\ i \in DOMAIN objects[k].slots
        /\ reps' = reps \cup R /\ UNCHANGED objects
    BY <1>6 DEF PutPublish
  <2>2. i \in Pending(p)
    <3>1. puts[p].pc \in InSlot
      BY <2>1 DEF InSlot
    <3>2. i \in puts[p].writable
      BY Zenon, <3>1 DEF Shape, PutShape
    <3>3. puts[p].slot \in Nat
      BY DEF Shape, Types, PutType
    <3>4. i >= puts[p].slot
      BY <3>3
    <3> QED
      BY Zenon, <3>2, <3>4 DEF Pending
  <2>3. /\ objects[k] = puts[p].spec
        /\ \A r \in reps : r.key = k /\ r.slot = i => ~IsOwned(r)
    BY <2>2 DEF ClaimInv, ClaimsExclusive
  <2>4. \A r \in R : r.key = k /\ r.slot = i /\ IsOwned(r)
    BY NewReplicaType
  <2>5. Contract!Honours(CurrentSlot(p).placement, R)
    BY Zenon, <2>1, PublishHonours
  <2>6. CurrentSlot(p).placement = objects[k].slots[i].placement
    BY <2>3 DEF CurrentSlot
  <2> HIDE DEF k, i, R
  <2>7. reps' \ reps = R
    BY <2>1, <2>3, <2>4
  <2>8. CASE R = {}
    BY <1>1, <2>1, <2>8
  <2>9. CASE R # {}
    <3>1. Contract!Fill(k, i)
      BY Zenon, <2>1, <2>3, <2>4, <2>5, <2>6, <2>7, <2>9, ContractTerms DEF Contract!Fill, Slot
    <3>2. k \in Keys
      BY <1>0 DEF k
    <3> QED
      BY Zenon, <2>1, <3>1, <3>2 DEF Contract!Next
  <2> QED
    BY <2>8, <2>9
<1>7. ASSUME NEW p \in Putters, NEW k \in Keys, NEW s \in Specs, PutReserve(p, k, s)
      PROVE  Goal
  <2>1. /\ objects[k] \in {NoObject, s} /\ objects' = [objects EXCEPT ![k] = s]
        /\ UNCHANGED reps
    BY <1>7 DEF PutReserve
  <2>2. CASE objects[k] = NoObject
    <3>1. Contract!Create(k, s)
      BY <2>1, <2>2, ContractTerms DEF Contract!Create
    <3> QED
      BY <3>1 DEF Contract!Next
  <2>3. CASE objects[k] = s
    <3>1. UNCHANGED objects
      BY <1>0, <2>1, <2>3
    <3> QED
      BY <1>1, <2>1, <3>1
  <2> QED
    BY <2>1, <2>2, <2>3
<1>8. CASE \E p \in Putters : PutClear(p)
  BY Zenon, <1>1, <1>8 DEF PutClear
<1> HIDE DEF Goal
<1>9. Goal
  BY <1>1, <1>2, <1>3, <1>4, <1>5, <1>6, <1>7, <1>8, IndexSteps, Zenon DEF Goal
<1> QED
  BY <1>9 DEF Goal

-----------------------------------------------------------------------------
(***************************************************************************)
(* The theorems.  Only here are the facts about cardinality needed.        *)
(***************************************************************************)
INSTANCE FiniteSetTheorems

(***************************************************************************)
(* A published slot is queued on the device of every buffer placed for it. *)
(***************************************************************************)
LEMMA NewEntriesType == Shape => EntriesWell
<1> SUFFICES ASSUME Shape, NEW p \in Putters, NEW d \in Pools
             PROVE  /\ NewEntries(p, d) \in Seq(Entry)
                    /\ \A m \in DOMAIN puts[p].placed : puts[p].placed[m].device = d =>
                         \E n \in DOMAIN NewEntries(p, d) :
                           NewEntries(p, d)[n] = <<puts[p].key, puts[p].slot>>
  BY Zenon DEF EntriesWell
<1> DEFINE B == {m \in DOMAIN puts[p].placed : puts[p].placed[m].device = d}
           c == Cardinality(B)
           e == <<puts[p].key, puts[p].slot>>
<1>1. puts[p].placed \in Seq(BufferType) /\ e \in Entry
  BY DEF Shape, Types, PutType, Entry
<1>2. IsFiniteSet(B)
  <2> DEFINE N == Len(puts[p].placed)
  <2>1. N \in Int /\ 1 \in Int /\ B \subseteq 1 .. N
    BY <1>1
  <2> HIDE DEF N
  <2>2. IsFiniteSet(1 .. N)
    BY <2>1, FS_Interval
  <2> QED
    BY <2>1, <2>2, FS_Subset
<1>3. B # {} => c # 0
  BY <1>2, FS_EmptySet, Zenon
<1>4. NewEntries(p, d) = [n \in 1..c |-> e]
  BY DEF NewEntries
<1>5. \A m \in DOMAIN puts[p].placed : puts[p].placed[m].device = d => B # {}
  OBVIOUS
<1>6. c \in Nat
  BY <1>2, FS_CardinalityType
<1> HIDE DEF B, c, e, Entry
<1>7. NewEntries(p, d) \in Seq(Entry)
  BY <1>1, <1>4, <1>6
<1>8. B # {} => 1 \in DOMAIN NewEntries(p, d) /\ NewEntries(p, d)[1] = e
  BY <1>3, <1>4, <1>6
<1> QED
  BY <1>5, <1>7, <1>8, Zenon DEF e

(***************************************************************************)
(* Every reachable state is well-formed.                                   *)
(***************************************************************************)
LEMMA ShapeInvariant == Spec => []Shape
<1>1. Init => Shape
  BY ShapeInit
<1>2. Shape /\ [Next]_vars => Shape'
  BY ShapeStep, NewEntriesType
<1> QED
  BY <1>1, <1>2, PTL DEF Spec

(***************************************************************************)
(* No byte of a pool is handed out while a replica, a running get or an    *)
(* unfinished put uses it, and the last of them gives it back: eviction,   *)
(* remove, failing puts and ending gets in any order, with any number of   *)
(* threads.                                                                *)
(***************************************************************************)
THEOREM EveryByteHasOneOwner == Spec => []OneOwner
<1>1. Init => Owned
  BY OwnedInit
<1>2. Shape /\ Owned /\ [Next]_vars => Owned'
  BY OwnedStep
<1>3. Owned => OneOwner
  BY OwnedIsOneOwner
<1> QED
  BY <1>1, <1>2, <1>3, ShapeInvariant, PTL DEF Spec

(***************************************************************************)
(* As long as clients publish memory of one region at a time, no replica   *)
(* in the index points into memory that is not registered: the drop of a   *)
(* region retires every replica with a segment in it.                      *)
(***************************************************************************)
THEOREM ReplicasAlwaysPointToLiveRegions ==
  ASSUME OneRegionEach PROVE Spec => []ExternalReplicasLive
<1>1. Init => SegsLive
  BY DEF Init, SegsLive
<1>2. Shape /\ SegsLive /\ [Next]_vars => SegsLive'
  BY SegsLiveStep
<1>3. SegsLive => ExternalReplicasLive
  BY DEF SegsLive, ExternalReplicasLive
<1> QED
  BY <1>1, <1>2, <1>3, ShapeInvariant, PTL DEF Spec

(***************************************************************************)
(* Every pinned replica of a Cache object is in the eviction queue of its  *)
(* device, or in the hands of the put that drains this queue: no sequence  *)
(* of removals, re-puts and evictions leaves bytes that can be evicted and *)
(* that alloc_or_evict never finds.                                        *)
(***************************************************************************)
THEOREM CacheAlwaysEvictable == Spec => []CacheReplicasQueued
<1>1. Init => Linked /\ CacheReplicasQueued
  BY DEF Init, Linked, CacheReplicasQueued
<1>2. Shape /\ Linked /\ CacheReplicasQueued /\ [Next]_vars => (Linked /\ CacheReplicasQueued)'
  BY LinkedStep, CacheQueuedStep, NewEntriesType
<1> QED
  BY <1>1, <1>2, ShapeInvariant, PTL DEF Spec

(***************************************************************************)
(* As long as clients do not remove a key that is being put, a slot is     *)
(* written once: whatever puts race for it, evict each other's slots, fail *)
(* or panic, its replicas come from one of them, and a claim on it is held *)
(* by a put that has yet to publish the slot or to clear the claim.        *)
(***************************************************************************)
THEOREM SlotsAlwaysWrittenOnce ==
  ASSUME ~RemoveDuringPut PROVE Spec => []WrittenOnce
<1>1. Init => ClaimInv
  <2> SUFFICES ASSUME Init PROVE ClaimInv
    OBVIOUS
  <2>1. \A p \in Putters : puts[p].writable = {} /\ Pending(p) = {}
    BY DEF Init, NoPut, Pending
  <2> QED
    BY <2>1 DEF Init, ClaimInv, WrittenOnce, FilledOnce, ClaimsHeld, ClaimsExclusive
<1>2. Shape /\ ClaimInv /\ [Next]_vars => ClaimInv'
  BY ClaimStep
<1>3. ClaimInv => WrittenOnce
  BY DEF ClaimInv
<1> QED
  BY <1>1, <1>2, <1>3, ShapeInvariant, PTL DEF Spec

(***************************************************************************)
(* The CUDA backend implements the contract that the reference backend     *)
(* implements, as long as clients do not remove a key that is being put:   *)
(* whatever its threads do between two critical sections, clients see      *)
(* objects created, slots filled once and as their placement says, Cache   *)
(* slots evicted, regions retired and keys removed, and nothing else.      *)
(***************************************************************************)
THEOREM LocalImplementsContract ==
  ASSUME ~RemoveDuringPut PROVE Spec => ImplementsContract
<1>1. Init => ClaimInv /\ Placing /\ Contract!Init
  <2> SUFFICES ASSUME Init PROVE ClaimInv /\ Placing /\ Contract!Init
    OBVIOUS
  <2>1. \A p \in Putters : puts[p].writable = {} /\ Pending(p) = {} /\ puts[p].pc = "idle"
    BY DEF Init, NoPut, Pending
  <2>2. ClaimInv
    BY Zenon, <2>1 DEF Init, ClaimInv, WrittenOnce, FilledOnce, ClaimsHeld, ClaimsExclusive
  <2>3. Placing
    BY <2>1 DEF Placing, PlacesWell, Allocating
  <2>4. Contract!Init
    BY ContractTerms DEF Init, Contract!Init
  <2> QED
    BY <2>2, <2>3, <2>4
<1>2. Shape /\ ClaimInv /\ Placing /\ [Next]_vars => (ClaimInv /\ Placing)'
  BY ClaimStep, PlacingStep
<1>3. Shape /\ ClaimInv /\ Placing /\ [Next]_vars => [Contract!Next]_(Contract!cvars)
  BY ContractStep
<1> QED
  BY <1>1, <1>2, <1>3, ShapeInvariant, PTL DEF Spec, ImplementsContract, Contract!Spec
=============================================================================
