--------------------------- MODULE TransferProofs ---------------------------
(***************************************************************************)
(* Theorems about MemoryMap, for every size of the address space and every *)
(* set of lengths: regions stay apart, and find_entry is exact.  Then      *)
(* theorems about Transfer, for any number of callers, NICs, sessions,     *)
(* batches and regions: an operation under way has its region registered   *)
(* with the NICs, the promises of the memory map hold in the engine that   *)
(* batches and registrations share, and a batch is routed whole and evenly.*)
(*                                                                         *)
(* EntriesApart is inductive together with MapTypeOK.  The argument is the *)
(* one the code relies on: a region that neither the predecessor nor the   *)
(* successor of its base overlaps is apart from every region, for the      *)
(* others lie beyond those two.                                            *)
(*                                                                         *)
(* The invariant behind the theorem on transfers is that every holder of a *)
(* region, be it the map, the snapshot of a caller or the operation of a   *)
(* session, names a region the NICs have.  No step makes a new holder but  *)
(* from an old one: a snapshot comes from the map, an operation from a     *)
(* snapshot, the work of a session from the operations of a caller.  That  *)
(* the operations of a caller are regions of its own snapshot is part of   *)
(* the invariant.                                                          *)
(*                                                                         *)
(* That the NICs of a node share its operations evenly needs a count over  *)
(* all callers: while no batch has been refused, a NIC has, sent or still  *)
(* in the hands of a caller, one operation for each turn it had of the     *)
(* counter of its group.  The rest is arithmetic of the remainder.         *)
(***************************************************************************)
EXTENDS Transfer, FiniteSetTheorems, WellFoundedInduction, TLAPS

(***************************************************************************)
(* A non-empty set of naturals has a least element.                        *)
(***************************************************************************)
LEMMA LeastElement ==
  ASSUME NEW S, S \subseteq Nat, S # {}
  PROVE  \E n \in S : \A m \in S : n <= m
<1> DEFINE Less == OpToRel(<, Nat)
<1>1. \A m, n \in Nat : m < n => <<m, n>> \in Less
  BY DEF OpToRel
<1>2. IsWellFoundedOn(Less, Nat)
  BY Zenon, NatLessThanWellFounded
<1> HIDE DEF Less
<1>3. PICK n \in S : \A m \in S : ~(<<m, n>> \in Less)
  BY Zenon, <1>2, WFMin
<1>4. ASSUME NEW m \in S PROVE n <= m
  <2>1. m \in Nat /\ n \in Nat
    OBVIOUS
  <2>2. ~(m < n)
    BY Zenon, <1>1, <1>3, <2>1
  <2> QED BY <2>1, <2>2
<1> QED BY <1>4

(***************************************************************************)
(* What MapTypeOK says of one entry.                                       *)
(***************************************************************************)
LEMMA EntryType ==
  ASSUME MapTypeOK, NEW e \in entries
  PROVE  /\ e.base \in Nat
         /\ e.len \in Nat
         /\ e.len > 0
         /\ e.base + e.len < Limit
<1>1. e.base \in Addresses /\ e.len \in Lengths
  BY DEF MapTypeOK, Entry
<1>2. e.len # 0 /\ e.base + e.len < Limit
  BY DEF MapTypeOK
<1>3. e.base \in Nat
  BY <1>1, MapAssumption DEF Addresses
<1>4. e.len \in Nat
  BY Zenon, <1>1, MapAssumption
<1> QED BY <1>2, <1>3, <1>4

(***************************************************************************)
(* range(..=a).next_back() finds an element if there is one to find.       *)
(***************************************************************************)
LEMMA BeforeExists ==
  ASSUME MapTypeOK, NEW a \in Nat, NEW e \in entries, e.base <= a
  PROVE  \E p \in Before(entries, a) : e.base <= p.base
<1> DEFINE Gaps == {a - f.base : f \in {g \in entries : g.base <= a}}
<1>1. Gaps \subseteq Nat
  BY EntryType
<1>2. Gaps # {}
  BY Zenon
<1>3. PICK n \in Gaps : \A m \in Gaps : n <= m
  <2> HIDE DEF Gaps
  <2> QED BY Zenon, <1>1, <1>2, LeastElement
<1>4. PICK p \in entries : p.base <= a /\ n = a - p.base
  OBVIOUS
<1>5. \A f \in entries : f.base <= a => f.base <= p.base
  <2> SUFFICES ASSUME NEW f \in entries, f.base <= a
               PROVE  f.base <= p.base
    OBVIOUS
  <2>1. n <= a - f.base
    BY <1>3
  <2> HIDE DEF Gaps
  <2> QED BY <2>1, <1>4, EntryType
<1> QED BY <1>4, <1>5 DEF Before

(***************************************************************************)
(* range(a..).next() likewise.                                             *)
(***************************************************************************)
LEMMA AfterExists ==
  ASSUME MapTypeOK, NEW a \in Nat, NEW e \in entries, e.base >= a
  PROVE  \E p \in After(entries, a) : p.base <= e.base
<1> DEFINE Bases == {f.base : f \in {g \in entries : g.base >= a}}
<1>1. Bases \subseteq Nat
  BY EntryType
<1>2. Bases # {}
  OBVIOUS
<1>3. PICK n \in Bases : \A m \in Bases : n <= m
  <2> HIDE DEF Bases
  <2> QED BY Zenon, <1>1, <1>2, LeastElement
<1>4. PICK p \in entries : p.base >= a /\ n = p.base
  OBVIOUS
<1>5. \A f \in entries : f.base >= a => p.base <= f.base
  BY <1>3, <1>4
<1> QED BY <1>4, <1>5 DEF After

(***************************************************************************)
(* A region that overlaps neither neighbour is apart from every region.    *)
(***************************************************************************)
LEMMA NeighboursSuffice ==
  ASSUME MapTypeOK, EntriesApart, NEW base \in Nat, NEW len \in Nat,
         ~Overlaps(base, len), NEW e \in entries
  PROVE  base + len <= e.base \/ e.base + e.len <= base
<1>1. CASE e.base <= base
  <2>1. PICK p \in Before(entries, base) : e.base <= p.base
    BY <1>1, BeforeExists
  <2>2. p \in entries /\ p.base <= base /\ p.base + p.len <= base
    BY <2>1, EntryType DEF Before, Overlaps
  <2>3. CASE e = p
    BY <2>2, <2>3
  <2>4. CASE e # p
    <3>1. e.base + e.len <= p.base \/ p.base + p.len <= e.base
      BY <2>2, <2>4 DEF EntriesApart, Apart
    <3> QED BY <2>1, <2>2, <3>1, EntryType
  <2> QED BY <2>3, <2>4
<1>2. CASE e.base >= base
  <2>1. PICK p \in After(entries, base) : p.base <= e.base
    BY <1>2, AfterExists
  <2>2. p \in entries /\ base + len <= p.base
    BY <2>1, EntryType DEF After, Overlaps
  <2> QED BY <2>1, <2>2, EntryType
<1> QED BY <1>1, <1>2, EntryType

-----------------------------------------------------------------------------
(***************************************************************************)
(* The two invariants, together.                                           *)
(***************************************************************************)
MapInv == MapTypeOK /\ EntriesApart

(***************************************************************************)
(* An empty map has nothing to keep apart.                                 *)
(***************************************************************************)
LEMMA MapInvInit == MapInit => MapInv
BY DEF MapInit, MapInv, MapTypeOK, EntriesApart

(***************************************************************************)
(* insert compares with two neighbours, which suffices while MapInv holds. *)
(***************************************************************************)
LEMMA MapInvNext == MapInv /\ [MapNext]_entries => MapInv'
<1> SUFFICES ASSUME MapInv, [MapNext]_entries PROVE MapInv'
  OBVIOUS
<1> USE DEF MapInv
<1>1. ASSUME NEW base \in Addresses, NEW len \in Lengths, NEW numa \in Numas,
             NEW mr \in Mrs, Register(base, len, numa, mr)
      PROVE  MapInv'
  <2> DEFINE new == [base |-> base, len |-> len, numa |-> numa, mr |-> mr]
  <2>1. base \in Nat /\ len \in Nat
    BY MapAssumption DEF Addresses
  <2>2. MapTypeOK'
    BY <1>1 DEF Register, MapTypeOK, Entry
  <2>3. \A e \in entries : Apart(e, new) /\ Apart(new, e)
    BY <1>1, <2>1, NeighboursSuffice DEF Register, Apart
  <2>4. EntriesApart'
    <3>1. entries' = entries \cup {new}
      BY <1>1 DEF Register
    <3> HIDE DEF new
    <3> QED BY <2>3, <3>1 DEF EntriesApart
  <2> QED BY <2>2, <2>4
<1>2. ASSUME NEW base \in Addresses, Unregister(base)
      PROVE  MapInv'
  BY <1>2 DEF Unregister, MapTypeOK, EntriesApart
<1>3. CASE UNCHANGED entries
  BY <1>3 DEF MapTypeOK, EntriesApart
<1> QED BY <1>1, <1>2, <1>3 DEF MapNext

(***************************************************************************)
(* LocalMemoryMap::insert looks at two neighbours and keeps all registered *)
(* regions disjoint, whatever is registered and unregistered, in any order.*)
(***************************************************************************)
THEOREM RegionsAlwaysApart == MapSpec => []EntriesApart
<1>1. MapInv => EntriesApart
  BY DEF MapInv
<1> QED BY MapInvInit, MapInvNext, <1>1, PTL DEF MapSpec

(***************************************************************************)
(* Every registered region is non-empty and ends inside the address space, *)
(* so base_ptr + len never overflows in insert and find_entry.             *)
(***************************************************************************)
THEOREM MapTypeCorrect == MapSpec => []MapTypeOK
<1>1. MapInv => MapTypeOK
  BY DEF MapInv
<1> QED BY MapInvInit, MapInvNext, <1>1, PTL DEF MapSpec

(***************************************************************************)
(* While regions are apart, the predecessor of an address is the only      *)
(* region that can cover it.                                               *)
(***************************************************************************)
LEMMA ExactlyCovering == MapInv => FindEntryExact
<1> SUFFICES ASSUME MapInv, NEW ptr \in Addresses, NEW len \in Lengths \ {0}
             PROVE  FindEntry(entries, ptr, len) = {e \in entries : Covers(e, ptr, len)}
  BY DEF FindEntryExact
<1> USE DEF MapInv
<1>1. ptr \in Nat /\ len \in Nat /\ len > 0 /\ Limit \in Nat
  BY MapAssumption DEF Addresses
<1>2. ASSUME NEW e \in FindEntry(entries, ptr, len)
      PROVE  e \in entries /\ Covers(e, ptr, len)
  BY <1>2 DEF FindEntry, Before, Covers
<1>3. ASSUME NEW e \in entries, Covers(e, ptr, len)
      PROVE  e \in FindEntry(entries, ptr, len)
  <2>1. e.base <= ptr /\ ptr + len <= e.base + e.len
    BY <1>3 DEF Covers
  <2>2. PICK p \in Before(entries, ptr) : e.base <= p.base
    BY <1>1, <2>1, BeforeExists
  <2>3. p \in entries /\ p.base <= ptr
    BY <2>2 DEF Before
  <2>4. e = p
    <3> SUFFICES ASSUME e # p PROVE FALSE
      OBVIOUS
    <3>1. e.base + e.len <= p.base \/ p.base + p.len <= e.base
      BY <2>3 DEF EntriesApart, Apart
    <3> QED BY <1>1, <2>1, <2>2, <2>3, <3>1, EntryType
  <2>5. ptr + len < Limit
    BY <1>1, <2>1, EntryType
  <2> QED BY <2>1, <2>2, <2>4, <2>5 DEF FindEntry
<1> QED BY <1>2, <1>3

(***************************************************************************)
(* LocalMemoryMap::find_entry, one predecessor lookup, finds exactly the   *)
(* registered region that covers a non-empty range.                        *)
(***************************************************************************)
THEOREM FindEntryAlwaysExact == MapSpec => []FindEntryExact
BY MapInvInit, MapInvNext, ExactlyCovering, PTL DEF MapSpec

(***************************************************************************)
(* Every step of the engine is a step of the memory map or leaves it.      *)
(***************************************************************************)
LEMMA StepsOfTheMap == [Next]_vars => [MapNext]_entries
<1> SUFFICES ASSUME [Next]_vars PROVE [MapNext]_entries
  OBVIOUS
<1>1. ASSUME NEW r \in Regions, RegisterWith(r) PROVE MapNext
  <2>1. r.base \in Addresses /\ r.len \in Lengths /\ r.numa \in Numas
    BY TransferAssumption
  <2>2. made + 1 \in Mrs /\ Register(r.base, r.len, r.numa, made + 1)
    BY <1>1 DEF RegisterWith
  <2> QED BY <2>1, <2>2 DEF MapNext
<1>2. ASSUME NEW base \in Addresses, UnregisterRegion(base) PROVE MapNext
  BY <1>2 DEF UnregisterRegion, MapNext
<1>3. ASSUME NEW t \in Threads, NEW b \in Batches, Begin(t, b) PROVE UNCHANGED entries
  BY <1>3 DEF Begin
<1>4. ASSUME NEW t \in Threads, Step(t) PROVE UNCHANGED entries
  BY Zenon, <1>4 DEF Step, Resolve, RefuseRkey, Refuse, Submit
<1>5. ASSUME NEW s \in Sessions, Done(s) PROVE UNCHANGED entries
  BY <1>5 DEF Done
<1>6. CASE UNCHANGED vars
  BY <1>6 DEF vars
<1> QED BY <1>1, <1>2, <1>3, <1>4, <1>5, <1>6 DEF Next

(***************************************************************************)
(* The engine implements the memory map: register_with and unregister are  *)
(* its only steps, whatever batches do in between.                         *)
(***************************************************************************)
THEOREM ImplementsMap == Spec => MapSpec
<1>1. Init => MapInit
  BY DEF Init
<1> QED BY <1>1, StepsOfTheMap, PTL DEF Spec, MapSpec

(***************************************************************************)
(* Registered regions stay disjoint while batches run: what insert checks  *)
(* under the lock holds in the engine as a whole.                          *)
(***************************************************************************)
THEOREM EngineRegionsApart == Spec => []EntriesApart
BY ImplementsMap, RegionsAlwaysApart, PTL

(***************************************************************************)
(* find_entry is exact in the engine as a whole.                           *)
(***************************************************************************)
THEOREM EngineFindExact == Spec => []FindEntryExact
BY ImplementsMap, FindEntryAlwaysExact, PTL

-----------------------------------------------------------------------------
(***************************************************************************)
(* A sequence, of whatever values.                                         *)
(***************************************************************************)
IsSeq(s) == s \in Seq(Range(s))

(***************************************************************************)
(* The elements of a sequence and one more behind it.                      *)
(***************************************************************************)
LEMMA SeqAppend ==
  ASSUME NEW S, NEW s \in Seq(S), NEW e \in S
  PROVE  /\ Append(s, e) \in Seq(S)
         /\ Len(Append(s, e)) = Len(s) + 1
         /\ \A i \in 1..Len(s) : Append(s, e)[i] = s[i]
         /\ Append(s, e)[Len(s) + 1] = e
  OBVIOUS

(***************************************************************************)
(* Append to a sequence of whatever values.                                *)
(***************************************************************************)
LEMMA AppendIsSeq ==
  ASSUME NEW s, NEW x, IsSeq(s)
  PROVE  /\ IsSeq(Append(s, x))
         /\ Len(s) \in Nat
         /\ DOMAIN s = 1 .. Len(s)
         /\ Len(Append(s, x)) = Len(s) + 1
         /\ \A i \in 1 .. Len(s) : Append(s, x)[i] = s[i]
         /\ Append(s, x)[Len(s) + 1] = x
<1> DEFINE T == Range(s) \cup {x}
<1>1. s \in Seq(T)
  <2>1. s \in Seq(Range(s))
    BY DEF IsSeq
  <2> QED BY <2>1
<1>2. /\ Append(s, x) \in Seq(T)
      /\ Len(Append(s, x)) = Len(s) + 1
      /\ \A i \in 1 .. Len(s) : Append(s, x)[i] = s[i]
      /\ Append(s, x)[Len(s) + 1] = x
  <2>1. x \in T
    OBVIOUS
  <2> HIDE DEF T
  <2> QED BY <1>1, <2>1, SeqAppend
<1>3. Len(s) \in Nat /\ DOMAIN s = 1 .. Len(s)
  <2> HIDE DEF T
  <2> QED BY <1>1
<1>4. IsSeq(Append(s, x))
  <2>1. DOMAIN Append(s, x) = 1 .. Len(Append(s, x))
    <3> HIDE DEF T
    <3> QED BY <1>2
  <2>2. \A i \in 1 .. Len(Append(s, x)) : Append(s, x)[i] \in Range(Append(s, x))
    BY <2>1 DEF Range
  <2>3. Len(Append(s, x)) \in Nat
    BY <1>2, <1>3
  <2> HIDE DEF T
  <2> QED BY <1>2, <2>2, <2>3 DEF IsSeq
<1> HIDE DEF T
<1> QED BY <1>2, <1>3, <1>4

(***************************************************************************)
(* Every holder of a region names one of S.                                *)
(***************************************************************************)
MapHolds(S) == \A e \in entries : e.mr \in S
CallersHold(S) == \A t \in Threads : \A e \in thread[t].map : e.mr \in S
WorkHolds(S) ==
  \A s \in Sessions : \A k \in Range(queue[s]) : \A i \in sent[k].work[s] :
    sent[k].found[i].mr \in S

(***************************************************************************)
(* The shape of callers, of batches sent and of the queues of sessions.    *)
(***************************************************************************)
CallerOK(r) ==
  /\ r.found \in Seq(r.map)
  /\ IsSeq(r.nics)
  /\ Len(r.nics) = Len(r.found)

Shape ==
  /\ made \in Nat
  /\ DOMAIN thread = Threads
  /\ \A t \in Threads : CallerOK(thread[t])
  /\ IsSeq(sent)
  /\ queue \in [Sessions -> Seq(1 .. Len(sent))]

Inv == Shape /\ MapHolds(mrs) /\ CallersHold(mrs) /\ WorkHolds(mrs)

(***************************************************************************)
(* Held is the set of all that is held.                                    *)
(***************************************************************************)
LEMMA HeldHolds == MapHolds(Held) /\ CallersHold(Held) /\ WorkHolds(Held)
<1>1. MapHolds(Held)
  BY DEF MapHolds, Held, HeldByMaps, MrsOf
<1>2. CallersHold(Held)
  BY DEF CallersHold, Held, HeldByMaps, MrsOf
<1>3. WorkHolds(Held)
  <2> SUFFICES ASSUME NEW s \in Sessions, NEW k \in Range(queue[s]), NEW i \in sent[k].work[s]
               PROVE  sent[k].found[i].mr \in Held
    BY DEF WorkHolds
  <2>1. sent[k].found[i] \in InFlight(s, k)
    BY DEF InFlight
  <2>2. sent[k].found[i].mr \in MrsOf(InFlight(s, k))
    BY <2>1 DEF MrsOf
  <2>3. sent[k].found[i].mr \in UNION {MrsOf(InFlight(s, j)) : j \in Range(queue[s])}
    BY <2>2
  <2> QED BY <2>3 DEF Held
<1> QED BY <1>1, <1>2, <1>3

(***************************************************************************)
(* A step whose holders all name regions of S, and that leaves of S what   *)
(* is held, keeps them registered.                                         *)
(***************************************************************************)
LEMMA DropKeeps ==
  ASSUME NEW S, mrs' = S \cap Held', MapHolds(S)', CallersHold(S)', WorkHolds(S)'
  PROVE  MapHolds(mrs)' /\ CallersHold(mrs)' /\ WorkHolds(mrs)'
<1>1. MapHolds(Held)' /\ CallersHold(Held)' /\ WorkHolds(Held)'
  BY HeldHolds, PTL
<1>2. MapHolds(mrs)'
  BY <1>1 DEF MapHolds
<1>3. CallersHold(mrs)'
  BY <1>1 DEF CallersHold
<1>4. WorkHolds(mrs)'
  BY <1>1 DEF WorkHolds
<1> QED BY <1>2, <1>3, <1>4

(***************************************************************************)
(* A caller outside batch_transfer_async holds nothing.                    *)
(***************************************************************************)
LEMMA IdleOK == CallerOK(Idle) /\ Idle.map = {}
<1>1. Idle.found = <<>> /\ Idle.nics = <<>> /\ Idle.map = {}
  BY DEF Idle
<1>2. <<>> \in Seq({}) /\ Len(<<>>) = 0 /\ IsSeq(<<>>)
  BY DEF IsSeq, Range
<1> QED BY <1>1, <1>2 DEF CallerOK

(***************************************************************************)
(* At the start nothing is held.                                           *)
(***************************************************************************)
LEMMA InvInit == Init => Inv
<1> SUFFICES ASSUME Init PROVE Inv
  OBVIOUS
<1>1. made = 0 /\ entries = {} /\ sent = <<>> /\ thread = [t \in Threads |-> Idle]
      /\ queue = [s \in Sessions |-> <<>>]
  BY DEF Init, MapInit
<1>2. IsSeq(sent)
  BY <1>1 DEF IsSeq, Range
<1>3. Shape
  BY <1>1, <1>2, IdleOK DEF Shape
<1>4. MapHolds(mrs) /\ CallersHold(mrs) /\ WorkHolds(mrs)
  BY <1>1, IdleOK DEF MapHolds, CallersHold, WorkHolds, Range
<1> QED BY <1>3, <1>4 DEF Inv

-----------------------------------------------------------------------------
(***************************************************************************)
(* register_host and register_dmabuf: the new entry names the new MR.      *)
(***************************************************************************)
LEMMA RegisterKeeps ==
  ASSUME Inv, NEW r \in Regions, RegisterWith(r)
  PROVE  Inv'
<1>1. PICK S : S = mrs \cup {made + 1}
  BY Zenon
<1>2. entries' = entries \cup {[base |-> r.base, len |-> r.len, numa |-> r.numa, mr |-> made + 1]}
  BY DEF RegisterWith, Register
<1>3. /\ made' = made + 1
      /\ UNCHANGED <<thread, queue, sent>>
      /\ mrs' = S \cap Held'
  BY <1>1 DEF RegisterWith, DropUnheld
<1>4. MapHolds(S)'
  BY <1>1, <1>2 DEF Inv, MapHolds
<1>5. CallersHold(S)'
  BY <1>1, <1>3 DEF Inv, CallersHold
<1>6. WorkHolds(S)'
  BY <1>1, <1>3 DEF Inv, WorkHolds
<1>7. Shape'
  BY <1>3 DEF Inv, Shape
<1> QED BY <1>3, <1>4, <1>5, <1>6, <1>7, DropKeeps DEF Inv

(***************************************************************************)
(* unregister: the map holds less, the others what they held.              *)
(***************************************************************************)
LEMMA UnregisterKeeps ==
  ASSUME Inv, NEW base \in Addresses, UnregisterRegion(base)
  PROVE  Inv'
<1>1. PICK S : S = mrs
  OBVIOUS
<1>2. entries' \subseteq entries
  BY DEF UnregisterRegion, Unregister
<1>3. UNCHANGED <<made, thread, queue, sent>> /\ mrs' = S \cap Held'
  BY <1>1 DEF UnregisterRegion, DropUnheld
<1>4. MapHolds(S)'
  BY <1>1, <1>2 DEF Inv, MapHolds
<1>5. CallersHold(S)'
  BY <1>1, <1>3 DEF Inv, CallersHold
<1>6. WorkHolds(S)'
  BY <1>1, <1>3 DEF Inv, WorkHolds
<1>7. Shape'
  BY <1>3 DEF Inv, Shape
<1> QED BY <1>3, <1>4, <1>5, <1>6, <1>7, DropKeeps DEF Inv

(***************************************************************************)
(* A step of one caller that leaves the map, the sessions and what was     *)
(* sent as they are, and after which the caller holds regions it or the    *)
(* map held before.                                                        *)
(***************************************************************************)
LEMMA CallerKeeps ==
  ASSUME Inv, NEW t \in Threads, NEW r,
         UNCHANGED <<entries, made, queue, sent>>,
         thread' = [thread EXCEPT ![t] = r],
         CallerOK(r),
         r.map \subseteq entries \cup thread[t].map,
         DropUnheld(mrs)
  PROVE  Inv'
<1>1. PICK S : S = mrs
  OBVIOUS
<1>2. mrs' = S \cap Held'
  BY <1>1 DEF DropUnheld
<1>3. \A u \in Threads : thread'[u] = IF u = t THEN r ELSE thread[u]
  BY DEF Inv, Shape
<1>4. MapHolds(S)'
  BY <1>1 DEF Inv, MapHolds
<1>5. CallersHold(S)'
  BY <1>1, <1>3 DEF Inv, CallersHold, MapHolds
<1>6. WorkHolds(S)'
  BY <1>1 DEF Inv, WorkHolds
<1>7. Shape'
  BY <1>3 DEF Inv, Shape
<1> QED BY <1>2, <1>4, <1>5, <1>6, <1>7, DropKeeps DEF Inv

(***************************************************************************)
(* Taking a snapshot.                                                      *)
(***************************************************************************)
LEMMA BeginKeeps ==
  ASSUME Inv, NEW t \in Threads, NEW b \in Batches, Begin(t, b)
  PROVE  Inv'
<1> DEFINE r == [batch |-> b, map |-> entries, nics |-> <<>>, found |-> <<>>, start |-> rot]
<1>1. CallerOK(r)
  BY DEF CallerOK, IsSeq, Range
<1>2. r.map = entries
  OBVIOUS
<1>3. /\ UNCHANGED <<entries, made, queue, sent>>
      /\ thread' = [thread EXCEPT ![t] = r]
      /\ DropUnheld(mrs)
  BY DEF Begin
<1> HIDE DEF r
<1> QED BY Zenon, <1>1, <1>2, <1>3, CallerKeeps

(***************************************************************************)
(* Resolving an operation: its region comes from the caller's snapshot.    *)
(***************************************************************************)
LEMMA ResolveKeeps ==
  ASSUME Inv, NEW t \in Threads, NEW e, Resolve(t, e)
  PROVE  Inv'
<1> DEFINE r == [thread[t] EXCEPT !.nics = Append(@, Picked(e)), !.found = Append(@, e)]
<1>1. CallerOK(thread[t])
  BY DEF Inv, Shape
<1>2. e \in thread[t].map
  BY DEF Resolve, Admitted, Found, FindEntry, Before
<1>3. /\ r.map = thread[t].map
      /\ r.nics = Append(thread[t].nics, Picked(e))
      /\ r.found = Append(thread[t].found, e)
  BY SMTT(60)
<1>4. /\ UNCHANGED <<entries, made, queue, sent>>
      /\ thread' = [thread EXCEPT ![t] = r]
      /\ DropUnheld(mrs)
  BY Zenon DEF Resolve
<1> HIDE DEF r
<1>5. CallerOK(r)
  <2>1. r.found \in Seq(r.map) /\ Len(r.found) = Len(thread[t].found) + 1
    <3>1. thread[t].found \in Seq(thread[t].map)
      BY <1>1 DEF CallerOK
    <3>2. /\ Append(thread[t].found, e) \in Seq(thread[t].map)
          /\ Len(Append(thread[t].found, e)) = Len(thread[t].found) + 1
      BY ZenonT(60), <1>2, <3>1, SeqAppend
    <3> QED BY <1>3, <3>2
  <2>2. IsSeq(r.nics) /\ Len(r.nics) = Len(thread[t].nics) + 1
    BY SMTT(60), <1>1, <1>3, AppendIsSeq DEF CallerOK
  <2> QED BY <1>1, <2>1, <2>2 DEF CallerOK
<1> QED BY Zenon, <1>3, <1>4, <1>5, CallerKeeps

(***************************************************************************)
(* A refusal drops what the caller held.                                   *)
(***************************************************************************)
LEMMA RefuseKeeps ==
  ASSUME Inv, NEW t \in Threads, NEW e, RefuseRkey(t, e) \/ Refuse(t)
  PROVE  Inv'
<1>1. /\ UNCHANGED <<entries, made, queue, sent>>
      /\ thread' = [thread EXCEPT ![t] = Idle]
      /\ DropUnheld(mrs)
  BY DEF RefuseRkey, Refuse
<1>2. CallerOK(Idle) /\ Idle.map \subseteq entries \cup thread[t].map
  BY IdleOK
<1> QED BY Zenon, <1>1, <1>2, CallerKeeps

(***************************************************************************)
(* Handing the operations of a caller to the sessions.                     *)
(***************************************************************************)
LEMMA SubmitKeeps ==
  ASSUME Inv, NEW t \in Threads, Submit(t)
  PROVE  Inv'
<1> DEFINE work == Work(thread[t].nics, thread[t].start)
           rec == [batch |-> thread[t].batch, found |-> thread[t].found, work |-> work]
           new == Len(sent) + 1
<1>1. PICK S : S = mrs
  OBVIOUS
<1>2. /\ UNCHANGED <<entries, made>>
      /\ thread' = [thread EXCEPT ![t] = Idle]
      /\ sent' = Append(sent, rec)
      /\ queue' = [s \in Sessions |-> IF work[s] = {} THEN queue[s] ELSE Append(queue[s], new)]
      /\ mrs' = S \cap Held'
  BY <1>1 DEF Submit, DropUnheld
<1>3. CallerOK(thread[t])
  BY DEF Inv, Shape
<1>4. rec.found = thread[t].found /\ rec.work = work
  OBVIOUS
<1>5. \A s \in Sessions : \A i \in work[s] : thread[t].found[i].mr \in S
  <2> SUFFICES ASSUME NEW s \in Sessions, NEW i \in work[s]
               PROVE  thread[t].found[i].mr \in S
    OBVIOUS
  <2>1. i \in DOMAIN thread[t].nics
    BY DEF Work
  <2>2. DOMAIN thread[t].nics = 1 .. Len(thread[t].nics)
    BY <1>3, AppendIsSeq DEF CallerOK
  <2>3. i \in 1 .. Len(thread[t].found)
    BY <1>3, <2>1, <2>2 DEF CallerOK
  <2>4. thread[t].found[i] \in thread[t].map
    BY <1>3, <2>3 DEF CallerOK
  <2> QED BY <1>1, <2>4 DEF Inv, CallersHold
<1> HIDE DEF work
<1>6. /\ IsSeq(sent) /\ IsSeq(sent') /\ Len(sent) \in Nat /\ Len(sent') = new
      /\ \A k \in 1 .. Len(sent) : sent'[k] = sent[k]
      /\ sent'[new] = rec
  <2>1. IsSeq(sent)
    BY DEF Inv, Shape
  <2> HIDE DEF rec
  <2> QED BY <1>2, <2>1, AppendIsSeq
<1> HIDE DEF rec
<1>7. \A s \in Sessions :
        /\ queue[s] \in Seq(1 .. Len(sent))
        /\ queue'[s] \in Seq(1 .. Len(sent'))
        /\ \A k \in Range(queue'[s]) :
             (k \in Range(queue[s]) /\ k \in 1 .. Len(sent)) \/ k = new
  <2> SUFFICES ASSUME NEW s \in Sessions
               PROVE  /\ queue[s] \in Seq(1 .. Len(sent))
                      /\ queue'[s] \in Seq(1 .. Len(sent'))
                      /\ \A k \in Range(queue'[s]) :
                           (k \in Range(queue[s]) /\ k \in 1 .. Len(sent)) \/ k = new
    OBVIOUS
  <2>1. queue[s] \in Seq(1 .. Len(sent))
    BY DEF Inv, Shape
  <2>2. 1 .. Len(sent) \subseteq 1 .. Len(sent') /\ new \in 1 .. Len(sent')
    BY <1>6
  <2>3. queue[s] \in Seq(1 .. Len(sent'))
    BY <2>1, <2>2
  <2>4. \A k \in Range(queue[s]) : k \in 1 .. Len(sent)
    BY <2>1 DEF Range
  <2>5. CASE work[s] = {}
    BY <1>2, <2>1, <2>3, <2>4, <2>5
  <2>6. CASE work[s] # {}
    <3>1. queue'[s] = Append(queue[s], new)
      BY <1>2, <2>6
    <3>2. /\ queue'[s] \in Seq(1 .. Len(sent'))
          /\ Len(queue'[s]) = Len(queue[s]) + 1
          /\ \A i \in 1 .. Len(queue[s]) : queue'[s][i] = queue[s][i]
          /\ queue'[s][Len(queue[s]) + 1] = new
      <4> HIDE DEF new
      <4> QED BY <2>2, <2>3, <3>1, SeqAppend
    <3>3. ASSUME NEW k \in Range(queue'[s])
          PROVE  k \in Range(queue[s]) \/ k = new
      <4>1. PICK i \in 1 .. Len(queue[s]) + 1 : k = queue'[s][i]
        BY <3>2 DEF Range
      <4>2. CASE i = Len(queue[s]) + 1
        BY <3>2, <4>1, <4>2
      <4>3. CASE i \in 1 .. Len(queue[s])
        <5>1. queue[s][i] \in Range(queue[s])
          BY <2>1, <4>3 DEF Range
        <5> QED BY <3>2, <4>1, <4>3, <5>1
      <4>4. Len(queue[s]) \in Nat
        BY <2>1
      <4> QED BY <4>2, <4>3, <4>4
    <3> QED BY <2>1, <2>4, <3>2, <3>3
  <2> QED BY <2>5, <2>6
<1>8. \A u \in Threads : thread'[u] = IF u = t THEN Idle ELSE thread[u]
  BY <1>2 DEF Inv, Shape
<1>9. MapHolds(S)'
  BY <1>1, <1>2 DEF Inv, MapHolds
<1>10. CallersHold(S)'
  BY <1>1, <1>8, IdleOK DEF Inv, CallersHold
<1>11. WorkHolds(S)'
  <2> SUFFICES ASSUME NEW s \in Sessions, NEW k \in Range(queue'[s]), NEW i \in sent'[k].work[s]
               PROVE  sent'[k].found[i].mr \in S
    BY DEF WorkHolds
  <2>1. CASE k = new
    BY <1>4, <1>5, <1>6, <2>1
  <2>2. CASE k \in Range(queue[s]) /\ k \in 1 .. Len(sent)
    BY <1>1, <1>6, <2>2 DEF Inv, WorkHolds
  <2> QED BY <1>7, <2>1, <2>2
<1>12. Shape'
  <2>1. made' \in Nat /\ DOMAIN thread' = Threads
    BY <1>2 DEF Inv, Shape
  <2>2. \A u \in Threads : CallerOK(thread'[u])
    BY <1>8, IdleOK DEF Inv, Shape
  <2>3. queue' \in [Sessions -> Seq(1 .. Len(sent'))]
    BY Zenon, <1>2, <1>7
  <2> QED BY <1>6, <2>1, <2>2, <2>3 DEF Shape
<1> QED BY Zenon, <1>2, <1>9, <1>10, <1>11, <1>12, DropKeeps DEF Inv

(***************************************************************************)
(* The tail of a sequence has no element of its own.                       *)
(***************************************************************************)
LEMMA TailWithin ==
  ASSUME NEW T, NEW q \in Seq(T), q # <<>>
  PROVE  Tail(q) \in Seq(T) /\ Range(Tail(q)) \subseteq Range(q)
<1>1. Len(q) \in Nat \ {0} /\ DOMAIN q = 1 .. Len(q)
  OBVIOUS
<1>2. /\ Tail(q) \in Seq(T)
      /\ Len(Tail(q)) = Len(q) - 1
      /\ \A i \in 1 .. Len(Tail(q)) : Tail(q)[i] = q[i + 1]
  BY <1>1
<1>3. DOMAIN Tail(q) = 1 .. Len(q) - 1
  BY <1>2
<1> QED BY <1>1, <1>2, <1>3 DEF Range

(***************************************************************************)
(* An answered share is no longer a holder.                                *)
(***************************************************************************)
LEMMA DoneKeeps ==
  ASSUME Inv, NEW s \in Sessions, Done(s)
  PROVE  Inv'
<1>1. PICK S : S = mrs
  OBVIOUS
<1>2. /\ UNCHANGED <<entries, made, thread, sent>>
      /\ queue[s] # <<>>
      /\ queue' = [queue EXCEPT ![s] = Tail(@)]
      /\ mrs' = S \cap Held'
  BY <1>1 DEF Done, DropUnheld
<1>3. queue[s] \in Seq(1 .. Len(sent))
  BY DEF Inv, Shape
<1>4. Tail(queue[s]) \in Seq(1 .. Len(sent)) /\ Range(Tail(queue[s])) \subseteq Range(queue[s])
  BY Zenon, <1>2, <1>3, TailWithin
<1>5. \A u \in Sessions : queue'[u] = IF u = s THEN Tail(queue[s]) ELSE queue[u]
  BY <1>2 DEF Inv, Shape
<1>6. MapHolds(S)'
  BY <1>1, <1>2 DEF Inv, MapHolds
<1>7. CallersHold(S)'
  BY <1>1, <1>2 DEF Inv, CallersHold
<1>8. WorkHolds(S)'
  BY <1>1, <1>2, <1>4, <1>5 DEF Inv, WorkHolds
<1>9. Shape'
  <2>1. queue' \in [Sessions -> Seq(1 .. Len(sent))]
    BY <1>2, <1>4 DEF Inv, Shape
  <2> QED BY <1>2, <2>1 DEF Inv, Shape
<1> QED BY Zenon, <1>2, <1>6, <1>7, <1>8, <1>9, DropKeeps DEF Inv

(***************************************************************************)
(* Every step keeps the invariant.                                         *)
(***************************************************************************)
LEMMA InvNext == Inv /\ [Next]_vars => Inv'
<1> SUFFICES ASSUME Inv, [Next]_vars PROVE Inv'
  OBVIOUS
<1>1. ASSUME NEW t \in Threads, Step(t) PROVE Inv'
  BY <1>1, ResolveKeeps, RefuseKeeps, SubmitKeeps DEF Step
<1>2. CASE UNCHANGED vars
  <2>1. UNCHANGED <<entries, made, mrs, thread, queue, sent>>
    BY <1>2 DEF vars
  <2> QED BY <2>1 DEF Inv, Shape, MapHolds, CallersHold, WorkHolds
<1> QED BY <1>1, <1>2, RegisterKeeps, UnregisterKeeps, BeginKeeps, DoneKeeps DEF Next

(***************************************************************************)
(* An operation that a caller has resolved, or that a session works on,    *)
(* has its region registered with the NICs, whatever is unregistered       *)
(* meanwhile.                                                              *)
(***************************************************************************)
THEOREM InFlightAlwaysRegistered == Spec => []InFlightRegistered
<1>1. Inv => InFlightRegistered
  <2> SUFFICES ASSUME Inv PROVE InFlightRegistered
    OBVIOUS
  <2>1. ASSUME NEW s \in Sessions, NEW k \in Range(queue[s])
        PROVE  MrsOf(InFlight(s, k)) \subseteq mrs
    BY <2>1 DEF Inv, WorkHolds, MrsOf, InFlight
  <2>2. ASSUME NEW t \in Threads
        PROVE  MrsOf(Range(thread[t].found)) \subseteq mrs
    <3>1. thread[t].found \in Seq(thread[t].map)
      BY DEF Inv, Shape, CallerOK
    <3>2. Range(thread[t].found) \subseteq thread[t].map
      BY <3>1 DEF Range
    <3> QED BY <3>2 DEF Inv, CallersHold, MrsOf
  <2> QED BY <2>1, <2>2 DEF InFlightRegistered
<1> QED BY InvInit, InvNext, <1>1, PTL DEF Spec

-----------------------------------------------------------------------------
(***************************************************************************)
(* The NICs of a group are finitely many, and one at least if the group is *)
(* of a node that has a NIC or the group of all.                           *)
(***************************************************************************)
LEMMA MembersFinite ==
  ASSUME NEW g \in Nodes \cup {Unknown}
  PROVE  /\ Members(g) \subseteq Nics
         /\ Nics \subseteq Nat
         /\ IsFiniteSet(Members(g))
         /\ Cardinality(Members(g)) \in Nat \ {0}
<1>1. Members(g) \subseteq Nics
  BY DEF Members
<1>2. Len(NicNuma) \in Nat /\ Nics = 1 .. Len(NicNuma)
  BY TransferAssumption DEF Nics
<1>3. IsFiniteSet(Nics)
  BY <1>2, FS_Interval
<1>4. IsFiniteSet(Members(g))
  BY <1>1, <1>3, FS_Subset
<1>5. Members(g) # {}
  <2>1. CASE g = Unknown
    BY <2>1, TransferAssumption DEF Members
  <2>2. CASE g \in Nodes
    BY <2>2 DEF Members, Nodes
  <2> QED BY <2>1, <2>2
<1>6. Cardinality(Members(g)) \in Nat \ {0}
  BY <1>4, <1>5, FS_EmptySet, FS_CardinalityType
<1> QED BY <1>1, <1>2, <1>4, <1>6

(***************************************************************************)
(* The places of the NICs of a group are those below its size, each of one *)
(* NIC.                                                                    *)
(***************************************************************************)
LEMMA PlacesDiffer ==
  ASSUME NEW g \in Nodes \cup {Unknown}
  PROVE  /\ \A n \in Members(g) : Place(g, n) \in 0 .. Cardinality(Members(g)) - 1
         /\ \A m, n \in Members(g) : m < n => Place(g, m) < Place(g, n)
<1>1. /\ Members(g) \subseteq Nat
      /\ IsFiniteSet(Members(g))
      /\ Cardinality(Members(g)) \in Nat \ {0}
  BY MembersFinite
<1> DEFINE Below(n) == {m \in Members(g) : m < n}
<1>2. ASSUME NEW n \in Members(g), NEW S \in SUBSET Members(g), Below(n) \subseteq S, n \in S
      PROVE  Place(g, n) \in Nat /\ Place(g, n) < Cardinality(S)
  <2>1. IsFiniteSet(S)
    BY <1>1, FS_Subset
  <2>2. Below(n) \in SUBSET S /\ n \notin Below(n)
    BY <1>1, <1>2
  <2>3. /\ IsFiniteSet(Below(n))
        /\ Cardinality(Below(n)) <= Cardinality(S)
        /\ Cardinality(Below(n)) # Cardinality(S)
    <3> HIDE DEF Below
    <3> QED BY <1>2, <2>1, <2>2, FS_Subset
  <2>4. Cardinality(Below(n)) \in Nat /\ Cardinality(S) \in Nat
    <3> HIDE DEF Below
    <3> QED BY <2>1, <2>3, FS_CardinalityType
  <2>5. Place(g, n) = Cardinality(Below(n))
    BY DEF Place
  <2> HIDE DEF Below
  <2> QED BY <2>3, <2>4, <2>5
<1>3. ASSUME NEW n \in Members(g)
      PROVE  Place(g, n) \in 0 .. Cardinality(Members(g)) - 1
  <2>1. Place(g, n) \in Nat /\ Place(g, n) < Cardinality(Members(g))
    BY <1>2
  <2> QED BY <1>1, <2>1
<1>4. ASSUME NEW m \in Members(g), NEW n \in Members(g), m < n
      PROVE  Place(g, m) < Place(g, n)
  <2>1. Below(n) \in SUBSET Members(g) /\ Below(m) \subseteq Below(n) /\ m \in Below(n)
    BY <1>1, <1>4
  <2>2. Place(g, m) < Cardinality(Below(n))
    BY <1>2, <2>1
  <2> QED BY <2>2 DEF Place
<1> QED BY <1>3, <1>4

(***************************************************************************)
(* NicGroup::next picks the NIC of the group whose place has its turn.     *)
(***************************************************************************)
LEMMA NicAtTurn ==
  ASSUME NEW g \in Nodes \cup {Unknown}, NEW count \in Nat
  PROVE  /\ NicAt(g, count) \in Members(g)
         /\ \A n \in Members(g) : n = NicAt(g, count) <=> Place(g, n) = Turn(g, count)
<1> DEFINE k == Cardinality(Members(g))
<1>1. Members(g) \subseteq Nat /\ IsFiniteSet(Members(g)) /\ k \in Nat \ {0}
  BY MembersFinite
<1>2. PICK f : f = [n \in Members(g) |-> Place(g, n)]
  BY Zenon
<1>3. IsFiniteSet(0 .. k - 1) /\ Cardinality(0 .. k - 1) = k
  <2>1. 0 \in Int /\ k - 1 \in Int /\ ~(0 > k - 1) /\ k - 1 - 0 + 1 = k
    BY <1>1
  <2> HIDE DEF k
  <2> QED BY <2>1, FS_Interval
<1>4. \A m, n \in Members(g) : Place(g, m) = Place(g, n) => m = n
  <2> SUFFICES ASSUME NEW m \in Members(g), NEW n \in Members(g), Place(g, m) = Place(g, n)
               PROVE  m = n
    OBVIOUS
  <2>1. Place(g, m) \in Int /\ Place(g, n) \in Int
    BY <1>1, PlacesDiffer
  <2>2. ~(m < n) /\ ~(n < m)
    BY <2>1, PlacesDiffer
  <2> QED BY <1>1, <2>2
<1>5. f \in Injection(Members(g), 0 .. k - 1)
  <2>1. f \in [Members(g) -> 0 .. k - 1]
    BY Zenon, <1>2, PlacesDiffer
  <2> QED BY Zenon, <1>2, <1>4, <2>1 DEF Injection, IsInjective
<1>6. f \in Surjection(Members(g), 0 .. k - 1)
  <2> HIDE DEF k
  <2>1. k = Cardinality(Members(g))
    BY DEF k
  <2> QED BY <1>3, <1>5, <2>1, FS_Injection
<1>7. Turn(g, count) \in 0 .. k - 1
  BY <1>1 DEF Turn
<1>8. \E n \in Members(g) : Place(g, n) = Turn(g, count)
  BY Zenon, <1>2, <1>6, <1>7 DEF Surjection
<1>9. NicAt(g, count) \in Members(g) /\ Place(g, NicAt(g, count)) = Turn(g, count)
  BY Zenon, <1>8 DEF NicAt
<1> QED BY Zenon, <1>4, <1>9

(***************************************************************************)
(* The remainder is what is left below the divisor.                        *)
(***************************************************************************)
LEMMA Remainder ==
  ASSUME NEW k \in Nat \ {0}, NEW q \in Int, NEW p \in 0 .. k - 1
  PROVE  (k * q + p) % k = p
<1>1. PICK x \in Int : x = k * q + p
  OBVIOUS
<1>2. PICK d \in Int, r \in 0 .. k - 1 : x = k * d + r /\ x % k = r
  <2>1. x \div k \in Int /\ x % k \in 0 .. k - 1 /\ x = k * (x \div k) + (x % k)
    OBVIOUS
  <2> QED BY Zenon, <2>1
<1>3. ASSUME NEW a \in Int, NEW b \in Int, a > b
      PROVE  k * a >= k * b + k
  <2>1. PICK c \in Nat : a = b + 1 + c
    <3>1. a - b - 1 \in Nat /\ a = b + 1 + (a - b - 1)
      BY <1>3
    <3> QED BY <3>1
  <2>2. k * a = k * b + k + k * c
    BY <2>1
  <2>3. k * c \in Nat /\ k * b \in Int
    OBVIOUS
  <2> QED BY <2>2, <2>3
<1>4. k * q \in Int /\ k * d \in Int
  OBVIOUS
<1>5. ~(q > d)
  <2>1. q > d => k * q >= k * d + k
    BY <1>3
  <2> QED BY <1>1, <1>2, <1>4, <2>1
<1>6. ~(d > q)
  <2>1. d > q => k * d >= k * q + k
    BY <1>3
  <2> QED BY <1>1, <1>2, <1>4, <2>1
<1>7. q = d
  BY <1>5, <1>6
<1> QED BY <1>1, <1>2, <1>4, <1>7

(***************************************************************************)
(* The turns of a place, of k places, among the first c.                   *)
(***************************************************************************)
TurnsOf(k, p, c) == {j \in 0 .. c - 1 : j % k = p}

(***************************************************************************)
(* Of any number of turns, two places of a group have the same number, but *)
(* for one: the turn of either place is followed by one of the other.      *)
(***************************************************************************)
LEMMA TurnsEven ==
  ASSUME NEW k \in Nat \ {0}, NEW p \in 0 .. k - 1, NEW q \in 0 .. k - 1, NEW c \in Nat
  PROVE  Cardinality(TurnsOf(k, p, c)) <= Cardinality(TurnsOf(k, q, c)) + 1
<1> DEFINE S == TurnsOf(k, p, c)
           T == TurnsOf(k, q, c)
           R == S \ {p}
<1>1. IsFiniteSet(S) /\ IsFiniteSet(T)
  <2>1. IsFiniteSet(0 .. c - 1)
    BY FS_Interval
  <2>2. S \in SUBSET (0 .. c - 1) /\ T \in SUBSET (0 .. c - 1)
    BY DEF TurnsOf
  <2> HIDE DEF S, T
  <2> QED BY Zenon, <2>1, <2>2, FS_Subset
<1>2. \A j \in R : j \in Int /\ j - k - p + q \in T
  <2> SUFFICES ASSUME NEW j \in R PROVE j \in Int /\ j - k - p + q \in T
    BY Zenon
  <2>1. j \in 0 .. c - 1 /\ j % k = p /\ j # p
    BY DEF TurnsOf
  <2>2. PICK d \in Int : j = k * d + p
    <3>1. j \div k \in Int /\ j = k * (j \div k) + (j % k)
      BY <2>1
    <3> QED BY Zenon, <2>1, <3>1
  <2>3. d >= 1
    <3>1. d # 0
      BY <2>1, <2>2
    <3>2. ~(d <= -1)
      <4> SUFFICES ASSUME d <= -1 PROVE FALSE
        OBVIOUS
      <4>1. PICK b \in Nat : d = -1 - b
        <5>1. -1 - d \in Nat /\ d = -1 - (-1 - d)
          OBVIOUS
        <5> QED BY <5>1
      <4>2. k * d = -k - k * b
        BY <4>1
      <4>3. k * b \in Nat
        OBVIOUS
      <4> QED BY <2>1, <2>2, <4>2, <4>3
    <3> QED BY <3>1, <3>2
  <2>4. PICK a \in Nat : d = a + 1
    <3>1. d - 1 \in Nat /\ d = (d - 1) + 1
      BY <2>3
    <3> QED BY <3>1
  <2>5. k * d = k * a + k /\ k * a \in Nat
    BY <2>4
  <2>6. j - k - p + q = k * a + q
    BY <2>1, <2>2, <2>5
  <2>7. (k * a + q) % k = q
    BY Remainder
  <2>8. j - k - p + q \in 0 .. c - 1
    BY <2>1, <2>2, <2>5
  <2> QED BY <2>1, <2>6, <2>7, <2>8 DEF TurnsOf
<1>3. IsFiniteSet(R) /\ Cardinality(S) <= Cardinality(R) + 1
      /\ Cardinality(R) \in Nat /\ Cardinality(S) \in Nat /\ Cardinality(T) \in Nat
  <2> HIDE DEF S, T
  <2>1. /\ IsFiniteSet(R)
        /\ Cardinality(R) = IF p \in S THEN Cardinality(S) - 1 ELSE Cardinality(S)
    BY <1>1, FS_RemoveElement
  <2>2. Cardinality(R) \in Nat /\ Cardinality(S) \in Nat /\ Cardinality(T) \in Nat
    BY <1>1, <2>1, FS_CardinalityType
  <2> QED BY <2>1, <2>2
<1>4. Cardinality(R) <= Cardinality(T)
  <2> HIDE DEF R, T
  <2>1. PICK f : f = [j \in R |-> j - k - p + q]
    BY Zenon
  <2>2. f \in [R -> T]
    BY Zenon, <1>2, <2>1
  <2>3. \A i, j \in R : f[i] = f[j] => i = j
    <3> SUFFICES ASSUME NEW i \in R, NEW j \in R, f[i] = f[j] PROVE i = j
      BY Zenon
    <3>1. i - k - p + q = j - k - p + q
      BY Zenon, <2>1
    <3>2. i \in Int /\ j \in Int
      BY <1>2
    <3> QED BY <3>1, <3>2
  <2>4. f \in Injection(R, T)
    BY Zenon, <2>2, <2>3 DEF Injection, IsInjective
  <2> QED BY <1>1, <2>4, FS_Injection
<1> HIDE DEF R
<1>5. Cardinality(S) <= Cardinality(T) + 1
  <2> HIDE DEF S, T
  <2> QED BY <1>3, <1>4
<1> QED BY <1>5

-----------------------------------------------------------------------------
(***************************************************************************)
(* What SentOnce says of an operation, as soon as it has been resolved: it *)
(* goes from inside its region to inside the peer's, over a NIC of the     *)
(* node of the memory whose rkey is known.                                 *)
(***************************************************************************)
Fits(op, mem, n) ==
  /\ op.len > 0
  /\ Covers(mem, op.local, op.len)
  /\ Inside(op.region, op.remote, op.len)
  /\ n \in Nics
  /\ n <= op.region.rkeys
  /\ mem.numa \in Nodes \ {Unknown} => NicNuma[n] = mem.numa

CallerFits(r) ==
  /\ r # Idle => r.batch \in Batches /\ r.start \in [Nics -> Nat]
  /\ Len(r.nics) <= Len(r.batch)
  /\ \A i \in 1 .. Len(r.nics) : Fits(r.batch[i], r.found[i], r.nics[i])

RouteInv ==
  /\ rot \in [Nics -> Nat]
  /\ rr \in [Nodes \cup {Unknown} -> Nat]
  /\ \A t \in Threads : CallerFits(thread[t])
  /\ SentOnce

(***************************************************************************)
(* The callers inside batch_transfer_async; the operations that they have  *)
(* resolved to a NIC for memory of its node; the turns that it has had.    *)
(***************************************************************************)
Active == {t \in Threads : thread[t] # Idle}

PicksOf(r, n) == {i \in DOMAIN r.nics : r.nics[i] = n /\ r.found[i].numa = NicNuma[n]}

OwnPicks(n) == UNION {{t} \X PicksOf(thread[t], n) : t \in Threads}

OwnTurns(n) ==
  TurnsOf(Cardinality(Members(NicNuma[n])), Place(NicNuma[n], n), rr[NicNuma[n]])

(***************************************************************************)
(* While every batch begun is under way or sent, a NIC has been given, or  *)
(* is about to be, one operation for each of its turns.  A refused batch   *)
(* spends turns and sends nothing, and is missing from then on.            *)
(***************************************************************************)
TurnsUsed(n) ==
  /\ IsFiniteSet(OwnOps(n))
  /\ IsFiniteSet(OwnPicks(n))
  /\ Cardinality(OwnOps(n)) + Cardinality(OwnPicks(n)) = Cardinality(OwnTurns(n))

CountInv ==
  /\ begun \in Nat
  /\ IsFiniteSet(Active)
  /\ Cardinality(Active) + Len(sent) <= begun
  /\ Cardinality(Active) + Len(sent) = begun =>
       \A n \in Nics : NicNuma[n] # Unknown => TurnsUsed(n)

(***************************************************************************)
(* An operation is the work of exactly one session, of its NIC.            *)
(***************************************************************************)
LEMMA WorkOfOne ==
  ASSUME NEW nics, NEW start \in [Nics -> Nat], NEW i \in DOMAIN nics, i \in Nat,
         nics[i] \in Nics
  PROVE  \E q \in 0 .. QpsPerPeer - 1 :
           \A s \in Sessions : i \in Work(nics, start)[s] <=> s = <<nics[i], q>>
<1> DEFINE prior == {j \in 1 .. i - 1 : nics[j] = nics[i]}
           q == Bucket(start[nics[i]], Cardinality(prior))
<1>1. Cardinality(prior) \in Nat
  <2>1. IsFiniteSet(1 .. i - 1)
    BY FS_Interval
  <2>2. prior \in SUBSET (1 .. i - 1)
    OBVIOUS
  <2> HIDE DEF prior
  <2> QED BY Zenon, <2>1, <2>2, FS_Subset, FS_CardinalityType
<1>2. q \in 0 .. QpsPerPeer - 1
  <2> HIDE DEF prior
  <2>1. start[nics[i]] \in Nat /\ QpsPerPeer \in Nat \ {0}
    BY TransferAssumption
  <2> QED BY <1>1, <2>1 DEF Bucket
<1>3. ASSUME NEW s \in Sessions
      PROVE  i \in Work(nics, start)[s] <=> s = <<nics[i], q>>
  <2>1. s = <<s[1], s[2]>>
    BY DEF Sessions
  <2>2. i \in Work(nics, start)[s] <=>
          /\ nics[i] = s[1]
          /\ Bucket(start[s[1]], Cardinality({j \in 1 .. i - 1 : nics[j] = s[1]})) = s[2]
    BY DEF Work
  <2>3. nics[i] = s[1] =>
          Bucket(start[s[1]], Cardinality({j \in 1 .. i - 1 : nics[j] = s[1]})) = q
    BY Zenon
  <2> HIDE DEF q
  <2>4. s = <<nics[i], q>> <=> nics[i] = s[1] /\ q = s[2]
    BY <2>1
  <2> QED BY <2>2, <2>3, <2>4
<1> HIDE DEF q
<1> QED BY <1>2, <1>3

(***************************************************************************)
(* The types of the operations of a batch.                                 *)
(***************************************************************************)
LEMMA BatchType ==
  ASSUME NEW b \in Batches
  PROVE  /\ IsSeq(b)
         /\ b # <<>>
         /\ Len(b) \in Nat
         /\ DOMAIN b = 1 .. Len(b)
         /\ \A i \in 1 .. Len(b) :
              /\ b[i].len \in Nat
              /\ b[i].remote \in Nat
              /\ b[i].region.addr \in Nat
              /\ b[i].region.len \in Nat
<1>1. /\ b \in Seq(Range(b)) /\ b # <<>>
      /\ \A op \in Range(b) : /\ {op.local, op.len, op.remote} \subseteq Nat
                              /\ {op.region.addr, op.region.len} \subseteq Nat
  BY TransferAssumption
<1>2. IsSeq(b)
  BY <1>1 DEF IsSeq
<1>3. Len(b) \in Nat /\ DOMAIN b = 1 .. Len(b)
  BY <1>2, AppendIsSeq
<1>4. \A i \in 1 .. Len(b) : b[i] \in Range(b)
  BY <1>3 DEF Range
<1> QED BY <1>1, <1>2, <1>3, <1>4

(***************************************************************************)
(* The group of a node is one that has a counter.                          *)
(***************************************************************************)
LEMMA GroupKnown ==
  ASSUME NEW numa
  PROVE  /\ Group(numa) \in Nodes \cup {Unknown}
         /\ numa \in Nodes \ {Unknown} => Group(numa) = numa
         /\ numa \notin Nodes \ {Unknown} => Group(numa) = Unknown
BY DEF Group

(***************************************************************************)
(* NumaRoundRobin picks a NIC of the node of the memory, if it has one.    *)
(***************************************************************************)
LEMMA PickedLocal ==
  ASSUME RouteInv, NEW e
  PROVE  /\ Picked(e) \in Nics
         /\ e.numa \in Nodes \ {Unknown} => NicNuma[Picked(e)] = e.numa
<1>1. PICK g \in Nodes \cup {Unknown} : g = Group(e.numa)
  BY GroupKnown
<1>2. rr[g] \in Nat
  BY DEF RouteInv
<1>3. Picked(e) \in Members(g)
  BY <1>1, <1>2, NicAtTurn DEF Picked
<1>4. e.numa \in Nodes \ {Unknown} => g = e.numa /\ g # Unknown
  BY <1>1, GroupKnown
<1> QED BY <1>3, <1>4 DEF Members

(***************************************************************************)
(* The checks of batch_transfer_async make an operation fit.               *)
(***************************************************************************)
LEMMA AdmittedFits ==
  ASSUME RouteInv, NEW t \in Threads, NEW e, thread[t].batch \in Batches,
         Len(thread[t].nics) + 1 \in 1 .. Len(thread[t].batch), Admitted(t, e), HasRkey(t, e)
  PROVE  Fits(Op(t), e, Picked(e))
<1>1. PICK op : op = Op(t)
  BY Zenon
<1>2. op.len \in Nat /\ op.remote \in Nat /\ op.region.addr \in Nat /\ op.region.len \in Nat
  BY <1>1, BatchType DEF Op
<1>3. op.len # 0 /\ e \in Found(t) /\ Contains(op.region, op.remote, op.len)
  BY <1>1 DEF Admitted
<1>4. Covers(e, op.local, op.len)
  BY <1>1, <1>3 DEF Found, FindEntry, Before, Covers
<1>5. Inside(op.region, op.remote, op.len)
  BY <1>2, <1>3, MapAssumption DEF Contains, Inside
<1>6. Picked(e) <= op.region.rkeys
  BY <1>1 DEF HasRkey
<1> QED BY <1>1, <1>2, <1>3, <1>4, <1>5, <1>6, PickedLocal DEF Fits

(***************************************************************************)
(* A caller outside batch_transfer_async has nothing that could not fit.   *)
(***************************************************************************)
LEMMA IdleFits == CallerFits(Idle) /\ Idle.batch = <<>> /\ Idle.nics = <<>>
<1>1. Idle.batch = <<>> /\ Idle.nics = <<>>
  BY DEF Idle
<1>2. Len(<<>>) = 0
  OBVIOUS
<1> QED BY <1>1, <1>2 DEF CallerFits

(***************************************************************************)
(* What SentOnce says of one batch.                                        *)
(***************************************************************************)
WholeBatch(b) ==
  \A i \in DOMAIN b.batch :
    LET op == b.batch[i]
        mem == b.found[i]
        on == {s \in Sessions : i \in b.work[s]}
    IN  /\ Cardinality(on) = 1
        /\ op.len > 0
        /\ Covers(mem, op.local, op.len)
        /\ Inside(op.region, op.remote, op.len)
        /\ \A s \in on :
             /\ s[1] <= op.region.rkeys
             /\ mem.numa \in Nodes \ {Unknown} => NicNuma[s[1]] = mem.numa

(***************************************************************************)
(* SentOnce, batch by batch.                                               *)
(***************************************************************************)
LEMMA SentWhole == SentOnce <=> \A k \in DOMAIN sent : WholeBatch(sent[k])
BY DEF SentOnce, WholeBatch

(***************************************************************************)
(* The same of the batches sent once a step is taken.                      *)
(***************************************************************************)
LEMMA SentWholeNext == SentOnce' <=> \A k \in DOMAIN sent' : WholeBatch(sent'[k])
<1>1. SentOnce' <=> (\A k \in DOMAIN sent : WholeBatch(sent[k]))'
  BY SentWhole, PTL
<1> QED BY Zenon, <1>1

(***************************************************************************)
(* A step that sends nothing leaves what was sent as it was.               *)
(***************************************************************************)
LEMMA SentKept ==
  ASSUME SentOnce, UNCHANGED sent
  PROVE  SentOnce'
<1>1. \A k \in DOMAIN sent : WholeBatch(sent[k])
  BY Zenon, SentWhole
<1>2. \A k \in DOMAIN sent' : WholeBatch(sent'[k])
  BY Zenon, <1>1
<1> QED BY Zenon, <1>2, SentWholeNext

(***************************************************************************)
(* At the start no batch is under way.                                     *)
(***************************************************************************)
LEMMA RouteInit == Init => RouteInv
<1> SUFFICES ASSUME Init PROVE RouteInv
  OBVIOUS
<1>1. /\ rr = [g \in Nodes \cup {Unknown} |-> 0]
      /\ rot = [n \in Nics |-> 0]
      /\ thread = [t \in Threads |-> Idle]
      /\ sent = <<>>
  BY DEF Init
<1>2. SentOnce
  BY <1>1 DEF SentOnce
<1> QED BY <1>1, <1>2, IdleFits DEF RouteInv

(***************************************************************************)
(* A step of one caller that sends nothing.                                *)
(***************************************************************************)
LEMMA CallerRoutes ==
  ASSUME Inv, RouteInv, NEW t \in Threads, NEW r,
         UNCHANGED sent, thread' = [thread EXCEPT ![t] = r], CallerFits(r),
         rot' \in [Nics -> Nat], rr' \in [Nodes \cup {Unknown} -> Nat]
  PROVE  RouteInv'
<1>1. \A u \in Threads : thread'[u] = IF u = t THEN r ELSE thread[u]
  BY DEF Inv, Shape
<1>2. \A u \in Threads : CallerFits(thread'[u])
  BY <1>1 DEF RouteInv
<1>3. SentOnce'
  BY Zenon, SentKept DEF RouteInv
<1> QED BY <1>2, <1>3 DEF RouteInv

(***************************************************************************)
(* The counter of a group goes on.                                         *)
(***************************************************************************)
LEMMA AdvanceType ==
  ASSUME RouteInv, NEW g \in Nodes \cup {Unknown}
  PROVE  /\ Advance(g) \in [Nodes \cup {Unknown} -> Nat]
         /\ \A h \in Nodes \cup {Unknown} :
              Advance(g)[h] = IF h = g THEN rr[h] + 1 ELSE rr[h]
BY DEF RouteInv, Advance

(***************************************************************************)
(* Beginning a batch.                                                      *)
(***************************************************************************)
LEMMA BeginRoutes ==
  ASSUME Inv, RouteInv, NEW t \in Threads, NEW b \in Batches, Begin(t, b)
  PROVE  RouteInv'
<1> DEFINE r == [batch |-> b, map |-> entries, nics |-> <<>>, found |-> <<>>, start |-> rot]
<1>1. r.batch = b /\ r.nics = <<>> /\ r.start = rot
  OBVIOUS
<1>2. /\ UNCHANGED <<sent, rr>>
      /\ thread' = [thread EXCEPT ![t] = r]
      /\ rot' = [n \in Nics |-> rot[n] + 1]
  BY DEF Begin
<1> HIDE DEF r
<1>3. CallerFits(r)
  <2>1. Len(<<>>) = 0 /\ Len(b) \in Nat
    BY BatchType
  <2> QED BY <1>1, <2>1 DEF CallerFits, RouteInv
<1>4. rot' \in [Nics -> Nat] /\ rr' \in [Nodes \cup {Unknown} -> Nat]
  BY <1>2 DEF RouteInv
<1> QED BY Zenon, <1>2, <1>3, <1>4, CallerRoutes

(***************************************************************************)
(* A caller that resolves: the next operation is one of its batch, of      *)
(* which it has resolved those before.                                     *)
(***************************************************************************)
LEMMA ResolvingType ==
  ASSUME Inv, RouteInv, NEW t \in Threads, Resolving(t)
  PROVE  /\ thread[t] # Idle
         /\ thread[t].batch \in Batches
         /\ IsSeq(thread[t].nics)
         /\ thread[t].found \in Seq(thread[t].map)
         /\ Len(thread[t].found) = Len(thread[t].nics)
         /\ Len(thread[t].nics) \in Nat
         /\ Len(thread[t].batch) \in Nat
         /\ Len(thread[t].nics) + 1 \in 1 .. Len(thread[t].batch)
<1>1. /\ IsSeq(thread[t].nics)
      /\ thread[t].found \in Seq(thread[t].map)
      /\ Len(thread[t].found) = Len(thread[t].nics)
  BY DEF Inv, Shape, CallerOK
<1>2. Len(thread[t].nics) \in Nat
  BY <1>1, AppendIsSeq
<1>3. Len(thread[t].nics) < Len(thread[t].batch)
  BY DEF Resolving
<1>4. thread[t] # Idle
  <2>1. Idle.batch = <<>> /\ Idle.nics = <<>> /\ ~(Len(<<>>) < Len(<<>>))
    BY IdleFits
  <2> QED BY Zenon, <1>3, <2>1
<1>5. thread[t].batch \in Batches
  BY <1>4 DEF RouteInv, CallerFits
<1>6. Len(thread[t].batch) \in Nat
  BY <1>5, BatchType
<1> QED BY <1>1, <1>2, <1>3, <1>4, <1>5, <1>6

(***************************************************************************)
(* Resolving an operation.                                                 *)
(***************************************************************************)
LEMMA ResolveRoutes ==
  ASSUME Inv, RouteInv, NEW t \in Threads, NEW e, Resolve(t, e)
  PROVE  RouteInv'
<1> DEFINE r == [thread[t] EXCEPT !.nics = Append(@, Picked(e)), !.found = Append(@, e)]
<1>1. /\ r.batch = thread[t].batch
      /\ r.start = thread[t].start
      /\ r.nics = Append(thread[t].nics, Picked(e))
      /\ r.found = Append(thread[t].found, e)
  BY SMTT(60)
<1>2. /\ UNCHANGED <<sent, rot>>
      /\ thread' = [thread EXCEPT ![t] = r]
      /\ rr' = Advance(Group(e.numa))
      /\ Resolving(t) /\ Admitted(t, e) /\ HasRkey(t, e)
  BY Zenon DEF Resolve
<1> HIDE DEF r
<1>3. PICK n \in Nat : n = Len(thread[t].nics)
  BY <1>2, ResolvingType
<1>4. /\ thread[t].batch \in Batches
      /\ n + 1 \in 1 .. Len(thread[t].batch)
      /\ Len(thread[t].batch) \in Nat
  BY <1>2, <1>3, ResolvingType
<1>5. /\ Len(r.nics) = n + 1
      /\ \A i \in 1 .. n : r.nics[i] = thread[t].nics[i]
      /\ r.nics[n + 1] = Picked(e)
  <2>1. IsSeq(thread[t].nics)
    BY <1>2, ResolvingType
  <2> QED BY <1>1, <1>3, <2>1, AppendIsSeq
<1>6. /\ \A i \in 1 .. n : r.found[i] = thread[t].found[i]
      /\ r.found[n + 1] = e
  <2>1. thread[t].found \in Seq(thread[t].map) /\ Len(thread[t].found) = n
    BY <1>2, <1>3, ResolvingType
  <2>2. e \in thread[t].map
    BY <1>2 DEF Admitted, Found, FindEntry, Before
  <2> QED BY <1>1, <2>1, <2>2, SeqAppend
<1>7. Fits(thread[t].batch[n + 1], e, Picked(e))
  BY <1>2, <1>3, <1>4, AdmittedFits DEF Op
<1>8. CallerFits(r)
  <2>1. /\ thread[t].start \in [Nics -> Nat]
        /\ \A i \in 1 .. n : Fits(thread[t].batch[i], thread[t].found[i], thread[t].nics[i])
    BY <1>2, <1>3, ResolvingType DEF RouteInv, CallerFits
  <2>2. \A i \in 1 .. Len(r.nics) : Fits(r.batch[i], r.found[i], r.nics[i])
    <3> SUFFICES ASSUME NEW i \in 1 .. n + 1
                 PROVE  Fits(r.batch[i], r.found[i], r.nics[i])
      BY <1>5
    <3>1. CASE i = n + 1
      BY Zenon, <1>1, <1>5, <1>6, <1>7, <3>1
    <3>2. CASE i \in 1 .. n
      BY Zenon, <1>1, <1>5, <1>6, <2>1, <3>2
    <3>3. i = n + 1 \/ i \in 1 .. n
      OBVIOUS
    <3> QED BY <3>1, <3>2, <3>3
  <2>3. Len(r.nics) <= Len(r.batch)
    BY <1>1, <1>4, <1>5
  <2>4. r.batch \in Batches /\ r.start \in [Nics -> Nat]
    BY <1>1, <1>4, <2>1
  <2> QED BY Zenon, <2>2, <2>3, <2>4 DEF CallerFits
<1>9. rot' \in [Nics -> Nat] /\ rr' \in [Nodes \cup {Unknown} -> Nat]
  BY <1>2, AdvanceType, GroupKnown DEF RouteInv
<1> QED BY Zenon, <1>2, <1>8, <1>9, CallerRoutes

(***************************************************************************)
(* Refusing a batch.                                                       *)
(***************************************************************************)
LEMMA RefuseRoutes ==
  ASSUME Inv, RouteInv, NEW t \in Threads, NEW e, RefuseRkey(t, e) \/ Refuse(t)
  PROVE  RouteInv'
<1>1. /\ UNCHANGED <<sent, rot>>
      /\ thread' = [thread EXCEPT ![t] = Idle]
      /\ rr' = Advance(Group(e.numa)) \/ rr' = rr
  BY DEF RefuseRkey, Refuse
<1>2. rot' \in [Nics -> Nat] /\ rr' \in [Nodes \cup {Unknown} -> Nat]
  BY <1>1, AdvanceType, GroupKnown DEF RouteInv
<1> QED BY Zenon, <1>1, <1>2, IdleFits, CallerRoutes

(***************************************************************************)
(* A batch whose operations are all resolved, and the work made of it.     *)
(***************************************************************************)
LEMMA SubmitType ==
  ASSUME Inv, RouteInv, NEW t \in Threads, Submit(t)
  PROVE  /\ DOMAIN thread[t].batch = 1 .. Len(thread[t].nics)
         /\ DOMAIN thread[t].nics = 1 .. Len(thread[t].nics)
         /\ Len(thread[t].nics) \in Nat
         /\ \A i \in DOMAIN thread[t].batch :
              /\ Fits(thread[t].batch[i], thread[t].found[i], thread[t].nics[i])
              /\ \E q \in 0 .. QpsPerPeer - 1 : \A s \in Sessions :
                   i \in Work(thread[t].nics, thread[t].start)[s] <=> s = <<thread[t].nics[i], q>>
<1>1. CallerFits(thread[t]) /\ IsSeq(thread[t].nics)
  BY DEF Inv, Shape, RouteInv, CallerOK
<1>2. Len(thread[t].nics) \in Nat /\ DOMAIN thread[t].nics = 1 .. Len(thread[t].nics)
  BY <1>1, AppendIsSeq
<1>3. thread[t].batch \in Batches /\ thread[t].start \in [Nics -> Nat]
  BY <1>1 DEF CallerFits, Submit
<1>4. Len(thread[t].batch) \in Nat /\ DOMAIN thread[t].batch = 1 .. Len(thread[t].batch)
  BY <1>3, BatchType
<1>5. Len(thread[t].nics) = Len(thread[t].batch)
  <2>1. Len(thread[t].nics) <= Len(thread[t].batch)
    BY <1>1 DEF CallerFits
  <2>2. ~(Len(thread[t].nics) < Len(thread[t].batch))
    BY DEF Submit, Resolving
  <2> QED BY <1>2, <1>4, <2>1, <2>2
<1>6. ASSUME NEW i \in DOMAIN thread[t].batch
      PROVE  /\ Fits(thread[t].batch[i], thread[t].found[i], thread[t].nics[i])
             /\ \E q \in 0 .. QpsPerPeer - 1 : \A s \in Sessions :
                  i \in Work(thread[t].nics, thread[t].start)[s] <=> s = <<thread[t].nics[i], q>>
  <2>1. i \in 1 .. Len(thread[t].nics) /\ i \in Nat
    BY <1>2, <1>4, <1>5
  <2>2. Fits(thread[t].batch[i], thread[t].found[i], thread[t].nics[i])
    BY <1>1, <2>1 DEF CallerFits
  <2>3. thread[t].nics[i] \in Nics
    BY <2>2 DEF Fits
  <2>4. i \in DOMAIN thread[t].nics
    BY <1>2, <2>1
  <2> QED BY Zenon, <1>3, <2>1, <2>2, <2>3, <2>4, WorkOfOne
<1> QED BY <1>2, <1>4, <1>5, <1>6

(***************************************************************************)
(* Handing a batch to the sessions.                                        *)
(***************************************************************************)
LEMMA SubmitRoutes ==
  ASSUME Inv, RouteInv, NEW t \in Threads, Submit(t)
  PROVE  RouteInv'
<1> DEFINE work == Work(thread[t].nics, thread[t].start)
           rec == [batch |-> thread[t].batch, found |-> thread[t].found, work |-> work]
<1>1. /\ UNCHANGED <<rr, rot>>
      /\ thread' = [thread EXCEPT ![t] = Idle]
      /\ sent' = Append(sent, rec)
  BY DEF Submit
<1>2. rec.batch = thread[t].batch /\ rec.found = thread[t].found /\ rec.work = work
  OBVIOUS
<1> HIDE DEF rec
<1>3. WholeBatch(rec)
  <2> SUFFICES ASSUME NEW i \in DOMAIN thread[t].batch
               PROVE  LET op == thread[t].batch[i]
                          mem == thread[t].found[i]
                          on == {s \in Sessions : i \in work[s]}
                      IN  /\ Cardinality(on) = 1
                          /\ op.len > 0
                          /\ Covers(mem, op.local, op.len)
                          /\ Inside(op.region, op.remote, op.len)
                          /\ \A s \in on :
                               /\ s[1] <= op.region.rkeys
                               /\ mem.numa \in Nodes \ {Unknown} => NicNuma[s[1]] = mem.numa
    BY <1>2 DEF WholeBatch
  <2>1. PICK n : n = thread[t].nics[i]
    BY Zenon
  <2>2. Fits(thread[t].batch[i], thread[t].found[i], n)
    BY <2>1, SubmitType
  <2>3. PICK q \in 0 .. QpsPerPeer - 1 : \A s \in Sessions : i \in work[s] <=> s = <<n, q>>
    BY <2>1, SubmitType
  <2>4. <<n, q>> \in Sessions
    BY <2>2 DEF Sessions, Fits
  <2> HIDE DEF work
  <2>5. {s \in Sessions : i \in work[s]} = {<<n, q>>}
    BY <2>3, <2>4
  <2>6. Cardinality({s \in Sessions : i \in work[s]}) = 1
    BY Zenon, <2>5, FS_Singleton
  <2>7. \A s \in {s \in Sessions : i \in work[s]} : s[1] = n
    BY <2>5
  <2> QED BY <2>2, <2>6, <2>7 DEF Fits
<1>4. \A u \in Threads : thread'[u] = IF u = t THEN Idle ELSE thread[u]
  BY <1>1 DEF Inv, Shape
<1>5. \A u \in Threads : CallerFits(thread'[u])
  BY <1>4, IdleFits DEF RouteInv
<1>6. SentOnce'
  <2>1. IsSeq(sent)
    BY DEF Inv, Shape
  <2>2. /\ IsSeq(sent')
        /\ Len(sent) \in Nat
        /\ Len(sent') = Len(sent) + 1
        /\ DOMAIN sent = 1 .. Len(sent)
        /\ \A k \in 1 .. Len(sent) : sent'[k] = sent[k]
        /\ sent'[Len(sent) + 1] = rec
    BY <1>1, <2>1, AppendIsSeq
  <2>3. DOMAIN sent' = 1 .. Len(sent')
    BY <2>2, AppendIsSeq
  <2>4. \A k \in DOMAIN sent : WholeBatch(sent[k])
    BY SentWhole DEF RouteInv
  <2>5. \A k \in DOMAIN sent' : k \in DOMAIN sent \/ k = Len(sent) + 1
    BY <2>2, <2>3
  <2>6. \A k \in DOMAIN sent' : WholeBatch(sent'[k])
    BY Zenon, <1>3, <2>2, <2>4, <2>5
  <2> QED BY Zenon, <2>6, SentWholeNext
<1> QED BY <1>1, <1>5, <1>6 DEF RouteInv

(***************************************************************************)
(* Every step keeps the operations fitting.                                *)
(***************************************************************************)
LEMMA RouteNext == Inv /\ RouteInv /\ [Next]_vars => RouteInv'
<1> SUFFICES ASSUME Inv, RouteInv, [Next]_vars PROVE RouteInv'
  OBVIOUS
<1>1. CASE UNCHANGED <<rr, rot, thread, sent>>
  <2>1. SentOnce'
    BY Zenon, <1>1, SentKept DEF RouteInv
  <2> QED BY <1>1, <2>1 DEF RouteInv
<1>2. ASSUME NEW t \in Threads, Step(t) PROVE RouteInv'
  BY <1>2, ResolveRoutes, RefuseRoutes, SubmitRoutes DEF Step
<1>3. ASSUME NEW t \in Threads, NEW b \in Batches, Begin(t, b) PROVE RouteInv'
  BY <1>3, BeginRoutes
<1>4. ASSUME NEW r \in Regions, RegisterWith(r) PROVE UNCHANGED <<rr, rot, thread, sent>>
  BY <1>4 DEF RegisterWith
<1>5. ASSUME NEW base \in Addresses, UnregisterRegion(base)
      PROVE  UNCHANGED <<rr, rot, thread, sent>>
  BY <1>5 DEF UnregisterRegion
<1>6. ASSUME NEW s \in Sessions, Done(s) PROVE UNCHANGED <<rr, rot, thread, sent>>
  BY <1>6 DEF Done
<1>7. UNCHANGED vars => UNCHANGED <<rr, rot, thread, sent>>
  BY DEF vars
<1> QED BY <1>1, <1>2, <1>3, <1>4, <1>5, <1>6, <1>7 DEF Next

-----------------------------------------------------------------------------
(***************************************************************************)
(* Tagging the elements of a set does not change their number.             *)
(***************************************************************************)
LEMMA TaggedSize ==
  ASSUME NEW t, NEW S, IsFiniteSet(S)
  PROVE  IsFiniteSet({t} \X S) /\ Cardinality({t} \X S) = Cardinality(S)
<1>1. IsFiniteSet({t}) /\ Cardinality({t}) = 1
  BY FS_Singleton
<1>2. IsFiniteSet({t} \X S) /\ Cardinality({t} \X S) = Cardinality({t}) * Cardinality(S)
  BY <1>1, FS_Product
<1>3. Cardinality(S) \in Nat
  BY FS_CardinalityType
<1> QED BY <1>1, <1>2, <1>3

(***************************************************************************)
(* The number of elements of two sets that have none in common.            *)
(***************************************************************************)
LEMMA ApartSize ==
  ASSUME NEW S, NEW T, IsFiniteSet(S), IsFiniteSet(T), S \cap T = {}
  PROVE  /\ IsFiniteSet(S \cup T)
         /\ Cardinality(S \cup T) = Cardinality(S) + Cardinality(T)
<1>1. /\ IsFiniteSet(S \cup T)
      /\ Cardinality(S \cup T) = Cardinality(S) + Cardinality(T) - Cardinality(S \cap T)
  BY FS_Union
<1>2. Cardinality(S \cap T) = 0 /\ Cardinality(S) \in Nat /\ Cardinality(T) \in Nat
  BY FS_EmptySet, FS_CardinalityType
<1> QED BY <1>1, <1>2

(***************************************************************************)
(* One more turn of the group is one more of a place, or is another's.     *)
(***************************************************************************)
LEMMA NextTurn ==
  ASSUME NEW k \in Nat \ {0}, NEW p \in 0 .. k - 1, NEW c \in Nat
  PROVE  /\ IsFiniteSet(TurnsOf(k, p, c))
         /\ Cardinality(TurnsOf(k, p, c)) \in Nat
         /\ c % k = p => Cardinality(TurnsOf(k, p, c + 1)) = Cardinality(TurnsOf(k, p, c)) + 1
         /\ c % k # p => TurnsOf(k, p, c + 1) = TurnsOf(k, p, c)
<1>1. IsFiniteSet(TurnsOf(k, p, c)) /\ Cardinality(TurnsOf(k, p, c)) \in Nat
  <2>1. IsFiniteSet(0 .. c - 1)
    BY FS_Interval
  <2>2. TurnsOf(k, p, c) \in SUBSET (0 .. c - 1)
    BY DEF TurnsOf
  <2> QED BY <2>1, <2>2, FS_Subset, FS_CardinalityType
<1>2. ASSUME c % k # p PROVE TurnsOf(k, p, c + 1) = TurnsOf(k, p, c)
  <2>1. \A j \in Int : j \in 0 .. (c + 1) - 1 <=> j \in 0 .. c - 1 \/ j = c
    OBVIOUS
  <2> QED BY <1>2, <2>1 DEF TurnsOf
<1>3. ASSUME c % k = p
      PROVE  Cardinality(TurnsOf(k, p, c + 1)) = Cardinality(TurnsOf(k, p, c)) + 1
  <2>1. \A j \in Int : j \in 0 .. (c + 1) - 1 <=> j \in 0 .. c - 1 \/ j = c
    OBVIOUS
  <2>2. TurnsOf(k, p, c + 1) = TurnsOf(k, p, c) \cup {c}
    BY <1>3, <2>1 DEF TurnsOf
  <2>3. c \notin TurnsOf(k, p, c)
    BY DEF TurnsOf
  <2> QED BY <1>1, <2>2, <2>3, FS_AddElement
<1> QED BY <1>1, <1>2, <1>3

(***************************************************************************)
(* What a NIC was given is for its turns, when neither has changed.        *)
(***************************************************************************)
LEMMA SameTurnsUsed ==
  ASSUME NEW n \in Nics, TurnsUsed(n), UNCHANGED sent, OwnPicks(n)' = OwnPicks(n),
         OwnTurns(n)' = OwnTurns(n)
  PROVE  TurnsUsed(n)'
<1>1. OwnOps(n)' = OwnOps(n)
  BY DEF OwnOps
<1> QED BY <1>1 DEF TurnsUsed

(***************************************************************************)
(* What callers have resolved changes only with what one of them has.      *)
(***************************************************************************)
LEMMA SamePicks ==
  ASSUME NEW n, \A u \in Threads : PicksOf(thread'[u], n) = PicksOf(thread[u], n)
  PROVE  OwnPicks(n)' = OwnPicks(n)
BY DEF OwnPicks

(***************************************************************************)
(* At the start no turn has been used.                                     *)
(***************************************************************************)
LEMMA CountInit == Init => CountInv
<1> SUFFICES ASSUME Init PROVE CountInv
  OBVIOUS
<1>1. /\ rr = [g \in Nodes \cup {Unknown} |-> 0]
      /\ thread = [t \in Threads |-> Idle]
      /\ sent = <<>>
      /\ begun = 0
  BY DEF Init
<1>2. Active = {}
  BY <1>1 DEF Active
<1>3. ASSUME NEW n \in Nics PROVE TurnsUsed(n)
  <2>1. OwnOps(n) = {}
    BY <1>1 DEF OwnOps
  <2>2. OwnPicks(n) = {}
    BY <1>1, IdleFits DEF OwnPicks, PicksOf
  <2>3. OwnTurns(n) = {}
    <3>1. NicNuma[n] \in Nodes
      BY DEF Nodes
    <3>2. rr[NicNuma[n]] = 0
      BY <1>1, <3>1
    <3> QED BY <3>2 DEF OwnTurns, TurnsOf
  <2> QED BY <2>1, <2>2, <2>3, FS_EmptySet DEF TurnsUsed
<1>4. Len(sent) = 0 /\ IsFiniteSet(Active) /\ Cardinality(Active) = 0
  BY <1>1, <1>2, FS_EmptySet
<1> QED BY <1>1, <1>3, <1>4 DEF CountInv

(***************************************************************************)
(* A step that changes none of what is counted.                            *)
(***************************************************************************)
LEMMA QuietCounts ==
  ASSUME CountInv, UNCHANGED <<rr, thread, sent, begun>>
  PROVE  CountInv'
<1>1. Active' = Active
  BY DEF Active
<1>2. ASSUME NEW n \in Nics, TurnsUsed(n) PROVE TurnsUsed(n)'
  <2>1. OwnPicks(n)' = OwnPicks(n)
    BY SamePicks
  <2>2. OwnTurns(n)' = OwnTurns(n)
    BY DEF OwnTurns
  <2> QED BY <1>2, <2>1, <2>2, SameTurnsUsed
<1> QED BY <1>1, <1>2 DEF CountInv

(***************************************************************************)
(* A caller more.                                                          *)
(***************************************************************************)
LEMMA BeginCounts ==
  ASSUME Inv, CountInv, NEW t \in Threads, NEW b \in Batches, Begin(t, b)
  PROVE  CountInv'
<1> DEFINE r == [batch |-> b, map |-> entries, nics |-> <<>>, found |-> <<>>, start |-> rot]
<1>1. r.batch = b /\ r.nics = <<>>
  OBVIOUS
<1>2. /\ UNCHANGED <<sent, rr>>
      /\ begun' = begun + 1
      /\ thread[t] = Idle
      /\ thread' = [thread EXCEPT ![t] = r]
  BY DEF Begin
<1> HIDE DEF r
<1>3. r # Idle
  BY <1>1, IdleFits, BatchType
<1>4. \A u \in Threads : thread'[u] = IF u = t THEN r ELSE thread[u]
  BY <1>2 DEF Inv, Shape
<1>5. Active' = Active \cup {t} /\ t \notin Active
  BY <1>2, <1>3, <1>4 DEF Active
<1>6. IsFiniteSet(Active') /\ Cardinality(Active') = Cardinality(Active) + 1
      /\ Cardinality(Active) \in Nat
  BY <1>5, FS_AddElement, FS_CardinalityType DEF CountInv
<1>7. Len(sent) \in Nat
  BY AppendIsSeq DEF Inv, Shape
<1>8. ASSUME NEW n \in Nics, TurnsUsed(n) PROVE TurnsUsed(n)'
  <2>1. PicksOf(r, n) = {} /\ PicksOf(Idle, n) = {}
    BY <1>1, IdleFits DEF PicksOf
  <2>2. \A u \in Threads : PicksOf(thread'[u], n) = PicksOf(thread[u], n)
    BY <1>2, <1>4, <2>1
  <2>3. OwnPicks(n)' = OwnPicks(n)
    BY <2>2, SamePicks
  <2>4. OwnTurns(n)' = OwnTurns(n)
    BY <1>2 DEF OwnTurns
  <2> QED BY <1>2, <1>8, <2>3, <2>4, SameTurnsUsed
<1>9. begun' \in Nat /\ Cardinality(Active') + Len(sent') <= begun'
  BY <1>2, <1>6, <1>7 DEF CountInv
<1>10. Cardinality(Active') + Len(sent') = begun' => Cardinality(Active) + Len(sent) = begun
  BY <1>2, <1>6, <1>7 DEF CountInv
<1> QED BY <1>6, <1>8, <1>9, <1>10 DEF CountInv

(***************************************************************************)
(* A refused batch is missing among those sent, for ever.                  *)
(***************************************************************************)
LEMMA RefuseCounts ==
  ASSUME Inv, RouteInv, CountInv, NEW t \in Threads, NEW e, RefuseRkey(t, e) \/ Refuse(t)
  PROVE  CountInv'
<1>1. /\ UNCHANGED <<sent, begun>>
      /\ Resolving(t)
      /\ thread' = [thread EXCEPT ![t] = Idle]
  BY DEF RefuseRkey, Refuse
<1>2. thread[t] # Idle
  BY <1>1, ResolvingType
<1>3. \A u \in Threads : thread'[u] = IF u = t THEN Idle ELSE thread[u]
  BY <1>1 DEF Inv, Shape
<1>4. Active' = Active \ {t} /\ t \in Active
  BY <1>2, <1>3 DEF Active
<1>5. IsFiniteSet(Active') /\ Cardinality(Active') = Cardinality(Active) - 1
      /\ Cardinality(Active) \in Nat
  BY <1>4, FS_RemoveElement, FS_CardinalityType DEF CountInv
<1>6. Len(sent) \in Nat
  BY AppendIsSeq DEF Inv, Shape
<1>7. /\ begun' \in Nat
      /\ Cardinality(Active') + Len(sent') <= begun'
      /\ Cardinality(Active') + Len(sent') # begun'
  BY <1>1, <1>5, <1>6 DEF CountInv
<1> QED BY <1>5, <1>7 DEF CountInv

(***************************************************************************)
(* The operation that has been resolved is for the turn of its NIC; the    *)
(* others neither had the turn nor got the operation.                      *)
(***************************************************************************)
LEMMA ResolveCounts ==
  ASSUME Inv, RouteInv, CountInv, NEW t \in Threads, NEW e, Resolve(t, e)
  PROVE  CountInv'
<1> DEFINE r == [thread[t] EXCEPT !.nics = Append(@, Picked(e)), !.found = Append(@, e)]
<1>1. /\ r.nics = Append(thread[t].nics, Picked(e))
      /\ r.found = Append(thread[t].found, e)
  BY SMTT(60)
<1>2. /\ UNCHANGED <<sent, begun>>
      /\ thread' = [thread EXCEPT ![t] = r]
      /\ rr' = Advance(Group(e.numa))
      /\ Resolving(t) /\ Admitted(t, e)
  BY Zenon DEF Resolve
<1> HIDE DEF r
<1>3. \A u \in Threads : thread'[u] = IF u = t THEN r ELSE thread[u]
  BY <1>2 DEF Inv, Shape
<1>4. PICK m \in Nat : m = Len(thread[t].nics)
  BY <1>2, ResolvingType
<1>5. /\ DOMAIN thread[t].nics = 1 .. m
      /\ DOMAIN r.nics = 1 .. m + 1
      /\ \A i \in 1 .. m : r.nics[i] = thread[t].nics[i]
      /\ r.nics[m + 1] = Picked(e)
  <2>1. IsSeq(thread[t].nics)
    BY <1>2, ResolvingType
  <2>2. IsSeq(r.nics) /\ Len(r.nics) = m + 1
    BY <1>1, <1>4, <2>1, AppendIsSeq
  <2>3. DOMAIN r.nics = 1 .. m + 1
    BY <2>2, AppendIsSeq
  <2> QED BY <1>1, <1>4, <2>1, <2>3, AppendIsSeq
<1>6. /\ \A i \in 1 .. m : r.found[i] = thread[t].found[i]
      /\ r.found[m + 1] = e
  <2>1. thread[t].found \in Seq(thread[t].map) /\ Len(thread[t].found) = m
    BY <1>2, <1>4, ResolvingType
  <2>2. e \in thread[t].map
    BY <1>2 DEF Admitted, Found, FindEntry, Before
  <2> QED BY <1>1, <2>1, <2>2, SeqAppend
<1>7. Active' = Active
  <2>1. r # Idle
    <3>1. DOMAIN <<>> = {} /\ 1 \in 1 .. m + 1
      OBVIOUS
    <3> QED BY <1>5, <3>1, IdleFits
  <2>2. thread[t] # Idle
    BY <1>2, ResolvingType
  <2> QED BY <1>3, <2>1, <2>2 DEF Active
<1>8. PICK g \in Nodes \cup {Unknown} : g = Group(e.numa)
  BY GroupKnown
<1>9. rr[g] \in Nat /\ Picked(e) = NicAt(g, rr[g])
  BY <1>8 DEF RouteInv, Picked
<1>10. \A h \in Nodes \cup {Unknown} : rr'[h] = IF h = g THEN rr[h] + 1 ELSE rr[h]
  BY <1>2, <1>8, AdvanceType
<1>11. ASSUME NEW n \in Nics, NicNuma[n] # Unknown, TurnsUsed(n)
       PROVE  TurnsUsed(n)'
  <2>1. PICK h \in Nodes \cup {Unknown} : h = NicNuma[n]
    BY DEF Nodes
  <2>2. PICK k \in Nat \ {0} : k = Cardinality(Members(h))
    BY MembersFinite
  <2>3. n \in Members(h)
    BY <2>1 DEF Members
  <2>4. PICK p \in 0 .. k - 1 : p = Place(h, n)
    BY <2>2, <2>3, PlacesDiffer
  <2>5. OwnTurns(n) = TurnsOf(k, p, rr[h]) /\ OwnTurns(n)' = TurnsOf(k, p, rr'[h])
    BY <2>1, <2>2, <2>4 DEF OwnTurns
  <2>6. h = g => (rr[g] % k = p <=> n = Picked(e))
    BY <1>9, <2>2, <2>3, <2>4, NicAtTurn DEF Turn
  <2>7. h = g <=> e.numa = h
    BY <1>8, <1>11, <2>1, GroupKnown DEF Nodes
  <2>8. CASE n = Picked(e) /\ e.numa = h
    <3>1. PicksOf(r, n) = PicksOf(thread[t], n) \cup {m + 1}
      BY <1>5, <1>6, <2>1, <2>8 DEF PicksOf
    <3>2. m + 1 \notin PicksOf(thread[t], n)
      BY <1>5 DEF PicksOf
    <3>3. <<t, m + 1>> \notin OwnPicks(n)
      BY <3>2 DEF OwnPicks
    <3>4. OwnPicks(n)' = OwnPicks(n) \cup {<<t, m + 1>>}
      <4>1. \A u \in Threads : {u} \X PicksOf(thread'[u], n) =
              ({u} \X PicksOf(thread[u], n)) \cup (IF u = t THEN {<<t, m + 1>>} ELSE {})
        BY <1>3, <3>1
      <4> QED BY <4>1 DEF OwnPicks
    <3>5. /\ IsFiniteSet(OwnPicks(n)')
          /\ Cardinality(OwnPicks(n)') = Cardinality(OwnPicks(n)) + 1
      BY Zenon, <1>11, <3>3, <3>4, FS_AddElement DEF TurnsUsed
    <3>6. Cardinality(OwnTurns(n)') = Cardinality(OwnTurns(n)) + 1
      <4>1. rr'[h] = rr[h] + 1 /\ rr[h] % k = p /\ rr[h] \in Nat
        BY <1>9, <1>10, <2>6, <2>7, <2>8
      <4>2. PICK c \in Nat : c = rr[h]
        BY <4>1
      <4>3. Cardinality(TurnsOf(k, p, c + 1)) = Cardinality(TurnsOf(k, p, c)) + 1
        BY Zenon, <4>1, <4>2, NextTurn
      <4> QED BY Zenon, <2>5, <4>1, <4>2, <4>3
    <3>7. OwnOps(n)' = OwnOps(n)
      BY <1>2 DEF OwnOps
    <3>8. Cardinality(OwnOps(n)) \in Nat /\ Cardinality(OwnPicks(n)) \in Nat
      BY <1>11, FS_CardinalityType DEF TurnsUsed
    <3> QED BY <1>11, <3>5, <3>6, <3>7, <3>8 DEF TurnsUsed
  <2>9. CASE ~(n = Picked(e) /\ e.numa = h)
    <3>1. PicksOf(r, n) = PicksOf(thread[t], n)
      BY <1>5, <1>6, <2>1, <2>9 DEF PicksOf
    <3>2. \A u \in Threads : PicksOf(thread'[u], n) = PicksOf(thread[u], n)
      BY <1>3, <3>1
    <3>3. OwnPicks(n)' = OwnPicks(n)
      BY <3>2, SamePicks
    <3>4. OwnTurns(n)' = OwnTurns(n)
      <4>1. CASE h = g
        <5>1. rr'[h] = rr[h] + 1 /\ rr[h] % k # p /\ rr[h] \in Nat
          BY <1>9, <1>10, <2>6, <2>7, <2>9, <4>1
        <5>2. PICK c \in Nat : c = rr[h]
          BY <5>1
        <5>3. TurnsOf(k, p, c + 1) = TurnsOf(k, p, c)
          BY Zenon, <5>1, <5>2, NextTurn
        <5> QED BY Zenon, <2>5, <5>1, <5>2, <5>3
      <4>2. CASE h # g
        BY <1>10, <2>5, <4>2
      <4> QED BY <4>1, <4>2
    <3> QED BY <1>2, <1>11, <3>3, <3>4, SameTurnsUsed
  <2> QED BY <2>8, <2>9
<1> QED BY <1>2, <1>7, <1>11 DEF CountInv

(***************************************************************************)
(* What a caller had resolved has been given to the sessions.              *)
(***************************************************************************)
LEMMA SubmitCounts ==
  ASSUME Inv, RouteInv, CountInv, NEW t \in Threads, Submit(t)
  PROVE  CountInv'
<1> DEFINE work == Work(thread[t].nics, thread[t].start)
           rec == [batch |-> thread[t].batch, found |-> thread[t].found, work |-> work]
<1>1. /\ UNCHANGED <<rr, begun>>
      /\ thread[t] # Idle
      /\ thread' = [thread EXCEPT ![t] = Idle]
      /\ sent' = Append(sent, rec)
  BY DEF Submit
<1>2. rec.batch = thread[t].batch /\ rec.found = thread[t].found /\ rec.work = work
  OBVIOUS
<1> HIDE DEF rec
<1>3. PICK new \in Nat : new = Len(sent) + 1
  BY AppendIsSeq DEF Inv, Shape
<1>4. /\ DOMAIN sent' = DOMAIN sent \cup {new}
      /\ new \notin DOMAIN sent
      /\ Len(sent') = Len(sent) + 1
      /\ Len(sent) \in Nat
      /\ \A k \in DOMAIN sent : sent'[k] = sent[k]
      /\ sent'[new] = rec
  <2>1. IsSeq(sent)
    BY DEF Inv, Shape
  <2>2. /\ IsSeq(sent')
        /\ Len(sent) \in Nat
        /\ Len(sent') = Len(sent) + 1
        /\ DOMAIN sent = 1 .. Len(sent)
        /\ \A k \in 1 .. Len(sent) : sent'[k] = sent[k]
        /\ sent'[Len(sent) + 1] = rec
    BY <1>1, <2>1, AppendIsSeq
  <2>3. DOMAIN sent' = 1 .. Len(sent')
    BY <2>2, AppendIsSeq
  <2>4. DOMAIN sent' = DOMAIN sent \cup {new} /\ new \notin DOMAIN sent
    BY <1>3, <2>2, <2>3
  <2> QED BY Zenon, <1>3, <2>2, <2>4
<1>5. \A u \in Threads : thread'[u] = IF u = t THEN Idle ELSE thread[u]
  BY <1>1 DEF Inv, Shape
<1>6. Active' = Active \ {t} /\ t \in Active
  BY <1>1, <1>5 DEF Active
<1>7. IsFiniteSet(Active') /\ Cardinality(Active') = Cardinality(Active) - 1
      /\ Cardinality(Active) \in Nat
  BY <1>6, FS_RemoveElement, FS_CardinalityType DEF CountInv
<1>8. ASSUME NEW n \in Nics, TurnsUsed(n) PROVE TurnsUsed(n)'
  <2>1. PICK P : P = PicksOf(thread[t], n)
    BY Zenon
  <2>2. OpsOf(rec, n) = P
    <3>1. ASSUME NEW i \in DOMAIN thread[t].batch
          PROVE  (\E q \in 0 .. QpsPerPeer - 1 : i \in work[<<n, q>>]) <=> thread[t].nics[i] = n
      <4>1. PICK q \in 0 .. QpsPerPeer - 1 :
              \A s \in Sessions : i \in work[s] <=> s = <<thread[t].nics[i], q>>
        BY SubmitType
      <4>2. \A p \in 0 .. QpsPerPeer - 1 : <<n, p>> \in Sessions
        BY DEF Sessions
      <4> HIDE DEF work
      <4>3. \A p \in 0 .. QpsPerPeer - 1 :
              i \in work[<<n, p>>] <=> <<n, p>> = <<thread[t].nics[i], q>>
        BY <4>1, <4>2
      <4>4. \A p : <<n, p>> = <<thread[t].nics[i], q>> <=> n = thread[t].nics[i] /\ p = q
        BY Zenon
      <4> QED BY Zenon, <4>1, <4>3, <4>4
    <3>2. DOMAIN thread[t].batch = DOMAIN thread[t].nics
      BY SubmitType
    <3> HIDE DEF work
    <3> QED BY <1>2, <2>1, <3>1, <3>2 DEF OpsOf, PicksOf
  <2>3. IsFiniteSet(P)
    <3>1. P \in SUBSET (1 .. Len(thread[t].nics)) /\ Len(thread[t].nics) \in Nat
      BY <2>1, SubmitType DEF PicksOf
    <3>2. IsFiniteSet(1 .. Len(thread[t].nics))
      BY <3>1, FS_Interval
    <3> QED BY Zenon, <3>1, <3>2, FS_Subset
  <2>4. /\ OwnOps(n)' = OwnOps(n) \cup ({new} \X P)
        /\ OwnOps(n) \cap ({new} \X P) = {}
    <3>1. OwnOps(n)' = UNION {{k} \X OpsOf(sent'[k], n) : k \in DOMAIN sent'}
      BY DEF OwnOps, OpsOf
    <3>2. \A k \in DOMAIN sent : OpsOf(sent'[k], n) = OpsOf(sent[k], n)
      BY Zenon, <1>4
    <3>3. OpsOf(sent'[new], n) = P
      BY Zenon, <1>4, <2>2
    <3>4. OwnOps(n)' = OwnOps(n) \cup ({new} \X P)
      BY <1>4, <3>1, <3>2, <3>3 DEF OwnOps
    <3>5. OwnOps(n) \cap ({new} \X P) = {}
      BY <1>4 DEF OwnOps
    <3> QED BY <3>4, <3>5
  <2>5. /\ OwnPicks(n) = OwnPicks(n)' \cup ({t} \X P)
        /\ OwnPicks(n)' \cap ({t} \X P) = {}
        /\ OwnPicks(n)' \in SUBSET OwnPicks(n)
    <3>1. PicksOf(Idle, n) = {}
      BY IdleFits DEF PicksOf
    <3>2. \A u \in Threads : PicksOf(thread'[u], n) = IF u = t THEN {} ELSE PicksOf(thread[u], n)
      BY Zenon, <1>5, <3>1
    <3>3. OwnPicks(n)' = UNION {{u} \X PicksOf(thread'[u], n) : u \in Threads}
      BY DEF OwnPicks
    <3>4. OwnPicks(n)' = UNION {{u} \X PicksOf(thread[u], n) : u \in Threads \ {t}}
      BY <3>2, <3>3
    <3>5. OwnPicks(n) = OwnPicks(n)' \cup ({t} \X P)
      BY <2>1, <3>4 DEF OwnPicks
    <3>6. OwnPicks(n)' \cap ({t} \X P) = {}
      BY <3>4
    <3> QED BY <3>5, <3>6
  <2>6. /\ IsFiniteSet({t} \X P) /\ Cardinality({t} \X P) = Cardinality(P)
        /\ IsFiniteSet({new} \X P) /\ Cardinality({new} \X P) = Cardinality(P)
    BY Zenon, <2>3, TaggedSize
  <2>7. /\ IsFiniteSet(OwnOps(n)')
        /\ Cardinality(OwnOps(n)') = Cardinality(OwnOps(n)) + Cardinality(P)
    <3>1. PICK S, T : S = OwnOps(n) /\ T = {new} \X P
      BY Zenon
    <3>2. IsFiniteSet(S) /\ IsFiniteSet(T) /\ S \cap T = {}
      BY Zenon, <1>8, <2>4, <2>6, <3>1 DEF TurnsUsed
    <3>3. IsFiniteSet(S \cup T) /\ Cardinality(S \cup T) = Cardinality(S) + Cardinality(T)
      BY Zenon, <3>2, ApartSize
    <3> QED BY Zenon, <2>4, <2>6, <3>1, <3>3
  <2>8. IsFiniteSet(OwnPicks(n)')
    BY <1>8, <2>5, FS_Subset DEF TurnsUsed
  <2>9. Cardinality(OwnPicks(n)) = Cardinality(OwnPicks(n)') + Cardinality(P)
    BY <2>5, <2>6, <2>8, ApartSize
  <2>10. OwnTurns(n)' = OwnTurns(n)
    BY <1>1 DEF OwnTurns
  <2>11. /\ Cardinality(OwnOps(n)) \in Nat
         /\ Cardinality(OwnPicks(n)') \in Nat
         /\ Cardinality(P) \in Nat
    BY <1>8, <2>3, <2>8, FS_CardinalityType DEF TurnsUsed
  <2> QED BY <1>8, <2>7, <2>8, <2>9, <2>10, <2>11 DEF TurnsUsed
<1>9. /\ begun' \in Nat
      /\ Cardinality(Active') + Len(sent') <= begun'
      /\ Cardinality(Active') + Len(sent') = begun' => Cardinality(Active) + Len(sent) = begun
  BY <1>1, <1>4, <1>7 DEF CountInv
<1> QED BY <1>7, <1>8, <1>9 DEF CountInv

(***************************************************************************)
(* Every step keeps the count.                                             *)
(***************************************************************************)
LEMMA CountNext == Inv /\ RouteInv /\ CountInv /\ [Next]_vars => CountInv'
<1> SUFFICES ASSUME Inv, RouteInv, CountInv, [Next]_vars PROVE CountInv'
  OBVIOUS
<1>1. ASSUME NEW t \in Threads, Step(t) PROVE CountInv'
  BY <1>1, ResolveCounts, RefuseCounts, SubmitCounts DEF Step
<1>2. ASSUME NEW t \in Threads, NEW b \in Batches, Begin(t, b) PROVE CountInv'
  BY <1>2, BeginCounts
<1>3. ASSUME NEW r \in Regions, RegisterWith(r) PROVE CountInv'
  BY <1>3, QuietCounts DEF RegisterWith
<1>4. ASSUME NEW base \in Addresses, UnregisterRegion(base) PROVE CountInv'
  BY <1>4, QuietCounts DEF UnregisterRegion
<1>5. ASSUME NEW s \in Sessions, Done(s) PROVE CountInv'
  BY <1>5, QuietCounts DEF Done
<1>6. UNCHANGED vars => CountInv'
  BY QuietCounts DEF vars
<1> QED BY <1>1, <1>2, <1>3, <1>4, <1>5, <1>6 DEF Next

(***************************************************************************)
(* When no batch is missing or under way, the NICs of a node have as many  *)
(* operations as turns, and those are even.                                *)
(***************************************************************************)
LEMMA CountsBalanced ==
  ASSUME Inv, RouteInv, CountInv
  PROVE  Balanced
<1> SUFFICES ASSUME Len(sent) = begun, NEW m \in Nics, NEW n \in Nics,
                    NicNuma[m] = NicNuma[n], NicNuma[m] # Unknown
             PROVE  Given(m) <= Given(n) + 1
  BY DEF Balanced
<1>1. Len(sent) \in Nat /\ Cardinality(Active) \in Nat
  BY AppendIsSeq, FS_CardinalityType DEF Inv, Shape, CountInv
<1>2. Cardinality(Active) = 0 /\ Cardinality(Active) + Len(sent) = begun
  BY <1>1 DEF CountInv
<1>3. Active = {}
  BY <1>2, FS_EmptySet DEF CountInv
<1>4. ASSUME NEW i \in Nics, NicNuma[i] # Unknown
      PROVE  Given(i) = Cardinality(OwnTurns(i))
  <2>1. TurnsUsed(i)
    BY <1>2, <1>4 DEF CountInv
  <2>2. \A t \in Threads : PicksOf(thread[t], i) = {}
    BY <1>3, IdleFits DEF Active, PicksOf
  <2>3. OwnPicks(i) = {}
    <3> SUFFICES ASSUME NEW p \in OwnPicks(i) PROVE FALSE
      BY Zenon
    <3>1. PICK t \in Threads : p \in {t} \X PicksOf(thread[t], i)
      BY DEF OwnPicks
    <3> QED BY <2>2, <3>1
  <2>4. Cardinality(OwnPicks(i)) = 0 /\ Cardinality(OwnOps(i)) \in Nat
    BY <2>1, <2>3, FS_EmptySet, FS_CardinalityType DEF TurnsUsed
  <2> QED BY <2>1, <2>4 DEF TurnsUsed, Given
<1>5. PICK h \in Nodes \cup {Unknown} : h = NicNuma[m] /\ h = NicNuma[n]
  BY DEF Nodes
<1>6. PICK k \in Nat \ {0} : k = Cardinality(Members(h))
  BY MembersFinite
<1>7. m \in Members(h) /\ n \in Members(h)
  BY <1>5 DEF Members
<1>8. Place(h, m) \in 0 .. k - 1 /\ Place(h, n) \in 0 .. k - 1
  BY <1>6, <1>7, PlacesDiffer
<1>9. rr[h] \in Nat
  BY DEF RouteInv
<1>10. /\ OwnTurns(m) = TurnsOf(k, Place(h, m), rr[h])
       /\ OwnTurns(n) = TurnsOf(k, Place(h, n), rr[h])
  BY <1>5, <1>6 DEF OwnTurns
<1> QED BY <1>4, <1>8, <1>9, <1>10, TurnsEven

(***************************************************************************)
(* batch_transfer_async: every operation of a batch that is sent goes to   *)
(* one session, of a NIC with an rkey and local to the memory, from inside *)
(* its region to inside the peer's; and the NICs of a node share the work  *)
(* evenly, whatever callers interleave.                                    *)
(***************************************************************************)
THEOREM AlwaysRoutedOnce == Spec => []RoutedOnce
<1>1. Inv /\ RouteInv /\ CountInv => RoutedOnce
  BY CountsBalanced DEF RoutedOnce, RouteInv
<1> QED BY InvInit, InvNext, RouteInit, RouteNext, CountInit, CountNext, <1>1, PTL DEF Spec
=============================================================================
