----------------------------- MODULE MemoryMap ------------------------------
(***************************************************************************)
(* The registered memory of an RDMA engine                                 *)
(* (crates/pegastore-rdma/src/rc_backend/state.rs, LocalMemoryMap, and its *)
(* callers in mod.rs): regions ordered by base address, kept disjoint by   *)
(* looking at the two neighbours of a new one, and found by looking at the *)
(* predecessor of an address.                                              *)
(***************************************************************************)
EXTENDS Integers

CONSTANTS
  Limit,     \* one past the largest address (2^64)
  Lengths,   \* the lengths of regions and of transfers
  Numas,     \* NUMA nodes of the memory, UNKNOWN included
  Mrs        \* registrations: one stands for the MRs of a region on all NICs

ASSUME MapAssumption == Limit \in Nat /\ Lengths \subseteq Nat

Addresses == 0 .. Limit - 1

Entry == [base : Addresses, len : Lengths, numa : Numas, mr : Mrs]

VARIABLE entries   \* LocalMemoryMap.entries, a set of Entry

(***************************************************************************)
(* range(..=a).next_back() and range(a..).next() of a map, the shared one  *)
(* or the snapshot of a caller: no element or one.                         *)
(***************************************************************************)
Before(map, a) ==
  {e \in map : e.base <= a /\ \A f \in map : f.base <= a => f.base <= e.base}

\* Mutant: the farthest successor is compared instead of the nearest.
AfterLast(map, a) ==
  {e \in map : e.base >= a /\ \A f \in map : f.base >= a => f.base <= e.base}

After(map, a) ==
  {e \in map : e.base >= a /\ \A f \in map : f.base >= a => e.base <= f.base}

(***************************************************************************)
(* insert, reached from register_host and register_dmabuf: an empty or     *)
(* overflowing region, or one that overlaps a neighbour, is refused.  The  *)
(* registration with every NIC comes first and is undone on a refusal.     *)
(***************************************************************************)
Overlaps(base, len) ==
  \/ \E e \in Before(entries, base) : base < e.base + e.len
  \/ \E e \in After(entries, base) : e.base < base + len

Register(base, len, numa, mr) ==
  /\ len # 0
  /\ base + len < Limit
  /\ ~Overlaps(base, len)
  /\ entries' = entries \cup {[base |-> base, len |-> len, numa |-> numa, mr |-> mr]}

Unregister(base) ==
  /\ \E e \in entries : e.base = base
  /\ entries' = {e \in entries : e.base # base}

\* Mutant: the end of the range is not compared with the end of the region.
FindStart(map, ptr, len) == {e \in Before(map, ptr) : ptr < e.base + e.len}

FindEntry(map, ptr, len) ==
  {e \in Before(map, ptr) : ptr + len < Limit /\ ptr + len <= e.base + e.len}

MapInit == entries = {}

MapNext ==
  \E base \in Addresses :
    \/ \E len \in Lengths, numa \in Numas, mr \in Mrs : Register(base, len, numa, mr)
    \/ Unregister(base)

MapSpec == MapInit /\ [][MapNext]_entries
-----------------------------------------------------------------------------
(***************************************************************************)
(* Every entry is a non-empty region that ends inside the address space:   *)
(* "Prior entries passed this same check, so their end cannot overflow."   *)
(***************************************************************************)
MapTypeOK == \A e \in entries : e \in Entry /\ e.len # 0 /\ e.base + e.len < Limit

(***************************************************************************)
(* "Insertion rejects overlapping regions": any two regions are disjoint,  *)
(* although insert compares with two neighbours only.                      *)
(***************************************************************************)
Apart(e, f) == e.base + e.len <= f.base \/ f.base + f.len <= e.base

EntriesApart == \A e, f \in entries : e # f => Apart(e, f)

(***************************************************************************)
(* "Non-overlap makes the predecessor the only possible covering region":  *)
(* find_entry finds exactly the region that covers a non-empty range.      *)
(***************************************************************************)
Covers(e, ptr, len) == e.base <= ptr /\ ptr + len <= e.base + e.len

FindEntryExact ==
  \A ptr \in Addresses, len \in Lengths \ {0} :
    FindEntry(entries, ptr, len) = {e \in entries : Covers(e, ptr, len)}
=============================================================================
