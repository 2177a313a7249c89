----------------------------- MODULE PinnedPool -----------------------------
(***************************************************************************)
(* The pinned host pool of the CUDA backend                                *)
(* (crates/pegastore-cuda/src/pinned.rs): first fit over a free list kept  *)
(* sorted by offset, with neighbours merged when a buffer is dropped.  The *)
(* free list is behind a mutex of its own, so alloc and release are atomic *)
(* and may come from any thread in any order.                              *)
(***************************************************************************)
EXTENDS Extents, SequencesExt

CONSTANTS
  Align,      \* ALIGN: every reservation is a multiple of it
  Capacity,   \* the bytes asked of PinnedPool::new
  Bufs,       \* handles of PinnedBufs
  Requests    \* the sizes alloc is called with

RoundUp(bytes) == ((bytes + Align - 1) \div Align) * Align

Size == RoundUp(Capacity)

ASSUME PinnedAssumption ==
  /\ Align \in Nat \ {0}
  /\ Capacity \in Nat \ {0}   \* a pool of no bytes cannot be mapped
  /\ Requests \subseteq Nat

VARIABLES
  free,   \* PinnedPool.free: the sequence of free extents
  bufs    \* the range of every live PinnedBuf, Unused for a handle not in use

vars == <<free, bufs>>

Extent(off, len) == [off |-> off, len |-> len]

(***************************************************************************)
(* A live buffer of length 0 reserves nothing, so a handle in use is told  *)
(* apart by len.                                                           *)
(***************************************************************************)
Unused == [off |-> 0, reserved |-> 0, len |-> -1]

-----------------------------------------------------------------------------
\* Mutant: the tail of a split extent starts one unit too early.
TakeShort(i, need) ==
  IF free[i].len = need THEN RemoveAt(free, i)
  ELSE [free EXCEPT ![i] = Extent(@.off + need - Align, @.len - need + Align)]

Take(i, need) ==
  IF free[i].len = need THEN RemoveAt(free, i)
  ELSE [free EXCEPT ![i] = Extent(@.off + need, @.len - need)]

Alloc(b, bytes) ==
  LET need == RoundUp(bytes)
      i    == SelectInSeq(free, LAMBDA e : e.len >= need)
  IN  /\ bufs[b] = Unused
      /\ i # 0
      /\ free' = Take(i, need)
      /\ bufs' = [bufs EXCEPT ![b] = [off |-> free[i].off, reserved |-> need,
                                      len |-> bytes]]

(***************************************************************************)
(* release: insert before the first extent that does not start below off,  *)
(* merge with the extent behind, then with the one in front.               *)
(***************************************************************************)
PartitionPoint(off) == Cardinality({n \in DOMAIN free : free[n].off < off}) + 1

Touch(f, i) == f[i].off + f[i].len = f[i + 1].off

Merge(f, i) ==
  RemoveAt([f EXCEPT ![i].len = @ + f[i + 1].len], i + 1)

MergeBehind(f, i) == IF i + 1 <= Len(f) /\ Touch(f, i) THEN Merge(f, i) ELSE f

\* Mutant: only the extent behind is looked at.
MergeNothing(f, i) == f

MergeFront(f, i) == IF i > 1 /\ Touch(f, i - 1) THEN Merge(f, i - 1) ELSE f

Released(off, len) ==
  LET i == PartitionPoint(off)
  IN  MergeFront(MergeBehind(InsertAt(free, i, Extent(off, len)), i), i)

Drop(b) ==
  /\ bufs[b] # Unused
  /\ free' = Released(bufs[b].off, bufs[b].reserved)
  /\ bufs' = [bufs EXCEPT ![b] = Unused]

Init ==
  /\ free = <<Extent(0, Size)>>
  /\ bufs = [b \in Bufs |-> Unused]

Next == \E b \in Bufs : (\E bytes \in Requests : Alloc(b, bytes)) \/ Drop(b)

Spec == Init /\ [][Next]_vars
-----------------------------------------------------------------------------
(***************************************************************************)
(* largest_free, free_bytes and what the free list covers.                 *)
(***************************************************************************)
LargestFree == Max({e.len : e \in ToSet(free)} \cup {0})

FreeBytes == FoldLeft(LAMBDA n, e : n + e.len, 0, free)

Covered == UNION {Cells(e.off, e.len) : e \in ToSet(free)}

(***************************************************************************)
(* largest_free, "Largest single allocation currently possible", is the    *)
(* length of the longest run of free bytes, so alloc never refuses a       *)
(* request that contiguous free bytes could hold.  This is what "frees     *)
(* coalesce" is for.                                                       *)
(***************************************************************************)
LargestFreeExact == \A n \in 1..Size : Runs(Covered, n) # {} <=> n <= LargestFree

(***************************************************************************)
(* What the pool reports is exact: free_bytes is the capacity less what    *)
(* the live buffers reserve, and largest_free is the longest free run.     *)
(***************************************************************************)
ReportsExact ==
  /\ FreeBytes = Size - FoldSet(LAMBDA b, n : n + bufs[b].reserved, 0, Bufs)
  /\ LargestFreeExact

(***************************************************************************)
(* The pool implements ExtentPool: buffers never overlap, nothing leaks,   *)
(* and the extent alloc picks is the lowest that fits.                     *)
(***************************************************************************)
Abstract ==
  INSTANCE ExtentPool WITH
    Needs     <- {RoundUp(n) : n \in Requests},
    freeBytes <- Covered,
    bufs      <- [b \in Bufs |-> [off |-> bufs[b].off, reserved |-> bufs[b].reserved]]

ImplementsExtentPool == Abstract!Spec
=============================================================================
