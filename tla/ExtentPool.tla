----------------------------- MODULE ExtentPool -----------------------------
(***************************************************************************)
(* What a pool promises: every live buffer owns a range of bytes to        *)
(* itself, an allocation succeeds whenever enough contiguous bytes are     *)
(* free, at the lowest such place, and a dropped buffer's bytes are free   *)
(* at once, next to whatever is free around them.                          *)
(***************************************************************************)
EXTENDS Extents

CONSTANTS
  Size,    \* bytes of the pool
  Bufs,    \* handles of buffers
  Needs    \* the reservations that are asked for, in bytes

VARIABLES
  freeBytes,   \* the set of free bytes
  bufs         \* the range of every handle, NoBuf if it holds none

pvars == <<freeBytes, bufs>>

NoBuf == [off |-> 0, reserved |-> 0]

Owned(b) == Cells(bufs[b].off, bufs[b].reserved)

Alloc(b, need) ==
  /\ bufs[b] = NoBuf
  /\ \E off \in FirstFit(freeBytes, need) :
       /\ bufs' = [bufs EXCEPT ![b] = [off |-> off, reserved |-> need]]
       /\ freeBytes' = freeBytes \ Cells(off, need)

Drop(b) ==
  /\ bufs[b] # NoBuf
  /\ freeBytes' = freeBytes \cup Owned(b)
  /\ bufs' = [bufs EXCEPT ![b] = NoBuf]

Init ==
  /\ freeBytes = 0 .. Size - 1
  /\ bufs = [b \in Bufs |-> NoBuf]

Next == \E b \in Bufs : (\E need \in Needs : Alloc(b, need)) \/ Drop(b)

Spec == Init /\ [][Next]_pvars
-----------------------------------------------------------------------------
(***************************************************************************)
(* No byte belongs to two buffers (PinnedBuf: "an allocation inside a      *)
(* pool"), or to a buffer and the free list.                               *)
(***************************************************************************)
NoOverlap ==
  /\ \A a, b \in Bufs : a # b => Owned(a) \cap Owned(b) = {}
  /\ \A b \in Bufs : Owned(b) \cap freeBytes = {}

(***************************************************************************)
(* No byte is lost: what no buffer owns is free.                           *)
(***************************************************************************)
NoLeak == freeBytes \cup UNION {Owned(b) : b \in Bufs} = 0 .. Size - 1
=============================================================================
