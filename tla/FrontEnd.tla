------------------------------ MODULE FrontEnd ------------------------------
(***************************************************************************)
(* The checks a request passes before it reaches a backend: the bounds and *)
(* lengths of its iovs (crates/pegastore/src/ops.rs and region.rs) and the *)
(* capabilities of the backend (store.rs).  An answer is "Ok" or the kind  *)
(* of the error; which of several errors of a kind is reported is left     *)
(* out.  Lengths and offsets are u64: MaxU64 is the largest.  A checked    *)
(* addition has the set of its result, empty if it overflows.              *)
(***************************************************************************)
EXTENDS Integers, Sequences, SequencesExt

CONSTANTS
  MaxU64,
  None      \* no limit, or no expected length

CheckedAdd(a, b) == {s \in {a + b} : s <= MaxU64}

SumOf(l) == FoldLeft(+, 0, l)
Lens(iovs) == [n \in DOMAIN iovs |-> iovs[n].len]

(***************************************************************************)
(* An iov is its region, with the length and the device of the memory, and *)
(* an offset and a length that nothing has checked yet.                    *)
(***************************************************************************)
\* Mutant: the end of the iov wraps around.
InBoundsWrapping(iov) == (iov.offset + iov.len) % (MaxU64 + 1) <= iov.region.len

InBounds(iov) == \E end \in CheckedAdd(iov.offset, iov.len) : end <= iov.region.len

TotalLen(iovs) ==
  LET add(totals, len) == UNION {CheckedAdd(t, len) : t \in totals}
  IN  FoldLeft(add, {0}, Lens(iovs))

ValidateIovs(iovs, expect) ==
  /\ iovs # <<>>
  /\ \A n \in DOMAIN iovs :
       InBounds(iovs[n]) /\ iovs[n].region.device = iovs[1].region.device
  /\ \E total \in TotalLen(iovs) : expect \in {None, total}

ValidatePut(op) ==
  /\ op.slots # <<>>
  /\ \A i \in DOMAIN op.slots : ValidateIovs(op.slots[i].src, op.slots[i].len)

-----------------------------------------------------------------------------
(***************************************************************************)
(* The limits of a Capability.                                             *)
(***************************************************************************)
Within(max, n) == max = None \/ n <= max

CheckIovCount(cap, iovs) == Within(cap.max_iov, Len(iovs))

SlotSupported(cap, slot) ==
  /\ slot.placement = "Strict" => cap.placement_strict
  /\ slot.placement = "Each" => cap.placement_each
  /\ Within(cap.max_slot_len, slot.len)
  /\ CheckIovCount(cap, slot.src)

Answer(valid, supported) ==
  IF ~valid THEN "InvalidInput" ELSE IF ~supported THEN "Unsupported" ELSE "Ok"

CheckPut(cap, op) ==
  Answer(ValidatePut(op),
         /\ op.retention = "Explicit" => cap.retention_explicit
         /\ Within(cap.max_slots, Len(op.slots))
         /\ \A i \in DOMAIN op.slots : SlotSupported(cap, op.slots[i]))

CheckGet(cap, op) == Answer(ValidateIovs(op.dst, None), CheckIovCount(cap, op.dst))

CheckPublish(cap, op) ==
  IF ~cap.publish THEN "Unsupported"
  ELSE Answer(ValidateIovs(op.src, None), CheckIovCount(cap, op.src))

CheckStat(cap, op) == Answer(TRUE, Within(cap.max_stat_batch, op.keys))

CheckRegister(cap, op) == Answer(TRUE, op.device.kind = "gpu" => cap.gpu_memory)

CheckRemovePrefix(cap, op) == Answer(TRUE, cap.remove_prefix)

Check(cap, op) ==
  CASE op.kind = "put" -> CheckPut(cap, op)
    [] op.kind = "get" -> CheckGet(cap, op)
    [] op.kind = "publish" -> CheckPublish(cap, op)
    [] op.kind = "stat" -> CheckStat(cap, op)
    [] op.kind = "register" -> CheckRegister(cap, op)
    [] op.kind = "remove_prefix" -> CheckRemovePrefix(cap, op)
    [] op.kind = "remove" -> "Ok"

-----------------------------------------------------------------------------
(***************************************************************************)
(* What a request may be, in exact arithmetic: the bytes of an iov as a    *)
(* set of places in its region, the lists a request carries, and what it   *)
(* asks of the backend.                                                    *)
(***************************************************************************)
BytesOf(iov) == {iov.offset + k : k \in 0 .. iov.len - 1}

ExactList(iovs) ==
  /\ iovs # <<>>
  /\ \A n \in DOMAIN iovs :
       /\ \A b \in BytesOf(iovs[n]) : b < iovs[n].region.len
       /\ iovs[n].offset <= iovs[n].region.len
       /\ \A m \in DOMAIN iovs : iovs[m].region.device = iovs[n].region.device
  /\ SumOf(Lens(iovs)) <= MaxU64

ListsOf(op) ==
  CASE op.kind = "put" -> {op.slots[i].src : i \in DOMAIN op.slots}
    [] op.kind = "get" -> {op.dst}
    [] op.kind = "publish" -> {op.src}
    [] OTHER -> {}

MalformedOp(op) ==
  \/ \E l \in ListsOf(op) : ~ExactList(l)
  \/ op.kind = "put" /\ (\/ op.slots = <<>>
                         \/ \E i \in DOMAIN op.slots :
                              op.slots[i].len # SumOf(Lens(op.slots[i].src)))

Exceeds(n, max) == max # None /\ n > max

BeyondCapability(cap, op) ==
  \/ \E l \in ListsOf(op) : Exceeds(Len(l), cap.max_iov)
  \/ op.kind = "publish" /\ ~cap.publish
  \/ op.kind = "remove_prefix" /\ ~cap.remove_prefix
  \/ op.kind = "register" /\ op.device.kind = "gpu" /\ ~cap.gpu_memory
  \/ op.kind = "stat" /\ Exceeds(op.keys, cap.max_stat_batch)
  \/ op.kind = "put" /\
       \/ op.retention = "Explicit" /\ ~cap.retention_explicit
       \/ Exceeds(Len(op.slots), cap.max_slots)
       \/ \E i \in DOMAIN op.slots :
            \/ op.slots[i].placement = "Strict" /\ ~cap.placement_strict
            \/ op.slots[i].placement = "Each" /\ ~cap.placement_each
            \/ Exceeds(op.slots[i].len, cap.max_slot_len)
=============================================================================
