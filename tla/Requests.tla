------------------------------ MODULE Requests ------------------------------
(***************************************************************************)
(* One request to the store, from the checks of the front end to the last  *)
(* byte copied by either backend.  A get finds the slot in any state: both *)
(* backends choose the replica that is read.  A put copies each of its     *)
(* slots into new memory.  Memory (crates/pegastore/src/services/memory.rs)*)
(* works under its mutex on a buffer that it gathers or scatters; Local    *)
(* (crates/pegastore-cuda/src/local.rs and topology.rs) picks under its    *)
(* mutex, then walks two lists of segments in lockstep, one step here per  *)
(* iteration.  A byte is the pair of its segment and its place in it;      *)
(* segments may be empty.  What the other requests do behind the front end *)
(* is in Memory, Local and SlotContract.                                   *)
(***************************************************************************)
EXTENDS FrontEnd

CONSTANTS
  Numas, Gpus,      \* NUMA nodes and GPU indices
  NoNuma,           \* the affinity of a GPU whose node is not known
  Calls             \* sets of requests, each with the state it finds

Cpu(n) == [kind |-> "cpu", id |-> n]
Gpu(n) == [kind |-> "gpu", id |-> n]
Devices == {Cpu(n) : n \in Numas} \cup {Gpu(n) : n \in Gpus}

(***************************************************************************)
(* The backends' own bytes are one segment of host memory; published ones  *)
(* are any segments anywhere.  Either way a replica has the slot's length. *)
(***************************************************************************)
ReplicaOK(r, len) ==
  /\ r.device \in Devices /\ r.tier \in {"Dram", "External"}
  /\ r.tier = "Dram" => r.device.kind = "cpu" /\ Len(r.segs) = 1
  /\ SumOf(r.segs) = len

ASSUME CallsAssumption ==
  \A C \in Calls : \A c \in C :
    /\ c.gpuNuma \in [Gpus -> Numas \cup {NoNuma}]
    /\ \A n \in DOMAIN c.replicas : ReplicaOK(c.replicas[n], c.slotLen)

VARIABLES
  call,                        \* the request: cap, the backend's Capability; op; gpuNuma,
                               \* the GPUs' affinities; for a get, the slot's length and
                               \* its replicas in the order they were added
  front,                       \* the answer of the front end
  slot,                        \* the slot of the put that is copied
  answers,                     \* the replica each backend read, or its error
  moved, copied,               \* the bytes Memory and Local moved, as <<from, to>>
  si, sOff, di, dOff, left,    \* the locals of zip_copy
  pc                           \* "front", "memory", "local", "skip", "copy", or the end:
                               \* "refused", "forwarded", "ok" or "error"

walk == <<si, sOff, di, dOff, left, copied>>
vars == <<call, front, slot, answers, moved, walk, pc>>

op == call.op
gpuNuma == call.gpuNuma
replicas == call.replicas
Putting == op.kind = "put"

(***************************************************************************)
(* The caller's iovs, and what validate_iovs returned for them.            *)
(***************************************************************************)
Iovs == IF Putting THEN op.slots[slot].src ELSE op.dst
device == Iovs[1].region.device
total == CHOOSE t \in TotalLen(Iovs) : TRUE

-----------------------------------------------------------------------------
Refuse ==
  /\ pc = "front"
  /\ Check(call.cap, op) # "Ok"
  /\ front' = Check(call.cap, op)
  /\ pc' = "refused"
  /\ UNCHANGED <<call, slot, answers, moved, walk>>

(***************************************************************************)
(* A put copies its slots one after the other, each on its own: any one of *)
(* them is followed here.                                                  *)
(***************************************************************************)
Forward ==
  /\ pc = "front"
  /\ Check(call.cap, op) = "Ok"
  /\ front' = "Ok"
  /\ pc' = IF op.kind \in {"put", "get"} THEN "memory" ELSE "forwarded"
  /\ slot' \in IF Putting THEN DOMAIN op.slots ELSE {0}
  /\ UNCHANGED <<call, answers, moved, walk>>

-----------------------------------------------------------------------------
(***************************************************************************)
(* Memory's Inner::distance and Topology::distance, which differ only in   *)
(* where the affinity between host memory and a GPU comes from.            *)
(***************************************************************************)
\* Mutant: a GPU whose node is not known counts as remote.
MemoryAffinityFar(numa, gpu) == IF gpuNuma[gpu] = numa THEN 2 ELSE 4

MemoryAffinity(numa, gpu) ==
  IF gpuNuma[gpu] = NoNuma THEN 3 ELSE IF gpuNuma[gpu] = numa THEN 2 ELSE 4

TopologyAffinity(numa, gpu) ==
  IF gpuNuma[gpu] = NoNuma THEN 3 ELSE IF gpuNuma[gpu] = numa THEN 2 ELSE 4

Affinity(backend, numa, gpu) ==
  IF backend = "memory" THEN MemoryAffinity(numa, gpu) ELSE TopologyAffinity(numa, gpu)

Distance(backend, a, b) ==
  CASE a = b -> 0
    [] a # b /\ a.kind = "gpu" /\ b.kind = "gpu" -> 1
    [] a.kind = "cpu" /\ b.kind = "gpu" -> Affinity(backend, a.id, b.id)
    [] a.kind = "gpu" /\ b.kind = "cpu" -> Affinity(backend, b.id, a.id)
    [] a # b /\ a.kind = "cpu" /\ b.kind = "cpu" -> 3

TierRank(t) == CASE t = "Dram" -> 0 [] t = "External" -> 1 [] t = "Ssd" -> 2

(***************************************************************************)
(* min_by_key: the first replica of those with the least (distance, rank). *)
(***************************************************************************)
Less(a, b) == a[1] < b[1] \/ (a[1] = b[1] /\ a[2] < b[2])

MinByKey(backend) ==
  LET key(n) == <<Distance(backend, device, replicas[n].device),
                  TierRank(replicas[n].tier)>>
  IN  CHOOSE n \in DOMAIN replicas :
        \A m \in DOMAIN replicas : ~Less(key(m), key(n)) /\ (m < n => Less(key(n), key(m)))

InRange == \E end \in CheckedAdd(op.offset, total) : end <= call.slotLen

MemoryAnswer ==
  IF ~InRange THEN [error |-> "InvalidInput"]
  ELSE IF replicas = <<>> THEN [error |-> "Evicted"]
  ELSE [from |-> MinByKey("memory")]

LocalAnswer ==
  IF replicas = <<>> THEN [error |-> "Evicted"]
  ELSE IF ~InRange THEN [error |-> "InvalidInput"]
  ELSE [from |-> MinByKey("local")]

Reads(answer) == "from" \in DOMAIN answer

-----------------------------------------------------------------------------
(***************************************************************************)
(* Memory's way: read the bytes of the range segment by segment, then give *)
(* them out over the destination's segments.                               *)
(***************************************************************************)
Bytes(l) == FlattenSeq([i \in DOMAIN l |-> [k \in 1..l[i] |-> <<i, k - 1>>]])

\* Mutant: a segment is read from its start, wherever the range begins.
ReadSegmentStart(segs, acc, i) ==
  LET n == Min({segs[i] - acc.skip, acc.want})
  IN  IF acc.want = 0 THEN acc
      ELSE IF acc.skip >= segs[i] THEN [acc EXCEPT !.skip = @ - segs[i]]
      ELSE [skip |-> 0, want |-> acc.want - n,
            out |-> acc.out \o [k \in 1..n |-> <<i, k - 1>>]]

ReadSegment(segs, acc, i) ==
  LET n == Min({segs[i] - acc.skip, acc.want})
  IN  IF acc.want = 0 THEN acc
      ELSE IF acc.skip >= segs[i] THEN [acc EXCEPT !.skip = @ - segs[i]]
      ELSE [skip |-> 0, want |-> acc.want - n,
            out |-> acc.out \o [k \in 1..n |-> <<i, acc.skip + k - 1>>]]

Read(segs) ==
  LET segment(acc, i) == ReadSegment(segs, acc, i)
  IN  FoldLeft(segment, [skip |-> op.offset, want |-> total, out |-> <<>>],
               [i \in DOMAIN segs |-> i]).out

Scatter(out) == LET to == Bytes(Lens(op.dst)) IN {<<out[k], to[k]>> : k \in DOMAIN to}

MemoryGet ==
  /\ pc = "memory"
  /\ ~Putting
  /\ answers' = [answers EXCEPT !.memory = MemoryAnswer]
  /\ moved' = IF Reads(MemoryAnswer) THEN Scatter(Read(replicas[MemoryAnswer.from].segs)) ELSE {}
  /\ pc' = "local"
  /\ UNCHANGED <<call, front, slot, walk>>

Gather(out) == {<<out[k], <<1, k - 1>> >> : k \in DOMAIN out}

MemoryPut ==
  /\ pc = "memory"
  /\ Putting
  /\ moved' = Gather(Bytes(Lens(Iovs)))
  /\ pc' = "local"
  /\ UNCHANGED <<call, front, slot, answers, walk>>

-----------------------------------------------------------------------------
(***************************************************************************)
(* Local's way: the replica is cloned under the mutex and copied without.  *)
(* A put copies the source into one segment of its pool per target.        *)
(***************************************************************************)
LocalPick ==
  /\ pc = "local"
  /\ ~Putting
  /\ answers' = [answers EXCEPT !.local = LocalAnswer]
  /\ pc' = IF Reads(LocalAnswer) THEN "skip" ELSE "refused"
  /\ si' = 1 /\ sOff' = op.offset /\ di' = 1 /\ dOff' = 0
  /\ left' = total
  /\ UNCHANGED <<call, front, slot, moved, copied>>

LocalPut ==
  /\ pc = "local"
  /\ Putting
  /\ pc' = "skip"
  /\ si' = 1 /\ sOff' = 0 /\ di' = 1 /\ dOff' = 0
  /\ left' = op.slots[slot].len
  /\ UNCHANGED <<call, front, slot, answers, moved, copied>>

src == IF Putting THEN Lens(Iovs) ELSE replicas[answers.local.from].segs
dst == IF Putting THEN <<op.slots[slot].len>> ELSE Lens(Iovs)

(***************************************************************************)
(* Skip the segments in front of the offset.                               *)
(***************************************************************************)
InFront == si <= Len(src) /\ sOff >= src[si]

SkipSegment ==
  /\ pc = "skip"
  /\ InFront
  /\ sOff' = sOff - src[si]
  /\ si' = si + 1
  /\ UNCHANGED <<call, front, slot, answers, moved, di, dOff, left, copied, pc>>

SkipEnd ==
  /\ pc = "skip"
  /\ ~InFront
  /\ pc' = "copy"
  /\ UNCHANGED <<call, front, slot, answers, moved, walk>>

(***************************************************************************)
(* The two places advance by the longest run both segments still have.     *)
(***************************************************************************)
RanPast == si > Len(src) \/ di > Len(dst)

Run == Min({src[si] - sOff, dst[di] - dOff, left})

\* Mutant: a segment is left only after a run that is not empty.
AdvanceNonEmpty(i, off, len, n) ==
  IF off + n = len /\ n > 0 THEN <<i + 1, 0>> ELSE <<i, off + n>>

Advance(i, off, len, n) == IF off + n = len THEN <<i + 1, 0>> ELSE <<i, off + n>>

CopyRun ==
  /\ pc = "copy"
  /\ left > 0
  /\ ~RanPast
  /\ copied' = copied \cup {<< <<si, sOff + k>>, <<di, dOff + k>> >> : k \in 0 .. Run - 1}
  /\ left' = left - Run
  /\ si' = Advance(si, sOff, src[si], Run)[1]
  /\ sOff' = Advance(si, sOff, src[si], Run)[2]
  /\ di' = Advance(di, dOff, dst[di], Run)[1]
  /\ dOff' = Advance(di, dOff, dst[di], Run)[2]
  /\ UNCHANGED <<call, front, slot, answers, moved, pc>>

CopyEnd ==
  /\ pc = "copy"
  /\ left = 0 \/ RanPast
  /\ pc' = IF left = 0 THEN "ok" ELSE "error"
  /\ UNCHANGED <<call, front, slot, answers, moved, walk>>

Init ==
  /\ \E C \in Calls : call \in C
  /\ front = "none" /\ slot = 0
  /\ answers = [memory |-> [error |-> "none"], local |-> [error |-> "none"]]
  /\ moved = {} /\ copied = {}
  /\ si = 1 /\ sOff = 0 /\ di = 1 /\ dOff = 0 /\ left = 0
  /\ pc = "front"

Next ==
  \/ Refuse \/ Forward
  \/ MemoryGet \/ MemoryPut \/ LocalPick \/ LocalPut
  \/ SkipSegment \/ SkipEnd \/ CopyRun \/ CopyEnd

(***************************************************************************)
(* A request takes nothing but its own steps, on one thread.               *)
(***************************************************************************)
Spec == Init /\ [][Next]_vars /\ WF_vars(Next)

-----------------------------------------------------------------------------
(***************************************************************************)
(* Nothing malformed reaches a backend, and nothing else is kept from      *)
(* it: with u64 arithmetic that detects overflow, the front end answers as *)
(* the exact sums and the sets of bytes say, and tells what is malformed   *)
(* from what the backend's Capability excludes.  A publish that is both is *)
(* "Unsupported", any other request "InvalidInput".                        *)
(***************************************************************************)
AdmitsExactly ==
  pc # "front" =>
    /\ front = "Ok" <=> ~MalformedOp(op) /\ ~BeyondCapability(call.cap, op)
    /\ front = "InvalidInput" =>
         MalformedOp(op) /\ (op.kind = "publish" => call.cap.publish)
    /\ front = "Unsupported" =>
         BeyondCapability(call.cap, op) /\ (MalformedOp(op) => op.kind = "publish")

(***************************************************************************)
(* What a read from the nearest replica means: from the destination's own  *)
(* device if it has one; else, for a GPU, from a peer; else not across     *)
(* sockets unless all the replicas are there; and from the store's own     *)
(* copy before a published one on the same device.                         *)
(***************************************************************************)
Remote(r) ==
  /\ device.kind = "gpu" /\ r.device.kind = "cpu"
  /\ gpuNuma[device.id] \notin {NoNuma, r.device.id}

ReadsNearest(chosen, r) ==
  /\ r.device = device => chosen.device = device
  /\ device.kind = "gpu" /\ r.device.kind = "gpu" => chosen.device.kind = "gpu"
  /\ ~Remote(r) => ~Remote(chosen)
  /\ r.device = chosen.device /\ r.tier = "Dram" => chosen.tier = "Dram"

(***************************************************************************)
(* Both copies of the distance "must agree", and get chooses "the nearest  *)
(* replica": a get with a range inside the slot has the same answer from   *)
(* both backends, down to the replica, and neither reads a replica when a  *)
(* nearer one exists.                                                      *)
(***************************************************************************)
Answered == front = "Ok" /\ op.kind = "get" /\ pc \notin {"memory", "local"}

NearestRead ==
  Answered /\ InRange =>
    /\ answers.memory = answers.local
    /\ Reads(answers.local) =>
         \A m \in DOMAIN replicas : ReadsNearest(replicas[answers.local.from], replicas[m])

(***************************************************************************)
(* The two backends move the same bytes to the same places: byte n of the  *)
(* destination is byte offset + n of the source; and on the way they touch *)
(* no byte of the caller's outside the regions it has registered.          *)
(***************************************************************************)
CallersByte(m) == IF Putting THEN m[1] ELSE m[2]

InsideRegions ==
  \A m \in copied \cup moved :
    LET b == CallersByte(m)
    IN  Iovs[b[1]].offset + b[2] < Iovs[b[1]].region.len

CopiesTheRange ==
  /\ InsideRegions
  /\ pc = "ok" =>
       LET offset == IF Putting THEN 0 ELSE op.offset
           range == {<<Bytes(src)[offset + n], Bytes(dst)[n]>> : n \in 1..total}
       IN  copied = range /\ moved = range

(***************************************************************************)
(* Empty segments keep the loop neither from ending nor from ending well:  *)
(* a request that was checked never makes it run "past a segment list".    *)
(***************************************************************************)
RequestsEnd == <>(pc \in {"refused", "forwarded", "ok"})
=============================================================================
