------------------------------- MODULE Pinning -------------------------------
(***************************************************************************)
(* Running code on a node: `run_on_numa` of pegastore-rdma, which spawns   *)
(* one thread, pins it and waits on a channel, and `first_touch` of        *)
(* pegastore-cuda, which splits a new pool among threads that pin          *)
(* themselves and touch its pages, so that the kernel places every page on *)
(* the node it was touched from.                                           *)
(*                                                                         *)
(* A job is [kind |-> "run", node] or [kind |-> "touch", node, len].  The  *)
(* kernel is external: a thread may be pinned to the CPUs of its mask that *)
(* the process may use, pinning fails when there are none, a thread that   *)
(* is not pinned runs on any allowed CPU, and a page belongs to the node   *)
(* of the CPU that touches it first.                                       *)
(***************************************************************************)
EXTENDS Topology

CONSTANTS
  Cases,           \* the pairs [host, job] to start from
  Page,            \* bytes of a page
  CpuSetSize,      \* CPU_SETSIZE, the CPUs a cpu_set_t has room for
  MaxThreads,      \* the most threads that touch a pool (32)
  DefaultThreads   \* their number when the node is not known (8)

VARIABLES
  host, job,
  caller,    \* "start", "waiting", "joining" or "done"
  answer,    \* what the caller returns: "none", "ok" or "error", or "panic"
  channel,   \* "empty", "ok" or "error"
  worker,    \* [pc, on, off] of every thread spawned
  pages      \* the node of every page of the pool, Unknown until touched

vars == <<host, job, caller, answer, channel, worker, pages>>

Spawned == [pc |-> "spawned", on |-> host.allowed, off |-> 0]

Ended(t) == worker[t].pc \in {"ended", "panicked"}

(***************************************************************************)
(* run_on_numa: the calling thread.                                        *)
(***************************************************************************)
RefuseUnknown ==
  /\ job.kind = "run" /\ caller = "start" /\ job.node = Unknown
  /\ caller' = "done" /\ answer' = "error"
  /\ UNCHANGED <<host, job, channel, worker, pages>>

SpawnFails ==
  /\ job.kind = "run" /\ caller = "start" /\ job.node # Unknown
  /\ caller' = "done" /\ answer' = "error"
  /\ UNCHANGED <<host, job, channel, worker, pages>>

Spawn ==
  /\ job.kind = "run" /\ caller = "start" /\ job.node # Unknown
  /\ caller' = "waiting"
  /\ worker' = <<Spawned>>
  /\ UNCHANGED <<host, job, answer, channel, pages>>

Receive ==
  /\ job.kind = "run" /\ caller = "waiting" /\ channel # "empty"
  /\ caller' = "joining" /\ answer' = channel /\ channel' = "empty"
  /\ UNCHANGED <<host, job, worker, pages>>

\* A mutant: the caller keeps a sender, so the channel never closes.
ChannelHeld == FALSE

\* The sender is gone and nothing was sent; the thread is not joined.
ChannelClosed ==
  /\ job.kind = "run" /\ caller = "waiting" /\ channel = "empty" /\ Ended(1)
  /\ caller' = "done" /\ answer' = "error"
  /\ UNCHANGED <<host, job, channel, worker, pages>>

Join ==
  /\ job.kind = "run" /\ caller = "joining" /\ Ended(1)
  /\ caller' = "done"
  /\ UNCHANGED <<host, job, answer, channel, worker, pages>>

(***************************************************************************)
(* run_on_numa: the thread.                                                *)
(***************************************************************************)
\* pin_thread_to_numa_node reads the topology again; CPU_SET panics on a CPU
\* that the set has no room for.
NodeCpus ==
  LET topo == ReadCpuTopology(host)
  IN IF topo = Failed \/ job.node \notin DOMAIN topo THEN {} ELSE ToSet(topo[job.node])

PinOverflows == \E cpu \in NodeCpus : cpu >= CpuSetSize

Pin ==
  /\ job.kind = "run" /\ caller = "waiting" /\ worker[1].pc = "spawned"
  /\ ~PinOverflows /\ NodeCpus \intersect host.allowed # {}
  /\ worker' = [worker EXCEPT ![1].pc = "running", ![1].on = NodeCpus \intersect host.allowed]
  /\ UNCHANGED <<host, job, caller, answer, channel, pages>>

\* A mutant: an error of pinning is ignored, as first_touch does.
PinAnyway ==
  /\ job.kind = "run" /\ caller = "waiting" /\ worker[1].pc = "spawned"
  /\ ~PinOverflows /\ NodeCpus \intersect host.allowed = {}
  /\ worker' = [worker EXCEPT ![1].pc = "running"]
  /\ UNCHANGED <<host, job, caller, answer, channel, pages>>

PinFails ==
  /\ job.kind = "run" /\ caller = "waiting" /\ worker[1].pc = "spawned"
  /\ ~PinOverflows /\ NodeCpus \intersect host.allowed = {}
  /\ channel' = "error"
  /\ worker' = [worker EXCEPT ![1].pc = "sent"]
  /\ UNCHANGED <<host, job, caller, answer, pages>>

PinPanics ==
  /\ job.kind = "run" /\ caller = "waiting" /\ worker[1].pc = "spawned"
  /\ PinOverflows
  /\ worker' = [worker EXCEPT ![1].pc = "panicked"]
  /\ UNCHANGED <<host, job, caller, answer, channel, pages>>

\* The closure returns and its result is sent, or it panics.
Finish ==
  /\ job.kind = "run" /\ worker # <<>> /\ worker[1].pc = "running"
  /\ \/ /\ channel' = "ok"
        /\ worker' = [worker EXCEPT ![1].pc = "sent"]
     \/ /\ worker' = [worker EXCEPT ![1].pc = "panicked"]
        /\ UNCHANGED channel
  /\ UNCHANGED <<host, job, caller, answer, pages>>

Exit ==
  /\ job.kind = "run" /\ worker # <<>> /\ worker[1].pc = "sent"
  /\ worker' = [worker EXCEPT ![1].pc = "ended"]
  /\ UNCHANGED <<host, job, caller, answer, channel, pages>>

(***************************************************************************)
(* first_touch.                                                            *)
(***************************************************************************)
CeilDiv(a, b) == (a + b - 1) \div b

Smaller(a, b) == IF a < b THEN a ELSE b

Threads ==
  IF job.node \in NumaNodes(host)
  THEN Smaller(Len(CpusByNuma(host)[job.node]), MaxThreads)
  ELSE DefaultThreads

\* A mutant: the length of a share is rounded down.
ShareFloor == ((job.len \div Threads) \div Page) * Page

Share == CeilDiv(CeilDiv(job.len, Threads), Page) * Page

ShareEnd(t) == Smaller(t * Share, job.len)

TouchBegin ==
  /\ job.kind = "touch" /\ caller = "start"
  /\ caller' = "waiting"
  /\ worker' = [t \in 1 .. Threads |-> Spawned]
  /\ UNCHANGED <<host, job, answer, channel, pages>>

\* A thread of the scope cannot be spawned: first_touch panics, once those
\* spawned before have ended.
TouchSpawnFails ==
  /\ job.kind = "touch" /\ caller = "start"
  /\ caller' = "waiting" /\ answer' = "panic"
  /\ \E n \in 0 .. Threads - 1 : worker' = [t \in 1 .. n |-> Spawned]
  /\ UNCHANGED <<host, job, channel, pages>>

\* pin_to_numa leaves out the CPUs that the set has no room for, and its
\* answer is not looked at.  A thread whose share begins past the end of the
\* pool touches nothing.
PinMask ==
  IF job.node \in NumaNodes(host)
  THEN {cpu \in ToSet(CpusByNuma(host)[job.node]) : cpu < CpuSetSize} \intersect host.allowed
  ELSE {}

TouchPin(t) ==
  /\ job.kind = "touch" /\ worker[t].pc = "spawned"
  /\ worker' = [worker EXCEPT
       ![t] = [pc |-> IF (t - 1) * Share >= job.len THEN "ended" ELSE "touching",
               on |-> IF PinMask = {} THEN host.allowed ELSE PinMask,
               off |-> (t - 1) * Share]]
  /\ UNCHANGED <<host, job, caller, answer, channel, pages>>

\* The node of a CPU; a host that does not say has only one.
NodeOf(cpu) ==
  LET homes == {n \in NumaNodes(host) : cpu \in ToSet(CpusByNuma(host)[n])}
  IN IF homes = {} THEN 0 ELSE CHOOSE n \in homes : TRUE

Touch(t) ==
  /\ job.kind = "touch" /\ worker[t].pc = "touching"
  /\ \E cpu \in worker[t].on :
       pages' = [pages EXCEPT ![worker[t].off \div Page] = IF @ = Unknown THEN NodeOf(cpu) ELSE @]
  /\ worker' = [worker EXCEPT
       ![t].off = @ + Page,
       ![t].pc = IF worker[t].off + Page < ShareEnd(t) THEN "touching" ELSE "ended"]
  /\ UNCHANGED <<host, job, caller, answer, channel>>

\* The scope ends when every thread has.
TouchEnd ==
  /\ job.kind = "touch" /\ caller = "waiting" /\ \A t \in DOMAIN worker : Ended(t)
  /\ caller' = "done" /\ answer' = IF answer = "none" THEN "ok" ELSE answer
  /\ UNCHANGED <<host, job, channel, worker, pages>>

-----------------------------------------------------------------------------
Init ==
  /\ \E c \in Cases : host = c.host /\ job = c.job
  /\ caller = "start" /\ answer = "none" /\ channel = "empty" /\ worker = <<>>
  /\ pages = IF job.kind = "touch" THEN [p \in 0 .. CeilDiv(job.len, Page) - 1 |-> Unknown]
             ELSE <<>>

Caller == RefuseUnknown \/ Spawn \/ Receive \/ ChannelClosed \/ Join \/ TouchBegin \/ TouchEnd

Worker == Pin \/ PinFails \/ PinPanics \/ Finish \/ Exit

Toucher(t) == TouchPin(t) \/ Touch(t)

Next == Caller \/ SpawnFails \/ TouchSpawnFails \/ Worker \/ \E t \in DOMAIN worker : Toucher(t)

\* Every thread is scheduled, and a closure ends.
Spec ==
  /\ Init /\ [][Next]_vars
  /\ WF_vars(Caller) /\ WF_vars(Worker)
  /\ \A t \in 1 .. MaxThreads + DefaultThreads : WF_vars(t \in DOMAIN worker /\ Toucher(t))

-----------------------------------------------------------------------------
OnNode(cpus) == \A cpu \in cpus : NodeOf(cpu) = job.node

\* run_on_numa runs its closure on CPUs of the node or not at all; it answers
\* with a result only after the closure has returned and its thread is gone;
\* and when it returns, for whatever reason, the closure is not running.
RunsPinned ==
  (job.kind = "run" /\ worker # <<>>) =>
    /\ worker[1].pc = "running" => OnNode(worker[1].on)
    /\ (caller = "done" /\ answer = "ok") => worker[1].pc = "ended"
    /\ caller = "done" => Ended(1)

\* When first_touch returns without a panic, every page of the pool has been touched; and if
\* the process may use a CPU of the node, every page is on that node.
PagesPlaced ==
  (job.kind = "touch" /\ caller = "done" /\ answer = "ok") =>
    \A p \in DOMAIN pages :
      /\ pages[p] # Unknown
      /\ (\E cpu \in host.allowed : cpu < CpuSetSize /\ NodeOf(cpu) = job.node) =>
           pages[p] = job.node

\* Both end, whatever fails: a thread that cannot be spawned or pinned, a
\* closure that panics, a share with no pages in it.
JobsEnd == <>(caller = "done")

\* The CPUs and the GPU nodes that topology.rs and numa.rs read agree.
HostSeenAlike == SeenAlike(host)

\* The NICs given for a GPU are the live ones on its own node, and they open,
\* on a port and with a GID that work, unless their first live port is unusable.
HostNicsUsable == NicsNear(host) /\ PortUsable(host)
=============================================================================
