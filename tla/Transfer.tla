------------------------------ MODULE Transfer ------------------------------
(***************************************************************************)
(* Batches of transfers, while memory is registered and unregistered       *)
(* (crates/pegastore-rdma/src/rc_backend/mod.rs, batch_transfer_async,     *)
(* register_with, unregister and NumaRoundRobin; engine.rs).               *)
(*                                                                         *)
(* A caller takes a snapshot of the registered memory and the rotation of  *)
(* every NIC under the state lock and resolves its operations outside it:  *)
(* the local region, a NIC of that region's node, chosen in turn by a      *)
(* counter all callers share, and the remote key for that NIC.  A batch    *)
(* with an operation that cannot be resolved is refused as a whole.  An    *)
(* operation holds its region's MR until its session has answered, so      *)
(* unregistering takes effect with the NICs only when the last holder is   *)
(* gone: the map, a snapshot, an operation.                                *)
(***************************************************************************)
EXTENDS MemoryMap, Sequences, FiniteSets, Functions

CONSTANTS
  Threads,      \* callers of batch_transfer_async
  NicNuma,      \* the NUMA node of every NIC, a sequence; Unknown if unknown
  Unknown,      \* NumaNode::UNKNOWN
  QpsPerPeer,   \* sessions per NIC and peer
  Regions,      \* the regions a program registers: [base, len, numa]
  Batches,      \* the batches: sequences of TransferDesc, the local address, the
                \* length, the remote address and the peer's RegionDescriptor,
                \* with the number of its rkeys
  MaxBatches    \* bound: batches begun

Nics == DOMAIN NicNuma
Nodes == {NicNuma[n] : n \in Nics}
Sessions == Nics \X (0 .. QpsPerPeer - 1)

ASSUME TransferAssumption ==
  /\ NicNuma \in Seq(Range(NicNuma)) /\ Nics # {}
  /\ QpsPerPeer \in Nat \ {0}
  /\ Regions \subseteq [base : Addresses, len : Lengths, numa : Numas]
  /\ Mrs \subseteq Nat   \* bound: as many registrations as there are Mrs
  /\ \A b \in Batches :
       /\ b \in Seq(Range(b)) /\ b # <<>>
       /\ \A op \in Range(b) : /\ {op.local, op.len, op.remote} \subseteq Nat
                              /\ {op.region.addr, op.region.len} \subseteq Nat

VARIABLES
  made,     \* registrations made so far
  mrs,      \* registrations that the NICs still have
  rr,       \* NicGroup.rr_counter of every group
  rot,      \* ConnNic.rr_counter of every NIC of the connection
  thread,   \* every thread's batch, its snapshot of the map, the operations
            \* resolved (region and NIC) and its rotations
  queue,    \* the batches that every session has work of
  sent,     \* every batch handed to sessions: its regions and its work
  begun     \* batches begun so far

vars == <<entries, made, mrs, rr, rot, thread, queue, sent, begun>>

-----------------------------------------------------------------------------
(***************************************************************************)
(* NumaRoundRobin: one group for every node that has a NIC, and one of all *)
(* NICs under Unknown, for memory whose node is unknown or has no NIC.     *)
(***************************************************************************)
Group(numa) == IF numa \in Nodes \ {Unknown} THEN numa ELSE Unknown

Members(g) == {n \in Nics : g = Unknown \/ NicNuma[n] = g}

\* The index of a NIC in nic_indices, which are in ascending order.
Place(g, n) == Cardinality({m \in Members(g) : m < n})

Turn(g, count) == count % Cardinality(Members(g))

\* Mutant: the place in the group is taken for the number of the NIC.
PlaceAsNic(g, count) == Turn(g, count) + 1

NicAt(g, count) == CHOOSE n \in Members(g) : Place(g, n) = Turn(g, count)

(***************************************************************************)
(* RegionDescriptor::contains.                                             *)
(***************************************************************************)
Contains(region, ptr, len) ==
  LET end == IF region.addr + region.len < Limit THEN region.addr + region.len ELSE Limit - 1
  IN  ptr + len < Limit /\ ptr >= region.addr /\ ptr + len <= end

(***************************************************************************)
(* The operations of one NIC, in order, over its sessions.                 *)
(***************************************************************************)
Bucket(start, i) == (start + i) % QpsPerPeer

Work(nics, start) ==
  [s \in Sessions |->
     {i \in DOMAIN nics :
        /\ nics[i] = s[1]
        /\ Bucket(start[s[1]], Cardinality({j \in 1 .. i - 1 : nics[j] = s[1]})) = s[2]}]

-----------------------------------------------------------------------------
(***************************************************************************)
(* Who holds a reference to an MR: the shared map, the map and operations  *)
(* of a caller, and the operations a session has not answered yet.         *)
(***************************************************************************)
MrsOf(map) == {e.mr : e \in map}

InFlight(s, k) == {sent[k].found[i] : i \in sent[k].work[s]}

\* Mutant: an operation carries the local key and not the MR.
HeldByMaps == MrsOf(entries) \cup UNION {MrsOf(thread[t].map) : t \in Threads}

\* Mutant: a session keeps the operations that it has answered.
HeldForEver ==
  HeldByMaps \cup UNION {MrsOf(InFlight(s, k)) : s \in Sessions, k \in DOMAIN sent}

Held ==
  HeldByMaps
    \cup UNION {UNION {MrsOf(InFlight(s, k)) : k \in Range(queue[s])} : s \in Sessions}

\* Dropping the last reference takes the region from the NICs.
DropUnheld(all) == mrs' = all \cap Held'

-----------------------------------------------------------------------------
(***************************************************************************)
(* register_host and register_dmabuf: the region is registered with every  *)
(* NIC, then inserted.  A refusal drops the new MRs and changes nothing.   *)
(***************************************************************************)
RegisterWith(r) ==
  /\ made + 1 \in Mrs
  /\ Register(r.base, r.len, r.numa, made + 1)
  /\ made' = made + 1
  /\ UNCHANGED <<rr, rot, thread, queue, sent, begun>>
  /\ DropUnheld(mrs \cup {made + 1})

UnregisterRegion(base) ==
  /\ Unregister(base)
  /\ UNCHANGED <<made, rr, rot, thread, queue, sent, begun>>
  /\ DropUnheld(mrs)

Idle == [batch |-> <<>>, map |-> {}, nics |-> <<>>, found |-> <<>>, start |-> <<>>]

(***************************************************************************)
(* Under the state lock: find the connection, advance the rotation of      *)
(* every NIC, take the map.                                                *)
(***************************************************************************)
Begin(t, b) ==
  /\ thread[t] = Idle
  /\ begun < MaxBatches
  /\ thread' = [thread EXCEPT ![t] =
       [batch |-> b, map |-> entries, nics |-> <<>>, found |-> <<>>, start |-> rot]]
  /\ rot' = [n \in Nics |-> rot[n] + 1]
  /\ begun' = begun + 1
  /\ UNCHANGED <<entries, made, rr, queue, sent>>
  /\ DropUnheld(mrs)

Op(t) == thread[t].batch[Len(thread[t].nics) + 1]

Resolving(t) == Len(thread[t].nics) < Len(thread[t].batch)

Found(t) == FindEntry(thread[t].map, Op(t).local, Op(t).len)

Admitted(t, e) ==
  /\ Op(t).len # 0
  /\ e \in Found(t)
  /\ Contains(Op(t).region, Op(t).remote, Op(t).len)

Advance(g) == [rr EXCEPT ![g] = @ + 1]

Picked(e) == NicAt(Group(e.numa), rr[Group(e.numa)])

HasRkey(t, e) == Picked(e) <= Op(t).region.rkeys

Resolve(t, e) ==
  /\ Resolving(t)
  /\ Admitted(t, e)
  /\ HasRkey(t, e)
  /\ thread' = [thread EXCEPT ![t].nics = Append(@, Picked(e)), ![t].found = Append(@, e)]
  /\ rr' = Advance(Group(e.numa))
  /\ UNCHANGED <<entries, made, rot, queue, sent, begun>>
  /\ DropUnheld(mrs)

(***************************************************************************)
(* A missing rkey is noticed when the NIC has been picked, and its turn is *)
(* spent.                                                                  *)
(***************************************************************************)
RefuseRkey(t, e) ==
  /\ Resolving(t)
  /\ Admitted(t, e)
  /\ ~HasRkey(t, e)
  /\ rr' = Advance(Group(e.numa))
  /\ thread' = [thread EXCEPT ![t] = Idle]
  /\ UNCHANGED <<entries, made, rot, queue, sent, begun>>
  /\ DropUnheld(mrs)

Refuse(t) ==
  /\ Resolving(t)
  /\ ~\E e \in Found(t) : Admitted(t, e)
  /\ thread' = [thread EXCEPT ![t] = Idle]
  /\ UNCHANGED <<entries, made, rr, rot, queue, sent, begun>>
  /\ DropUnheld(mrs)

(***************************************************************************)
(* Every session with work gets its share; then the snapshot is dropped.   *)
(***************************************************************************)
Submit(t) ==
  /\ thread[t] # Idle
  /\ ~Resolving(t)
  /\ LET work == Work(thread[t].nics, thread[t].start)
     IN  /\ sent' = Append(sent, [batch |-> thread[t].batch, found |-> thread[t].found,
                                  work |-> work])
         /\ queue' = [s \in Sessions |->
                        IF work[s] = {} THEN queue[s] ELSE Append(queue[s], Len(sent) + 1)]
  /\ thread' = [thread EXCEPT ![t] = Idle]
  /\ UNCHANGED <<entries, made, rr, rot, begun>>
  /\ DropUnheld(mrs)

(***************************************************************************)
(* A session answers its oldest share and drops the operations (RcSession  *)
(* has the steps of that).                                                 *)
(***************************************************************************)
Done(s) ==
  /\ queue[s] # <<>>
  /\ queue' = [queue EXCEPT ![s] = Tail(@)]
  /\ UNCHANGED <<entries, made, rr, rot, thread, sent, begun>>
  /\ DropUnheld(mrs)

Init ==
  /\ MapInit
  /\ made = 0
  /\ mrs = {}
  /\ rr = [g \in Nodes \cup {Unknown} |-> 0]
  /\ rot = [n \in Nics |-> 0]
  /\ thread = [t \in Threads |-> Idle]
  /\ queue = [s \in Sessions |-> <<>>]
  /\ sent = <<>>
  /\ begun = 0

Step(t) ==
  \/ Resolving(t) /\ \E e \in Found(t) : Resolve(t, e) \/ RefuseRkey(t, e)
  \/ Refuse(t) \/ Submit(t)

Next ==
  \/ \E r \in Regions : RegisterWith(r)
  \/ \E base \in Addresses : UnregisterRegion(base)
  \/ \E t \in Threads : (\E b \in Batches : Begin(t, b)) \/ Step(t)
  \/ \E s \in Sessions : Done(s)

\* A caller inside batch_transfer_async goes on, and a session answers what
\* it was given (RcSession!AllAnswered).
Spec ==
  /\ Init /\ [][Next]_vars
  /\ \A t \in Threads : WF_vars(Step(t))
  /\ \A s \in Sessions : WF_vars(Done(s))
-----------------------------------------------------------------------------
(***************************************************************************)
(* A batch reaches the sessions whole: every operation is given to exactly *)
(* one session, of a NIC whose rkey is known; its local range is inside    *)
(* the region whose MR it carries and its remote range inside the peer's;  *)
(* and "each op goes out on a NIC local to its registered memory's NUMA    *)
(* node", if that node has a NIC at all.  That is "round-robin within the  *)
(* node": while no batch has been refused or is still being resolved, the  *)
(* operations that all callers together gave to the NICs of a node for     *)
(* memory of that node differ by one at most.                              *)
(***************************************************************************)
Inside(region, ptr, len) == region.addr <= ptr /\ ptr + len <= region.addr + region.len

SentOnce ==
  \A k \in DOMAIN sent : \A i \in DOMAIN sent[k].batch :
    LET op == sent[k].batch[i]
        mem == sent[k].found[i]
        on == {s \in Sessions : i \in sent[k].work[s]}
    IN  /\ Cardinality(on) = 1
        /\ op.len > 0
        /\ Covers(mem, op.local, op.len)
        /\ Inside(op.region, op.remote, op.len)
        /\ \A s \in on :
             /\ s[1] <= op.region.rkeys
             /\ mem.numa \in Nodes \ {Unknown} => NicNuma[s[1]] = mem.numa

OpsOf(b, n) ==
  {i \in DOMAIN b.batch : /\ \E q \in 0 .. QpsPerPeer - 1 : i \in b.work[<<n, q>>]
                          /\ b.found[i].numa = NicNuma[n]}

OwnOps(n) == UNION {{k} \X OpsOf(sent[k], n) : k \in DOMAIN sent}

Given(n) == Cardinality(OwnOps(n))

Balanced ==
  Len(sent) = begun =>
    \A m, n \in Nics :
      NicNuma[m] = NicNuma[n] /\ NicNuma[m] # Unknown => Given(m) <= Given(n) + 1

RoutedOnce == SentOnce /\ Balanced

(***************************************************************************)
(* unregister replaces the map and lets the callers keep theirs: whatever  *)
(* is unregistered and registered again meanwhile, an operation that a     *)
(* session still works on, or that a caller has resolved, has its region   *)
(* registered with the NICs.                                               *)
(***************************************************************************)
InFlightRegistered ==
  /\ \A s \in Sessions : \A k \in Range(queue[s]) : MrsOf(InFlight(s, k)) \subseteq mrs
  /\ \A t \in Threads : MrsOf(Range(thread[t].found)) \subseteq mrs

(***************************************************************************)
(* "Drop a registration by its base address": a region that is no longer   *)
(* in the map leaves the NICs in the end, whatever new batches begin.      *)
(***************************************************************************)
UnregisteredLeaves ==
  \A m \in Mrs : (m \in mrs /\ m \notin MrsOf(entries)) ~> (m \notin mrs)
=============================================================================
