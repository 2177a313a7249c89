------------------------------ MODULE Backends ------------------------------
(***************************************************************************)
(* The reference backend and the CUDA backend side by side: a client sends *)
(* the same requests, one after the other, to Memory and to Local, while   *)
(* other threads read from Local.  Local's variables have their own names, *)
(* Memory's begin with m.  Nothing that Memory does touches Local, so its  *)
(* part of a request is over before Local goes on.                         *)
(***************************************************************************)
EXTENDS Local

CONSTANTS
  QueueBound,    \* more entries than a fifo gets here
  MaxRead        \* bound: no get begins after this many puts have begun

(***************************************************************************)
(* The two resolve placements in different ways.  An Each or Prefer that   *)
(* lists a device without a pool fails in Local before anything else; in   *)
(* Memory Prefer falls back, and Each fails once it gets there.            *)
(***************************************************************************)
Unserved(pl) == pl.kind \in {"Each", "Prefer"} /\ ~Resolvable(pl)

(***************************************************************************)
(* An Each that lists a device twice is promised the same room twice by    *)
(* Memory, and is left out.                                                *)
(***************************************************************************)
ASSUME BackendsAssumption ==
  /\ Cardinality(Putters) = 1 /\ ~RemoveDuringPut
  /\ \A s \in Specs : \A i \in DOMAIN s.slots :
       LET devs == s.slots[i].placement.devs
       IN  \A m, n \in DOMAIN devs : devs[m] = devs[n] => m = n

VARIABLES
  mobjects, mreps, mused, mfifo, mregions, mpc, mput, mrelease, mpoisoned,
  request,    \* the put that Memory has answered and Local has not, or NoRequest
  said,       \* the last put's spec, and the answers to its slots by backend
  diverged    \* has something happened after which the two may differ?

mvars == <<mobjects, mreps, mused, mfifo, mregions, mpc, mput, mrelease, mpoisoned>>
bothVars == <<vars, mvars, request, said, diverged>>

M == INSTANCE Memory WITH
       objects <- mobjects, reps <- mreps, used <- mused, fifo <- mfifo,
       regions <- mregions, pc <- mpc, put <- mput, release <- mrelease,
       poisoned <- mpoisoned, DeviceOrder <- PoolOrder,
       MaxFifo <- [d \in Pools |-> QueueBound]

client == CHOOSE p \in Putters : TRUE

NoRequest == [key |-> NoPut.key, spec |-> NoObject]

MemoryDone == mpc = "idle"
BothDone == request = NoRequest /\ MemoryDone /\ puts[client].pc \in {"idle", "panicked"}
Ready == BothDone /\ ~diverged

-----------------------------------------------------------------------------
(***************************************************************************)
(* A put: all of Memory's steps, then Local's.                             *)
(***************************************************************************)
Begin(k, s) ==
  /\ Ready
  /\ begun < MaxPuts
  /\ M!PutBegin(k, s)
  /\ request' = [key |-> k, spec |-> s]
  /\ said' = [spec |-> s, memory |-> <<>>, local |-> <<>>]
  /\ UNCHANGED <<vars, diverged>>

MemoryStep ==
  /\ M!PutStep
  /\ said' = [said EXCEPT !.memory = mput.results]
  /\ UNCHANGED <<vars, request, diverged>>

LocalBegin ==
  /\ request # NoRequest
  /\ MemoryDone
  /\ PutReserve(client, request.key, request.spec)
  /\ request' = NoRequest
  /\ UNCHANGED <<mvars, said, diverged>>

(***************************************************************************)
(* The outcome that Local's put pushes when it is done with a slot.        *)
(***************************************************************************)
Outcome(q) ==
  CASE q.pc = "slot" -> "AlreadyExists"
    [] q.pc = "publish" -> "Ok"
    [] OTHER -> IF q.err = "Ok" THEN "NoSpace" ELSE q.err

SlotDone == puts'[client].slot = puts[client].slot + 1

(***************************************************************************)
(* Local parts from Memory when free memory is in pieces too small for the *)
(* slot, when memory that a get still reads is not yet back in its pool,   *)
(* when a copy fails, and when it has refused a placement that Memory may  *)
(* have honoured.                                                          *)
(***************************************************************************)
Fragmented ==
  /\ puts[client].pc \in {"alloc", "retry", "last"}
  /\ Fit(client) = {}
  /\ Cardinality(free[Target(client).device]) >= CurrentSlot(client).len

ReadWhileUnlinked == \E g \in Getters : gets[g] # NoRead /\ gets[g] \notin reps'

CopyFailed == puts'[client].err = "Unexpected"

RefusedUnserved == SlotDone /\ puts[client].pc = "clear" /\ Unserved(CurrentSlot(client).placement)

LocalStep ==
  /\ ~diverged
  /\ MemoryDone
  /\ PutStep(client)
  /\ said' = [said EXCEPT !.local = IF SlotDone THEN Append(@, Outcome(puts[client])) ELSE @]
  /\ diverged' = (Fragmented \/ ReadWhileUnlinked \/ CopyFailed \/ RefusedUnserved)
  /\ UNCHANGED <<mvars, request>>

-----------------------------------------------------------------------------
(***************************************************************************)
(* The other requests take one step of Local, and of Memory one step or,   *)
(* for a remove, its loop.                                                 *)
(***************************************************************************)
Alongside ==
  /\ diverged' = ReadWhileUnlinked
  /\ UNCHANGED <<request, said>>

RegisterBoth(g) == Ready /\ M!Register(g) /\ Register(g) /\ Alongside

DropBoth(g) == Ready /\ M!DropRegion(g) /\ DropRegion(g) /\ Alongside

PublishBoth(k, i, src) == Ready /\ M!Publish(k, i, src) /\ Publish(k, i, src) /\ Alongside

RemoveBoth(ks) == Ready /\ M!Remove(ks) /\ Remove(ks) /\ Alongside

MemoryRelease ==
  /\ M!RemoveStep
  /\ UNCHANGED <<vars, request, said, diverged>>

CallsPanic == Ready /\ M!CallPanics /\ CallPanics /\ Alongside

(***************************************************************************)
(* The threads that read from Local; and Local on its own, once the two    *)
(* have parted.                                                            *)
(***************************************************************************)
Reading ==
  /\ MemoryDone
  /\ \/ /\ begun <= MaxRead
        /\ \E k \in Keys, g \in Getters : \E i \in DOMAIN objects[k].slots : GetPick(g, k, i)
     \/ \E g \in Getters, f \in CopyFaults \cup {"none"} : GetEnd(g, f)
     \/ DmaEnds
  /\ UNCHANGED <<mvars, request, said, diverged>>

LocalAlone ==
  /\ diverged
  /\ PutStep(client) \/ CallPanics \/ \E ks \in Removals : Remove(ks)
  /\ UNCHANGED <<mvars, request, said, diverged>>

BothInit ==
  /\ Init
  /\ M!Init
  /\ request = NoRequest
  /\ said = [spec |-> NoObject, memory |-> <<>>, local |-> <<>>]
  /\ diverged = FALSE

BothNext ==
  \/ \E k \in Keys, s \in Specs : Begin(k, s)
  \/ MemoryStep \/ LocalBegin \/ LocalStep
  \/ \E g \in Regions : RegisterBoth(g) \/ DropBoth(g)
  \/ \E k \in Keys, src \in PublishSrcs :
       \E i \in DOMAIN objects[k].slots : PublishBoth(k, i, src)
  \/ \E ks \in Removals : RemoveBoth(ks)
  \/ MemoryRelease \/ CallsPanic \/ Reading \/ LocalAlone

BothSpec == BothInit /\ [][BothNext]_bothVars

-----------------------------------------------------------------------------
(***************************************************************************)
(* Memory is "the semantic oracle; every other backend must match it".     *)
(* Whatever is evicted, set aside or refused halfway through Each, Local   *)
(* gives the client the answers of Memory, slot by slot, up to where they  *)
(* part; until then, whenever both are done, they hold the same objects,   *)
(* replicas and eviction queues and have the same memory in use, so that   *)
(* the next answers will be the same too, panics included.  Only for a     *)
(* device without a pool do the answers differ: Local says InvalidInput,   *)
(* Memory falls back or is out of space.                                   *)
(***************************************************************************)
AsInMemory(r) == [f \in DOMAIN r \ {"off", "by"} |-> r[f]]

AnswersMatch ==
  \A i \in DOMAIN said.local : i \in DOMAIN said.memory =>
    \/ said.local[i] = said.memory[i]
    \/ /\ Unserved(said.spec.slots[i].placement)
       /\ said.local[i] = "InvalidInput"
       /\ said.memory[i] \in {"Ok", "NoSpace"}

StatesMatch ==
  /\ Len(said.memory) = Len(said.local)
  /\ poisoned = mpoisoned
  /\ objects = mobjects
  /\ {AsInMemory(r) : r \in reps} = mreps
  /\ \A d \in Pools :
       /\ fifo[d] = mfifo[d]
       /\ mused[d] = Capacity[d] - Cardinality(free[d])

SameAnswers ==
  /\ AnswersMatch
  /\ BothDone /\ ~diverged => StatesMatch
=============================================================================
