-------------------------- MODULE RcSessionProofs ---------------------------
(***************************************************************************)
(* Theorems about RcSession, for any number of batches of any length and   *)
(* any depth of the queues: an Ok means that the bytes have moved, a batch *)
(* that is answered is left alone by the NIC, and the send queue suffices. *)
(*                                                                         *)
(* None is inductive.  What makes them true is the ledger that             *)
(* execute_batch keeps in "inflight": as long as the queue pair works, the *)
(* requests posted and not yet polled are those of the batch in execution, *)
(* with ids in flight, in ascending order from the completion queue into   *)
(* the send queue, and there are exactly as many as ids in flight.  Once a *)
(* request has failed, the completions that succeeded before it still obey *)
(* the ledger, and every one after it has failed.                          *)
(***************************************************************************)
EXTENDS RcSession, FiniteSetTheorems, TLAPS

Answers == {"none", "ok", "invalidated", "unposted", "error", "unpolled"}

WorkRequest == [batch : Batches, id : Nat]
WorkCompletion == [batch : Batches, id : Nat, ok : BOOLEAN]

WorkerType ==
  [pc : {"recv", "upgrade", "drain", "stopped", "post", "poll"},
   batch : Batches \cup {CHOOSE b \in Batches : TRUE}, next : Nat, inflight : SUBSET Nat]

SessionType ==
  /\ caller \in [Batches -> {"new", "holds", "sent", "gone"}]
  /\ queue \in Seq(Batches)
  /\ worker \in WorkerType
  /\ sq \in Seq(WorkRequest)
  /\ cq \in Seq(WorkCompletion)
  /\ reply \in [Batches -> Answers]

(***************************************************************************)
(* A command is in one place: with its caller, in the channel, with the    *)
(* worker, or answered.                                                    *)
(***************************************************************************)
Busy == worker.pc \in {"upgrade", "post", "poll"}

Accepted(b) == caller[b] \in {"sent", "gone"} /\ reply[b] = "none"

CommandsOnce ==
  /\ \A b \in Batches : caller[b] \in {"new", "holds"} => reply[b] = "none"
  /\ \A m, n \in 1..Len(queue) : queue[m] = queue[n] => m = n
  /\ \A n \in 1..Len(queue) : Accepted(queue[n]) /\ (Busy => queue[n] # worker.batch)
  /\ Busy => worker.batch \in Batches /\ Accepted(worker.batch)

(***************************************************************************)
(* The batch in execution: only what was posted is in flight, and what is  *)
(* no longer in flight has moved.                                          *)
(***************************************************************************)
PostedPart ==
  Executing => worker.next <= Total /\ worker.inflight \subseteq 1..worker.next

BatchLedger ==
  Executing =>
    \A n \in 1..worker.next : n \notin worker.inflight => <<worker.batch, n>> \in moved

(***************************************************************************)
(* A request or completion that the worker waits for.                      *)
(***************************************************************************)
Awaited(x) == Executing /\ x.batch = worker.batch /\ x.id \in worker.inflight

SendQueueLedger ==
  qp = "rts" =>
    /\ \A n \in 1..Len(sq) : Awaited(sq[n])
    /\ \A m, n \in 1..Len(sq) : m < n => sq[m].id < sq[n].id
    /\ \A m \in 1..Len(cq), n \in 1..Len(sq) : cq[m].id < sq[n].id
    /\ Executing => Len(sq) + Len(cq) = Cardinality(worker.inflight)

CompletionLedger ==
  /\ \A n \in 1..Len(cq) : cq[n].ok => Awaited(cq[n]) /\ <<cq[n].batch, cq[n].id>> \in moved
  /\ \A m, n \in 1..Len(cq) : m < n /\ cq[n].ok => cq[m].ok /\ cq[m].id < cq[n].id
  /\ qp = "rts" => \A n \in 1..Len(cq) : cq[n].ok

Ledger == BatchLedger /\ SendQueueLedger /\ CompletionLedger

SessionInv ==
  /\ SessionType
  /\ CommandsOnce
  /\ PostedPart
  /\ ~GivenUp => OkMeansMoved /\ Ledger

-----------------------------------------------------------------------------
(***************************************************************************)
(* The length of a chain: at least one request, and no more than the batch *)
(* has left or the send queue has room for beside the ids in flight.       *)
(***************************************************************************)
LEMMA MinOfThree ==
  ASSUME NEW a \in Int, NEW b \in Int, NEW c \in Int
  PROVE  /\ Min({a, b, c}) \in {a, b, c}
         /\ Min({a, b, c}) <= a /\ Min({a, b, c}) <= b /\ Min({a, b, c}) <= c
<1>1. \E x \in {a, b, c} : \A y \in {a, b, c} : x <= y
  <2>1. CASE a <= b /\ a <= c
    BY <2>1
  <2>2. CASE b <= a /\ b <= c
    BY <2>2
  <2>3. CASE c <= a /\ c <= b
    BY <2>3
  <2> QED BY <2>1, <2>2, <2>3
<1> QED BY <1>1 DEF Min

(***************************************************************************)
(* The chain that execute_batch cuts is not empty, ends within the batch   *)
(* and keeps the requests in flight within max_send_wr.                    *)
(***************************************************************************)
LEMMA ChainFits ==
  ASSUME SessionType, CommandsOnce, PostedPart, CanPost
  PROVE  /\ Cardinality(worker.inflight) \in Nat
         /\ Chain \in Nat /\ Chain > 0
         /\ worker.next + Chain <= Total
         /\ Cardinality(worker.inflight) + Chain <= MaxSendWr
<1>1. worker.batch \in Batches /\ worker.next \in Nat /\ worker.next < Total
  BY DEF CanPost, CommandsOnce, Busy, SessionType, WorkerType
<1>2. Total \in Nat /\ MaxSendWr \in Nat /\ MaxChain \in Nat /\ MaxChain > 0
  BY <1>1, SessionAssumption DEF Total
<1>3. Cardinality(worker.inflight) \in Nat
  <2>1. worker.inflight \subseteq 1..worker.next
    BY DEF PostedPart, Executing, CanPost
  <2>2. IsFiniteSet(1..worker.next)
    BY <1>1, FS_Interval
  <2> QED BY Zenon, <2>1, <2>2, FS_Subset, FS_CardinalityType
<1>4. Cardinality(worker.inflight) < MaxSendWr
  BY DEF CanPost
<1> DEFINE room == MaxSendWr - Cardinality(worker.inflight)
           left == Total - worker.next
<1>5. room \in Nat /\ room > 0 /\ left \in Nat /\ left > 0
  BY <1>1, <1>2, <1>3, <1>4
<1>6. Chain = Min({MaxChain, room, left})
  BY DEF Chain
<1>7. Chain \in {MaxChain, room, left} /\ Chain <= room /\ Chain <= left
  <2> HIDE DEF room, left
  <2> QED BY <1>2, <1>5, <1>6, MinOfThree
<1> QED BY <1>1, <1>2, <1>3, <1>5, <1>7

(***************************************************************************)
(* The elements of two sequences put end to end.                           *)
(***************************************************************************)
LEMMA SeqConcat ==
  ASSUME NEW S, NEW s \in Seq(S), NEW t \in Seq(S)
  PROVE  /\ s \o t \in Seq(S)
         /\ Len(s \o t) = Len(s) + Len(t)
         /\ \A i \in 1..Len(s) + Len(t) :
              (s \o t)[i] = IF i <= Len(s) THEN s[i] ELSE t[i - Len(s)]
  OBVIOUS

(***************************************************************************)
(* The elements of a sequence and one more behind it.                      *)
(***************************************************************************)
LEMMA SeqAppend ==
  ASSUME NEW S, NEW s \in Seq(S), NEW e \in S
  PROVE  /\ Append(s, e) \in Seq(S)
         /\ Len(Append(s, e)) = Len(s) + 1
         /\ \A i \in 1..Len(s) : Append(s, e)[i] = s[i]
         /\ Append(s, e)[Len(s) + 1] = e
  OBVIOUS

(***************************************************************************)
(* The requests of a chain: numbered from the next id on.                  *)
(***************************************************************************)
ChainRequests == [n \in 1..Chain |-> [batch |-> worker.batch, id |-> worker.next + n]]

(***************************************************************************)
(* Posting a chain appends its requests to the send queue in order.        *)
(***************************************************************************)
LEMMA ChainAppended ==
  ASSUME SessionType, Chain \in Nat, worker.batch \in Batches
  PROVE  /\ ChainRequests \in Seq(WorkRequest)
         /\ sq \o ChainRequests \in Seq(WorkRequest)
         /\ Len(sq \o ChainRequests) = Len(sq) + Chain
         /\ \A n \in 1..Len(sq) : (sq \o ChainRequests)[n] = sq[n]
         /\ \A n \in Len(sq) + 1 .. Len(sq) + Chain :
              (sq \o ChainRequests)[n]
                = [batch |-> worker.batch, id |-> worker.next + (n - Len(sq))]
<1>1. worker.next \in Nat /\ sq \in Seq(WorkRequest) /\ Len(sq) \in Nat
  BY DEF SessionType, WorkerType
<1>2. ChainRequests \in Seq(WorkRequest) /\ Len(ChainRequests) = Chain
  BY <1>1 DEF ChainRequests, WorkRequest
<1>3. \A n \in 1..Chain :
        ChainRequests[n] = [batch |-> worker.batch, id |-> worker.next + n]
  BY DEF ChainRequests
<1>4. /\ sq \o ChainRequests \in Seq(WorkRequest)
      /\ Len(sq \o ChainRequests) = Len(sq) + Chain
      /\ \A i \in 1 .. Len(sq) + Chain : (sq \o ChainRequests)[i] =
           IF i <= Len(sq) THEN sq[i] ELSE ChainRequests[i - Len(sq)]
  BY Zenon, <1>1, <1>2, SeqConcat
<1> HIDE DEF ChainRequests
<1> QED BY <1>1, <1>2, <1>3, <1>4

(***************************************************************************)
(* The tail of a sequence.                                                 *)
(***************************************************************************)
LEMMA TailShifts ==
  ASSUME NEW S, NEW s \in Seq(S), s # <<>>
  PROVE  /\ Head(s) = s[1] /\ Head(s) \in S
         /\ Tail(s) \in Seq(S)
         /\ Len(s) \in Nat \ {0}
         /\ Len(Tail(s)) = Len(s) - 1
         /\ \A i \in 1..Len(Tail(s)) : Tail(s)[i] = s[i + 1] /\ i + 1 \in 1..Len(s)
OBVIOUS

(***************************************************************************)
(* What the end of a reference does to the queue pair: nothing, or all.    *)
(***************************************************************************)
KeptOrDestroyed ==
  \/ UNCHANGED <<sq, cq, qp>>
  \/ sq' = <<>> /\ cq' = <<>> /\ qp' = "destroyed"

(***************************************************************************)
(* A session's queues are kept while a handle is alive, and destroyed      *)
(* otherwise.                                                              *)
(***************************************************************************)
LEMMA DestroyedOrNot == ASSUME NEW alive, DestroyUnless(alive) PROVE KeptOrDestroyed
BY DEF DestroyUnless, KeptOrDestroyed

-----------------------------------------------------------------------------
(***************************************************************************)
(* The steps that do not post or poll leave the ledger's variables alone,  *)
(* or end a batch.                                                         *)
(***************************************************************************)
LEMMA TypeStep ==
  ASSUME SessionType, CommandsOnce, PostedPart, [Next]_vars
  PROVE  SessionType'
<1> USE DEF SessionType
<1>0. <<>> \in Seq(WorkRequest) /\ <<>> \in Seq(WorkCompletion)
  OBVIOUS
<1>1. ASSUME NEW b \in Batches, TakeSession(b) PROVE SessionType'
  BY <1>1 DEF TakeSession
<1>2. ASSUME NEW b \in Batches, Send(b) PROVE SessionType'
  BY <1>2 DEF Send
<1>23. ASSUME NEW b \in Batches, LetGo(b) PROVE SessionType'
  <2>1. KeptOrDestroyed
    BY <1>23, DestroyedOrNot DEF LetGo
  <2> QED BY Zenon, <1>23, <2>1, <1>0 DEF LetGo, KeptOrDestroyed
<1>3. ASSUME NEW b \in Batches, Return(b) PROVE SessionType'
  <2>1. KeptOrDestroyed
    BY <1>3, DestroyedOrNot DEF Return
  <2> QED BY Zenon, <1>3, <2>1, <1>0 DEF Return, KeptOrDestroyed
<1>4. CASE Invalidate
  <2>1. KeptOrDestroyed
    BY <1>4, DestroyedOrNot DEF Invalidate
  <2> QED BY Zenon, <1>4, <2>1, <1>0 DEF Invalidate, KeptOrDestroyed
<1>5. CASE Recv
  BY Zenon, <1>5, TailShifts DEF Recv, WorkerType
<1>6. CASE RecvDisconnected
  BY Zenon, <1>6 DEF RecvDisconnected, Idle, WorkerType
<1>7. CASE Upgrade
  BY Zenon, <1>7 DEF Upgrade, WorkerType
<1>8. CASE UpgradeFails
  BY Zenon, <1>8 DEF UpgradeFails, Idle, Answers, WorkerType
<1>9. CASE Drain
  <2>1. CASE queue = <<>>
    <3>1. worker' = [Idle EXCEPT !.pc = "stopped"] /\ UNCHANGED <<queue, reply, caller, sq, cq>>
      BY <1>9, <2>1 DEF Drain
    <3> QED BY Zenon, <3>1 DEF Idle, WorkerType
  <2>2. CASE queue # <<>>
    <3>1. Head(queue) \in Batches /\ Tail(queue) \in Seq(Batches)
      BY <2>2, TailShifts
    <3>2. /\ reply' = [reply EXCEPT ![Head(queue)] = "invalidated"]
          /\ queue' = Tail(queue) /\ UNCHANGED <<worker, caller, sq, cq>>
      BY <1>9, <2>2 DEF Drain
    <3> QED BY <3>1, <3>2 DEF Answers
  <2> QED BY <2>1, <2>2
<1>10. CASE Post
  <2>1. CanPost /\ Chain \in Nat /\ worker.batch \in Batches
    BY <1>10, ChainFits DEF Post, CanPost, CommandsOnce, Busy
  <2>2. sq' \in Seq(WorkRequest)
    BY <1>10, <2>1, ChainAppended DEF Post, ChainRequests
  <2>3. NextOps \subseteq Nat
    BY <2>1 DEF NextOps, WorkerType
  <2>4. worker' = [worker EXCEPT !.next = @ + Chain, !.inflight = @ \cup NextOps]
    BY <1>10 DEF Post
  <2>5. worker' \in WorkerType
    <3>1. worker.next + Chain \in Nat /\ worker.inflight \cup NextOps \in SUBSET Nat
      <4>1. worker.next \in Nat /\ worker.inflight \subseteq Nat
        BY DEF WorkerType
      <4> HIDE DEF SessionType
      <4>2. worker.next + Chain \in Nat
        BY <2>1, <4>1
      <4>3. worker.inflight \cup NextOps \subseteq Nat
        BY Zenon, <2>3, <4>1
      <4> QED BY <4>2, <4>3
    <3> QED BY Zenon, <2>4, <3>1 DEF WorkerType
  <2> QED BY <1>10, <2>2, <2>5 DEF Post
<1>11. ASSUME NEW r \in Answers, Finish(r) PROVE SessionType'
  <2>1. KeptOrDestroyed
    BY <1>11, DestroyedOrNot DEF Finish
  <2>2. worker' = Idle /\ reply' = [reply EXCEPT ![worker.batch] = r] /\ UNCHANGED <<caller, queue>>
    BY <1>11 DEF Finish
  <2>3. Idle \in WorkerType
    BY DEF Idle, WorkerType
  <2> QED BY Zenon, <1>0, <2>1, <2>2, <2>3 DEF KeptOrDestroyed
<1>12. CASE PostFails
  BY <1>11, <1>12 DEF PostFails, Answers
<1>13. CASE PostedAll
  BY Zenon, <1>13 DEF PostedAll, WorkerType
<1>14. CASE Complete
  BY <1>11, <1>14 DEF Complete, Answers
<1>15. CASE PollEmpty
  BY Zenon, <1>15 DEF PollEmpty, WorkerType
<1>16. CASE PollOne
  BY Zenon, <1>16, TailShifts DEF PollOne, WorkerType
<1>17. CASE PollError
  <2>1. cq # <<>> /\ reply' = [reply EXCEPT ![worker.batch] = "error"] /\ worker' = Idle
    BY <1>17 DEF PollError
  <2>2. (cq' = Tail(cq) /\ UNCHANGED sq) \/ (sq' = <<>> /\ cq' = <<>>)
    BY <1>17 DEF PollError, DestroyUnless
  <2>3. Tail(cq) \in Seq(WorkCompletion)
    BY <2>1, TailShifts
  <2>4. Idle \in WorkerType /\ UNCHANGED <<caller, queue>>
    BY <1>17 DEF PollError, Idle, WorkerType
  <2> QED BY Zenon, <1>0, <2>1, <2>2, <2>3, <2>4 DEF Answers
<1>18. CASE PollFails
  BY <1>11, <1>18 DEF PollFails, Answers
<1>19. ASSUME NEW ok \in BOOLEAN, sq # <<>>
       PROVE  Completion(ok) \in WorkCompletion
  <2>1. Head(sq) \in WorkRequest
    BY <1>19, TailShifts
  <2> QED BY <2>1 DEF Completion, WorkRequest, WorkCompletion
<1>20. CASE WrSucceeds
  <2>1. sq # <<>> /\ sq' = Tail(sq) /\ cq' = Append(cq, Completion(TRUE))
    BY <1>20 DEF WrSucceeds
  <2>2. Tail(sq) \in Seq(WorkRequest) /\ Append(cq, Completion(TRUE)) \in Seq(WorkCompletion)
    BY Zenon, <1>19, <2>1, TailShifts, SeqAppend
  <2> QED BY Zenon, <1>20, <2>1, <2>2 DEF WrSucceeds
<1>21. CASE WrFails
  <2>1. sq # <<>> /\ sq' = Tail(sq) /\ cq' = Append(cq, Completion(FALSE))
    BY <1>21 DEF WrFails
  <2>2. Tail(sq) \in Seq(WorkRequest) /\ Append(cq, Completion(FALSE)) \in Seq(WorkCompletion)
    BY Zenon, <1>19, <2>1, TailShifts, SeqAppend
  <2> QED BY Zenon, <1>21, <2>1, <2>2 DEF WrFails
<1>22. CASE UNCHANGED vars
  BY <1>22 DEF vars
<1> QED
  BY <1>1, <1>2, <1>3, <1>4, <1>5, <1>6, <1>7, <1>8, <1>9, <1>10, <1>12, <1>13, <1>14,
     <1>15, <1>16, <1>17, <1>18, <1>20, <1>21, <1>22, <1>23 DEF Next, Worker, Nic, Waiting

(***************************************************************************)
(* The channel hands every command to the worker once.                     *)
(***************************************************************************)
LEMMA CommandsStep ==
  ASSUME SessionType, CommandsOnce, [Next]_vars
  PROVE  CommandsOnce'
<1>0. /\ queue \in Seq(Batches) /\ Len(queue) \in Nat
      /\ \A n \in 1..Len(queue) : queue[n] \in Batches
      /\ caller \in [Batches -> {"new", "holds", "sent", "gone"}]
      /\ reply \in [Batches -> Answers]
      /\ worker \in WorkerType
  BY DEF SessionType
<1>1. ASSUME NEW b \in Batches, TakeSession(b) PROVE CommandsOnce'
  BY <1>0, <1>1 DEF TakeSession, CommandsOnce, Accepted, Busy
<1>2. ASSUME NEW b \in Batches, Send(b) PROVE CommandsOnce'
  <2> DEFINE StillAccepted(c) == caller'[c] \in {"sent", "gone"} /\ reply'[c] = "none"
  <2>1. caller[b] = "holds" /\ caller' = [caller EXCEPT ![b] = "sent"] /\ queue' = Append(queue, b)
        /\ UNCHANGED <<worker, reply>>
    BY <1>2 DEF Send
  <2>2. /\ Len(queue') = Len(queue) + 1
        /\ \A n \in 1..Len(queue) : queue'[n] = queue[n]
        /\ queue'[Len(queue) + 1] = b
    BY <1>0, <2>1, SeqAppend
  <2>3. \A c \in Batches : Accepted(c) => c # b /\ StillAccepted(c)
    BY <1>0, <2>1 DEF Accepted
  <2>4. StillAccepted(b)
    BY <1>0, <2>1 DEF Accepted, CommandsOnce
  <2>5. \A n \in 1..Len(queue) : queue[n] # b
    BY <1>0, <2>3 DEF CommandsOnce
  <2>6. Busy => worker.batch # b
    BY <2>3 DEF CommandsOnce
  <2>7. \A n \in 1..Len(queue') : n \in 1..Len(queue) \/ n = Len(queue) + 1
    BY <1>0, <2>2
  <2>8. \A m, n \in 1..Len(queue') : queue'[m] = queue'[n] => m = n
    BY <1>0, <2>2, <2>5, <2>7 DEF CommandsOnce
  <2>9. \A n \in 1..Len(queue') : StillAccepted(queue'[n]) /\ (Busy => queue'[n] # worker.batch)
    BY <1>0, <2>2, <2>3, <2>4, <2>6, <2>7 DEF CommandsOnce
  <2>10. \A c \in Batches : caller'[c] \in {"new", "holds"} => reply'[c] = "none"
    BY <1>0, <2>1 DEF CommandsOnce
  <2>11. Busy' <=> Busy
    BY <2>1 DEF Busy
  <2>12. Busy => worker.batch \in Batches /\ StillAccepted(worker.batch)
    BY <2>3 DEF CommandsOnce
  <2> QED BY <2>1, <2>8, <2>9, <2>10, <2>11, <2>12 DEF CommandsOnce, Accepted
<1>23. ASSUME NEW b \in Batches, LetGo(b) PROVE CommandsOnce'
  BY <1>0, <1>23 DEF LetGo, CommandsOnce, Accepted, Busy
<1>3. ASSUME NEW b \in Batches, Return(b) PROVE CommandsOnce'
  BY <1>0, <1>3 DEF Return, CommandsOnce, Accepted, Busy
<1>4. CASE Invalidate
  BY <1>4 DEF Invalidate, CommandsOnce, Accepted, Busy
<1>5. ASSUME queue # <<>>, queue' = Tail(queue)
      PROVE  /\ Head(queue) \in Batches
             /\ Accepted(Head(queue))
             /\ Busy => Head(queue) # worker.batch
             /\ \A n \in 1..Len(queue') :
                  /\ queue'[n] \in Batches /\ Accepted(queue'[n])
                  /\ queue'[n] # Head(queue)
                  /\ Busy => queue'[n] # worker.batch
             /\ \A m, n \in 1..Len(queue') : queue'[m] = queue'[n] => m = n
  <2>1. /\ Head(queue) = queue[1] /\ Len(queue) \in Nat \ {0} /\ Len(queue') = Len(queue) - 1
        /\ \A n \in 1..Len(queue') : queue'[n] = queue[n + 1] /\ n + 1 \in 1..Len(queue)
    BY <1>0, <1>5, TailShifts
  <2>2. 1 \in 1..Len(queue)
    BY <2>1
  <2>3. \A n \in 1..Len(queue') : n + 1 # 1 /\ n \in Int
    BY <2>1
  <2>4. \A m, n \in 1..Len(queue') : m + 1 = n + 1 => m = n
    BY <2>1
  <2>5. /\ \A n \in 1..Len(queue) :
             queue[n] \in Batches /\ Accepted(queue[n]) /\ (Busy => queue[n] # worker.batch)
        /\ \A m, n \in 1..Len(queue) : queue[m] = queue[n] => m = n
    BY Zenon, <1>0 DEF CommandsOnce
  <2>6. /\ Head(queue) \in Batches
        /\ Accepted(Head(queue))
        /\ Busy => Head(queue) # worker.batch
    BY Zenon, <2>1, <2>2, <2>5
  <2>7. ASSUME NEW n \in 1..Len(queue')
        PROVE  /\ queue'[n] \in Batches /\ Accepted(queue'[n])
               /\ queue'[n] # Head(queue)
               /\ Busy => queue'[n] # worker.batch
    BY Zenon, <2>1, <2>2, <2>3, <2>5
  <2>8. ASSUME NEW m \in 1..Len(queue'), NEW n \in 1..Len(queue'), queue'[m] = queue'[n]
        PROVE  m = n
    <3>1. queue[m + 1] = queue[n + 1] /\ m + 1 \in 1..Len(queue) /\ n + 1 \in 1..Len(queue)
      BY Zenon, <2>1, <2>8
    <3>2. m + 1 = n + 1
      BY Zenon, <2>5, <3>1
    <3> QED BY Zenon, <2>4, <3>2
  <2> QED BY Zenon, <2>6, <2>7, <2>8
<1>6. CASE Recv
  <2>1. /\ worker.pc = "recv" /\ queue # <<>> /\ queue' = Tail(queue)
        /\ worker' = [worker EXCEPT !.pc = "upgrade", !.batch = Head(queue)]
        /\ UNCHANGED <<caller, reply>>
    BY <1>6 DEF Recv
  <2>2. worker'.batch = Head(queue)
    BY <1>0, <2>1 DEF WorkerType
  <2> QED BY <1>5, <2>1, <2>2 DEF CommandsOnce, Accepted, Busy
<1>7. CASE RecvDisconnected
  BY <1>7 DEF RecvDisconnected, CommandsOnce, Accepted, Busy, Idle
<1>8. CASE Upgrade
  <2>1. /\ worker'.batch = worker.batch /\ worker.pc = "upgrade"
        /\ UNCHANGED <<caller, queue, reply>>
    BY <1>0, <1>8 DEF Upgrade, WorkerType
  <2> QED BY <2>1 DEF CommandsOnce, Accepted, Busy
<1>9. ASSUME NEW r \in Answers, Busy, reply' = [reply EXCEPT ![worker.batch] = r],
             worker'.pc \notin {"upgrade", "post", "poll"}, UNCHANGED <<caller, queue>>
      PROVE  CommandsOnce'
  BY <1>0, <1>9 DEF CommandsOnce, Accepted, Busy
<1>10. CASE UpgradeFails
  <2>1. Busy /\ reply' = [reply EXCEPT ![worker.batch] = "invalidated"]
        /\ UNCHANGED <<caller, queue>> /\ worker'.pc = "drain"
    BY <1>10 DEF UpgradeFails, Busy, Idle
  <2> QED BY <1>9, <2>1 DEF Answers
<1>11. CASE Drain
  <2>1. CASE queue = <<>>
    <3>1. worker' = [Idle EXCEPT !.pc = "stopped"] /\ UNCHANGED <<queue, reply, caller>>
          /\ worker.pc = "drain"
      BY <1>11, <2>1 DEF Drain
    <3> QED BY <3>1 DEF CommandsOnce, Accepted, Busy, Idle
  <2>2. CASE queue # <<>>
    <3>1. /\ reply' = [reply EXCEPT ![Head(queue)] = "invalidated"]
          /\ queue' = Tail(queue) /\ UNCHANGED <<worker, caller>> /\ worker.pc = "drain"
      BY <1>11, <2>2 DEF Drain
    <3> QED BY <1>0, <1>5, <2>2, <3>1 DEF CommandsOnce, Accepted, Busy
  <2> QED BY <2>1, <2>2
<1>12. ASSUME NEW r \in Answers, Finish(r), Executing PROVE CommandsOnce'
  <2>1. Busy /\ reply' = [reply EXCEPT ![worker.batch] = r]
        /\ UNCHANGED <<caller, queue>> /\ worker'.pc = "recv"
    BY <1>12 DEF Finish, Busy, Idle, Executing
  <2> QED BY Zenon, <1>9, <2>1
<1>13. ASSUME worker'.batch = worker.batch, Busy' <=> Busy, UNCHANGED <<caller, queue, reply>>
       PROVE  CommandsOnce'
  BY <1>13 DEF CommandsOnce, Accepted
<1>14. CASE Post
  BY <1>0, <1>13, <1>14 DEF Post, Busy, WorkerType
<1>15. CASE PostFails
  BY <1>12, <1>15 DEF PostFails, CanPost, Executing, Answers
<1>16. CASE PostedAll
  BY <1>0, <1>13, <1>16 DEF PostedAll, Busy, WorkerType
<1>17. CASE Complete
  BY <1>12, <1>17 DEF Complete, Executing, Answers
<1>18. CASE PollEmpty
  BY <1>0, <1>13, <1>18 DEF PollEmpty, Busy, WorkerType
<1>19. CASE PollOne
  BY <1>0, <1>13, <1>19 DEF PollOne, Busy, WorkerType
<1>20. CASE PollError
  <2>1. Busy /\ reply' = [reply EXCEPT ![worker.batch] = "error"]
        /\ UNCHANGED <<caller, queue>> /\ worker'.pc = "recv"
    BY <1>20 DEF PollError, Busy, Idle
  <2> QED BY <1>9, <2>1 DEF Answers
<1>21. CASE PollFails
  BY <1>12, <1>21 DEF PollFails, Executing, Answers
<1>22. CASE WrSucceeds \/ WrFails \/ UNCHANGED vars
  BY Zenon, <1>13, <1>22 DEF WrSucceeds, WrFails, vars, Busy
<1> QED
  BY <1>1, <1>2, <1>3, <1>4, <1>6, <1>7, <1>8, <1>10, <1>11, <1>14, <1>15, <1>16, <1>17,
     <1>18, <1>19, <1>20, <1>21, <1>22, <1>23 DEF Next, Worker, Nic, Waiting

(***************************************************************************)
(* An answer is sent through a one-shot channel: none is ever replaced.    *)
(***************************************************************************)
AnswersKept == \A b \in Batches : reply[b] # "none" => reply'[b] = reply[b]

(***************************************************************************)
(* The one-shot reply: no step changes the answer a batch was given.       *)
(***************************************************************************)
LEMMA AnswersStep ==
  ASSUME SessionType, CommandsOnce, [Next]_vars
  PROVE  AnswersKept
<1>0. reply \in [Batches -> Answers] /\ queue \in Seq(Batches)
  BY DEF SessionType
<1>1. ASSUME NEW r, Busy, reply' = [reply EXCEPT ![worker.batch] = r] PROVE AnswersKept
  BY <1>0, <1>1 DEF CommandsOnce, Accepted, AnswersKept
<1>2. CASE UNCHANGED reply
  BY <1>2 DEF AnswersKept
<1>3. CASE UpgradeFails
  <2>1. Busy /\ reply' = [reply EXCEPT ![worker.batch] = "invalidated"]
    BY <1>3 DEF UpgradeFails, Busy
  <2> QED BY Zenon, <1>1, <2>1
<1>4. CASE Drain
  <2>1. CASE queue = <<>>
    BY <1>2, <1>4, <2>1 DEF Drain
  <2>2. CASE queue # <<>>
    <3>1. Head(queue) = queue[1] /\ 1 \in 1..Len(queue)
      BY <1>0, <2>2, TailShifts
    <3>2. reply[Head(queue)] = "none" /\ reply' = [reply EXCEPT ![Head(queue)] = "invalidated"]
      BY <1>4, <2>2, <3>1 DEF Drain, CommandsOnce, Accepted
    <3> QED BY <1>0, <3>2 DEF AnswersKept
  <2> QED BY <2>1, <2>2
<1>5. ASSUME NEW r, Finish(r), Executing PROVE AnswersKept
  <2>1. Busy /\ reply' = [reply EXCEPT ![worker.batch] = r]
    BY <1>5 DEF Finish, Executing, Busy
  <2> QED BY Zenon, <1>1, <2>1
<1>6. CASE PostFails
  BY <1>5, <1>6 DEF PostFails, CanPost, Executing
<1>7. CASE Complete
  BY <1>5, <1>7 DEF Complete, Executing
<1>8. CASE PollError
  <2>1. Busy /\ reply' = [reply EXCEPT ![worker.batch] = "error"]
    BY <1>8 DEF PollError, Busy
  <2> QED BY Zenon, <1>1, <2>1
<1>9. CASE PollFails
  BY <1>5, <1>9 DEF PollFails, Executing
<1>10. ASSUME NEW b \in Batches, TakeSession(b) \/ LetGo(b) \/ Send(b) \/ Return(b) PROVE UNCHANGED reply
  BY <1>10 DEF TakeSession, LetGo, Send, Return
<1>11. CASE Invalidate \/ Recv \/ RecvDisconnected \/ Upgrade \/ Post \/ PostedAll
            \/ PollEmpty \/ PollOne \/ Nic \/ UNCHANGED vars
  <2>1. UNCHANGED reply
    BY Zenon, <1>11 DEF Invalidate, Recv, RecvDisconnected, Upgrade, Post, PostedAll, PollEmpty,
                 PollOne, Nic, WrSucceeds, WrFails, vars
  <2> QED BY <1>2, <2>1
<1> QED
  BY <1>2, <1>3, <1>4, <1>6, <1>7, <1>8, <1>9, <1>10, <1>11 DEF Next, Worker, Waiting

(***************************************************************************)
(* A session that gave up a batch has given it up for good.                *)
(***************************************************************************)
LEMMA GivenUpForGood ==
  ASSUME SessionType, CommandsOnce, [Next]_vars, GivenUp
  PROVE  GivenUp'
BY AnswersStep DEF GivenUp, AnswersKept

(***************************************************************************)
(* Nothing but a chain posted is ever in flight.                           *)
(***************************************************************************)
LEMMA PostedStep ==
  ASSUME SessionType, CommandsOnce, PostedPart, [Next]_vars
  PROVE  PostedPart'
<1>0. worker \in WorkerType /\ (Executing => worker.batch \in Batches)
  BY DEF SessionType, CommandsOnce, Busy, Executing
<1>1. CASE UNCHANGED worker
  BY <1>1 DEF PostedPart, Executing, Total
<1>2. CASE ~Executing'
  BY <1>2 DEF PostedPart
<1>3. CASE Upgrade
  <2>1. worker' = [worker EXCEPT !.pc = "post", !.next = 0, !.inflight = {}]
    BY <1>3 DEF Upgrade
  <2>2. worker'.next = 0 /\ worker'.inflight = {} /\ worker'.batch = worker.batch
    BY <1>0, <2>1 DEF WorkerType
  <2>3. worker.batch \in Batches
    BY <1>3 DEF Upgrade, CommandsOnce, Busy
  <2>4. Total' \in Nat
    BY <2>2, <2>3, SessionAssumption DEF Total
  <2> QED BY <2>2, <2>4 DEF PostedPart
<1>4. CASE Post
  <2>1. CanPost /\ worker' = [worker EXCEPT !.next = @ + Chain, !.inflight = @ \cup NextOps]
    BY <1>4 DEF Post
  <2>2. /\ worker'.next = worker.next + Chain
        /\ worker'.inflight = worker.inflight \cup NextOps
        /\ worker'.batch = worker.batch
    BY <1>0, <2>1 DEF WorkerType
  <2>3. Chain \in Nat /\ worker.next + Chain <= Total /\ worker.next \in Nat
    BY <1>0, <2>1, ChainFits DEF WorkerType
  <2>4. Total' = Total
    BY <2>2 DEF Total
  <2>5. worker.inflight \subseteq 1..worker.next
    BY <2>1 DEF PostedPart, CanPost, Executing
  <2>6. NextOps \subseteq 1 .. worker.next + Chain /\ 1..worker.next \subseteq 1 .. worker.next + Chain
    BY <2>3 DEF NextOps
  <2>7. worker'.inflight \subseteq 1..worker'.next
    BY Zenon, <2>2, <2>5, <2>6
  <2> QED BY <2>2, <2>3, <2>4, <2>7 DEF PostedPart
<1>5. CASE PostedAll \/ PollEmpty \/ PollOne
  <2>1. /\ worker'.next = worker.next /\ worker'.batch = worker.batch
        /\ worker'.inflight \subseteq worker.inflight
        /\ Executing
    BY <1>0, <1>5 DEF PostedAll, PollEmpty, PollOne, WorkerType, Executing
  <2> QED BY <2>1 DEF PostedPart, Total
<1>6. ASSUME NEW r, Finish(r) PROVE ~Executing'
  BY <1>6 DEF Finish, Idle, Executing
<1>7. ASSUME NEW b \in Batches, TakeSession(b) \/ LetGo(b) \/ Send(b) \/ Return(b) PROVE UNCHANGED worker
  BY <1>7 DEF TakeSession, LetGo, Send, Return
<1>8. CASE Invalidate \/ Nic \/ UNCHANGED vars
  <2>1. UNCHANGED worker
    BY Zenon, <1>8 DEF Invalidate, Nic, WrSucceeds, WrFails, vars
  <2> QED BY <1>1, <2>1
<1>9. CASE Recv
  BY <1>0, <1>2, <1>9 DEF Recv, Executing, WorkerType
<1>10. CASE RecvDisconnected \/ UpgradeFails \/ PollError
  <2>1. worker' = Idle \/ worker' = [Idle EXCEPT !.pc = "stopped"]
        \/ worker' = [Idle EXCEPT !.pc = "drain"]
    BY Zenon, <1>10 DEF RecvDisconnected, UpgradeFails, PollError
  <2> QED BY <1>2, <2>1 DEF Executing, Idle
<1>11. CASE Drain
  <2>1. UNCHANGED worker \/ ~Executing'
    BY <1>11 DEF Drain, Executing, Idle
  <2> QED BY <1>1, <1>2, <2>1
<1>12. CASE PostFails \/ Complete \/ PollFails
  BY <1>2, <1>6, <1>12 DEF PostFails, Complete, PollFails
<1> QED
  BY <1>1, <1>3, <1>4, <1>5, <1>7, <1>8, <1>9, <1>10, <1>11, <1>12 DEF Next, Worker, Waiting

-----------------------------------------------------------------------------
(***************************************************************************)
(* The ledger when nothing is posted, polled or moved.                     *)
(***************************************************************************)
LEMMA LedgerKept ==
  ASSUME Ledger, UNCHANGED <<worker, moved>>, KeptOrDestroyed
  PROVE  Ledger'
<1>1. CASE UNCHANGED <<sq, cq, qp>>
  BY <1>1 DEF Ledger, BatchLedger, SendQueueLedger, CompletionLedger, Executing, Awaited
<1>2. CASE sq' = <<>> /\ cq' = <<>> /\ qp' = "destroyed"
  <2>1. \A n \in 1..Len(cq') : FALSE
    BY <1>2
  <2> QED BY <1>2, <2>1 DEF Ledger, BatchLedger, SendQueueLedger, CompletionLedger, Executing
<1> QED BY <1>1, <1>2 DEF KeptOrDestroyed

(***************************************************************************)
(* The ledger when the worker has nothing to wait for and executes nothing.*)
(***************************************************************************)
LEMMA LedgerAtRest ==
  ASSUME Ledger, ~Executing', UNCHANGED moved, KeptOrDestroyed,
         qp = "rts" => \A n \in 1..Len(sq) : FALSE,
         \A n \in 1..Len(cq) : ~cq[n].ok
  PROVE  Ledger'
<1>1. CASE UNCHANGED <<sq, cq, qp>>
  BY <1>1 DEF Ledger, BatchLedger, SendQueueLedger, CompletionLedger
<1>2. CASE sq' = <<>> /\ cq' = <<>> /\ qp' = "destroyed"
  <2>1. \A n \in 1..Len(cq') : FALSE
    BY <1>2
  <2> QED BY <1>2, <2>1 DEF Ledger, BatchLedger, SendQueueLedger, CompletionLedger
<1> QED BY <1>1, <1>2 DEF KeptOrDestroyed

(***************************************************************************)
(* Between batches the send queue of a working queue pair is empty, and no *)
(* completion left over is a success.                                      *)
(***************************************************************************)
LEMMA RestWhenIdle ==
  ASSUME Ledger, ~Executing
  PROVE  /\ qp = "rts" => \A n \in 1..Len(sq) : FALSE
         /\ \A n \in 1..Len(cq) : ~cq[n].ok
BY Zenon DEF Ledger, SendQueueLedger, CompletionLedger, Awaited

(***************************************************************************)
(* The operations of a new chain are numbered beyond those already issued. *)
(***************************************************************************)
LEMMA BeyondIssued ==
  ASSUME NEW w \in Nat, NEW k \in Nat, NEW c \in Nat, NEW i \in 1 .. w, NEW n \in k + 1 .. k + c
  PROVE  i < w + (n - k)
OBVIOUS

(***************************************************************************)
(* A step that posts a chain, all of it in flight from then on.            *)
(***************************************************************************)
LEMMA LedgerPost ==
  ASSUME SessionType, CommandsOnce, PostedPart, Ledger, Post
  PROVE  Ledger'
<1>1. /\ CanPost /\ worker.pc = "post" /\ worker.batch \in Batches
      /\ worker \in WorkerType
  BY DEF Post, CanPost, SessionType, CommandsOnce, Busy
<1>2. /\ worker'.pc = "post" /\ worker'.batch = worker.batch
      /\ worker'.next = worker.next + Chain
      /\ worker'.inflight = worker.inflight \cup NextOps
  BY <1>1 DEF Post, WorkerType
<1>3. /\ Chain \in Nat /\ worker.next \in Nat
      /\ Cardinality(worker.inflight) \in Nat
      /\ worker.inflight \subseteq 1..worker.next
  BY <1>1, ChainFits DEF WorkerType, PostedPart, Executing
<1>4. /\ Len(sq) \in Nat /\ Len(cq) \in Nat
      /\ \A n \in 1..Len(sq) : sq[n] \in WorkRequest
      /\ \A n \in 1..Len(cq) : cq[n] \in WorkCompletion
  BY DEF SessionType
<1>5. /\ Len(sq') = Len(sq) + Chain
      /\ \A n \in 1..Len(sq) : sq'[n] = sq[n]
      /\ \A n \in Len(sq) + 1 .. Len(sq) + Chain :
           sq'[n].batch = worker.batch /\ sq'[n].id = worker.next + (n - Len(sq))
  <2>1. /\ Len(sq') = Len(sq) + Chain
        /\ \A n \in 1..Len(sq) : sq'[n] = sq[n]
        /\ \A n \in Len(sq) + 1 .. Len(sq) + Chain :
             sq'[n] = [batch |-> worker.batch, id |-> worker.next + (n - Len(sq))]
    <3>1. sq' = sq \o ChainRequests
      BY Zenon DEF Post, ChainRequests
    <3> QED BY Zenon, <1>1, <1>3, <3>1, ChainAppended
  <2>2. ASSUME NEW n \in Len(sq) + 1 .. Len(sq) + Chain
        PROVE  sq'[n].batch = worker.batch /\ sq'[n].id = worker.next + (n - Len(sq))
    <3>1. sq'[n] = [batch |-> worker.batch, id |-> worker.next + (n - Len(sq))]
      BY <2>1
    <3> QED BY <3>1
  <2> QED BY <2>1, <2>2
<1>6. UNCHANGED <<cq, qp, moved>> /\ Executing /\ Executing'
  BY <1>1, <1>2 DEF Post, Executing
<1>7. BatchLedger'
  <2> SUFFICES ASSUME NEW n \in 1..worker'.next, n \notin worker'.inflight
               PROVE  <<worker.batch, n>> \in moved
    BY <1>2, <1>6 DEF BatchLedger
  <2>1. n \notin worker.inflight /\ n \notin NextOps
    BY <1>2
  <2>2. n \in 1..worker.next
    BY <1>2, <1>3, <2>1 DEF NextOps
  <2> QED BY <1>6, <2>1, <2>2 DEF Ledger, BatchLedger
<1>8. \A x : Awaited(x) => Awaited(x)'
  BY <1>2, <1>6 DEF Awaited
<1>9. CompletionLedger'
  BY <1>2, <1>6 DEF Ledger, CompletionLedger, Awaited
<1>10. SendQueueLedger'
  <2> SUFFICES ASSUME qp = "rts" PROVE SendQueueLedger'
    BY <1>6 DEF SendQueueLedger
  <2>1. /\ \A n \in 1..Len(sq) : Awaited(sq[n])
        /\ \A m, n \in 1..Len(sq) : m < n => sq[m].id < sq[n].id
        /\ \A m \in 1..Len(cq), n \in 1..Len(sq) : cq[m].id < sq[n].id
        /\ Len(sq) + Len(cq) = Cardinality(worker.inflight)
        /\ \A n \in 1..Len(cq) : Awaited(cq[n])
    BY Zenon, <1>6 DEF Ledger, SendQueueLedger, CompletionLedger
  <2>2. \A n \in 1..Len(sq') :
          \/ n \in 1..Len(sq) /\ sq'[n] = sq[n]
          \/ /\ n \in Len(sq) + 1 .. Len(sq) + Chain
             /\ sq'[n].batch = worker.batch
             /\ sq'[n].id = worker.next + (n - Len(sq))
             /\ sq'[n].id \in NextOps
    <3> SUFFICES ASSUME NEW n \in 1..Len(sq'), n \notin 1..Len(sq)
                 PROVE  /\ n \in Len(sq) + 1 .. Len(sq) + Chain
                        /\ sq'[n].batch = worker.batch
                        /\ sq'[n].id = worker.next + (n - Len(sq))
                        /\ sq'[n].id \in NextOps
      BY Zenon, <1>5
    <3>1. n \in 1 .. Len(sq) + Chain
      BY Zenon, <1>5
    <3>2. /\ n \in Len(sq) + 1 .. Len(sq) + Chain
          /\ worker.next + (n - Len(sq)) \in worker.next + 1 .. worker.next + Chain
      BY <1>3, <1>4, <3>1
    <3>3. sq'[n].batch = worker.batch /\ sq'[n].id = worker.next + (n - Len(sq))
      BY Zenon, <1>5, <3>2
    <3> QED BY Zenon, <3>2, <3>3 DEF NextOps
  <2>3. \A n \in 1..Len(sq) : sq[n].id \in 1..worker.next
    BY <1>3, <2>1 DEF Awaited
  <2>4. \A n \in 1..Len(cq) : cq[n].id \in 1..worker.next
    BY <1>3, <2>1 DEF Awaited
  <2>5. \A n \in 1..Len(sq') : sq'[n].batch = worker.batch /\ sq'[n].id \in worker'.inflight
    BY <1>2, <2>1, <2>2 DEF Awaited
  <2>6. \A m, n \in 1..Len(sq') : m < n => sq'[m].id < sq'[n].id
    <3> SUFFICES ASSUME NEW m \in 1..Len(sq'), NEW n \in 1..Len(sq'), m < n
                 PROVE  sq'[m].id < sq'[n].id
      OBVIOUS
    <3>1. CASE n \in 1..Len(sq)
      <4>1. m \in 1..Len(sq)
        BY <1>4, <3>1
      <4> QED BY <1>5, <2>1, <3>1, <4>1
    <3>2. CASE n \in Len(sq) + 1 .. Len(sq) + Chain /\ m \in 1..Len(sq)
      <4>1. sq'[m].id = sq[m].id /\ sq[m].id \in 1..worker.next
        BY <1>5, <2>3, <3>2
      <4>2. sq'[n].id = worker.next + (n - Len(sq))
        BY <1>5, <3>2
      <4>3. PICK w \in Nat, k \in Nat, i \in 1..worker.next : w = worker.next /\ k = Len(sq) /\ i = sq'[m].id
        BY Zenon, <1>3, <1>4, <4>1
      <4>4. n \in k + 1 .. k + Chain => i < w + (n - k)
        BY Zenon, <1>3, <4>3, BeyondIssued
      <4> QED BY Zenon, <3>2, <4>2, <4>3, <4>4
    <3>3. CASE n \in Len(sq) + 1 .. Len(sq) + Chain /\ m \in Len(sq) + 1 .. Len(sq) + Chain
      <4>1. sq'[m].id = worker.next + (m - Len(sq)) /\ sq'[n].id = worker.next + (n - Len(sq))
        BY <1>5, <3>3
      <4> QED BY SMTT(60), <1>3, <1>4, <3>3, <4>1
    <3> QED BY <2>2, <3>1, <3>2, <3>3
  <2>7. \A m \in 1..Len(cq), n \in 1..Len(sq') : cq[m].id < sq'[n].id
    <3> SUFFICES ASSUME NEW m \in 1..Len(cq), NEW n \in 1..Len(sq')
                 PROVE  cq[m].id < sq'[n].id
      OBVIOUS
    <3>1. CASE n \in 1..Len(sq)
      BY Zenon, <1>5, <2>1, <3>1
    <3>2. CASE n \in Len(sq) + 1 .. Len(sq) + Chain
      <4>1. sq'[n].id = worker.next + (n - Len(sq)) /\ cq[m].id \in 1..worker.next
        BY <1>5, <2>4, <3>2
      <4>2. PICK w \in Nat, k \in Nat, i \in 1..worker.next : w = worker.next /\ k = Len(sq) /\ i = cq[m].id
        BY Zenon, <1>3, <1>4, <4>1
      <4>3. n \in k + 1 .. k + Chain => i < w + (n - k)
        BY Zenon, <1>3, <4>2, BeyondIssued
      <4> QED BY Zenon, <3>2, <4>1, <4>2, <4>3
    <3> QED BY <2>2, <3>1, <3>2
  <2>8. Len(sq') + Len(cq) = Cardinality(worker'.inflight)
    <3>1. IsFiniteSet(worker.inflight)
      <4>1. IsFiniteSet(1..worker.next)
        <5>1. 1 \in Int /\ worker.next \in Int
          BY <1>3
        <5> QED BY Zenon, <5>1, FS_Interval
      <4> QED BY <1>3, <4>1, FS_Subset
    <3>2. IsFiniteSet(NextOps) /\ Cardinality(NextOps) = Chain
      <4> DEFINE first == worker.next + 1
                 last == worker.next + Chain
      <4>1. first \in Int /\ last \in Int /\ NextOps = first..last
        BY <1>3 DEF NextOps
      <4>2. /\ IsFiniteSet(first..last)
            /\ Cardinality(first..last) = IF first > last THEN 0 ELSE last - first + 1
        <5> HIDE DEF first, last
        <5> QED BY <4>1, FS_Interval
      <4> QED BY <1>3, <4>1, <4>2
    <3>3. worker.inflight \cap NextOps = {}
      BY <1>3 DEF NextOps
    <3>4. Cardinality(worker.inflight \cup NextOps)
            = Cardinality(worker.inflight) + Cardinality(NextOps)
              - Cardinality(worker.inflight \cap NextOps)
      BY <3>1, <3>2, FS_Union
    <3>5. Cardinality(worker.inflight \cap NextOps) = 0
      BY <3>3, FS_EmptySet
    <3> QED BY <1>2, <1>3, <1>4, <1>5, <2>1, <3>2, <3>4, <3>5
  <2> QED BY <1>2, <1>6, <2>5, <2>6, <2>7, <2>8 DEF SendQueueLedger, Awaited
<1> QED BY <1>7, <1>9, <1>10 DEF Ledger

(***************************************************************************)
(* A step that polls a completion: it succeeded and its id is the lowest   *)
(* in flight, or it is a left-over of a batch that failed.                 *)
(***************************************************************************)
LEMMA LedgerPoll ==
  ASSUME SessionType, CommandsOnce, PostedPart, Ledger, PollOne
  PROVE  Ledger'
<1>1. /\ worker.pc = "poll" /\ cq # <<>> /\ cq' = Tail(cq)
      /\ Head(cq).id \in worker.inflight => Head(cq).ok
      /\ worker' = [worker EXCEPT !.inflight = @ \ {Head(cq).id}]
      /\ UNCHANGED <<sq, qp, moved>>
  BY DEF PollOne, Success
<1>2. /\ worker'.pc = "poll" /\ worker'.batch = worker.batch /\ worker'.next = worker.next
      /\ worker'.inflight = worker.inflight \ {Head(cq).id}
  BY <1>1 DEF SessionType, WorkerType
<1>3. Executing /\ Executing'
  BY <1>1, <1>2 DEF Executing
<1>4. /\ Head(cq) = cq[1] /\ Len(cq) \in Nat \ {0} /\ Len(cq') = Len(cq) - 1
      /\ \A n \in 1..Len(cq') : cq'[n] = cq[n + 1] /\ n + 1 \in 1..Len(cq)
  BY <1>1, TailShifts DEF SessionType
<1>5. 1 \in 1..Len(cq) /\ \A n \in 1..Len(cq') : 1 < n + 1
  BY <1>4
<1>6. /\ \A n \in 1..Len(sq) : sq[n] \in WorkRequest
      /\ \A n \in 1..Len(cq) : cq[n] \in WorkCompletion
      /\ Len(sq) \in Nat
  BY DEF SessionType
<1>7. cq[1].ok <=> cq[1].id \in worker.inflight
  BY Zenon, <1>1, <1>4, <1>5 DEF Ledger, CompletionLedger, Awaited
<1>8. BatchLedger'
  <2> SUFFICES ASSUME NEW n \in 1..worker.next, n \notin worker.inflight \/ n = cq[1].id
               PROVE  <<worker.batch, n>> \in moved
    BY <1>1, <1>2, <1>4 DEF BatchLedger
  <2>1. CASE n \notin worker.inflight
    BY <1>3, <2>1 DEF Ledger, BatchLedger
  <2>2. CASE n \in worker.inflight
    <3>1. n = cq[1].id /\ cq[1].ok
      BY <1>7, <2>2
    <3>2. cq[1].batch = worker.batch /\ <<cq[1].batch, cq[1].id>> \in moved
      BY <1>5, <3>1 DEF Ledger, CompletionLedger, Awaited
    <3> QED BY <3>1, <3>2
  <2> QED BY <2>1, <2>2
<1>9. ASSUME NEW x, Awaited(x), x.id # cq[1].id PROVE Awaited(x)'
  BY <1>2, <1>3, <1>4, <1>9 DEF Awaited
<1>10. CompletionLedger'
  <2>1. ASSUME NEW n \in 1..Len(cq'), cq'[n].ok
        PROVE  /\ cq'[n].batch = worker.batch /\ cq'[n].id \in worker'.inflight
               /\ <<cq'[n].batch, cq'[n].id>> \in moved
    <3>1. cq'[n] = cq[n + 1] /\ n + 1 \in 1..Len(cq) /\ 1 < n + 1
      BY <1>4, <1>5
    <3>2. Awaited(cq[n + 1]) /\ <<cq[n + 1].batch, cq[n + 1].id>> \in moved /\ cq[1].id < cq[n + 1].id
      BY <1>5, <2>1, <3>1 DEF Ledger, CompletionLedger
    <3>3. cq[1].id \in Nat /\ cq[n + 1].id \in Nat
      BY <1>5, <1>6, <3>1 DEF WorkCompletion
    <3>4. cq[n + 1].id # cq[1].id
      BY <3>2, <3>3
    <3> QED BY <1>2, <1>4, <3>1, <3>2, <3>4 DEF Awaited
  <2>2. ASSUME NEW m \in 1..Len(cq'), NEW n \in 1..Len(cq'), m < n, cq'[n].ok
        PROVE  cq'[m].ok /\ cq'[m].id < cq'[n].id
    <3>1. m + 1 < n + 1
      BY <2>2
    <3> QED BY Zenon, <1>4, <2>2, <3>1 DEF Ledger, CompletionLedger
  <2>3. qp = "rts" => \A n \in 1..Len(cq') : cq'[n].ok
    BY <1>4 DEF Ledger, CompletionLedger
  <2> QED BY <1>1, <1>2, <1>3, <2>1, <2>2, <2>3 DEF CompletionLedger, Awaited
<1>11. SendQueueLedger'
  <2> SUFFICES ASSUME qp = "rts" PROVE SendQueueLedger'
    BY <1>1 DEF SendQueueLedger
  <2>1. /\ \A n \in 1..Len(sq) : Awaited(sq[n])
        /\ \A m, n \in 1..Len(sq) : m < n => sq[m].id < sq[n].id
        /\ \A m \in 1..Len(cq), n \in 1..Len(sq) : cq[m].id < sq[n].id
        /\ Len(sq) + Len(cq) = Cardinality(worker.inflight)
    BY <1>3 DEF Ledger, SendQueueLedger
  <2>2. cq[1].id \in worker.inflight
    BY <1>5, <1>7 DEF Ledger, CompletionLedger
  <2>3. \A n \in 1..Len(sq) : sq[n].id # cq[1].id
    BY <1>5, <1>6, <2>1 DEF WorkRequest, WorkCompletion
  <2>4. \A n \in 1..Len(sq) : sq[n].batch = worker.batch /\ sq[n].id \in worker'.inflight
    BY <1>2, <1>4, <2>1, <2>3 DEF Awaited
  <2>5. \A m \in 1..Len(cq'), n \in 1..Len(sq) : cq'[m].id < sq[n].id
    BY SMTT(60), <1>4, <2>1
  <2>6. Len(sq) + Len(cq') = Cardinality(worker'.inflight)
    <3>1. worker.next \in Nat /\ worker.inflight \subseteq 1..worker.next
      BY <1>3 DEF PostedPart, SessionType, WorkerType
    <3>2. IsFiniteSet(1..worker.next)
      BY <3>1, FS_Interval
    <3>3. IsFiniteSet(worker.inflight)
      BY <3>1, <3>2, FS_Subset
    <3>4. Cardinality(worker.inflight) \in Nat
          /\ Cardinality(worker.inflight \ {cq[1].id}) = Cardinality(worker.inflight) - 1
      BY <2>2, <3>3, FS_RemoveElement, FS_CardinalityType
    <3>5. worker'.inflight = worker.inflight \ {cq[1].id}
      BY <1>2, <1>4
    <3>6. Cardinality(worker'.inflight) = Cardinality(worker.inflight) - 1
      BY <3>4, <3>5
    <3> QED BY <1>4, <1>6, <2>1, <3>4, <3>6
  <2> QED BY <1>1, <1>2, <1>3, <2>1, <2>4, <2>5, <2>6 DEF SendQueueLedger, Awaited
<1> QED BY <1>8, <1>10, <1>11 DEF Ledger

(***************************************************************************)
(* The NIC moves a request from the send queue to the completion queue.    *)
(***************************************************************************)
LEMMA CompletionAppended ==
  ASSUME SessionType, NEW ok \in BOOLEAN, sq # <<>>,
         sq' = Tail(sq), cq' = Append(cq, Completion(ok))
  PROVE  /\ Len(sq) \in Nat \ {0} /\ Len(sq') = Len(sq) - 1
         /\ \A n \in 1..Len(sq') : sq'[n] = sq[n + 1] /\ n + 1 \in 1..Len(sq)
         /\ Len(cq) \in Nat /\ Len(cq') = Len(cq) + 1
         /\ \A n \in 1..Len(cq) : cq'[n] = cq[n]
         /\ cq'[Len(cq) + 1] = [batch |-> sq[1].batch, id |-> sq[1].id, ok |-> ok]
         /\ \A n \in 1..Len(cq') : n \in 1..Len(cq) \/ n = Len(cq) + 1
<1>1. /\ Head(sq) = sq[1] /\ Head(sq) \in WorkRequest
      /\ Len(sq) \in Nat \ {0} /\ Len(sq') = Len(sq) - 1
      /\ \A n \in 1..Len(sq') : sq'[n] = sq[n + 1] /\ n + 1 \in 1..Len(sq)
  BY TailShifts DEF SessionType
<1>2. Completion(ok) = [batch |-> sq[1].batch, id |-> sq[1].id, ok |-> ok]
  BY <1>1 DEF Completion
<1>3. Completion(ok) \in WorkCompletion
  BY <1>1, <1>2 DEF WorkRequest, WorkCompletion
<1>4. /\ Len(cq) \in Nat /\ Len(cq') = Len(cq) + 1
      /\ \A n \in 1..Len(cq) : cq'[n] = cq[n]
      /\ cq'[Len(cq) + 1] = Completion(ok)
  BY <1>3, SeqAppend DEF SessionType
<1>5. \A n \in 1..Len(cq') : n \in 1..Len(cq) \/ n = Len(cq) + 1
  BY <1>4
<1> QED BY <1>1, <1>2, <1>4, <1>5

(***************************************************************************)
(* The device's steps, which complete or flush requests, keep the ledger.  *)
(***************************************************************************)
LEMMA LedgerNic ==
  ASSUME SessionType, Ledger, Nic
  PROVE  Ledger'
<1>0. /\ \A n \in 1..Len(sq) : sq[n] \in WorkRequest
      /\ \A n \in 1..Len(cq) : cq[n] \in WorkCompletion
  BY DEF SessionType
<1>1. CASE WrSucceeds
  <2>1. /\ qp = "rts" /\ qp' = "rts" /\ sq # <<>> /\ sq' = Tail(sq)
        /\ cq' = Append(cq, Completion(TRUE)) /\ UNCHANGED worker
        /\ moved' = moved \cup {<<Head(sq).batch, Head(sq).id>>}
    BY <1>1 DEF WrSucceeds
  <2>2. /\ Len(sq) \in Nat \ {0} /\ Len(sq') = Len(sq) - 1
        /\ \A n \in 1..Len(sq') : sq'[n] = sq[n + 1] /\ n + 1 \in 1..Len(sq)
        /\ Len(cq) \in Nat /\ Len(cq') = Len(cq) + 1
        /\ \A n \in 1..Len(cq) : cq'[n] = cq[n]
        /\ cq'[Len(cq) + 1] = [batch |-> sq[1].batch, id |-> sq[1].id, ok |-> TRUE]
        /\ \A n \in 1..Len(cq') : n \in 1..Len(cq) \/ n = Len(cq) + 1
    BY Zenon, <2>1, CompletionAppended
  <2>3. /\ cq'[Len(cq) + 1].batch = sq[1].batch /\ cq'[Len(cq) + 1].id = sq[1].id
        /\ cq'[Len(cq) + 1].ok
    BY <2>2
  <2>4. 1 \in 1..Len(sq) /\ Head(sq) = sq[1] /\ \A n \in 1..Len(sq') : 1 < n + 1
    BY <2>1, <2>2, TailShifts DEF SessionType
  <2>5. /\ \A n \in 1..Len(sq) : Awaited(sq[n])
        /\ \A m, n \in 1..Len(sq) : m < n => sq[m].id < sq[n].id
        /\ \A m \in 1..Len(cq), n \in 1..Len(sq) : cq[m].id < sq[n].id
        /\ Executing => Len(sq) + Len(cq) = Cardinality(worker.inflight)
        /\ \A n \in 1..Len(cq) : cq[n].ok /\ Awaited(cq[n]) /\ <<cq[n].batch, cq[n].id>> \in moved
        /\ \A m, n \in 1..Len(cq) : m < n => cq[m].id < cq[n].id
    BY <2>1 DEF Ledger, SendQueueLedger, CompletionLedger
  <2>7. BatchLedger'
    BY <2>1 DEF Ledger, BatchLedger, Executing
  <2>8. \A n \in 1..Len(cq') :
          /\ cq'[n].ok /\ Executing /\ cq'[n].batch = worker.batch
          /\ cq'[n].id \in worker.inflight /\ <<cq'[n].batch, cq'[n].id>> \in moved'
    <3> SUFFICES ASSUME NEW n \in 1..Len(cq')
                 PROVE  /\ cq'[n].ok /\ Executing /\ cq'[n].batch = worker.batch
                        /\ cq'[n].id \in worker.inflight
                        /\ <<cq'[n].batch, cq'[n].id>> \in moved'
      BY Zenon
    <3>1. CASE n \in 1..Len(cq)
      BY <2>1, <2>2, <2>5, <3>1 DEF Awaited
    <3>2. CASE n = Len(cq) + 1
      <4>1. Awaited(sq[1])
        BY <2>4, <2>5
      <4> QED BY Zenon, <2>1, <2>3, <2>4, <3>2, <4>1 DEF Awaited
    <3> QED BY <2>2, <3>1, <3>2
  <2>9. \A m, n \in 1..Len(cq') : m < n => cq'[m].id < cq'[n].id
    <3> SUFFICES ASSUME NEW m \in 1..Len(cq'), NEW n \in 1..Len(cq'), m < n
                 PROVE  cq'[m].id < cq'[n].id
      OBVIOUS
    <3>1. m \in 1..Len(cq)
      BY <2>2
    <3> QED BY SMTT(60), <2>2, <2>3, <2>4, <2>5, <3>1
  <2>10. CompletionLedger'
    BY Zenon, <2>1, <2>8, <2>9 DEF CompletionLedger, Awaited, Executing
  <2>11. /\ \A m, n \in 1..Len(sq') : m < n => sq'[m].id < sq'[n].id
    <3> SUFFICES ASSUME NEW m \in 1..Len(sq'), NEW n \in 1..Len(sq'), m < n
                 PROVE  sq'[m].id < sq'[n].id
      OBVIOUS
    <3>1. m + 1 < n + 1
      OBVIOUS
    <3>2. sq'[m] = sq[m + 1] /\ sq'[n] = sq[n + 1] /\ m + 1 \in 1..Len(sq) /\ n + 1 \in 1..Len(sq)
      BY Zenon, <2>2
    <3>3. sq[m + 1].id < sq[n + 1].id
      BY Zenon, <2>5, <3>1, <3>2
    <3> QED BY Zenon, <3>2, <3>3
  <2>12. \A m \in 1..Len(cq'), n \in 1..Len(sq') : cq'[m].id < sq'[n].id
    <3> SUFFICES ASSUME NEW m \in 1..Len(cq'), NEW n \in 1..Len(sq')
                 PROVE  cq'[m].id < sq'[n].id
      OBVIOUS
    <3>1. sq'[n] = sq[n + 1] /\ n + 1 \in 1..Len(sq) /\ 1 < n + 1
      BY <2>2, <2>4
    <3>2. CASE m \in 1..Len(cq)
      BY Zenon, <2>2, <2>5, <3>1, <3>2
    <3>3. CASE m = Len(cq) + 1
      BY <2>3, <2>4, <2>5, <3>1, <3>3
    <3> QED BY <2>2, <3>2, <3>3
  <2>13. \A n \in 1..Len(sq') : Executing /\ sq'[n].batch = worker.batch /\ sq'[n].id \in worker.inflight
    <3> SUFFICES ASSUME NEW n \in 1..Len(sq')
                 PROVE  Executing /\ sq'[n].batch = worker.batch /\ sq'[n].id \in worker.inflight
      BY Zenon
    <3>1. sq'[n] = sq[n + 1] /\ Awaited(sq[n + 1])
      BY Zenon, <2>2, <2>5
    <3> QED BY Zenon, <3>1 DEF Awaited
  <2>14. Executing => Len(sq') + Len(cq') = Cardinality(worker.inflight)
    BY <2>2, <2>5
  <2>15. SendQueueLedger'
    BY Zenon, <2>1, <2>11, <2>12, <2>13, <2>14 DEF SendQueueLedger, Awaited, Executing
  <2> QED BY <2>7, <2>10, <2>15 DEF Ledger
<1>2. CASE WrFails
  <2>1. /\ qp' = "error" /\ sq # <<>> /\ sq' = Tail(sq)
        /\ cq' = Append(cq, Completion(FALSE)) /\ UNCHANGED <<worker, moved>>
    BY <1>2 DEF WrFails
  <2>2. /\ Len(cq) \in Nat /\ Len(cq') = Len(cq) + 1
        /\ \A n \in 1..Len(cq) : cq'[n] = cq[n]
        /\ cq'[Len(cq) + 1] = [batch |-> sq[1].batch, id |-> sq[1].id, ok |-> FALSE]
        /\ \A n \in 1..Len(cq') : n \in 1..Len(cq) \/ n = Len(cq) + 1
    BY Zenon, <2>1, CompletionAppended
  <2>3. ~cq'[Len(cq) + 1].ok
    BY <2>2
  <2>4. \A n \in 1..Len(cq') : cq'[n].ok => n \in 1..Len(cq)
    BY <2>2, <2>3
  <2>5. \A m, n \in 1..Len(cq') : m < n /\ cq'[n].ok => m \in 1..Len(cq) /\ n \in 1..Len(cq)
    BY <2>2, <2>4
  <2>6. CompletionLedger'
    BY Zenon, <2>1, <2>2, <2>4, <2>5 DEF Ledger, CompletionLedger, Awaited, Executing
  <2>7. SendQueueLedger'
    BY <2>1 DEF SendQueueLedger
  <2>8. BatchLedger'
    BY <2>1 DEF Ledger, BatchLedger, Executing
  <2> QED BY <2>6, <2>7, <2>8 DEF Ledger
<1> QED BY <1>1, <1>2 DEF Nic

-----------------------------------------------------------------------------
(***************************************************************************)
(* Until a batch is given up, every step keeps the ledger, and an Ok is    *)
(* sent only when all operations have moved.                               *)
(***************************************************************************)
LEMMA LedgerStep ==
  ASSUME SessionType, CommandsOnce, PostedPart, OkMeansMoved, Ledger, [Next]_vars,
         ~GivenUp, ~GivenUp'
  PROVE  OkMeansMoved' /\ Ledger'
<1> DEFINE Moved == \A b \in Batches : reply[b] = "ok" => \A n \in 1..Ops[b] : <<b, n>> \in moved
<1>0. Moved /\ reply \in [Batches -> Answers]
  BY DEF OkMeansMoved, SessionType
<1>1. ASSUME moved \subseteq moved', \A b \in Batches : reply'[b] = "ok" => reply[b] = "ok"
      PROVE  OkMeansMoved'
  BY <1>0, <1>1 DEF OkMeansMoved
<1>2. ASSUME UNCHANGED <<worker, moved, reply>>, KeptOrDestroyed
      PROVE  OkMeansMoved' /\ Ledger'
  BY <1>1, <1>2, LedgerKept
<1>3. ASSUME ~Executing, ~Executing', UNCHANGED <<moved, sq, cq, qp>>,
             \A b \in Batches : reply'[b] = "ok" => reply[b] = "ok"
      PROVE  OkMeansMoved' /\ Ledger'
  <2>1. KeptOrDestroyed
    BY <1>3 DEF KeptOrDestroyed
  <2> QED BY <1>1, <1>3, <2>1, LedgerAtRest, RestWhenIdle
<1>4. ASSUME NEW b \in Batches, TakeSession(b) \/ LetGo(b) \/ Send(b) \/ Return(b)
      PROVE  OkMeansMoved' /\ Ledger'
  <2>1. UNCHANGED <<worker, moved, reply>>
    BY <1>4 DEF TakeSession, LetGo, Send, Return
  <2>2. KeptOrDestroyed
    BY <1>4, DestroyedOrNot DEF TakeSession, LetGo, Send, Return, KeptOrDestroyed
  <2> QED BY <1>2, <2>1, <2>2
<1>5. CASE Invalidate \/ UNCHANGED vars
  <2>1. UNCHANGED <<worker, moved, reply>>
    BY <1>5 DEF Invalidate, vars
  <2>2. KeptOrDestroyed
    BY <1>5, DestroyedOrNot DEF Invalidate, vars, KeptOrDestroyed
  <2> QED BY <1>2, <2>1, <2>2
<1>6. CASE Recv
  <2>1. ~Executing /\ ~Executing' /\ UNCHANGED <<moved, sq, cq, qp, reply>>
    BY <1>6 DEF Recv, Executing, SessionType, WorkerType
  <2> QED BY <1>3, <2>1
<1>7. CASE RecvDisconnected \/ UpgradeFails \/ Drain
  <2>1. ~Executing /\ ~Executing' /\ UNCHANGED <<moved, sq, cq, qp>>
    BY <1>7 DEF RecvDisconnected, UpgradeFails, Drain, Executing, Idle
  <2>2. UNCHANGED reply \/ \E b : reply' = [reply EXCEPT ![b] = "invalidated"]
    BY <1>7 DEF RecvDisconnected, UpgradeFails, Drain
  <2>3. \A b \in Batches : reply'[b] = "ok" => reply[b] = "ok"
    BY <1>0, <2>2
  <2> QED BY <1>3, <2>1, <2>3
<1>8. CASE Upgrade
  <2>1. /\ ~Executing /\ Executing' /\ UNCHANGED <<moved, sq, cq, qp, reply>>
        /\ worker'.next = 0 /\ worker'.inflight = {}
    BY <1>8 DEF Upgrade, Executing, SessionType, WorkerType
  <2>2. /\ qp = "rts" => \A n \in 1..Len(sq) : FALSE
        /\ \A n \in 1..Len(cq) : ~cq[n].ok
    BY <2>1, RestWhenIdle
  <2>3. qp = "rts" => \A n \in 1..Len(cq) : FALSE
    BY <2>2 DEF Ledger, CompletionLedger
  <2>4. BatchLedger'
    BY <2>1 DEF BatchLedger
  <2>5. CompletionLedger'
    BY <2>1, <2>2, <2>3 DEF CompletionLedger
  <2>6. Cardinality(worker'.inflight) = 0
    BY <2>1, FS_EmptySet
  <2>7. qp = "rts" => Len(sq) = 0 /\ Len(cq) = 0
    BY <2>2, <2>3 DEF SessionType
  <2>8. SendQueueLedger'
    BY <2>1, <2>2, <2>6, <2>7 DEF SendQueueLedger
  <2> QED BY <1>1, <2>1, <2>4, <2>5, <2>8 DEF Ledger
<1>9. CASE Post
  <2>1. UNCHANGED <<moved, reply>>
    BY <1>9 DEF Post
  <2> QED BY <1>1, <1>9, <2>1, LedgerPost
<1>10. ASSUME NEW r \in {"unposted", "unpolled"}, Executing, Finish(r) PROVE FALSE
  <2>1. worker.batch \in Batches /\ reply' = [reply EXCEPT ![worker.batch] = r]
    BY <1>10 DEF Finish, CommandsOnce, Busy, Executing
  <2>2. reply'[worker.batch] = r
    BY <1>0, <2>1
  <2> QED BY <2>1, <2>2 DEF GivenUp
<1>11. CASE PostFails \/ PollFails
  BY <1>10, <1>11 DEF PostFails, PollFails, CanPost, Executing
<1>12. CASE PostedAll \/ PollEmpty
  <2>1. /\ worker'.batch = worker.batch /\ worker'.next = worker.next
        /\ worker'.inflight = worker.inflight /\ Executing /\ Executing'
        /\ UNCHANGED <<sq, cq, qp, moved, reply>>
    BY <1>12 DEF PostedAll, PollEmpty, Executing, SessionType, WorkerType
  <2>2. Ledger'
    BY <2>1 DEF Ledger, BatchLedger, SendQueueLedger, CompletionLedger, Awaited
  <2> QED BY <1>1, <2>1, <2>2
<1>13. CASE Complete
  <2>1. /\ Executing /\ ~Executing' /\ worker.next = Total /\ worker.inflight = {}
        /\ reply' = [reply EXCEPT ![worker.batch] = "ok"] /\ UNCHANGED moved
    BY <1>13 DEF Complete, Finish, Executing, Idle
  <2>2. KeptOrDestroyed
    BY <1>13, DestroyedOrNot DEF Complete, Finish
  <2>3. \A n \in 1..Ops[worker.batch] : <<worker.batch, n>> \in moved
    BY <2>1 DEF Ledger, BatchLedger, Total
  <2>4. OkMeansMoved'
    BY <1>0, <2>1, <2>3 DEF OkMeansMoved
  <2>5. /\ qp = "rts" => \A n \in 1..Len(sq) : FALSE
        /\ \A n \in 1..Len(cq) : ~cq[n].ok
    BY <2>1 DEF Ledger, SendQueueLedger, CompletionLedger, Awaited
  <2> QED BY <2>1, <2>2, <2>4, <2>5, LedgerAtRest
<1>14. CASE PollOne
  <2>1. UNCHANGED <<moved, reply>>
    BY <1>14 DEF PollOne
  <2> QED BY <1>1, <1>14, <2>1, LedgerPoll
<1>15. CASE PollError
  <2>1. /\ cq # <<>> /\ ~Head(cq).ok /\ reply' = [reply EXCEPT ![worker.batch] = "error"]
        /\ ~Executing' /\ UNCHANGED moved
    BY <1>15 DEF PollError, Success, Executing, Idle
  <2>2. \/ cq' = Tail(cq) /\ UNCHANGED <<sq, qp>>
        \/ sq' = <<>> /\ cq' = <<>> /\ qp' = "destroyed"
    BY <1>15 DEF PollError, DestroyUnless
  <2>3. /\ Head(cq) = cq[1] /\ Len(cq) \in Nat \ {0}
        /\ \A n \in 1..Len(Tail(cq)) : Tail(cq)[n] = cq[n + 1] /\ n + 1 \in 1..Len(cq)
    BY <2>1, TailShifts DEF SessionType
  <2>4. 1 \in 1..Len(cq) /\ ~cq[1].ok /\ \A n \in 1..Len(cq) : n = 1 \/ 1 < n
    BY <2>1, <2>3
  <2>5. qp # "rts" /\ \A n \in 1..Len(cq) : ~cq[n].ok
    BY <2>4 DEF Ledger, CompletionLedger
  <2>6. ASSUME cq' = Tail(cq), UNCHANGED <<sq, qp>> PROVE Ledger'
    <3>1. \A n \in 1..Len(cq') : ~cq'[n].ok
      BY <2>3, <2>5, <2>6
    <3> QED BY <2>1, <2>5, <2>6, <3>1
            DEF Ledger, BatchLedger, SendQueueLedger, CompletionLedger
  <2>7. ASSUME sq' = <<>>, cq' = <<>>, qp' = "destroyed" PROVE Ledger'
    <3>1. KeptOrDestroyed
      BY <2>7 DEF KeptOrDestroyed
    <3> QED BY <2>1, <2>5, <3>1, LedgerAtRest
  <2>8. \A b \in Batches : reply'[b] = "ok" => reply[b] = "ok"
    BY <1>0, <2>1
  <2> QED BY <1>1, <2>1, <2>2, <2>6, <2>7, <2>8
<1>16. CASE Nic
  <2>1. moved \subseteq moved' /\ UNCHANGED reply
    BY Zenon, <1>16 DEF Nic, WrSucceeds, WrFails
  <2> QED BY <1>1, <1>16, <2>1, LedgerNic
<1> HIDE DEF Moved
<1> QED
  BY <1>4, <1>5, <1>6, <1>7, <1>8, <1>9, <1>11, <1>12, <1>13, <1>14, <1>15, <1>16
     DEF Next, Worker, Waiting

(***************************************************************************)
(* The invariant holds of a new session.                                   *)
(***************************************************************************)
LEMMA SessionInit == Init => SessionInv
<1> SUFFICES ASSUME Init PROVE SessionInv
  OBVIOUS
<1>1. queue = <<>> /\ sq = <<>> /\ cq = <<>> /\ worker = Idle
  BY DEF Init
<1>2. <<>> \in Seq(Batches) /\ <<>> \in Seq(WorkRequest) /\ <<>> \in Seq(WorkCompletion)
  OBVIOUS
<1>3. SessionType
  BY <1>1, <1>2 DEF Init, SessionType, Idle, WorkerType, Answers
<1>4. CommandsOnce
  BY <1>1 DEF Init, CommandsOnce, Busy, Idle
<1>5. ~Executing /\ PostedPart
  BY <1>1 DEF Executing, PostedPart, Idle
<1>6. OkMeansMoved
  BY DEF Init, OkMeansMoved
<1>7. Ledger
  BY <1>1, <1>5 DEF Ledger, BatchLedger, SendQueueLedger, CompletionLedger
<1> QED BY <1>3, <1>4, <1>5, <1>6, <1>7 DEF SessionInv

(***************************************************************************)
(* Every step keeps the invariant.                                         *)
(***************************************************************************)
LEMMA SessionStep == SessionInv /\ [Next]_vars => SessionInv'
<1> SUFFICES ASSUME SessionInv, [Next]_vars PROVE SessionInv'
  OBVIOUS
<1>1. SessionType' /\ CommandsOnce' /\ PostedPart'
  BY TypeStep, CommandsStep, PostedStep DEF SessionInv
<1>2. ASSUME ~GivenUp' PROVE OkMeansMoved' /\ Ledger'
  <2>1. ~GivenUp
    BY <1>2, GivenUpForGood DEF SessionInv
  <2> QED BY <1>2, <2>1, LedgerStep DEF SessionInv
<1> QED BY <1>1, <1>2 DEF SessionInv

(***************************************************************************)
(* The invariant of the session.                                           *)
(***************************************************************************)
LEMMA SessionInvariant == Spec => []SessionInv
BY SessionInit, SessionStep, PTL DEF Spec

(***************************************************************************)
(* A batch answered Ok has moved all its bytes, on a session that has not  *)
(* given up a batch: execute_batch matches completions to operations right *)
(* whatever fails and whatever earlier batches left in the queues.         *)
(***************************************************************************)
THEOREM OkAlwaysMeansMoved == Spec => []OkMeansMoved
<1>1. SessionInv => OkMeansMoved
  BY DEF SessionInv, OkMeansMoved
<1> QED BY <1>1, SessionInvariant, PTL

(***************************************************************************)
(* Once execute_batch has answered, the NIC can only flush what is left of *)
(* the batch: requests on a working queue pair belong to the batch in      *)
(* execution.                                                              *)
(***************************************************************************)
THEOREM AnsweredAlwaysQuiet == Spec => []AnsweredIsQuiet
<1>1. SessionInv => AnsweredIsQuiet
  <2> SUFFICES ASSUME SessionInv, ~GivenUp, NEW n \in DOMAIN sq, reply[sq[n].batch] # "none",
                      qp = "rts"
               PROVE  FALSE
    BY DEF AnsweredIsQuiet
  <2>1. n \in 1..Len(sq)
    BY DEF SessionInv, SessionType
  <2>2. Awaited(sq[n])
    BY <2>1 DEF SessionInv, Ledger, SendQueueLedger
  <2> QED BY <2>2 DEF SessionInv, Awaited, CommandsOnce, Accepted, Busy, Executing
<1> QED BY <1>1, SessionInvariant, PTL

(***************************************************************************)
(* ibv_post_send never finds the send queue of a working queue pair full:  *)
(* the requests in flight are all that is in the two queues, so the chain  *)
(* that execute_batch cuts fits.                                           *)
(***************************************************************************)
THEOREM QueueAlwaysSuffices == Spec => []QueueSuffices
<1>1. SessionInv => QueueSuffices
  <2> SUFFICES ASSUME SessionInv, ~GivenUp, CanPost, qp = "rts" PROVE Room
    BY DEF QueueSuffices
  <2>1. Len(sq) + Len(cq) = Cardinality(worker.inflight)
    BY DEF SessionInv, Ledger, SendQueueLedger, Executing, CanPost
  <2>2. Cardinality(worker.inflight) + Chain <= MaxSendWr
    BY ChainFits DEF SessionInv
  <2> QED BY <2>1, <2>2 DEF Room
<1> QED BY <1>1, SessionInvariant, PTL

(***************************************************************************)
(* Every command is answered at most once, with or without batches given   *)
(* up: execute_batch, the loop of the worker and its drain never have the  *)
(* same command, and no answer is replaced by a later one.                 *)
(***************************************************************************)
THEOREM AnsweredAtMostOnce == Spec => [][AnswersKept]_vars
<1>1. SessionInv /\ [Next]_vars => [AnswersKept]_vars
  BY AnswersStep DEF SessionInv
<1> QED BY <1>1, SessionInvariant, PTL DEF Spec
=============================================================================
