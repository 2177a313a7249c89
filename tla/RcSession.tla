----------------------------- MODULE RcSession ------------------------------
(***************************************************************************)
(* One RDMA session (crates/pegastore-rdma/src/rc_backend/session.rs): a   *)
(* queue pair, its completion queue and the worker thread that executes    *)
(* the batches sent to it, one after the other.  The session lives while   *)
(* the connection, a caller of batch_transfer_async or the worker's        *)
(* current batch holds it; the worker holds only a weak reference between  *)
(* batches.  The queue pair and its completions are the NIC's part: work   *)
(* requests complete in order, and after one that fails the rest are       *)
(* flushed.                                                                *)
(***************************************************************************)
EXTENDS Integers, Sequences, FiniteSets, FiniteSetsExt

CONSTANTS
  Batches,     \* the batches callers send to this session
  Ops,         \* the number of operations of every batch
  Oversize,    \* the operations <<batch, n>> longer than u32::MAX
  MaxSendWr,   \* MAX_SEND_WR, also the size of the completion queue
  MaxChain,    \* MAX_WR_CHAIN_OPS
  Faults       \* what may fail: "wire", a work request; "poll", a poll

ASSUME SessionAssumption ==
  /\ Ops \in [Batches -> Nat]
  /\ MaxSendWr \in Nat \ {0}
  /\ MaxChain \in Nat \ {0}
  /\ Faults \subseteq {"wire", "poll"}

VARIABLES
  conn,     \* the connection holds the session
  caller,   \* where every batch's caller is: "new", "holds", "sent", "gone"
  queue,    \* the command channel
  worker,   \* the worker thread: pc and the locals of execute_batch
  sq,       \* work requests posted and not yet completed
  cq,       \* completions not yet polled
  qp,       \* state of the queue pair: "rts", "error" or "destroyed"
  reply,    \* what every batch was answered, "none" if nothing yet
  moved     \* the operations that really took place

vars == <<conn, caller, queue, worker, sq, cq, qp, reply, moved>>

Idle == [pc |-> "recv", batch |-> CHOOSE b \in Batches : TRUE, next |-> 0, inflight |-> {}]

Executing == worker.pc \in {"post", "poll"}

(***************************************************************************)
(* Somebody holds a strong reference.                                      *)
(***************************************************************************)
\* Mutant: the worker holds a strong reference for as long as it runs.
AliveByWorker ==
  conn \/ (\E b \in Batches : caller[b] \in {"holds", "sent"}) \/ worker.pc # "stopped"

Alive == conn \/ (\E b \in Batches : caller[b] \in {"holds", "sent"}) \/ Executing

(***************************************************************************)
(* The last reference destroys the queue pair with all that is in it.      *)
(***************************************************************************)
DestroyUnless(alive) ==
  IF alive THEN UNCHANGED <<sq, cq, qp>>
  ELSE sq' = <<>> /\ cq' = <<>> /\ qp' = "destroyed"

-----------------------------------------------------------------------------
(***************************************************************************)
(* batch_transfer_async: take the session from the connection, send the    *)
(* command, return.  invalidate_connection lets go of the session.         *)
(***************************************************************************)
TakeSession(b) ==
  /\ conn
  /\ caller[b] = "new"
  /\ caller' = [caller EXCEPT ![b] = "holds"]
  /\ UNCHANGED <<conn, queue, worker, sq, cq, qp, reply, moved>>

\* The batch is refused while its operations are resolved, or has none for
\* this session; the caller may come again.
LetGo(b) ==
  /\ caller[b] = "holds"
  /\ caller' = [caller EXCEPT ![b] = "new"]
  /\ UNCHANGED <<conn, queue, worker, reply, moved>>
  /\ DestroyUnless(Alive')

Send(b) ==
  /\ caller[b] = "holds"
  /\ caller' = [caller EXCEPT ![b] = "sent"]
  /\ queue' = Append(queue, b)
  /\ UNCHANGED <<conn, worker, sq, cq, qp, reply, moved>>

Return(b) ==
  /\ caller[b] = "sent"
  /\ caller' = [caller EXCEPT ![b] = "gone"]
  /\ UNCHANGED <<conn, queue, worker, reply, moved>>
  /\ DestroyUnless(Alive')

Invalidate ==
  /\ conn
  /\ conn' = FALSE
  /\ UNCHANGED <<caller, queue, worker, reply, moved>>
  /\ DestroyUnless(Alive')

-----------------------------------------------------------------------------
(***************************************************************************)
(* The worker's loop: receive, upgrade the weak reference, execute; a      *)
(* session that is gone has its commands answered all the same.            *)
(***************************************************************************)
Recv ==
  /\ worker.pc = "recv"
  /\ queue # <<>>
  /\ worker' = [worker EXCEPT !.pc = "upgrade", !.batch = Head(queue)]
  /\ queue' = Tail(queue)
  /\ UNCHANGED <<conn, caller, sq, cq, qp, reply, moved>>

RecvDisconnected ==
  /\ worker.pc = "recv"
  /\ queue = <<>>
  /\ ~Alive
  /\ worker' = [Idle EXCEPT !.pc = "stopped"]
  /\ UNCHANGED <<conn, caller, queue, sq, cq, qp, reply, moved>>

Upgrade ==
  /\ worker.pc = "upgrade"
  /\ Alive
  /\ worker' = [worker EXCEPT !.pc = "post", !.next = 0, !.inflight = {}]
  /\ UNCHANGED <<conn, caller, queue, sq, cq, qp, reply, moved>>

UpgradeFails ==
  /\ worker.pc = "upgrade"
  /\ ~Alive
  /\ reply' = [reply EXCEPT ![worker.batch] = "invalidated"]
  /\ worker' = [Idle EXCEPT !.pc = "drain"]
  /\ UNCHANGED <<conn, caller, queue, sq, cq, qp, moved>>

\* Mutant: the commands still queued are dropped with the channel.
DrainNothing ==
  /\ worker.pc = "drain"
  /\ worker' = [Idle EXCEPT !.pc = "stopped"]
  /\ queue' = <<>>
  /\ UNCHANGED <<conn, caller, sq, cq, qp, reply, moved>>

Drain ==
  /\ worker.pc = "drain"
  /\ IF queue = <<>>
     THEN worker' = [Idle EXCEPT !.pc = "stopped"] /\ UNCHANGED <<queue, reply>>
     ELSE /\ reply' = [reply EXCEPT ![Head(queue)] = "invalidated"]
          /\ queue' = Tail(queue)
          /\ UNCHANGED worker
  /\ UNCHANGED <<conn, caller, sq, cq, qp, moved>>

(***************************************************************************)
(* The end of execute_batch: answer, and drop the reference.               *)
(***************************************************************************)
Finish(result) ==
  /\ reply' = [reply EXCEPT ![worker.batch] = result]
  /\ worker' = Idle
  /\ UNCHANGED <<conn, caller, queue, moved>>
  /\ DestroyUnless(Alive')

-----------------------------------------------------------------------------
(***************************************************************************)
(* execute_batch.  Work request ids count from 1 in every batch; next is   *)
(* the number of operations posted so far, so operation n has id n.        *)
(***************************************************************************)
Total == Ops[worker.batch]

\* Mutant: the requests in flight do not count against the send queue.
ChainOfAll == Min({MaxChain, MaxSendWr, Total - worker.next})

Chain == Min({MaxChain, MaxSendWr - Cardinality(worker.inflight), Total - worker.next})

CanPost ==
  /\ worker.pc = "post"
  /\ worker.next < Total
  /\ Cardinality(worker.inflight) < MaxSendWr

NextOps == worker.next + 1 .. worker.next + Chain

TooLong == \E n \in NextOps : <<worker.batch, n>> \in Oversize

(***************************************************************************)
(* The send queue has as many entries as requests posted and not polled.   *)
(***************************************************************************)
Room == Len(sq) + Len(cq) + Chain <= MaxSendWr

Post ==
  /\ CanPost
  /\ ~TooLong
  /\ Room
  /\ sq' = sq \o [n \in 1..Chain |-> [batch |-> worker.batch, id |-> worker.next + n]]
  /\ worker' = [worker EXCEPT !.next = @ + Chain, !.inflight = @ \cup NextOps]
  /\ UNCHANGED <<conn, caller, queue, cq, qp, reply, moved>>

PostFails ==
  /\ CanPost
  /\ TooLong \/ ~Room
  /\ Finish("unposted")

PostedAll ==
  /\ worker.pc = "post"
  /\ ~CanPost
  /\ worker.next < Total \/ worker.inflight # {}
  /\ worker' = [worker EXCEPT !.pc = "poll"]
  /\ UNCHANGED <<conn, caller, queue, sq, cq, qp, reply, moved>>

\* Mutant: the batch is answered once everything is posted.
CompleteEarly ==
  /\ worker.pc = "post"
  /\ worker.next = Total
  /\ Finish("ok")

Complete ==
  /\ worker.pc = "post"
  /\ worker.next = Total
  /\ worker.inflight = {}
  /\ Finish("ok")

PollEmpty ==
  /\ worker.pc = "poll"
  /\ cq = <<>>
  /\ worker' = [worker EXCEPT !.pc = "post"]
  /\ UNCHANGED <<conn, caller, queue, sq, cq, qp, reply, moved>>

\* Mutant: the status of a completion is not looked at.
AnyStatus(wc) == TRUE

Success(wc) == wc.ok

(***************************************************************************)
(* A completion whose id is not in flight is skipped.                      *)
(***************************************************************************)
PollOne ==
  /\ worker.pc = "poll"
  /\ cq # <<>>
  /\ Head(cq).id \in worker.inflight => Success(Head(cq))
  /\ cq' = Tail(cq)
  /\ worker' = [worker EXCEPT !.inflight = @ \ {Head(cq).id}]
  /\ UNCHANGED <<conn, caller, queue, sq, qp, reply, moved>>

PollError ==
  /\ worker.pc = "poll"
  /\ cq # <<>>
  /\ Head(cq).id \in worker.inflight /\ ~Success(Head(cq))
  /\ reply' = [reply EXCEPT ![worker.batch] = "error"]
  /\ worker' = Idle
  /\ UNCHANGED <<conn, caller, queue, moved>>
  /\ IF Alive' THEN cq' = Tail(cq) /\ UNCHANGED <<sq, qp>> ELSE DestroyUnless(FALSE)

PollFails ==
  /\ "poll" \in Faults
  /\ worker.pc = "poll"
  /\ Finish("unpolled")

-----------------------------------------------------------------------------
(***************************************************************************)
(* The NIC.                                                                *)
(***************************************************************************)
Completion(ok) == [batch |-> Head(sq).batch, id |-> Head(sq).id, ok |-> ok]

WrSucceeds ==
  /\ qp = "rts"
  /\ sq # <<>>
  /\ moved' = moved \cup {<<Head(sq).batch, Head(sq).id>>}
  /\ sq' = Tail(sq)
  /\ cq' = Append(cq, Completion(TRUE))
  /\ UNCHANGED <<conn, caller, queue, worker, qp, reply>>

WrFails ==
  /\ sq # <<>>
  /\ qp = "error" \/ (qp = "rts" /\ "wire" \in Faults)
  /\ qp' = "error"
  /\ sq' = Tail(sq)
  /\ cq' = Append(cq, Completion(FALSE))
  /\ UNCHANGED <<conn, caller, queue, worker, reply, moved>>

-----------------------------------------------------------------------------
Init ==
  /\ conn = TRUE
  /\ caller = [b \in Batches |-> "new"]
  /\ queue = <<>>
  /\ worker = Idle
  /\ sq = <<>>
  /\ cq = <<>>
  /\ qp = "rts"
  /\ reply = [b \in Batches |-> "none"]
  /\ moved = {}

Worker ==
  \/ Recv \/ RecvDisconnected \/ Upgrade \/ UpgradeFails \/ Drain
  \/ Post \/ PostFails \/ PostedAll \/ Complete
  \/ PollEmpty \/ PollOne \/ PollError \/ PollFails

Nic == WrSucceeds \/ WrFails

(***************************************************************************)
(* The worker has returned, or is blocked on an empty channel.             *)
(***************************************************************************)
Waiting == worker.pc \in {"recv", "stopped"} /\ queue = <<>> /\ UNCHANGED vars

Next ==
  \/ \E b \in Batches : TakeSession(b) \/ LetGo(b) \/ Send(b) \/ Return(b)
  \/ Invalidate
  \/ Worker
  \/ Nic
  \/ Waiting

(***************************************************************************)
(* The worker and the NIC keep going, and a caller that has the session    *)
(* sends its command or lets go of it, and returns.  Nobody need           *)
(* invalidate the connection.                                              *)
(***************************************************************************)
Spec ==
  /\ Init /\ [][Next]_vars
  /\ WF_vars(Worker) /\ WF_vars(Nic)
  /\ \A b \in Batches : WF_vars(Send(b)) /\ WF_vars(Return(b))
-----------------------------------------------------------------------------
(***************************************************************************)
(* A batch that cannot be posted or polled any further is given up with    *)
(* requests still in flight, and the next batch counts its ids from 1      *)
(* again: a late completion passes for one of its own.  The three          *)
(* properties below hold only until that happens.                          *)
(***************************************************************************)
GivenUp == \E b \in Batches : reply[b] \in {"unposted", "unpolled"}

(***************************************************************************)
(* A receiver "yields the bytes transferred": a batch is answered Ok only  *)
(* when every one of its operations has taken place, on a session that has *)
(* not given up a batch.                                                   *)
(***************************************************************************)
OkMeansMoved ==
  ~GivenUp =>
    \A b \in Batches : reply[b] = "ok" => \A n \in 1..Ops[b] : <<b, n>> \in moved

(***************************************************************************)
(* Once a batch is answered the NIC no longer touches its memory: what is  *)
(* left of it in the send queue can only be flushed.                       *)
(***************************************************************************)
AnsweredIsQuiet ==
  ~GivenUp => \A n \in DOMAIN sq : reply[sq[n].batch] # "none" => qp # "rts"

(***************************************************************************)
(* "all WRs are signaled, so CQ depth = SQ depth suffices": posting a      *)
(* chain on a working queue pair never finds the send queue full.          *)
(***************************************************************************)
QueueSuffices == ~GivenUp /\ CanPost /\ qp = "rts" => Room

(***************************************************************************)
(* "fail accepted commands explicitly instead of dropping them": every     *)
(* command that was sent is answered, whenever the session dies.           *)
(***************************************************************************)
AllAnswered ==
  \A b \in Batches : (caller[b] = "sent") ~> (reply[b] # "none")

(***************************************************************************)
(* "every invalidated connection would leak its thread + QP": once the     *)
(* connection is gone, the worker stops and the queue pair is destroyed.   *)
(***************************************************************************)
NoThreadLeak == ~conn ~> (worker.pc = "stopped" /\ qp = "destroyed")
=============================================================================
