----------------------------- MODULE Handshake ------------------------------
(***************************************************************************)
(* How an RDMA engine connects to its peers                                *)
(* (crates/pegastore-rdma/src/rc_backend/mod.rs and state.rs).  A thread   *)
(* that finds an address unconnected claims it, creates queue pairs,       *)
(* exchanges their endpoints with the peer out of band and completes or    *)
(* aborts the handshake.  The state lock is not held while queue pairs are *)
(* created or connected, so threads interleave between those steps.  As    *)
(* ConnectionStatus asks, a thread whose handshake fails aborts it.        *)
(***************************************************************************)
EXTENDS Integers

CONSTANTS
  Threads,         \* callers of the engine
  Addrs,           \* remote addresses
  Nics, Qps,       \* the NICs, and the queue pairs per NIC and peer
  MaxHandshakes    \* bound: the number of handshakes begun

(***************************************************************************)
(* RcBackend::new refuses to start without NICs or queue pairs.            *)
(***************************************************************************)
ASSUME HandshakeAssumption ==
  MaxHandshakes \in Nat /\ Addrs # {} /\ Nics # {} /\ Qps # {}

(***************************************************************************)
(* A session is named by the handshake that made it, its NIC and its       *)
(* place; its local queue pair number identifies it in the same way.       *)
(***************************************************************************)
Session == [hs : 1..MaxHandshakes, nic : Nics, qp : Qps]

Made(h) == [hs : {h}, nic : Nics, qp : Qps]

VARIABLES
  connecting,   \* RcBackendState.connecting
  pending,      \* the sessions in PerNicState.pending of all NICs
  conns,        \* addr_connections: the sessions of every address, {} if none
  localNics,    \* AddrConnection.local_nics: the handshake it was made with
  thread,       \* every thread's pc, address, handshake and popped sessions
  begun         \* handshakes begun so far

vars == <<connecting, pending, conns, localNics, thread, begun>>

Idle == [pc |-> "idle", addr |-> CHOOSE a \in Addrs : TRUE, hs |-> 0, got |-> {}]

Active(t) == thread[t].pc # "idle"

-----------------------------------------------------------------------------
(***************************************************************************)
(* get_or_prepare: an address that is connected or connecting is left to   *)
(* the thread that has it.  The sessions are created without the lock.     *)
(***************************************************************************)
\* Mutant: an address that another thread is connecting can be claimed.
UnconnectedOnly(a) == conns[a] = {}

Claimable(a) == conns[a] = {} /\ a \notin connecting

GetOrPrepare(t, a) ==
  /\ thread[t].pc = "idle"
  /\ begun < MaxHandshakes
  /\ Claimable(a)
  /\ connecting' = connecting \cup {a}
  /\ begun' = begun + 1
  /\ thread' = [thread EXCEPT ![t] = [Idle EXCEPT !.pc = "prepare", !.addr = a,
                                                  !.hs = begun + 1]]
  /\ UNCHANGED <<pending, conns, localNics>>

Prepare(t) ==
  /\ thread[t].pc = "prepare"
  /\ pending' = pending \cup Made(thread[t].hs)
  /\ thread' = [thread EXCEPT ![t].pc = "prepared"]
  /\ UNCHANGED <<connecting, conns, localNics, begun>>

PrepareFails(t) ==
  /\ thread[t].pc = "prepare"
  /\ connecting' = connecting \ {thread[t].addr}
  /\ thread' = [thread EXCEPT ![t] = Idle]
  /\ UNCHANGED <<pending, conns, localNics, begun>>

(***************************************************************************)
(* The exchange fails, or complete_handshake_for finds that the peer has   *)
(* another number of NICs or queue pairs.                                  *)
(***************************************************************************)
Refused(t) ==
  /\ thread[t].pc = "prepared"
  /\ thread' = [thread EXCEPT ![t].pc = "failed"]
  /\ UNCHANGED <<connecting, pending, conns, localNics, begun>>

(***************************************************************************)
(* complete_handshake_for, first critical section: take the sessions out   *)
(* of pending by their numbers; the peer may turn out to be connected, or  *)
(* a session missing, in branches that the invariants below rule out.      *)
(***************************************************************************)
\* Mutant: the sessions that were prepared first are taken, whoever did it.
PopsFirst(h) ==
  {s \in pending : \A r \in pending : (s.nic = r.nic /\ s.qp = r.qp) => s.hs <= r.hs}

Pops(h) == pending \cap Made(h)

TakePending(t) ==
  LET a == thread[t].addr
      h == thread[t].hs
  IN  /\ thread[t].pc = "prepared"
      /\ pending' = pending \ Pops(h)
      /\ IF conns[a] # {}
         THEN /\ connecting' = connecting \ {a}
              /\ thread' = [thread EXCEPT ![t] = Idle]
         ELSE /\ UNCHANGED connecting
              /\ thread' = IF Made(h) \subseteq pending
                           THEN [thread EXCEPT ![t].pc = "connect", ![t].got = Pops(h)]
                           ELSE [thread EXCEPT ![t].pc = "failed"]
      /\ UNCHANGED <<conns, localNics, begun>>

(***************************************************************************)
(* The queue pairs are connected without the lock.                         *)
(***************************************************************************)
ConnectFails(t) ==
  /\ thread[t].pc = "connect"
  /\ thread' = [thread EXCEPT ![t].pc = "failed", ![t].got = {}]
  /\ UNCHANGED <<connecting, pending, conns, localNics, begun>>

Install(t) ==
  LET a == thread[t].addr
  IN  /\ thread[t].pc = "connect"
      /\ connecting' = connecting \ {a}
      /\ conns' = [conns EXCEPT ![a] = thread[t].got]
      /\ localNics' = [localNics EXCEPT ![a] = thread[t].hs]
      /\ thread' = [thread EXCEPT ![t] = Idle]
      /\ UNCHANGED <<pending, begun>>

\* Mutants: the sessions of the aborted handshake stay pending; an abort is
\* ignored when no session is pending any more.
AbortKeeping(t) ==
  /\ thread[t].pc = "failed"
  /\ connecting' = connecting \ {thread[t].addr}
  /\ thread' = [thread EXCEPT ![t] = Idle]
  /\ UNCHANGED <<pending, conns, localNics, begun>>

AbortPending(t) ==
  /\ thread[t].pc = "failed"
  /\ pending \cap Made(thread[t].hs) # {}
  /\ connecting' = connecting \ {thread[t].addr}
  /\ pending' = pending \ Made(thread[t].hs)
  /\ thread' = [thread EXCEPT ![t] = Idle]
  /\ UNCHANGED <<conns, localNics, begun>>

Abort(t) ==
  /\ thread[t].pc = "failed"
  /\ connecting' = connecting \ {thread[t].addr}
  /\ pending' = pending \ Made(thread[t].hs)
  /\ thread' = [thread EXCEPT ![t] = Idle]
  /\ UNCHANGED <<conns, localNics, begun>>

Invalidate(a) ==
  /\ conns[a] # {}
  /\ conns' = [conns EXCEPT ![a] = {}]
  /\ localNics' = [localNics EXCEPT ![a] = 0]
  /\ UNCHANGED <<connecting, pending, thread, begun>>

-----------------------------------------------------------------------------
Init ==
  /\ connecting = {}
  /\ pending = {}
  /\ conns = [a \in Addrs |-> {}]
  /\ localNics = [a \in Addrs |-> 0]
  /\ thread = [t \in Threads |-> Idle]
  /\ begun = 0

Step(t) ==
  \/ Prepare(t) \/ PrepareFails(t) \/ Refused(t) \/ TakePending(t)
  \/ ConnectFails(t) \/ Install(t) \/ Abort(t)

Next ==
  \/ \E t \in Threads : Step(t) \/ \E a \in Addrs : GetOrPrepare(t, a)
  \/ \E a \in Addrs : Invalidate(a)

(***************************************************************************)
(* A thread inside the engine keeps running, and one that was given        *)
(* handshake data goes on to complete or to abort.                         *)
(***************************************************************************)
Spec == Init /\ [][Next]_vars /\ \A t \in Threads : WF_vars(Step(t))
-----------------------------------------------------------------------------
(***************************************************************************)
(* Type invariant.                                                         *)
(***************************************************************************)
Pcs == {"idle", "prepare", "prepared", "connect", "failed"}

TypeOK ==
  /\ connecting \subseteq Addrs
  /\ pending \subseteq Session
  /\ conns \in [Addrs -> SUBSET Session]
  /\ localNics \in [Addrs -> 0..MaxHandshakes]
  /\ thread \in [Threads -> [pc : Pcs, addr : Addrs, hs : 0..MaxHandshakes, got : SUBSET Session]]
  /\ begun \in 0..MaxHandshakes

(***************************************************************************)
(* The connecting set "prevents concurrent `get_or_prepare` calls from     *)
(* creating duplicate QPs for the same peer": no two threads work on one   *)
(* address, and none on an address that is connected.                      *)
(***************************************************************************)
OneHandshake ==
  /\ \A t, u \in Threads :
       t # u /\ Active(t) /\ Active(u) => thread[t].addr # thread[u].addr
  /\ \A t \in Threads : Active(t) => conns[thread[t].addr] = {}

(***************************************************************************)
(* The debug_assert!s on the connecting set: the addresses in it are       *)
(* exactly those some thread is working on, so no failure leaves an        *)
(* address that answers Connecting for ever.                               *)
(***************************************************************************)
ConnectingExact == connecting = {thread[t].addr : t \in {u \in Threads : Active(u)}}

(***************************************************************************)
(* No session is left behind in pending: each is one that a running        *)
(* handshake has yet to take or to drop.                                   *)
(***************************************************************************)
NoStraySessions ==
  \A s \in pending :
    \E t \in Threads : thread[t].pc \in {"prepared", "failed"} /\ s.hs = thread[t].hs

(***************************************************************************)
(* "we must find our own sessions by QPN": a connection has exactly the    *)
(* sessions whose endpoints its peer was sent, and nobody else has any.    *)
(***************************************************************************)
OwnSessions ==
  \A a \in Addrs :
    conns[a] # {} =>
      /\ conns[a] = Made(localNics[a])
      /\ conns[a] \cap pending = {}
      /\ \A b \in Addrs \ {a} : conns[a] \cap conns[b] = {}
      /\ \A t \in Threads : conns[a] \cap thread[t].got = {}

(***************************************************************************)
(* Every handshake ends: an address does not stay in the connecting set.   *)
(***************************************************************************)
HandshakesEnd ==
  \A t \in Threads : Active(t) ~> ~Active(t)
=============================================================================
