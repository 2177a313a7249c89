-------------------------- MODULE HandshakeProofs ---------------------------
(***************************************************************************)
(* Theorems about Handshake, for any threads, addresses, NICs and queue    *)
(* pairs: the connecting set is exact and excludes a second handshake, no  *)
(* session is left behind, and connections own their sessions.             *)
(*                                                                         *)
(* None of the four is inductive alone.  That a connection's sessions are  *)
(* its own rests on handshakes being numbered apart, on pending holding    *)
(* all that a prepared handshake made and nothing else, and on the address *)
(* being claimed all the while, so that nobody connects it in between.     *)
(***************************************************************************)
EXTENDS Handshake, TLAPS

Claims ==
  \A a \in Addrs :
    a \in connecting <=> \E t \in Threads : Active(t) /\ thread[t].addr = a

Numbered ==
  /\ \A t \in Threads : Active(t) => thread[t].hs \in 1..begun
  /\ \A t, u \in Threads :
       t # u /\ Active(t) /\ Active(u) => thread[t].hs # thread[u].hs

Popped ==
  \A t \in Threads :
    thread[t].got = IF thread[t].pc = "connect" THEN Made(thread[t].hs) ELSE {}

Prepared ==
  \A t \in Threads : thread[t].pc = "prepared" => Made(thread[t].hs) \subseteq pending

Linked ==
  /\ \A a \in Addrs :
       /\ localNics[a] \in 0..begun
       /\ conns[a] = IF localNics[a] = 0 THEN {} ELSE Made(localNics[a])
  /\ \A a \in Addrs, t \in Threads : Active(t) => thread[t].hs # localNics[a]
  /\ \A a, b \in Addrs : a # b /\ localNics[a] # 0 => localNics[a] # localNics[b]

Inv ==
  /\ TypeOK /\ Claims /\ OneHandshake /\ Numbered
  /\ Popped /\ Prepared /\ NoStraySessions /\ Linked
-----------------------------------------------------------------------------
(***************************************************************************)
(* The sessions of a handshake: there are some, and they carry its number. *)
(***************************************************************************)
LEMMA MadeFacts ==
  ASSUME NEW h
  PROVE  /\ Made(h) # {}
         /\ \A s \in Made(h) : s.hs = h
         /\ h \in 1..MaxHandshakes => Made(h) \subseteq Session
         /\ \A s \in Session : s.hs = h => s \in Made(h)
<1>1. PICK n \in Nics, q \in Qps : TRUE
  BY HandshakeAssumption
<1>2. [hs |-> h, nic |-> n, qp |-> q] \in Made(h)
  BY DEF Made
<1>3. \A s \in Made(h) : s.hs = h
  BY DEF Made
<1>4. h \in 1..MaxHandshakes => Made(h) \subseteq Session
  BY DEF Made, Session
<1>5. \A s \in Session : s.hs = h => s \in Made(h)
  BY DEF Made, Session
<1> QED BY <1>2, <1>3, <1>4, <1>5

(***************************************************************************)
(* A thread that moves on within its handshake keeps its claim: steps of   *)
(* prepare_handshake and complete_handshake_for that neither install nor   *)
(* release the address.                                                    *)
(***************************************************************************)
LEMMA MoveKeeps ==
  ASSUME Inv, NEW t \in Threads, Active(t),
         \A u \in Threads \ {t} : thread'[u] = thread[u],
         thread'[t].pc # "idle",
         thread'[t].addr = thread[t].addr, thread'[t].hs = thread[t].hs,
         UNCHANGED <<connecting, conns, localNics, begun>>
  PROVE  Claims' /\ OneHandshake' /\ Numbered' /\ Linked'
<1>1. \A u \in Threads : Active(u)' <=> Active(u)
  BY DEF Active
<1>2. \A u \in Threads : thread'[u].addr = thread[u].addr /\ thread'[u].hs = thread[u].hs
  OBVIOUS
<1>3. Claims'
  BY <1>1, <1>2 DEF Inv, Claims
<1>4. OneHandshake'
  BY <1>1, <1>2 DEF Inv, OneHandshake, TypeOK
<1>5. Numbered'
  BY <1>1, <1>2 DEF Inv, Numbered
<1>6. Linked'
  BY <1>1, <1>2 DEF Inv, Linked
<1> QED BY <1>3, <1>4, <1>5, <1>6

(***************************************************************************)
(* A thread that ends its handshake releases its address and nobody        *)
(* else's: the three places that remove from the connecting set.           *)
(***************************************************************************)
LEMMA LeaveKeeps ==
  ASSUME Inv, NEW t \in Threads, Active(t),
         \A u \in Threads \ {t} : thread'[u] = thread[u],
         thread'[t].pc = "idle",
         connecting' = connecting \ {thread[t].addr},
         UNCHANGED begun
  PROVE  /\ Claims' /\ Numbered'
         /\ \A u, v \in Threads :
              u # v /\ Active(u)' /\ Active(v)' => thread'[u].addr # thread'[v].addr
         /\ \A u \in Threads : Active(u)' => u # t /\ Active(u)
<1>1. ~Active(t)'
  BY DEF Active
<1>2. \A u \in Threads \ {t} : Active(u)' <=> Active(u)
  BY DEF Active
<1>3. \A u \in Threads \ {t} : Active(u) => thread[u].addr # thread[t].addr
  BY DEF Inv, OneHandshake
<1>4. Claims'
  BY <1>1, <1>2, <1>3 DEF Inv, Claims
<1>5. Numbered'
  BY <1>1, <1>2 DEF Inv, Numbered
<1>6. \A u, v \in Threads :
        u # v /\ Active(u)' /\ Active(v)' => thread'[u].addr # thread'[v].addr
  BY <1>1, <1>2 DEF Inv, OneHandshake
<1> QED BY <1>1, <1>2, <1>4, <1>5, <1>6

(***************************************************************************)
(* The locals of a thread outside the engine.                              *)
(***************************************************************************)
LEMMA IdleType ==
  Idle \in [pc : Pcs, addr : Addrs, hs : 0..MaxHandshakes, got : SUBSET Session]
<1>1. (CHOOSE a \in Addrs : TRUE) \in Addrs
  BY HandshakeAssumption
<1>2. 0 \in 0..MaxHandshakes
  BY HandshakeAssumption
<1> QED BY <1>1, <1>2 DEF Idle, Pcs

(***************************************************************************)
(* The invariant holds of an engine without connections.                   *)
(***************************************************************************)
LEMMA InvInit == Init => Inv
<1> SUFFICES ASSUME Init PROVE Inv
  OBVIOUS
<1>1. Idle.addr \in Addrs
  BY HandshakeAssumption DEF Idle
<1>2. Idle.pc = "idle" /\ Idle.hs = 0 /\ Idle.got = {}
  BY DEF Idle
<1>3. \A t \in Threads : ~Active(t)
  BY Zenon, <1>2 DEF Init, Active
<1>4. TypeOK
  BY <1>1, HandshakeAssumption DEF Init, TypeOK, Pcs, Idle
<1>5. Claims /\ OneHandshake /\ Numbered
  BY <1>3 DEF Init, Claims, OneHandshake, Numbered
<1>6. Popped /\ Prepared /\ NoStraySessions
  BY <1>2 DEF Init, Popped, Prepared, NoStraySessions
<1>7. Linked
  BY <1>3 DEF Init, Linked
<1> QED BY <1>4, <1>5, <1>6, <1>7 DEF Inv

(***************************************************************************)
(* get_or_prepare claims an address nobody has, under a number nobody has. *)
(***************************************************************************)
LEMMA GetOrPrepareKeeps ==
  ASSUME Inv, NEW t \in Threads, NEW a \in Addrs, GetOrPrepare(t, a)
  PROVE  Inv'
<1>1. \A u \in Threads \ {t} : thread'[u] = thread[u]
  BY DEF GetOrPrepare, Inv, TypeOK
<1>2. thread'[t] = [pc |-> "prepare", addr |-> a, hs |-> begun + 1, got |-> {}]
  BY Zenon DEF GetOrPrepare, Inv, TypeOK, Idle
<1>3. begun \in Nat /\ begun' = begun + 1 /\ begun' \in 1..MaxHandshakes
  BY HandshakeAssumption DEF GetOrPrepare, Inv, TypeOK
<1>4. UNCHANGED <<pending, conns, localNics>> /\ connecting' = connecting \cup {a}
  BY DEF GetOrPrepare
<1>5. ~Active(t) /\ Active(t)' /\ \A u \in Threads \ {t} : Active(u)' <=> Active(u)
  BY <1>1, <1>2 DEF GetOrPrepare, Active
<1>6. conns[a] = {} /\ \A u \in Threads : Active(u) => thread[u].addr # a
  BY DEF GetOrPrepare, Claimable, Inv, Claims
<1>7. TypeOK'
  <2>1. thread' \in [Threads -> [pc : Pcs, addr : Addrs, hs : 0..MaxHandshakes,
                                 got : SUBSET Session]]
    <3>1. thread'[t] \in [pc : Pcs, addr : Addrs, hs : 0..MaxHandshakes, got : SUBSET Session]
      BY <1>2, <1>3 DEF Pcs
    <3>2. thread' = [thread EXCEPT ![t] = thread'[t]]
      BY DEF GetOrPrepare, Inv, TypeOK
    <3> QED BY <3>1, <3>2 DEF Inv, TypeOK
  <2>2. begun' \in 0..MaxHandshakes
    BY <1>3
  <2> QED BY <1>4, <2>1, <2>2 DEF Inv, TypeOK
<1>8. Claims'
  BY <1>1, <1>2, <1>4, <1>5 DEF Inv, Claims
<1>9. OneHandshake'
  BY <1>1, <1>2, <1>4, <1>5, <1>6 DEF Inv, OneHandshake
<1>10. Numbered'
  <2>1. \A u \in Threads \ {t} : Active(u) => thread[u].hs \in 1..begun
    BY DEF Inv, Numbered
  <2>2. \A u \in Threads : Active(u)' => thread'[u].hs \in 1..begun'
    BY <1>1, <1>2, <1>3, <1>5, <2>1
  <2>3. \A u \in Threads \ {t} : Active(u)' => thread'[u].hs # thread'[t].hs
    BY <1>1, <1>2, <1>3, <1>5, <2>1
  <2>4. \A u, v \in Threads \ {t} :
          u # v /\ Active(u)' /\ Active(v)' => thread'[u].hs # thread'[v].hs
    BY <1>1, <1>5 DEF Inv, Numbered
  <2> QED BY <2>2, <2>3, <2>4 DEF Numbered
<1>11. Popped'
  BY <1>1, <1>2 DEF Inv, Popped
<1>12. Prepared'
  BY <1>1, <1>2, <1>4 DEF Inv, Prepared
<1>13. NoStraySessions'
  <2>1. \A u \in Threads : thread[u].pc \in {"prepared", "failed"} => thread'[u] = thread[u]
    BY <1>1 DEF GetOrPrepare
  <2> QED BY <1>4, <2>1 DEF Inv, NoStraySessions
<1>14. Linked'
  <2>1. \A b \in Addrs : localNics[b] \in 0..begun
    BY DEF Inv, Linked
  <2>2. \A b \in Addrs : localNics'[b] \in 0..begun' /\ thread'[t].hs # localNics'[b]
    BY <1>2, <1>3, <1>4, <2>1
  <2>3. \A b \in Addrs, u \in Threads : Active(u)' => thread'[u].hs # localNics'[b]
    BY <1>1, <1>4, <1>5, <2>2 DEF Inv, Linked
  <2> QED BY <1>4, <2>2, <2>3 DEF Inv, Linked
<1> QED BY <1>7, <1>8, <1>9, <1>10, <1>11, <1>12, <1>13, <1>14 DEF Inv

(***************************************************************************)
(* prepare_handshake makes new sessions and leaves them pending.           *)
(***************************************************************************)
LEMMA PrepareKeeps ==
  ASSUME Inv, NEW t \in Threads, Prepare(t)
  PROVE  Inv'
<1>1. \A u \in Threads \ {t} : thread'[u] = thread[u]
  BY DEF Prepare, Inv, TypeOK
<1>2. thread'[t] = [thread[t] EXCEPT !.pc = "prepared"]
  BY DEF Prepare, Inv, TypeOK
<1>3. /\ thread'[t].pc = "prepared" /\ thread'[t].addr = thread[t].addr
      /\ thread'[t].hs = thread[t].hs /\ thread'[t].got = thread[t].got
  BY <1>2 DEF Inv, TypeOK
<1>4. thread[t].pc = "prepare" /\ Active(t)
  BY DEF Prepare, Active
<1>5. UNCHANGED <<connecting, conns, localNics, begun>>
      /\ pending' = pending \cup Made(thread[t].hs)
  BY DEF Prepare
<1>6. Claims' /\ OneHandshake' /\ Numbered' /\ Linked'
  BY <1>1, <1>3, <1>4, <1>5, MoveKeeps
<1>7. thread[t].hs \in 1..MaxHandshakes
  BY <1>4, HandshakeAssumption DEF Inv, Numbered, TypeOK
<1>8. TypeOK'
  <2>1. pending' \subseteq Session
    BY <1>5, <1>7, MadeFacts DEF Inv, TypeOK
  <2>2. thread' \in [Threads -> [pc : Pcs, addr : Addrs, hs : 0..MaxHandshakes,
                                 got : SUBSET Session]]
    BY DEF Prepare, Inv, TypeOK, Pcs
  <2> QED BY <1>5, <2>1, <2>2 DEF Inv, TypeOK
<1>9. Popped'
  BY <1>1, <1>3, <1>4 DEF Inv, Popped
<1>10. Prepared'
  BY <1>1, <1>3, <1>5 DEF Inv, Prepared
<1>11. NoStraySessions'
  <2>1. \A s \in Made(thread[t].hs) : s.hs = thread'[t].hs
    BY <1>3, MadeFacts
  <2>2. \A u \in Threads : thread[u].pc \in {"prepared", "failed"} => thread'[u] = thread[u]
    BY <1>1, <1>4
  <2> QED BY <1>3, <1>5, <2>1, <2>2 DEF Inv, NoStraySessions
<1> QED BY <1>6, <1>8, <1>9, <1>10, <1>11 DEF Inv

(***************************************************************************)
(* get_or_prepare gives the address up when no queue pair can be made.     *)
(***************************************************************************)
LEMMA PrepareFailsKeeps ==
  ASSUME Inv, NEW t \in Threads, PrepareFails(t)
  PROVE  Inv'
<1>1. \A u \in Threads \ {t} : thread'[u] = thread[u]
  BY DEF PrepareFails, Inv, TypeOK
<1>2. thread'[t] = Idle
  BY DEF PrepareFails, Inv, TypeOK
<1>3. Idle.pc = "idle" /\ Idle.addr \in Addrs /\ Idle.hs = 0 /\ Idle.got = {}
  BY HandshakeAssumption DEF Idle
<1>4. Active(t)
  BY DEF PrepareFails, Active
<1>5. UNCHANGED <<conns, localNics, begun>> /\ connecting' = connecting \ {thread[t].addr}
  BY DEF PrepareFails
<1>6. /\ Claims' /\ Numbered'
      /\ \A u, v \in Threads :
           u # v /\ Active(u)' /\ Active(v)' => thread'[u].addr # thread'[v].addr
      /\ \A u \in Threads : Active(u)' => u # t /\ Active(u)
  BY <1>1, <1>2, <1>3, <1>4, <1>5, LeaveKeeps
<1>7. OneHandshake' /\ Linked'
  <2>1. \A u \in Threads : Active(u)' => conns'[thread'[u].addr] = {}
    BY <1>1, <1>5, <1>6 DEF Inv, OneHandshake
  <2>2. \A b \in Addrs, u \in Threads : Active(u)' => thread'[u].hs # localNics'[b]
    BY <1>1, <1>5, <1>6 DEF Inv, Linked
  <2> QED BY <1>5, <1>6, <2>1, <2>2 DEF Inv, OneHandshake, Linked
<1>8. TypeOK'
  <2>1. thread' \in [Threads -> [pc : Pcs, addr : Addrs, hs : 0..MaxHandshakes,
                                 got : SUBSET Session]]
    BY IdleType DEF PrepareFails, Inv, TypeOK
  <2> QED BY <1>5, <2>1 DEF PrepareFails, Inv, TypeOK
<1>9. Popped'
  BY <1>1, <1>2, <1>3 DEF Inv, Popped
<1>10. thread[t].pc = "prepare" /\ UNCHANGED pending
  BY DEF PrepareFails
<1>11. Prepared' /\ NoStraySessions'
  <2>1. Prepared'
    BY <1>1, <1>2, <1>3, <1>10 DEF Inv, Prepared
  <2>2. \A u \in Threads : thread[u].pc \in {"prepared", "failed"} => thread'[u] = thread[u]
    BY <1>1, <1>10
  <2> QED BY <1>10, <2>1, <2>2 DEF Inv, NoStraySessions
<1> QED BY <1>6, <1>7, <1>8, <1>9, <1>11 DEF Inv

(***************************************************************************)
(* abort_handshake drops what is pending and releases the address.         *)
(***************************************************************************)
LEMMA AbortKeeps ==
  ASSUME Inv, NEW t \in Threads, Abort(t)
  PROVE  Inv'
<1>1. \A u \in Threads \ {t} : thread'[u] = thread[u]
  BY DEF Abort, Inv, TypeOK
<1>2. thread'[t] = Idle
  BY DEF Abort, Inv, TypeOK
<1>3. Idle.pc = "idle" /\ Idle.addr \in Addrs /\ Idle.hs = 0 /\ Idle.got = {}
  BY HandshakeAssumption DEF Idle
<1>4. Active(t)
  BY DEF Abort, Active
<1>5. UNCHANGED <<conns, localNics, begun>> /\ connecting' = connecting \ {thread[t].addr}
  BY DEF Abort
<1>6. /\ Claims' /\ Numbered'
      /\ \A u, v \in Threads :
           u # v /\ Active(u)' /\ Active(v)' => thread'[u].addr # thread'[v].addr
      /\ \A u \in Threads : Active(u)' => u # t /\ Active(u)
  BY <1>1, <1>2, <1>3, <1>4, <1>5, LeaveKeeps
<1>7. OneHandshake' /\ Linked'
  <2>1. \A u \in Threads : Active(u)' => conns'[thread'[u].addr] = {}
    BY <1>1, <1>5, <1>6 DEF Inv, OneHandshake
  <2>2. \A b \in Addrs, u \in Threads : Active(u)' => thread'[u].hs # localNics'[b]
    BY <1>1, <1>5, <1>6 DEF Inv, Linked
  <2> QED BY <1>5, <1>6, <2>1, <2>2 DEF Inv, OneHandshake, Linked
<1>8. TypeOK'
  <2>1. thread' \in [Threads -> [pc : Pcs, addr : Addrs, hs : 0..MaxHandshakes,
                                 got : SUBSET Session]]
    BY IdleType DEF Abort, Inv, TypeOK
  <2> QED BY <1>5, <2>1 DEF Abort, Inv, TypeOK
<1>9. Popped'
  BY <1>1, <1>2, <1>3 DEF Inv, Popped
<1>10. thread[t].pc = "failed" /\ pending' = pending \ Made(thread[t].hs)
  BY DEF Abort
<1>11. Prepared'
  <2>1. \A u \in Threads \ {t} : Active(u) => thread[u].hs # thread[t].hs
    BY <1>4 DEF Inv, Numbered
  <2>2. ASSUME NEW u \in Threads, thread'[u].pc = "prepared"
        PROVE  Made(thread'[u].hs) \subseteq pending'
    <3>1. u # t /\ thread'[u] = thread[u] /\ Active(u)
      BY <1>1, <1>2, <1>3, <2>2 DEF Active
    <3>2. Made(thread[u].hs) \subseteq pending
      BY <2>2, <3>1 DEF Inv, Prepared
    <3>3. \A r \in Made(thread[u].hs) : r \notin Made(thread[t].hs)
      BY <2>1, <3>1, MadeFacts
    <3> QED BY <1>10, <3>1, <3>2, <3>3
  <2> QED BY <2>2 DEF Prepared
<1>12. NoStraySessions'
  <2>1. ASSUME NEW r \in pending'
        PROVE  \E u \in Threads : /\ thread'[u].pc \in {"prepared", "failed"}
                                  /\ r.hs = thread'[u].hs
    <3>1. r \in pending /\ r \notin Made(thread[t].hs) /\ r \in Session
      BY <1>10, <2>1 DEF Inv, TypeOK
    <3>2. PICK u \in Threads : thread[u].pc \in {"prepared", "failed"} /\ r.hs = thread[u].hs
      BY <3>1 DEF Inv, NoStraySessions
    <3>3. u # t
      BY <3>1, <3>2, MadeFacts
    <3> QED BY <1>1, <3>2, <3>3
  <2> QED BY <2>1 DEF NoStraySessions
<1> QED BY <1>6, <1>7, <1>8, <1>9, <1>11, <1>12 DEF Inv

(***************************************************************************)
(* A failed exchange or a refused answer changes nothing but the thread.   *)
(***************************************************************************)
LEMMA RefusedKeeps ==
  ASSUME Inv, NEW t \in Threads, Refused(t)
  PROVE  Inv'
<1>1. \A u \in Threads \ {t} : thread'[u] = thread[u]
  BY DEF Refused, Inv, TypeOK
<1>2. thread'[t] = [thread[t] EXCEPT !.pc = "failed"]
  BY DEF Refused, Inv, TypeOK
<1>3. /\ thread'[t].pc = "failed" /\ thread'[t].addr = thread[t].addr
      /\ thread'[t].hs = thread[t].hs /\ thread'[t].got = thread[t].got
  BY <1>2 DEF Inv, TypeOK
<1>4. thread[t].pc = "prepared" /\ Active(t)
  BY DEF Refused, Active
<1>5. UNCHANGED <<connecting, pending, conns, localNics, begun>>
  BY DEF Refused
<1>6. Claims' /\ OneHandshake' /\ Numbered' /\ Linked'
  BY <1>1, <1>3, <1>4, <1>5, MoveKeeps
<1>7. TypeOK'
  <2>1. thread' \in [Threads -> [pc : Pcs, addr : Addrs, hs : 0..MaxHandshakes,
                                 got : SUBSET Session]]
    BY SMTT(60) DEF Refused, Inv, TypeOK, Pcs
  <2> QED BY <1>5, <2>1 DEF Inv, TypeOK
<1>8. Popped'
  BY <1>1, <1>3, <1>4 DEF Inv, Popped
<1>9. Prepared'
  BY <1>1, <1>3, <1>5 DEF Inv, Prepared
<1>10. NoStraySessions'
  BY <1>1, <1>3, <1>5 DEF Inv, NoStraySessions
<1> QED BY <1>6, <1>7, <1>8, <1>9, <1>10 DEF Inv

(***************************************************************************)
(* complete_handshake_for finds the address unconnected and all its        *)
(* sessions pending, so the other branches of TakePending are never taken. *)
(***************************************************************************)
LEMMA TakePendingTakesAll ==
  ASSUME Inv, NEW t \in Threads, TakePending(t)
  PROVE  /\ Pops(thread[t].hs) = Made(thread[t].hs)
         /\ pending' = pending \ Made(thread[t].hs)
         /\ UNCHANGED connecting
         /\ thread' = [thread EXCEPT ![t].pc = "connect", ![t].got = Made(thread[t].hs)]
<1>1. thread[t].pc = "prepared" /\ Active(t)
  BY DEF TakePending, Active
<1>2. conns[thread[t].addr] = {}
  BY <1>1 DEF Inv, OneHandshake
<1>3. Made(thread[t].hs) \subseteq pending
  BY <1>1 DEF Inv, Prepared
<1>4. Pops(thread[t].hs) = Made(thread[t].hs)
  BY <1>3 DEF Pops
<1> QED BY <1>2, <1>3, <1>4 DEF TakePending

(***************************************************************************)
(* Taking one handshake's sessions leaves those of the others pending.     *)
(***************************************************************************)
LEMMA TakePendingKeeps ==
  ASSUME Inv, NEW t \in Threads, TakePending(t)
  PROVE  Inv'
<1> DEFINE h == thread[t].hs
<1>1. /\ pending' = pending \ Made(h) /\ UNCHANGED connecting
      /\ thread' = [thread EXCEPT ![t].pc = "connect", ![t].got = Made(h)]
  BY TakePendingTakesAll
<1>2. \A u \in Threads \ {t} : thread'[u] = thread[u]
  BY <1>1 DEF Inv, TypeOK
<1>3. /\ thread'[t].pc = "connect" /\ thread'[t].addr = thread[t].addr
      /\ thread'[t].hs = h /\ thread'[t].got = Made(h)
  BY <1>1 DEF Inv, TypeOK
<1>4. thread[t].pc = "prepared" /\ Active(t)
  BY DEF TakePending, Active
<1>5. UNCHANGED <<connecting, conns, localNics, begun>>
  BY <1>1 DEF TakePending
<1>6. Claims' /\ OneHandshake' /\ Numbered' /\ Linked'
  BY <1>2, <1>3, <1>4, <1>5, MoveKeeps
<1>7. h \in 1..MaxHandshakes
  BY <1>4, HandshakeAssumption DEF Inv, Numbered, TypeOK
<1>8. TypeOK'
  <2>1. Made(h) \in SUBSET Session
    BY <1>7, MadeFacts
  <2>2. thread' \in [Threads -> [pc : Pcs, addr : Addrs, hs : 0..MaxHandshakes,
                                 got : SUBSET Session]]
    BY Zenon, <1>1, <2>1 DEF Inv, TypeOK, Pcs
  <2> QED BY <1>1, <1>5, <2>2 DEF Inv, TypeOK
<1>9. Popped'
  BY <1>2, <1>3 DEF Inv, Popped
<1>10. Prepared'
  <2>1. ASSUME NEW u \in Threads, thread'[u].pc = "prepared"
        PROVE  Made(thread'[u].hs) \subseteq pending'
    <3>1. u # t /\ thread'[u] = thread[u] /\ Active(u)
      BY <1>2, <1>3, <2>1 DEF Active
    <3>2. Made(thread[u].hs) \subseteq pending
      BY <2>1, <3>1 DEF Inv, Prepared
    <3>3. thread[u].hs # h
      BY <1>4, <3>1 DEF Inv, Numbered
    <3>4. \A r \in Made(thread[u].hs) : r \notin Made(h)
      BY <3>3, MadeFacts
    <3> QED BY <1>1, <3>1, <3>2, <3>4
  <2> QED BY <2>1 DEF Prepared
<1>11. NoStraySessions'
  <2>1. ASSUME NEW r \in pending'
        PROVE  \E u \in Threads : /\ thread'[u].pc \in {"prepared", "failed"}
                                  /\ r.hs = thread'[u].hs
    <3>1. r \in pending /\ r \notin Made(h) /\ r \in Session
      BY <1>1, <2>1 DEF Inv, TypeOK
    <3>2. PICK u \in Threads : thread[u].pc \in {"prepared", "failed"} /\ r.hs = thread[u].hs
      BY <3>1 DEF Inv, NoStraySessions
    <3>3. u # t
      BY <3>1, <3>2, MadeFacts
    <3> QED BY <1>2, <3>2, <3>3
  <2> QED BY <2>1 DEF NoStraySessions
<1> QED BY <1>6, <1>8, <1>9, <1>10, <1>11 DEF Inv

(***************************************************************************)
(* Sessions that cannot be connected are dropped with the thread's hold.   *)
(***************************************************************************)
LEMMA ConnectFailsKeeps ==
  ASSUME Inv, NEW t \in Threads, ConnectFails(t)
  PROVE  Inv'
<1>1. \A u \in Threads \ {t} : thread'[u] = thread[u]
  BY DEF ConnectFails, Inv, TypeOK
<1>2. /\ thread'[t].pc = "failed" /\ thread'[t].addr = thread[t].addr
      /\ thread'[t].hs = thread[t].hs /\ thread'[t].got = {}
  BY DEF ConnectFails, Inv, TypeOK
<1>3. thread[t].pc = "connect" /\ Active(t)
  BY DEF ConnectFails, Active
<1>4. UNCHANGED <<connecting, pending, conns, localNics, begun>>
  BY DEF ConnectFails
<1>5. Claims' /\ OneHandshake' /\ Numbered' /\ Linked'
  BY <1>1, <1>2, <1>3, <1>4, MoveKeeps
<1>6. TypeOK'
  <2>1. thread' \in [Threads -> [pc : Pcs, addr : Addrs, hs : 0..MaxHandshakes,
                                 got : SUBSET Session]]
    BY Zenon DEF ConnectFails, Inv, TypeOK, Pcs
  <2> QED BY <1>4, <2>1 DEF Inv, TypeOK
<1>7. Popped'
  BY <1>1, <1>2 DEF Inv, Popped
<1>8. Prepared'
  BY <1>1, <1>2, <1>4 DEF Inv, Prepared
<1>9. NoStraySessions'
  <2>1. \A u \in Threads : thread[u].pc \in {"prepared", "failed"} => thread'[u] = thread[u]
    BY <1>1, <1>3
  <2> QED BY <1>4, <2>1 DEF Inv, NoStraySessions
<1> QED BY <1>5, <1>6, <1>7, <1>8, <1>9 DEF Inv

(***************************************************************************)
(* The connection that complete_handshake_for installs has the sessions    *)
(* of its own handshake, and replaces no other connection.                 *)
(***************************************************************************)
LEMMA InstallKeeps ==
  ASSUME Inv, NEW t \in Threads, Install(t)
  PROVE  Inv'
<1> DEFINE a == thread[t].addr
           h == thread[t].hs
<1>1. \A u \in Threads \ {t} : thread'[u] = thread[u]
  BY DEF Install, Inv, TypeOK
<1>2. thread'[t] = Idle
  BY DEF Install, Inv, TypeOK
<1>3. Idle.pc = "idle" /\ Idle.got = {}
  BY DEF Idle
<1>4. thread[t].pc = "connect" /\ Active(t) /\ a \in Addrs
  BY DEF Install, Active, Inv, TypeOK
<1>5. thread[t].got = Made(h)
  BY <1>4 DEF Inv, Popped
<1>6. UNCHANGED <<pending, begun>> /\ connecting' = connecting \ {a}
  BY DEF Install
<1>7. conns'[a] = Made(h) /\ \A b \in Addrs \ {a} : conns'[b] = conns[b]
  BY <1>4, <1>5 DEF Install, Inv, TypeOK
<1>8. localNics'[a] = h /\ \A b \in Addrs \ {a} : localNics'[b] = localNics[b]
  BY <1>4 DEF Install, Inv, TypeOK
<1>9. h \in 1..begun /\ h \in 1..MaxHandshakes
  BY <1>4, HandshakeAssumption DEF Inv, Numbered, TypeOK
<1>10. /\ Claims' /\ Numbered'
       /\ \A u, v \in Threads :
            u # v /\ Active(u)' /\ Active(v)' => thread'[u].addr # thread'[v].addr
       /\ \A u \in Threads : Active(u)' => u # t /\ Active(u)
  BY <1>1, <1>2, <1>3, <1>4, <1>6, LeaveKeeps
<1>11. OneHandshake'
  <2>1. ASSUME NEW u \in Threads, Active(u)' PROVE conns'[thread'[u].addr] = {}
    <3>1. u # t /\ Active(u) /\ thread'[u] = thread[u]
      BY <1>1, <1>10, <2>1
    <3>2. thread[u].addr \in Addrs \ {a} /\ conns[thread[u].addr] = {}
      BY <1>4, <3>1 DEF Inv, OneHandshake, TypeOK
    <3> QED BY <1>7, <3>1, <3>2
  <2> QED BY <1>10, <2>1 DEF OneHandshake
<1>12. TypeOK'
  <2>1. thread' \in [Threads -> [pc : Pcs, addr : Addrs, hs : 0..MaxHandshakes,
                                 got : SUBSET Session]]
    BY IdleType DEF Install, Inv, TypeOK
  <2>2. conns' \in [Addrs -> SUBSET Session]
    <3>1. thread[t].got \in SUBSET Session
      BY DEF Inv, TypeOK
    <3> QED BY <3>1 DEF Install, Inv, TypeOK
  <2>3. localNics' \in [Addrs -> 0..MaxHandshakes]
    <3>1. thread[t].hs \in 0..MaxHandshakes
      BY DEF Inv, TypeOK
    <3> QED BY <3>1 DEF Install, Inv, TypeOK
  <2> QED BY <1>6, <2>1, <2>2, <2>3 DEF Inv, TypeOK
<1>13. Popped'
  BY <1>1, <1>2, <1>3 DEF Inv, Popped
<1>14. Prepared'
  BY <1>1, <1>2, <1>3, <1>6 DEF Inv, Prepared
<1>15. NoStraySessions'
  <2>1. \A u \in Threads : thread[u].pc \in {"prepared", "failed"} => thread'[u] = thread[u]
    BY <1>1, <1>4
  <2> QED BY <1>6, <2>1 DEF Inv, NoStraySessions
<1>16. Linked'
  <2>1. h # 0 /\ h \in 0..begun
    BY <1>9
  <2>2. \A b \in Addrs :
          /\ localNics'[b] \in 0..begun'
          /\ conns'[b] = IF localNics'[b] = 0 THEN {} ELSE Made(localNics'[b])
    BY <1>6, <1>7, <1>8, <2>1 DEF Inv, Linked
  <2>3. \A b \in Addrs : localNics[b] # h
    BY <1>4 DEF Inv, Linked
  <2>4. \A b \in Addrs, u \in Threads : Active(u)' => thread'[u].hs # localNics'[b]
    <3>1. \A u \in Threads \ {t} : Active(u) => thread[u].hs # h
      BY <1>4 DEF Inv, Numbered
    <3> QED BY <1>1, <1>8, <1>10, <3>1 DEF Inv, Linked
  <2>5. \A b, c \in Addrs : b # c /\ localNics'[b] # 0 => localNics'[b] # localNics'[c]
    BY <1>8, <2>3 DEF Inv, Linked
  <2> QED BY <2>2, <2>4, <2>5 DEF Linked
<1> QED BY <1>10, <1>11, <1>12, <1>13, <1>14, <1>15, <1>16 DEF Inv

(***************************************************************************)
(* invalidate_connection touches no handshake.                             *)
(***************************************************************************)
LEMMA InvalidateKeeps ==
  ASSUME Inv, NEW a \in Addrs, Invalidate(a)
  PROVE  Inv'
<1>1. UNCHANGED <<connecting, pending, thread, begun>>
  BY DEF Invalidate
<1>2. conns'[a] = {} /\ \A b \in Addrs \ {a} : conns'[b] = conns[b]
  BY DEF Invalidate, Inv, TypeOK
<1>3. localNics'[a] = 0 /\ \A b \in Addrs \ {a} : localNics'[b] = localNics[b]
  BY DEF Invalidate, Inv, TypeOK
<1>4. TypeOK'
  <2>1. conns' \in [Addrs -> SUBSET Session] /\ localNics' \in [Addrs -> 0..MaxHandshakes]
    BY HandshakeAssumption DEF Invalidate, Inv, TypeOK
  <2> QED BY <1>1, <2>1 DEF Inv, TypeOK
<1>5. Claims' /\ Numbered' /\ Popped' /\ Prepared' /\ NoStraySessions'
  BY <1>1 DEF Inv, Claims, Numbered, Popped, Prepared, NoStraySessions, Active
<1>6. OneHandshake'
  <2>1. \A u \in Threads : thread[u].addr \in Addrs
    BY DEF Inv, TypeOK
  <2> QED BY <1>1, <1>2, <2>1 DEF Inv, OneHandshake, Active
<1>7. Linked'
  <2>1. \A t \in Threads : Active(t) => thread[t].hs # 0
    BY DEF Inv, Numbered
  <2>2. begun \in Nat
    BY DEF Inv, TypeOK
  <2> QED BY SMTT(60), <1>1, <1>2, <1>3, <2>1, <2>2 DEF Inv, Linked, Active
<1> QED BY <1>4, <1>5, <1>6, <1>7 DEF Inv

(***************************************************************************)
(* Every step keeps the invariant.                                         *)
(***************************************************************************)
LEMMA InvNext == Inv /\ [Next]_vars => Inv'
<1> SUFFICES ASSUME Inv, [Next]_vars PROVE Inv'
  OBVIOUS
<1>1. ASSUME NEW t \in Threads, Step(t) PROVE Inv'
  BY <1>1, PrepareKeeps, PrepareFailsKeeps, RefusedKeeps, TakePendingKeeps,
     ConnectFailsKeeps, InstallKeeps, AbortKeeps DEF Step
<1>2. ASSUME NEW t \in Threads, NEW a \in Addrs, GetOrPrepare(t, a) PROVE Inv'
  BY <1>2, GetOrPrepareKeeps
<1>3. ASSUME NEW a \in Addrs, Invalidate(a) PROVE Inv'
  BY <1>3, InvalidateKeeps
<1>4. CASE UNCHANGED vars
  BY <1>4 DEF vars, Inv, TypeOK, Claims, OneHandshake, Numbered, Popped, Prepared,
     NoStraySessions, Linked, Active
<1> QED BY <1>1, <1>2, <1>3, <1>4 DEF Next

(***************************************************************************)
(* The invariant always holds.                                             *)
(***************************************************************************)
LEMMA InvAlways == Spec => []Inv
BY InvInit, InvNext, PTL DEF Spec

-----------------------------------------------------------------------------
(***************************************************************************)
(* The state of the handshakes is well-formed: only handshakes that were   *)
(* begun are named in sessions, connections and threads (RcBackendState).  *)
(***************************************************************************)
THEOREM HandshakeTypeCorrect == Spec => []TypeOK
<1>1. Inv => TypeOK
  BY DEF Inv
<1> QED BY <1>1, InvAlways, PTL

(***************************************************************************)
(* The connecting set never lets two threads make queue pairs for the same *)
(* peer, nor for one that is connected already (get_or_prepare).           *)
(***************************************************************************)
THEOREM NeverTwoHandshakes == Spec => []OneHandshake
<1>1. Inv => OneHandshake
  BY DEF Inv
<1> QED BY <1>1, InvAlways, PTL

(***************************************************************************)
(* The debug_assert!s of get_or_prepare, complete_handshake_for and        *)
(* abort_handshake hold: what is in the connecting set is what threads are *)
(* working on.                                                             *)
(***************************************************************************)
THEOREM ConnectingAlwaysExact == Spec => []ConnectingExact
<1>1. Inv => ConnectingExact
  <2> SUFFICES ASSUME Inv PROVE ConnectingExact
    OBVIOUS
  <2>1. connecting \subseteq Addrs /\ \A t \in Threads : thread[t].addr \in Addrs
    BY DEF Inv, TypeOK
  <2> QED BY <2>1 DEF Inv, Claims, ConnectingExact
<1> QED BY <1>1, InvAlways, PTL

(***************************************************************************)
(* No failure of a handshake leaves a session in the pending queues.       *)
(***************************************************************************)
THEOREM SessionsNeverStray == Spec => []NoStraySessions
<1>1. Inv => NoStraySessions
  BY DEF Inv
<1> QED BY <1>1, InvAlways, PTL

(***************************************************************************)
(* A connection always has exactly the sessions its peer was told of, and  *)
(* shares none with another connection or handshake (AddrConnection).      *)
(***************************************************************************)
THEOREM SessionsAlwaysOwn == Spec => []OwnSessions
<1>1. Inv => OwnSessions
  <2> SUFFICES ASSUME Inv, NEW a \in Addrs, conns[a] # {}
               PROVE  /\ conns[a] = Made(localNics[a])
                      /\ conns[a] \cap pending = {}
                      /\ \A b \in Addrs \ {a} : conns[a] \cap conns[b] = {}
                      /\ \A t \in Threads : conns[a] \cap thread[t].got = {}
    BY DEF OwnSessions
  <2>1. localNics[a] # 0 /\ conns[a] = Made(localNics[a])
    BY DEF Inv, Linked
  <2>2. \A s \in conns[a] : s.hs = localNics[a]
    BY <2>1, MadeFacts
  <2>3. \A t \in Threads : Active(t) => thread[t].hs # localNics[a]
    BY DEF Inv, Linked
  <2>4. conns[a] \cap pending = {}
    BY <2>2, <2>3 DEF Inv, NoStraySessions, Active
  <2>5. ASSUME NEW b \in Addrs \ {a} PROVE conns[a] \cap conns[b] = {}
    <3>1. localNics[a] # localNics[b]
      BY <2>1 DEF Inv, Linked
    <3>2. \A s \in conns[b] : s.hs = localNics[b]
      BY MadeFacts DEF Inv, Linked
    <3> QED BY <2>2, <3>1, <3>2
  <2>6. ASSUME NEW t \in Threads PROVE conns[a] \cap thread[t].got = {}
    <3>1. CASE thread[t].pc = "connect"
      <4>1. thread[t].got = Made(thread[t].hs) /\ Active(t)
        BY <3>1 DEF Inv, Popped, Active
      <4>2. \A s \in thread[t].got : s.hs = thread[t].hs
        BY <4>1, MadeFacts
      <4> QED BY <2>2, <2>3, <4>1, <4>2
    <3>2. CASE thread[t].pc # "connect"
      BY <3>2 DEF Inv, Popped
    <3> QED BY <3>1, <3>2
  <2> QED BY <2>1, <2>4, <2>5, <2>6
<1> QED BY <1>1, InvAlways, PTL
=============================================================================
