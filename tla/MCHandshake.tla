---------------------------- MODULE MCHandshake -----------------------------
(***************************************************************************)
(* Handshake with three threads, two addresses and two NICs.               *)
(***************************************************************************)
EXTENDS Handshake

CONSTANTS t1, t2, t3, a1, a2, n1, n2
=============================================================================
