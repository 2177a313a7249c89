---------------------------- MODULE MCRcSession -----------------------------
(***************************************************************************)
(* RcSession with three short batches, chains of two and a send queue of   *)
(* three.  The last operation of the second batch is too long to post.     *)
(***************************************************************************)
EXTENDS RcSession, TLC

CONSTANTS b1, b2, b3

Lengths == (b1 :> 5) @@ (b2 :> 3) @@ (b3 :> 1)
ThirdTooLong == {<<b2, 3>>}
=============================================================================
