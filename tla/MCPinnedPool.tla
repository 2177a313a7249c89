---------------------------- MODULE MCPinnedPool ----------------------------
(***************************************************************************)
(* A pool of twelve bytes in six aligned units and four buffers: enough    *)
(* for a hole between two live buffers, on either side of one, and for     *)
(* every order in which neighbours can be dropped.                         *)
(***************************************************************************)
EXTENDS PinnedPool

CONSTANTS b1, b2, b3, b4

MCBufs == {b1, b2, b3, b4}
=============================================================================
