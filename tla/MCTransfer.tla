----------------------------- MODULE MCTransfer -----------------------------
(***************************************************************************)
(* Transfer with two NICs on node 0 and one on node 1, two sessions each,  *)
(* on ten addresses.  Memory of node 2 has no NIC of its own.  The region  *)
(* on node 2 overlaps one of node 0 and touches the other; the transfers   *)
(* start at and inside a region, or cross from one into the next.          *)
(***************************************************************************)
EXTENDS Transfer

CONSTANTS t1, t2

NicNodes == <<1, 0, 0>>

Region(base, len, numa) == [base |-> base, len |-> len, numa |-> numa]

SomeRegions ==
  { Region(1, 2, 0), Region(2, 2, 2), Region(4, 3, 0) }

Peer(rkeys) == [addr |-> 4, len |-> 3, rkeys |-> rkeys]

To(local, len, remote, rkeys) ==
  [local |-> local, len |-> len, remote |-> remote, region |-> Peer(rkeys)]

SomeBatches ==
  { <<To(1, 1, 4, 3), To(4, 3, 4, 3)>>, <<To(2, 1, 4, 2), To(3, 1, 6, 3)>>,
    <<To(3, 2, 4, 3)>>, <<To(4, 2, 6, 3)>> }
=============================================================================
