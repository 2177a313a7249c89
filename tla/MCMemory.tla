------------------------------ MODULE MCMemory ------------------------------
(***************************************************************************)
(* A small instance of Memory: CPU devices c0, c1 and c2, the last without *)
(* a capacity, and a GPU g0 that is not served.  A unit of length stands   *)
(* for any number of bytes.                                                *)
(***************************************************************************)
EXTENDS Memory, TLC

CONSTANTS k1, k2, c0, c1, c2, g0, r1

MCDevices == {c0, c1, c2, g0}
MCOrder == <<c0, c1, c2>>
OnGpu == [g \in Regions |-> g0]
AllRemovals == SUBSET Keys
OneRegion == {[regions |-> <<r1>>, len |-> 1]}
NoSrcs == {}
ShortQueues == (c0 :> 2) @@ (c1 :> 2) @@ (c2 :> 0)

Obj(ret, slots) == [retention |-> ret, slots |-> slots]
Sl(len, p) == [len |-> len, placement |-> p]

SmallPools == (c0 :> 2) @@ (c1 :> 1) @@ (c2 :> Unlimited)

(***************************************************************************)
(* Every placement and both retentions; objects of one and of two slots;   *)
(* g0 is not served.                                                       *)
(***************************************************************************)
MixedSpecs ==
  { Obj("Cache", <<Sl(1, Anywhere)>>),
    Obj("Cache", <<Sl(1, Prefer(c1)), Sl(2, Strict(c0))>>),
    Obj("Explicit", <<Sl(2, Prefer(c1))>>),
    Obj("Cache", <<Sl(1, Each(<<c0, c1>>)), Sl(1, Each(<<c0, g0>>))>>) }
=============================================================================
