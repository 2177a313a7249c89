----------------------------- MODULE MCBackends -----------------------------
(***************************************************************************)
(* A small instance of Backends: pools of three units and of one, so that  *)
(* free memory can be in pieces, one client and two reading threads.       *)
(***************************************************************************)
EXTENDS Backends, TLC

CONSTANTS k1, k2, c0, c1, g0, r1, p1, t1, t2

MCDevices == {c0, c1, g0}
TwoPools == <<c0, c1>>
SmallPools == (c0 :> 3) @@ (c1 :> 1)
OnGpu == [g \in Regions |-> g0]
EachKey == {{k} : k \in Keys}
OneRegion == {[regions |-> <<r1>>, len |-> 1]}

Readers == Permutations(Getters)

Obj(ret, slots) == [retention |-> ret, slots |-> slots]
Sl(len, p) == [len |-> len, placement |-> p]

(***************************************************************************)
(* Every placement and both retentions; g0 has no pool.                    *)
(***************************************************************************)
MixedSpecs ==
  { Obj("Cache", <<Sl(1, Prefer(c1)), Sl(1, Anywhere)>>),
    Obj("Explicit", <<Sl(1, Each(<<c0, c1>>)), Sl(1, Strict(g0))>>),
    Obj("Cache", <<Sl(2, Prefer(c1))>>),
    Obj("Cache", <<Sl(1, Prefer(g0))>>),
    Obj("Cache", <<Sl(1, Each(<<c1, g0>>))>>) }
=============================================================================
