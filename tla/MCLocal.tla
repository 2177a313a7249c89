------------------------------ MODULE MCLocal -------------------------------
(***************************************************************************)
(* Small instances of Local: two putting threads and a getting one, pools  *)
(* of one and two units.                                                   *)
(***************************************************************************)
EXTENDS Local, TLC

CONSTANTS k1, k2, c0, c1, g0, p1, p2, t1

MCDevices == {c0, c1, g0}
OnePool == <<c0>>
TwoPools == <<c0, c1>>
SmallPools == (c0 :> 2) @@ (c1 :> 1)
OneSmall == (c0 :> 2)
OnGpu == [g \in Regions |-> g0]
EachKey == {{k} : k \in Keys}
NoSrcs == {}

Threads == Permutations(Putters) \cup Permutations(Getters)

Obj(ret, slots) == [retention |-> ret, slots |-> slots]
Sl(len, p) == [len |-> len, placement |-> p]

(***************************************************************************)
(* Slots of one and two units, both retentions, spilling, two targets and  *)
(* a device without a pool.                                                *)
(***************************************************************************)
MixedSpecs ==
  { Obj("Cache", <<Sl(1, Prefer(c1)), Sl(1, Each(<<c0, c1>>))>>),
    Obj("Explicit", <<Sl(1, Anywhere), Sl(1, Strict(g0))>>),
    Obj("Cache", <<Sl(2, Prefer(c1))>>) }

OnePoolSpecs ==
  { Obj("Cache", <<Sl(1, Strict(c0)), Sl(1, Anywhere)>>),
    Obj("Cache", <<Sl(2, Strict(c0))>>) }

OneSpec == { Obj("Cache", <<Sl(1, Strict(c0))>>) }
=============================================================================
