----------------------------- MODULE MCRequests -----------------------------
(***************************************************************************)
(* Requests of four kinds.  Copying: a get from one published replica or a *)
(* put, each between lists of up to three segments of up to two bytes,     *)
(* every offset in range.  Picks: gets on two NUMA nodes and two GPUs with *)
(* every affinity, up to two replicas anywhere, ranges inside and outside  *)
(* a slot of at most one byte.  Edges: lists of up to two iovs in and      *)
(* around two regions, up to the largest u64, which is 7.  Limits: every   *)
(* operation against backends that lack capabilities.                      *)
(***************************************************************************)
EXTENDS Requests

Lists == SeqOf(0..2, 3) \ {<<>>}

NoAffinity == [g \in Gpus |-> NoNuma]

All == [gpu_memory |-> TRUE, publish |-> TRUE, placement_strict |-> TRUE,
        placement_each |-> TRUE, retention_explicit |-> TRUE, remove_prefix |-> TRUE,
        max_slot_len |-> None, max_slots |-> None, max_iov |-> None,
        max_stat_batch |-> None]

Limited == [gpu_memory |-> FALSE, publish |-> FALSE, placement_strict |-> FALSE,
            placement_each |-> FALSE, retention_explicit |-> FALSE, remove_prefix |-> FALSE,
            max_slot_len |-> 2, max_slots |-> 1, max_iov |-> 1, max_stat_batch |-> 1]

FewIovs == [All EXCEPT !.max_iov = 1]

Whole(d, len) == [region |-> [len |-> len, device |-> d], offset |-> 0, len |-> len]
WholeIovs(d, lens) == [n \in DOMAIN lens |-> Whole(d, lens[n])]

Published(d, segs) == [device |-> d, tier |-> "External", segs |-> segs]
Stored(d, len) == [device |-> d, tier |-> "Dram", segs |-> <<len>>]

Get(dst_, at) == [kind |-> "get", dst |-> dst_, offset |-> at]
Put(ret, slots) == [kind |-> "put", retention |-> ret, slots |-> slots]
Sl(len, p, src_) == [len |-> len, placement |-> p, src |-> src_]

Request(cap, o) ==
  [cap |-> cap, op |-> o, gpuNuma |-> NoAffinity, slotLen |-> 0, replicas |-> <<>>]

Copying ==
  {[Request(All, Get(WholeIovs(Cpu(0), to), at)) EXCEPT
      !.slotLen = SumOf(from), !.replicas = <<Published(Cpu(0), from)>>] :
      <<from, to, at>> \in {<<f, t, o>> \in Lists \X Lists \X (0..6) : o + SumOf(t) <= SumOf(f)}}

CopyingIn ==
  {Request(All, Put("Cache", <<Sl(SumOf(from), "Anywhere", WholeIovs(Gpu(0), from))>>)) :
      from \in Lists}

Placements(len) ==
  {Stored(Cpu(n), len) : n \in Numas} \cup {Published(d, <<len>>) : d \in Devices}

Picks(len) ==
  {[Request(All, Get(<<Whole(d, want)>>, at)) EXCEPT
      !.gpuNuma = numa, !.slotLen = len, !.replicas = reps] :
      numa \in [Gpus -> Numas \cup {NoNuma}], reps \in SeqOf(Placements(len), 2),
      d \in Devices, want \in 0..1, at \in 0..1}

EdgeIovs ==
  {[region |-> [len |-> len, device |-> d], offset |-> at, len |-> n] :
     <<len, d>> \in {<<7, Cpu(0)>>, <<2, Gpu(0)>>, <<0, Cpu(0)>>},
     at \in {0, 2, 7}, n \in {0, 2, 3, 5, 7}}

EdgeLists == SeqOf(EdgeIovs, 2)

EdgeGets ==
  {[Request(cap, Get(l, at)) EXCEPT !.slotLen = 7, !.replicas = <<Stored(Cpu(0), 7)>>] :
     cap \in {All, FewIovs}, l \in EdgeLists, at \in {0, 4}}

EdgePuts ==
  {Request(All, Put("Cache", <<Sl(len, "Anywhere", l)>>)) : len \in {0, 2, 7}, l \in EdgeLists}

EdgePublishes == {Request(All, [kind |-> "publish", src |-> l]) : l \in EdgeLists}

(***************************************************************************)
(* One or two slots; the second may be malformed.                          *)
(***************************************************************************)
One == <<Whole(Cpu(0), 1)>>
SlotChoices ==
  {Sl(1, p, One) : p \in {"Anywhere", "Strict", "Each", "Prefer"}} \cup
  {Sl(2, "Anywhere", <<Whole(Cpu(0), 1), Whole(Cpu(0), 1)>>),
   Sl(3, "Prefer", <<Whole(Cpu(0), 3)>>), Sl(3, "Prefer", One)}

Limits ==
  {Request(cap, o) : cap \in {All, Limited, FewIovs, [All EXCEPT !.publish = FALSE]},
     o \in {Put(ret, slots) : ret \in {"Cache", "Explicit"}, slots \in SeqOf(SlotChoices, 2)}
           \cup {[kind |-> "publish", src |-> l] : l \in {<<>>, One, One \o One}}
           \cup {[kind |-> "stat", keys |-> n] : n \in 0..2}
           \cup {[kind |-> "register", device |-> d] : d \in Devices}
           \cup {[kind |-> "remove_prefix"], [kind |-> "remove"]}}

SmallCalls ==
  {Copying, CopyingIn, Picks(0), Picks(1), EdgeGets, EdgePuts, EdgePublishes, Limits}
=============================================================================
