------------------------------ MODULE MCPinning ------------------------------
(* Small hosts for Topology and Pinning: two nodes of two CPUs, two GPUs and *)
(* two NICs.  Each family varies one thing the code reads.                    *)
EXTENDS Pinning

Range2(a, b) == [from |-> a, to |-> b]

Gid(type, local, zero) == [type |-> type, link_local |-> local, zero |-> zero]
Port(state, layer, lid, gids) == [state |-> state, layer |-> layer, lid |-> lid, gids |-> gids]
UpRoce == Port("active", "ethernet", 0,
               <<Gid("rocev1", TRUE, FALSE), Gid("rocev2", FALSE, FALSE)>>)
DownPort == Port("down", "infiniband", 0, <<Gid("infiniband", FALSE, FALSE)>>)

Gpu(i, domain, slot, digits, node) ==
  [index |-> i, domain |-> domain, slot |-> slot, cuda |-> digits,
   nearby |-> IF node < 0 THEN <<>> ELSE <<node, 1>>]
Nic(name, slot, ports) == [name |-> name, link |-> SysfsName(0, slot), ports |-> ports]

TwoNodes == {[id |-> 0, list |-> <<Range2(0, 1)>>], [id |-> 1, list |-> <<Range2(2, 3)>>]}

Pci(d0, g0, g1, n0, n1) ==
  [name \in {SysfsName(d0, 1), SysfsName(8, 2), SysfsName(0, 3), SysfsName(0, 4)} |->
     CASE name.slot = 1 -> g0 [] name.slot = 2 -> g1 [] name.slot = 3 -> n0 [] name.slot = 4 -> n1]

BaseHost ==
  [nodes |-> TwoNodes, allowed |-> 0 .. 3, smi |-> TRUE,
   pci |-> Pci(0, 0, 1, 0, 1),
   gpus |-> {Gpu(0, 0, 1, 8, 0), Gpu(1, 8, 2, 4, 1)},
   nics |-> {Nic(1, 3, <<UpRoce>>), Nic(2, 4, <<DownPort, UpRoce>>)}]

\* cpulists: in one range, in parts, repeated and out of order, a range that
\* runs backwards, empty, unreadable, missing; a directory with no number.
Lists(a, b) ==
  {<<Range2(a, b)>>, <<Range2(b, b), Range2(a, a)>>, <<Range2(a, b), Range2(b, b)>>,
   <<Range2(b, a), Range2(a, a)>>, <<>>, <<Junk, Range2(a, b)>>, NoFile}
NodeHosts ==
  {[BaseHost EXCEPT !.nodes = {[id |-> 0, list |-> l0], [id |-> 1, list |-> l1]} \union extra] :
     l0 \in Lists(0, 1), l1 \in Lists(2, 3) \union Lists(2, 6),
     extra \in {{}, {[id |-> Junk, list |-> <<>>]}}}
  \union {[BaseHost EXCEPT !.nodes = NoFile]}

\* Where the devices are, how CUDA prints them, whether nvidia-smi runs.
DeviceHosts ==
  {[BaseHost EXCEPT !.pci = Pci(domain, g0, g1, n0, n1), !.smi = smi,
                    !.gpus = {Gpu(0, domain, 1, digits, g0), Gpu(1, 8, 2, 12 - digits, g1)}] :
     domain \in {0, 8}, digits \in {4, 8}, smi \in BOOLEAN,
     g0 \in {-1, 0, 1}, g1 \in {0, 1, 2}, n0 \in {-1, 0, 1}, n1 \in {0, 1}}
  \union {[BaseHost EXCEPT !.pci = Pci(DomainSpan + 8, 1, 1, 0, 1),
                           !.gpus = {Gpu(0, DomainSpan + 8, 1, 8, 1), Gpu(1, 8, 2, 8, 1)}]}

Gids == {Gid("rocev1", TRUE, FALSE), Gid("rocev1", FALSE, FALSE), Gid("rocev2", TRUE, FALSE),
         Gid("rocev2", FALSE, FALSE), Gid("rocev2", FALSE, TRUE)}
PortHosts ==
  {[BaseHost EXCEPT !.nics = {Nic(1, 3, <<p>> \o rest), [Nic(2, 4, <<UpRoce>>) EXCEPT !.link = l]}] :
     l \in {SysfsName(0, 4), NoFile}, rest \in {<<>>, <<UpRoce>>},
     p \in {Port(s, "ethernet", 0, <<a, b>>) : s \in {"active", "down"}, a \in Gids, b \in Gids}
           \union {Port(s, layer, lid, <<Gid("infiniband", FALSE, FALSE)>>) :
                     s \in {"active", "down"}, layer \in {"infiniband", "unspecified"}, lid \in {0, 1}}}

AllowedHosts == {[BaseHost EXCEPT !.allowed = a] : a \in {0 .. 3, {0}, {2}, {1, 2}}}
BigHost == [BaseHost EXCEPT !.nodes = {[id |-> 0, list |-> <<Range2(0, 1)>>],
                                       [id |-> 1, list |-> <<Range2(3, 4)>>]}, !.allowed = 0 .. 4]

RunJobs == [kind : {"run"}, node : {0, 1, 2, Unknown}]
TouchJobs == [kind : {"touch"}, node : {0, 1, 2}, len : {4, 8, 12}]

AllCases ==
  {[host |-> h, job |-> j] : h \in AllowedHosts \union {BigHost, [BaseHost EXCEPT !.nodes = NoFile]},
                             j \in RunJobs \union TouchJobs}
  \union {[host |-> h, job |-> [kind |-> "run", node |-> 1]] : h \in NodeHosts}
  \union {[host |-> h, job |-> [kind |-> "run", node |-> Unknown]] : h \in DeviceHosts \union PortHosts}
=============================================================================
