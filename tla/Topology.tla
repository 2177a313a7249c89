------------------------------ MODULE Topology ------------------------------
(***************************************************************************)
(* What the two accelerator crates learn about the host before anything is *)
(* allocated or connected: `pegastore-cuda` (topology.rs) for its pools,   *)
(* `pegastore-rdma` (numa.rs, rdma_topo.rs, rc_backend/runtime.rs) for its *)
(* NICs.  Each reads sysfs by itself.                                      *)
(*                                                                         *)
(* A host is a record of what sysfs, nvidia-smi, CUDA and the verbs        *)
(* library report:                                                         *)
(*   nodes    the nodeN directories, NoFile when there is no node          *)
(*            directory: [id, list], list the parts of cpulist or NoFile   *)
(*   allowed  the CPUs the process may run on                              *)
(*   pci      the numa_node file of every PCI device, by sysfs name        *)
(*   smi      whether nvidia-smi runs                                      *)
(*   gpus     [index, domain, slot, cuda, nearby]: the device, the number  *)
(*            of digits CUDA prints its domain with, and the nodes that    *)
(*            nvidia-smi lists as nearby                                   *)
(*   nics     [name, link, ports]: a port is [state, layer, lid, gids],    *)
(*            its GIDs in table order                                      *)
(* A part of a cpulist is a range [from, to], one number when both ends    *)
(* are equal, or Junk: text that neither parser takes for CPUs.  A PCI     *)
(* name is [domain, digits, slot], digits 0 when it is printed without a   *)
(* domain.                                                                 *)
(***************************************************************************)
EXTENDS Integers, Sequences, FiniteSets, SequencesExt

CONSTANTS
  Unknown,     \* NumaNode::UNKNOWN, and None where an Option<u16> is read
  NoFile,      \* a file, link or directory that is not there
  Junk,        \* a part of a cpulist, or a directory name, with no number
  Failed       \* Err

(***************************************************************************)
(* cpulists.                                                               *)
(***************************************************************************)
Cpus(part) ==
  IF part.to < part.from THEN <<>>
  ELSE [i \in 1 .. (part.to - part.from + 1) |-> part.from + i - 1]

\* topology.rs skips what it cannot parse and keeps the order of the file.
LenientCpus(list) ==
  FlattenSeq([i \in DOMAIN list |-> IF list[i] = Junk THEN <<>> ELSE Cpus(list[i])])

\* numa.rs gives up on the first such part, and sorts and removes duplicates.
StrictCpus(list) ==
  IF Junk \in ToSet(list) THEN Failed
  ELSE SetToSortSeq(ToSet(LenientCpus(list)), <)

FormatCpuList(cpus) ==
  LET Close(acc) == Append(acc.out, [from |-> acc.start, to |-> acc.prev])
      Step(acc, cpu) ==
        IF cpu = acc.prev + 1 THEN [acc EXCEPT !.prev = cpu]
        ELSE [out |-> Close(acc), start |-> cpu, prev |-> cpu]
  IN IF cpus = <<>> THEN <<>>
     ELSE Close(FoldLeft(Step, [out |-> <<>>, start |-> cpus[1], prev |-> cpus[1]], Tail(cpus)))

(***************************************************************************)
(* The CPUs of every node.                                                 *)
(***************************************************************************)
NodeList(h, n) == (CHOOSE e \in h.nodes : e.id = n).list

\* numa.rs: any directory it cannot read fails the whole topology, and a
\* node without CPUs is kept.
ReadCpuTopology(h) ==
  IF h.nodes = NoFile THEN Failed
  ELSE LET listed == {e \in h.nodes : e.list # NoFile}
       IN IF \/ \E e \in h.nodes : e.id = Junk
             \/ \E e \in listed : StrictCpus(e.list) = Failed
             \/ listed = {}
          THEN Failed
          ELSE [n \in {e.id : e \in listed} |-> StrictCpus(NodeList(h, n))]

\* topology.rs: what it cannot read is skipped, and so is a node without
\* CPUs; with no node left, node 0 has as many CPUs as the process may use.
CpusByNuma(h) ==
  LET usable == IF h.nodes = NoFile THEN {}
                ELSE {e \in h.nodes : /\ e.id # Junk
                                      /\ e.list # NoFile
                                      /\ LenientCpus(e.list) # <<>>}
  IN IF usable = {}
     THEN [n \in {0} |-> [i \in 1 .. Cardinality(h.allowed) |-> i - 1]]
     ELSE [n \in {e.id : e \in usable} |-> LenientCpus(NodeList(h, n))]

NumaNodes(h) == DOMAIN CpusByNuma(h)

(***************************************************************************)
(* PCI devices.  sysfs prints a domain with four digits, more only when it *)
(* needs them; nvidia-smi always prints eight.                             *)
(***************************************************************************)
DomainSpan == 16 ^ 4

SysfsName(domain, slot) ==
  [domain |-> domain, slot |-> slot, digits |-> IF domain < DomainSpan THEN 4 ELSE 5]

\* A mutant: the name is used as it was printed.
KeepDomain(name) == name

\* normalize_domain of topology.rs.
NormalizeDomain(name) ==
  IF name.digits > 4
  THEN [name EXCEPT !.domain = @ % DomainSpan, !.digits = 4]
  ELSE name

\* normalize_pci_addr of rdma_topo.rs, which also adds a missing domain.
NormalizePciAddr(name) ==
  IF name.digits = 0 THEN [name EXCEPT !.digits = 4] ELSE NormalizeDomain(name)

ReadNumaNode(h, name) ==
  IF name \in DOMAIN h.pci /\ h.pci[name] >= 0 THEN h.pci[name] ELSE Unknown

\* pci_numa tries the name as CUDA printed it, then the short form.
PciNuma(h, name) ==
  IF ReadNumaNode(h, name) # Unknown
  THEN ReadNumaNode(h, name)
  ELSE ReadNumaNode(h, NormalizeDomain(name))

\* Topology::detect: the node of a GPU, if it is one with CPUs.
NumaOfGpu(h, gpu) ==
  LET node == PciNuma(h, [domain |-> gpu.domain, slot |-> gpu.slot, digits |-> gpu.cuda])
  IN IF node \in NumaNodes(h) THEN node ELSE Unknown

\* detect_gpus of rdma_topo.rs.
DetectGpus(h) ==
  IF ~h.smi THEN {}
  ELSE {[device_id |-> gpu.index,
         numa_node |-> ReadNumaNode(h, NormalizePciAddr(
                         [domain |-> gpu.domain, slot |-> gpu.slot, digits |-> 8]))] :
           gpu \in h.gpus}

\* NumaTopology of numa.rs asks nvidia-smi for the nodes near a GPU and
\* takes the first.
NumaForGpu(h, gpu) ==
  IF h.smi /\ gpu.nearby # <<>> THEN Head(gpu.nearby) ELSE Unknown

GpuNumaNodes(h) == {NumaForGpu(h, gpu) : gpu \in h.gpus} \ {Unknown}

NumaTopologyNodes(h) ==
  IF ReadCpuTopology(h) = Failed THEN {0} ELSE DOMAIN ReadCpuTopology(h)

(***************************************************************************)
(* NICs and the groups of a node.                                          *)
(***************************************************************************)
HasActivePort(nic) == \E i \in DOMAIN nic.ports : nic.ports[i].state = "active"

NicNumaNode(h, nic) == IF nic.link = NoFile THEN Unknown ELSE ReadNumaNode(h, nic.link)

\* A mutant: the scan does not look at the ports.
EveryLinkedNic(h) ==
  SetToSortSeq({[name |-> nic.name, numa_node |-> NicNumaNode(h, nic)] :
                  nic \in {n \in h.nics : n.link # NoFile}},
               LAMBDA a, b : a.name < b.name)

EnumerateRdmaNics(h) ==
  SetToSortSeq({[name |-> nic.name, numa_node |-> NicNumaNode(h, nic)] :
                  nic \in {n \in h.nics : HasActivePort(n) /\ n.link # NoFile}},
               LAMBDA a, b : a.name < b.name)

GroupNodes(h) ==
  LET topo == ReadCpuTopology(h)
      nics == EnumerateRdmaNics(h)
  IN ({gpu.numa_node : gpu \in DetectGpus(h)}
       \union {nics[i].numa_node : i \in DOMAIN nics}
       \union IF topo = Failed THEN {} ELSE DOMAIN topo) \ {Unknown}

Groups(h) ==
  [n \in GroupNodes(h) |->
     [gpus |-> {gpu \in DetectGpus(h) : gpu.numa_node = n},
      nics |-> SelectSeq(EnumerateRdmaNics(h), LAMBDA nic : nic.numa_node = n)]]

NicsForGpu(h, device_id) ==
  LET near == {n \in GroupNodes(h) : \E gpu \in Groups(h)[n].gpus : gpu.device_id = device_id}
  IN IF near = {} THEN <<>>
     ELSE Groups(h)[CHOOSE n \in near : \A m \in near : n <= m].nics

(***************************************************************************)
(* The port and the GID that a NIC is opened with.                         *)
(***************************************************************************)
CrossesRouters(gid) == gid.type = "rocev2" /\ ~gid.link_local

\* The index of the first GID in the order of preference, as a u8; when there
\* is none, index 0, whatever is there.
PickGid(gids) ==
  LET set == SelectSeq([i \in DOMAIN gids |-> i], LAMBDA i : ~gids[i].zero)
      ranked == SelectSeq(set, LAMBDA i : CrossesRouters(gids[i]))
                \o SelectSeq(set, LAMBDA i : gids[i].type = "infiniband")
                \o SelectSeq(set, LAMBDA i : ~gids[i].link_local)
  IN IF ranked = <<>> THEN 0 ELSE (Head(ranked) - 1) % 2 ^ 8

\* The first active port decides, for an error as for a success.
ChoosePortAndGid(nic) ==
  IF ~HasActivePort(nic) THEN Failed
  ELSE LET num == CHOOSE i \in DOMAIN nic.ports :
                    /\ nic.ports[i].state = "active"
                    /\ \A j \in 1 .. i - 1 : nic.ports[j].state # "active"
           port == nic.ports[num]
       IN IF \/ port.layer = "infiniband" /\ port.lid = 0
             \/ port.layer = "unspecified"
          THEN Failed
          ELSE [port |-> num, layer |-> port.layer, gid |-> PickGid(port.gids),
                lid |-> IF port.layer = "infiniband" THEN port.lid ELSE 0]

\* RcRuntime::open.
OpenNic(h, nic) ==
  LET chosen == ChoosePortAndGid(nic)
  IN IF chosen = Failed THEN Failed
     ELSE [name |-> nic.name, numa_node |-> NicNumaNode(h, nic), chosen |-> chosen]

(***************************************************************************)
(* The promises of the topology of a host.                                 *)
(***************************************************************************)
Readable(h) == ReadCpuTopology(h) # Failed

\* The node that sysfs gives the device itself.
TrueNode(h, domain, slot) == ReadNumaNode(h, SysfsName(domain, slot))

\* The crates see one host.  When sysfs can be read at all, they find the
\* same CPUs on every node that has some, whatever the order and the repeats
\* in its cpulist, and the list printed for people reads back as the CPUs.
\* For every GPU whose PCI domain has four digits they find the node sysfs
\* gives that GPU, which topology.rs drops when that node has no CPUs; and the
\* nodes with GPUs are the same for both structures of pegastore-rdma, where
\* nvidia-smi names the node that sysfs does.
SeenAlike(h) ==
  LET Node(gpu) == TrueNode(h, gpu.domain, gpu.slot)
  IN /\ Readable(h) =>
          \A n \in NumaTopologyNodes(h) :
            LET cpus == ReadCpuTopology(h)[n]
            IN /\ StrictCpus(FormatCpuList(cpus)) = cpus
               /\ cpus # <<>> => /\ n \in NumaNodes(h)
                                /\ ToSet(cpus) = ToSet(CpusByNuma(h)[n])
     /\ \A gpu \in h.gpus : gpu.domain < DomainSpan =>
          /\ NumaOfGpu(h, gpu) = IF Node(gpu) \in NumaNodes(h) THEN Node(gpu) ELSE Unknown
          /\ \A seen \in DetectGpus(h) :
               seen.device_id = gpu.index => seen.numa_node = Node(gpu)
     /\ (\A gpu \in h.gpus : /\ gpu.domain < DomainSpan
                             /\ NumaForGpu(h, gpu) = IF h.smi THEN Node(gpu) ELSE Unknown) =>
          GpuNumaNodes(h) = {n \in GroupNodes(h) : Groups(h)[n].gpus # {}}

\* Port i is the first that is up, and no queue pair can be brought up on it.
BadFirstPort(nic, i) ==
  /\ {j \in 1 .. i : nic.ports[j].state = "active"} = {i}
  /\ nic.ports[i].layer # "ethernet"
  /\ nic.ports[i].layer = "infiniband" => nic.ports[i].lid = 0

\* nics_for_gpu returns exactly the NICs with a port that is up on the node of
\* the GPU, each once.  Each of them opens, with that same node, unless its
\* first active port is InfiniBand without a LID or of an unknown link layer,
\* and then it fails, whatever its other ports are.  The host memory that
\* `pegastore-cuda` puts next to the GPU is on that node too.
NicsNear(h) ==
  \A gpu \in h.gpus :
    LET node == TrueNode(h, gpu.domain, gpu.slot)
        nics == NicsForGpu(h, gpu.index)
        near == {nic \in h.nics : /\ \E i \in DOMAIN nic.ports : nic.ports[i].state = "active"
                                 /\ nic.link # NoFile
                                 /\ ReadNumaNode(h, nic.link) = node}
    IN (h.smi /\ gpu.domain < DomainSpan /\ node # Unknown) =>
         /\ Len(nics) = Cardinality(near)
         /\ {nics[i].name : i \in DOMAIN nics} = {nic.name : nic \in near}
         /\ \A nic \in near :
              IF \E i \in DOMAIN nic.ports : BadFirstPort(nic, i)
              THEN OpenNic(h, nic) = Failed
              ELSE OpenNic(h, nic) # Failed /\ OpenNic(h, nic).numa_node = node
         /\ NumaOfGpu(h, gpu) \in {node, Unknown}

\* A NIC is opened on a port that is up, with a usable LID on InfiniBand; and
\* if that port has a GID that crosses routers, the GID chosen is one, at the
\* index the NIC is given.
PortUsable(h) ==
  \A nic \in h.nics : OpenNic(h, nic) # Failed =>
    LET chosen == OpenNic(h, nic).chosen
        port == nic.ports[chosen.port]
        Good(gid) == ~gid.zero /\ gid.type = "rocev2" /\ ~gid.link_local
    IN /\ port.state = "active"
       /\ port.layer = "infiniband" => chosen.lid # 0
       /\ (\E i \in DOMAIN port.gids : Good(port.gids[i])) => Good(port.gids[chosen.gid + 1])
=============================================================================
