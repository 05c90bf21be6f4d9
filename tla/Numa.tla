-------------------------------- MODULE Numa --------------------------------
(***************************************************************************)
(* numa.c: -numa options and set-numa-node commands build a table of nodes *)
(* which is checked and completed before the machine starts, and the       *)
(* memory of the machine is then put together from the nodes.  Sizes are   *)
(* in units.  An option that is refused ends the program; a command that   *)
(* is refused does not.  The type of the machine is one that supports NUMA. *)
(***************************************************************************)
EXTENDS Integers, FiniteSetsExt

CONSTANTS
  MAX_NODES,
  NUMA_DISTANCE_MIN,
  CpuIds,       \* indices below max_cpus
  BackendSize,  \* the size of every memory backend
  Machines,     \* [ram_size, slots, auto, legacy, align, mem_path, mem_prealloc]
  Menus         \* what options a behaviour may have: [nodes, distances, cpus]

VARIABLES
  machine, menu,
  phase,          \* "options", "preconfig", "configured", "allocated", "exit"
  node,           \* numa_info without distances: [present, mem, memdev]
  distance,       \* numa_info[src].distance[dst], 0 where unset
  have_memdevs,   \* -1, 0 or 1
  have_distance,
  cpu_node,       \* the node of every CPU, Absent where unset
  given,          \* the distances as they were before they were completed
  segment         \* what system memory is made of: [of, at]

numaVars == <<machine, menu, phase, node, distance, have_memdevs, have_distance, cpu_node, given,
              segment>>

Absent == -1  \* an option that is not given
NoNode == [present |-> FALSE, mem |-> 0, memdev |-> "none"]
NodeIds == 0..(MAX_NODES - 1)

\* Numbers in options are unsigned; a negative node of a -numa cpu option is one
\* that numa_info does not have, as is one that is too large.
ASSUME NumaAssumption ==
  /\ MAX_NODES \in Nat \ {0} /\ NUMA_DISTANCE_MIN \in Nat \ {0}
  /\ \A m \in Menus :
       /\ \A o \in m.nodes : o.nodeid \in Nat \union {Absent}
       /\ m.distances \subseteq Nat \X Nat \X Nat
       /\ m.cpus \subseteq CpuIds \X (Nat \union {Absent})

Present == {n \in NodeIds : node[n].present}
nb_numa_nodes == Cardinality(Present)
Open == phase \in {"options", "preconfig"}

\* error_setg: parse_numa_opts exits, qmp_set_numa_node returns the error.
Refuse == phase' = IF phase = "options" THEN "exit" ELSE phase

NumaInit ==
  /\ machine \in Machines /\ menu \in Menus
  /\ phase = "options"
  /\ node = [n \in NodeIds |-> NoNode]
  /\ distance = [s \in NodeIds |-> [d \in NodeIds |-> 0]]
  /\ have_memdevs = -1 /\ have_distance = FALSE
  /\ cpu_node = [c \in CpuIds |-> Absent]
  /\ given = distance
  /\ segment = {}

-----------------------------------------------------------------------------
\* machine_set_cpu_numa_node refuses a CPU that has another node.
Assignable(c, n) == cpu_node[c] \in {Absent, n}

(* parse_numa_node.  CPUs are assigned, up to the first there cannot be,   *)
(* before the rest is looked at; the first node sets have_memdevs, refused *)
(* or not.                                                                 *)
parse_numa_node(o) ==
  LET n == IF o.nodeid = Absent THEN nb_numa_nodes ELSE o.nodeid
      dev == IF o.memdev = "none" THEN 0 ELSE 1
      both == o.mem # Absent /\ dev = 1
      memdevs == IF have_memdevs = -1 THEN dev ELSE have_memdevs
      known == o.cpus \subseteq CpuIds
      tried == IF known THEN {o.cpus} ELSE SUBSET (o.cpus \intersect CpuIds)
  IN  IF n >= MAX_NODES \/ n \in Present
      THEN Refuse /\ UNCHANGED <<node, cpu_node, have_memdevs>>
      ELSE \E cpus \in tried :
           IF \E c \in cpus : ~Assignable(c, n)
           THEN phase' = "exit" /\ UNCHANGED <<node, cpu_node, have_memdevs>>
           ELSE /\ cpu_node' = [c \in CpuIds |-> IF c \in cpus THEN n ELSE cpu_node[c]]
                /\ have_memdevs' = IF both \/ ~known THEN have_memdevs ELSE memdevs
                /\ IF both \/ memdevs # dev \/ ~known \/ (dev = 1 /\ o.memdev \notin DOMAIN BackendSize)
                   THEN Refuse /\ UNCHANGED node
                   ELSE /\ node' = [node EXCEPT ![n] =
                             [present |-> TRUE, memdev |-> o.memdev,
                              mem |-> IF dev = 1 THEN BackendSize[o.memdev]
                                      ELSE IF o.mem = Absent THEN 0 ELSE o.mem]]
                        /\ UNCHANGED phase

AddNode(o) ==
  /\ Open /\ o \in menu.nodes
  /\ parse_numa_node(o)
  /\ UNCHANGED <<machine, menu, distance, have_distance, given, segment>>

parse_numa_distance(src, dst, val) ==
  /\ Open /\ <<src, dst, val>> \in menu.distances
  /\ IF \/ src >= MAX_NODES \/ dst >= MAX_NODES
        \/ ~({src, dst} \subseteq Present)
        \/ val < NUMA_DISTANCE_MIN
        \/ src = dst /\ val # NUMA_DISTANCE_MIN
     THEN Refuse /\ UNCHANGED <<distance, have_distance>>
     ELSE /\ distance' = [distance EXCEPT ![src][dst] = val]
          /\ have_distance' = TRUE
          /\ UNCHANGED phase
  /\ UNCHANGED <<machine, menu, node, have_memdevs, cpu_node, given, segment>>

(* -numa cpu.  numa_info is read at the node that is named, whatever its   *)
(* number: beyond the table nobody knows what is there.                    *)
set_numa_cpu(c, n) ==
  /\ Open /\ <<c, n>> \in menu.cpus
  /\ \E present \in IF n \in NodeIds THEN {n \in Present} ELSE BOOLEAN :
       IF n = Absent \/ ~present \/ ~Assignable(c, n)
       THEN Refuse /\ UNCHANGED cpu_node
       ELSE cpu_node' = [cpu_node EXCEPT ![c] = n] /\ UNCHANGED phase
  /\ UNCHANGED <<machine, menu, node, distance, have_memdevs, have_distance, given, segment>>

(* The options are read; with -preconfig commands follow.                  *)
EnterPreconfig ==
  /\ phase = "options"
  /\ phase' = "preconfig"
  /\ UNCHANGED <<machine, menu, node, distance, have_memdevs, have_distance, cpu_node, given, segment>>

-----------------------------------------------------------------------------
(* numa_complete_configuration                                             *)

\* Fault: one direction of every pair is enough in any table.
validate_numa_distance_any(D, N) == \A s, d \in N : s # d => D[s][d] # 0 \/ D[d][s] # 0

validate_numa_distance(D, N) ==
  LET asymmetrical == \E s, d \in N : D[s][d] # 0 /\ D[d][s] # 0 /\ D[s][d] # D[d][s]
  IN  /\ \A s, d \in N : s # d => D[s][d] # 0 \/ D[d][s] # 0
      /\ asymmetrical => \A s, d \in N : s # d => D[s][d] # 0

complete_init_numa_distance(D, N) ==
  [s \in NodeIds |-> [d \in NodeIds |->
     IF ~({s, d} \subseteq N) \/ D[s][d] # 0 THEN D[s][d]
     ELSE IF s = d THEN NUMA_DISTANCE_MIN ELSE D[d][s]]]

AlignDown(n) == (n \div machine.align) * machine.align

\* What n nodes get: each its share, aligned, the last one the rest.
Shares(n, share) ==
  LET used == MapThenSumSet(LAMBDA i : share[i], 0..(n - 2))
  IN [i \in 0..(n - 1) |-> IF i = n - 1 THEN machine.ram_size - used ELSE share[i]]

numa_legacy_auto_assign_ram(n) ==
  Shares(n, [i \in 0..(n - 1) |-> AlignDown(machine.ram_size \div n)])

\* Fault: what alignment takes from one node is not given to the next.
numa_default_auto_assign_ram_stay(n) == numa_legacy_auto_assign_ram(n)

numa_default_auto_assign_ram(n) ==
  LET granularity == machine.ram_size \div n
      propagate[i \in 0..n] ==
        IF i = 0 THEN 0
        ELSE LET wish == granularity + propagate[i - 1] IN wish - AlignDown(wish)
  IN Shares(n, [i \in 0..(n - 1) |-> AlignDown(granularity + propagate[i])])

\* The rest of numa_complete_configuration, with the nodes N
Configured(N) ==
  LET n == Cardinality(N)
      none == \A i \in N : node[i].mem = 0
      auto == IF machine.legacy THEN numa_legacy_auto_assign_ram(n) ELSE numa_default_auto_assign_ram(n)
      full == [i \in NodeIds |-> [present |-> i \in N, memdev |-> node[i].memdev,
                               mem |-> IF none /\ i \in N THEN auto[i] ELSE node[i].mem]]
      mem(i) == full[i].mem
      sparse == N # 0..(n - 1)
  IN  IF sparse \/ (n > 0 /\ MapThenSumSet(mem, N) # machine.ram_size)
         \/ (have_distance /\ ~validate_numa_distance(distance, N))
      THEN phase' = "exit" /\ UNCHANGED <<node, distance>>
      ELSE /\ phase' = "configured"
           /\ node' = full
           /\ distance' = IF have_distance THEN complete_init_numa_distance(distance, N) ELSE distance

(* A machine with slots for memory gets a node of its own; the result of   *)
(* that parse_numa_node is not looked at.                                  *)
numa_complete_configuration ==
  LET implicit == machine.slots /\ machine.auto /\ nb_numa_nodes = 0 /\ have_memdevs # 1
  IN  /\ Open
      /\ Configured(IF implicit THEN {0} ELSE Present)
      /\ have_memdevs' = IF implicit THEN 0 ELSE have_memdevs
      /\ given' = distance
      /\ UNCHANGED <<machine, menu, have_distance, cpu_node, segment>>

(* memory_region_allocate_system_memory: one region, from a file or not,   *)
(* or one segment per backend, which must not be mapped already.           *)
allocate_system_memory_nonnuma ==
  \/ /\ machine.mem_path
     /\ segment' = {[of |-> "file", at |-> 0]} /\ phase' = "allocated"
  \/ /\ machine.mem_path /\ machine.mem_prealloc
     /\ phase' = "exit" /\ UNCHANGED segment
  \/ /\ ~machine.mem_path \/ ~machine.mem_prealloc
     /\ segment' = {[of |-> "ram", at |-> 0]} /\ phase' = "allocated"

allocate_system_memory ==
  LET mem(i) == node[i].mem
      at(i) == MapThenSumSet(mem, 0..(i - 1))
      twice == \E i, j \in Present : i # j /\ node[i].memdev = node[j].memdev
  IN  /\ phase = "configured"
      /\ IF nb_numa_nodes = 0 \/ have_memdevs = 0
         THEN allocate_system_memory_nonnuma
         ELSE IF twice THEN phase' = "exit" /\ UNCHANGED segment
         ELSE phase' = "allocated" /\ segment' = {[of |-> node[i].memdev, at |-> at(i)] : i \in Present}
      /\ UNCHANGED <<machine, menu, node, distance, have_memdevs, have_distance, cpu_node, given>>

NumaNext ==
  \/ \E o \in menu.nodes : AddNode(o)
  \/ \E t \in menu.distances : parse_numa_distance(t[1], t[2], t[3])
  \/ \E t \in menu.cpus : set_numa_cpu(t[1], t[2])
  \/ EnterPreconfig
  \/ numa_complete_configuration
  \/ allocate_system_memory

NumaSpec == NumaInit /\ [][NumaNext]_numaVars

-----------------------------------------------------------------------------
Done == phase \in {"configured", "allocated"}

(* numa.c, validate_numa_distance: "If there is even one asymmetric pair,  *)
(* though, then all distances must be provided".  A completed table has    *)
(* every distance and keeps those given; where it is not symmetric nothing *)
(* but local distances was made up.                                        *)
TableComplete ==
  Done /\ have_distance =>
    LET far == {p \in Present \X Present : p[1] # p[2]}
    IN  /\ \A n \in Present : distance[n][n] = NUMA_DISTANCE_MIN
        /\ \A p \in far :
             /\ distance[p[1]][p[2]] >= NUMA_DISTANCE_MIN
             /\ given[p[1]][p[2]] \in {0, distance[p[1]][p[2]]}
        /\ \/ \A p \in far : distance[p[1]][p[2]] = distance[p[2]][p[1]]
           \/ \A p \in far : given[p[1]][p[2]] # 0

(* The nodes have the memory of the machine between them.  Where it is     *)
(* assigned by numa_default_auto_assign_ram the first nodes together are   *)
(* never as much as one unit of alignment short of their shares.  Backends *)
(* cover it in memory_region_allocate_system_memory, no address twice and  *)
(* each at one place only.                                                 *)
MemorySplit ==
  LET mem(i) == node[i].mem
      upto(k) == MapThenSumSet(mem, 0..(k - 1))
      auto == \A o \in menu.nodes : o.mem = Absent /\ o.memdev = "none"
      end(s) == s.at + BackendSize[s.of]
      backed == \A s \in segment : s.of \in DOMAIN BackendSize
  IN  /\ Done /\ Present # {} =>
           /\ upto(nb_numa_nodes) = machine.ram_size
           /\ auto /\ ~machine.legacy =>
                \A k \in 1..(nb_numa_nodes - 1) :
                  (machine.ram_size \div nb_numa_nodes) * k - upto(k) \in 0..(machine.align - 1)
      /\ phase = "allocated" /\ backed =>
           /\ \A a \in 0..(machine.ram_size - 1) : \E s \in segment : a \in s.at..(end(s) - 1)
           /\ \A s, t \in segment : (s.of = t.of => s = t) /\ (s.at < t.at => end(s) <= t.at)
=============================================================================
