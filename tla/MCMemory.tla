------------------------------ MODULE MCMemory ------------------------------
(***************************************************************************)
(* The memory of QEMU: files that back it, the list of RAM blocks, regions *)
(* and their flat views, accesses through a dispatch, NUMA nodes.  Each    *)
(* part takes the others as given: a behaviour exercises one of them.      *)
(***************************************************************************)
EXTENDS Sequences, TLC, Backend, Numa, RamList

VARIABLES
  using,  \* the part that this behaviour exercises; the others stay as they are
  region, spaces, current, fds, views, ref, flat_views, dying, gone, depth,
  update_pending, ioeventfd_pending, walk, listener, dirtylog, reader, left,
  flat, dispatch, built, mru_section, store, coalesced, bql, cpu

topoVars == <<region, spaces, current, fds, views, ref, flat_views, dying,
  gone, depth, update_pending, ioeventfd_pending, walk, listener, dirtylog,
  reader, left>>
accessVars == <<flat, dispatch, built, mru_section, store, coalesced, bql, cpu>>
vars == <<using, backendVars, ramVars, topoVars, accessVars, numaVars>>

-----------------------------------------------------------------------------
(* Backend, by the constants of this module: two backends, a path that may *)
(* have anything, and an image.                                            *)

mcEarlier == {<<"x", "y">>}
File(kind, size, super) ==
  [kind |-> kind, size |-> size, super |-> super, data |-> size > 0, by |-> "before"]
mcStartFiles ==
  {[f |-> x, i |-> File("file", 5, 1)] :
     x \in {NoFile, File("dir", 0, 0)} \union {File("file", n, 0) : n \in {0, 1, 3}}}
Option(path, format, size, align, discard, prealloc) ==
  [path |-> path, format |-> format, size |-> size, align |-> align, discard |-> discard, prealloc |-> prealloc]
mcOptions ==
  {Option("f", "raw", 2, 0, FALSE, TRUE), Option("f", "raw", 1, 2, TRUE, FALSE),
   Option("f", "raw", 2, 3, FALSE, FALSE), Option("f", "raw", 0, 0, FALSE, FALSE),
   Option("i", "pcow", 0, 0, FALSE, TRUE), Option("f", "pcow", 0, 0, FALSE, FALSE),
   Option("i", "qcow", 0, 0, FALSE, FALSE)}

ASSUME mcImagesUnaligned == ImagesUnaligned

(* MemoryTopology: a device over RAM, an alias of part of the RAM that is  *)
(* not in place, a bus that shows all of it, and a space with nothing.     *)

Leaf(addr, size, container, priority) ==
  [addr |-> addr, size |-> size, enabled |-> TRUE, readonly |-> FALSE, romd_mode |-> FALSE,
   terminates |-> TRUE, ram |-> FALSE, alias |-> "NULL", alias_offset |-> 0, priority |-> priority,
   container |-> container, subregions |-> <<>>, log |-> {}, vga_logging_count |-> 0, ioeventfds |-> <<>>]
mcStartRegions ==
  {[sys |-> [Leaf(0, 5, "NULL", 0) EXCEPT !.terminates = FALSE, !.subregions = <<"io", "ram">>],
    ram |-> [Leaf(0, 3, "sys", 0) EXCEPT !.ram = TRUE],
    io  |-> Leaf(1, 2, "sys", 1),
    al  |-> [Leaf(0, 2, "NULL", 0) EXCEPT !.alias = "ram", !.alias_offset = 1, !.terminates = FALSE],
    ports |-> [Leaf(0, 5, "NULL", 0) EXCEPT !.terminates = FALSE],
    bus |-> [Leaf(0, 5, "NULL", 0) EXCEPT !.terminates = FALSE, !.subregions = <<"bal">>],
    bal |-> [Leaf(0, 5, "bus", 0) EXCEPT !.alias = "sys", !.terminates = FALSE]]}
mcRootOf == [memory |-> "sys", dma |-> "bus", io |-> "ports"]
mcEventFds == {[start |-> 0, size |-> 2, e |-> 1], [start |-> 0, size |-> 2, e |-> 2], [start |-> 1, size |-> 0, e |-> 2]}
Budget(c, e, l, o, r) == [changes |-> c, events |-> e, logs |-> l, others |-> o, reads |-> r]
mcBudgets == {Budget(1, 0, 0, 0, 1), Budget(2, 0, 0, 0, 0), Budget(1, 2, 0, 0, 0), Budget(0, 3, 0, 0, 0),
              Budget(0, 0, 5, 0, 0), Budget(1, 0, 0, 2, 0), Budget(0, 0, 0, 2, 1)}

(* MemAccess: every view of one or two ranges, and two through which       *)
(* accesses are made: RAM and a ROM with devices of either order, which    *)
(* split accesses or widen them, have ioeventfds and flush the ring.       *)

Kind(ram, readonly, max, implMin, implMax, big, locking, accepts, size) ==
  [ram |-> ram, readonly |-> readonly, max |-> max, implMin |-> implMin, implMax |-> implMax, big |-> big,
   global_locking |-> locking, accepts |-> accepts, unaligned |-> FALSE, valid_unaligned |-> FALSE,
   size |-> size, flush_coalesced_mmio |-> FALSE, eventfds |-> {}]
EventFd(addr, size, data) == [addr |-> addr, size |-> size, match_data |-> data # <<>>, data |-> data]
mcRegionKind ==
  [ram |-> Kind(TRUE, FALSE, 0, 0, 0, FALSE, FALSE, TRUE, 16),
   rom |-> Kind(TRUE, TRUE, 0, 0, 0, FALSE, TRUE, FALSE, 4),
   le |-> [Kind(FALSE, FALSE, 4, 1, 2, FALSE, TRUE, TRUE, 4)
             EXCEPT !.flush_coalesced_mmio = TRUE, !.eventfds = {EventFd(2, 2, <<>>)}],
   be |-> Kind(FALSE, FALSE, 0, 0, 2, TRUE, FALSE, TRUE, 4),
   wide |-> [Kind(FALSE, FALSE, 4, 2, 4, FALSE, FALSE, TRUE, 4)
               EXCEPT !.flush_coalesced_mmio = TRUE, !.valid_unaligned = TRUE,
                      !.eventfds = {EventFd(0, 1, << <<"vcpu", 1>> >>)}],
   wideb |-> Kind(FALSE, FALSE, 4, 2, 2, TRUE, FALSE, TRUE, 4),
   unassigned |-> Kind(FALSE, FALSE, 0, 0, 0, FALSE, TRUE, FALSE, 0)]
mcCoalescing == {<<"vcpu", <<"le", 3>>>>, <<"vcpu", <<"wide", 1>>>>}
FR(start, end, mr, off) == [start |-> start, size |-> end - start, mr |-> mr, off |-> off]
mcAccessLayouts ==
  {<<FR(0, 3, "ram", 1), FR(4, 8, "le", 0), FR(8, 12, "be", 0), FR(13, 16, "rom", 0)>>,
   <<FR(0, 3, "ram", 1), FR(4, 8, "wide", 0), FR(8, 12, "wideb", 0)>>}
mcLayouts ==
  mcAccessLayouts \union {<<>>}
  \union {<<FR(p[1], p[2], "ram", 0)>> : p \in {q \in (0..16) \X (0..16) : q[1] < q[2]}}
  \union {<<FR(p[1], p[2], "ram", 0), FR(p[3], p[4], "le", 0)>> :
            p \in {q \in (0..16) \X (0..16) \X (0..16) \X (0..16) : q[1] < q[2] /\ q[2] <= q[3] /\ q[3] < q[4]}}
Acc(a, n, write) == [a |-> a, n |-> n, write |-> write]
mcAccessesOf ==
  [vcpu |-> {Acc(a, n, w) : a \in 1..10, n \in {1, 2, 5}, w \in BOOLEAN},
   io |-> {Acc(1, 9, TRUE), Acc(6, 8, FALSE)}]

(* Numa, by the constants of this module: tables of three nodes, or nodes *)
(* with memory, backends and CPUs.                                         *)

mcBackendSize == [m0 |-> 3, m1 |-> 4]

mcMachine(ram, legacy, path, prealloc) ==
  [ram_size |-> ram, slots |-> path, auto |-> ~legacy, legacy |-> legacy, align |-> 2,
   mem_path |-> path, mem_prealloc |-> prealloc]
mcMachines == {mcMachine(7, FALSE, FALSE, FALSE), mcMachine(7, TRUE, TRUE, FALSE),
               mcMachine(6, FALSE, TRUE, TRUE), mcMachine(9, FALSE, TRUE, FALSE)}
NodeOption(nodeid, mem, memdev, cpus) == [nodeid |-> nodeid, mem |-> mem, memdev |-> memdev, cpus |-> cpus]
mcMenus ==
  {[nodes |-> {NodeOption(-1, -1, "none", {})}, cpus |-> {},
    distances |-> {<<s, d, v>> \in (0..2) \X (0..2) \X {20, 30} : s # d}
                  \union {<<0, 0, 10>>, <<0, 0, 20>>, <<0, 1, 9>>, <<3, 0, 20>>}],
   [nodes |-> {NodeOption(0, -1, "m0", {}), NodeOption(1, -1, "m1", {0}), NodeOption(1, -1, "m0", {}),
               NodeOption(0, 2, "none", {0, 1}), NodeOption(1, 5, "none", {}), NodeOption(1, 2, "m0", {1}),
               NodeOption(2, -1, "gone", {}), NodeOption(2, -1, "none", {1, 2})},
    cpus |-> {<<0, 0>>, <<0, 1>>, <<1, 3>>, <<1, -1>>}, distances |-> {}]}

(* RAM blocks: one of a page, one of up to three that can grow.            *)
mcKinds == {<<1, 1, FALSE>>, <<1, 3, TRUE>>}

-----------------------------------------------------------------------------
Regions == INSTANCE MemoryTopology WITH
  AddrEnd <- 5, StartRegions <- mcStartRegions, RootOf <- mcRootOf,
  StartSpaces <- <<"memory", "dma", "io">>, Movable <- {"ram", "io", "al"}, Offsets <- {0, 2},
  Sizes <- {0, 4}, Priorities <- {0, 1}, EventFds <- mcEventFds, EventRegion <- "io",
  Readers <- {"r1"}, MaxDepth <- 2, StartListeners <- {"memory"}, Budgets <- mcBudgets

Accesses == INSTANCE MemAccess WITH
  TARGET_PAGE_SIZE <- 2, P_L2_BITS <- 1, P_L2_LEVELS <- 3, SkipLimit <- 8,
  Layouts <- mcLayouts, AccessLayouts <- mcAccessLayouts, RegionKind <- mcRegionKind,
  Cpus <- {"vcpu", "io"}, AccessesOf <- mcAccessesOf, Coalescing <- mcCoalescing,
  kvm_eventfds_enabled <- FALSE

-----------------------------------------------------------------------------
NoFiles == BackendInit /\ file = CHOOSE f \in StartFiles : TRUE
NoRegions ==
  /\ region = "unused" /\ spaces = "unused" /\ current = "unused"
  /\ fds = "unused" /\ views = "unused" /\ ref = "unused"
  /\ flat_views = "unused" /\ dying = "unused" /\ gone = "unused"
  /\ depth = "unused" /\ update_pending = "unused" /\ ioeventfd_pending = "unused"
  /\ walk = "unused" /\ listener = "unused" /\ dirtylog = "unused"
  /\ reader = "unused" /\ left = "unused"
NoAccesses ==
  /\ flat = "unused" /\ dispatch = "unused" /\ built = "unused"
  /\ mru_section = "unused" /\ store = "unused" /\ coalesced = "unused"
  /\ bql = "unused" /\ cpu = "unused"
NoNodes ==
  /\ machine = "unused" /\ menu = "unused" /\ phase = "unused"
  /\ node = "unused" /\ distance = "unused" /\ have_memdevs = "unused"
  /\ have_distance = "unused" /\ cpu_node = "unused" /\ given = "unused"
  /\ segment = "unused"

Init ==
  \/ using = "files" /\ BackendInit /\ RamInit /\ NoRegions /\ NoAccesses /\ NoNodes
  \/ using = "blocks" /\ RamInit /\ NoFiles /\ NoRegions /\ NoAccesses /\ NoNodes
  \/ using = "regions" /\ Regions!TopoInit /\ NoFiles /\ RamInit /\ NoAccesses /\ NoNodes
  \/ using = "accesses" /\ Accesses!AccessInit /\ NoFiles /\ RamInit /\ NoRegions /\ NoNodes
  \/ using = "nodes" /\ NumaInit /\ NoFiles /\ RamInit /\ NoRegions /\ NoAccesses

Next ==
  /\ UNCHANGED using
  /\ \/ using = "files" /\ BackendNext
        /\ UNCHANGED <<ramVars, topoVars, accessVars, numaVars>>
     \/ using = "blocks" /\ RamNext
        /\ UNCHANGED <<backendVars, topoVars, accessVars, numaVars>>
     \/ using = "regions" /\ Regions!TopoNext
        /\ UNCHANGED <<backendVars, ramVars, accessVars, numaVars>>
     \/ using = "accesses" /\ Accesses!AccessNext
        /\ UNCHANGED <<backendVars, ramVars, topoVars, numaVars>>
     \/ using = "nodes" /\ NumaNext
        /\ UNCHANGED <<backendVars, ramVars, topoVars, accessVars>>

Spec == Init /\ [][Next]_vars

(* After every outermost commit each address of each space leads where the *)
(* tree of regions says (render_memory_region, memory_region_update_pending). *)
ViewsCurrent == using = "regions" => Regions!ViewsCurrent

(* What a listener was told of ranges, logging and ioeventfds adds up to   *)
(* the view of its space, and at no moment to ranges that overlap          *)
(* (address_space_update_topology_pass, address_space_add_del_ioeventfds). *)
ListenerInSync ==
  using = "regions" => Regions!ListenerInSync /\ Regions!NeverTwice /\ Regions!EventfdsInSync

(* flatview_ref and flatview_unref: the count of a view is the number of its *)
(* holders, and no thread or space has one that was destroyed              *)
(* (address_space_get_flatview).                                           *)
RefsExact == using = "regions" => Regions!RefsExact /\ Regions!NoDeadView

(* memory_global_dirty_log_start and stop: pages are logged from one to the *)
(* other, whatever pauses the machine, and no longer.                      *)
LoggingKept == using = "regions" => Regions!LoggingKept

(* address_space_lookup_region finds what the view has, whatever was looked *)
(* up before and however the tree was compacted.                           *)
LookupExact == using = "accesses" => Accesses!LookupExact

(* A device that wants the iothread lock is called by its holder, and after *)
(* an access a thread holds the lock as it did before (prepare_mmio_access). *)
DeviceLocked == using = "accesses" => Accesses!DeviceLocked /\ Accesses!LockReturned

(* A device that asks for it is called after the coalesced writes that the *)
(* calling thread made before (prepare_mmio_access).                       *)
FlushedFirst == using = "accesses" => Accesses!FlushedFirst

(* Every step of flatview_read and flatview_write that moves bytes moves those *)
(* of its addresses, in the guest's order, and touches nothing else but    *)
(* what a device that implements no narrower access must change as well; a *)
(* write that signals an ioeventfd touches no device.                      *)
PieceLands == [][using = "accesses" => Accesses!PieceStep]_vars
=============================================================================
