# A TLA+ verification of qemu-pcow

pcow is an image format for persistent memory: a file of blocks that QEMU maps
as the memory of an NVDIMM. Guest stores to read-only layers are caught as
SIGSEGV and copied; stores to blocks of no layer are caught by userfaultfd;
new blocks come out of a ring that a thread fills ahead of demand. The
repository also holds the files of QEMU that were changed for it, under
`qemu-diff/`: the memory backend and, whole, the memory system it hooks into.

## The system and its parts

| Part | Source | Module | Status |
|---|---|---|---|
| Block allocator: `new_block`, `new_meta`, `new_block_allocator` | `meta.c` | `PreAlloc` | modelled, proved |
| Copy-on-write: `cow_handler`, current lists, hash table, `uf_monitor`, `final_cow` | `pcow.c`, `cow.c` | `Cow` | modelled, proved |
| Image file: supers, meta blocks, `pcow-img` operations | `meta.c`, `manager.c` | `Image`, `Store` | modelled |
| Mounting: `fmmap`, `do_*_fmmap`, `fmunmap` | `pcow.c` | `Image`, `Cow` | partly |
| Events, semaphores | `util/qemu-thread-posix.c` | `QemuEvent`, `QemuSemaphore` | modelled, proved |
| Memory preallocation, fork | `util/oslib-posix.c` | `MemPrealloc`, `QemuFork` | modelled, proved |
| Bounce buffer and map clients | `exec.c` | `Bounce` | modelled, proved |
| File memory backend, `qemu_ram_mmap` | `hostmem-file.c`, `mmap-alloc.c`, `exec.c` | `Backend` | modelled |
| RAM blocks, dirty memory | `exec.c` | `RamList` | partly, proved |
| Memory regions, flat views, listeners | `memory.c` | `FlatRanges`, `MemoryTopology` | partly |
| Dispatch, reads and writes | `exec.c`, `memory.c` | `PhysMap`, `MemAccess` | partly |
| NUMA nodes, system memory | `numa.c` | `Numa` | partly, proved in part |
| Profiler, `pcow-img` command line, builds without `PRE_ALLOC` or `FINEGRAINED_COW`, build scripts, wrappers of system calls | `profiler.c`, `tools/`, `oslib-posix.c` | none | no behaviour of their own, or compiled out |

How they interact: a fault handler or the monitor calls `new_block` (one step
in `Cow`, about a dozen in `PreAlloc`), which takes a block from the ring and
appends an entry to the active meta block. Entries hold no addresses: the next
`fmmap` computes the place of a block from the position of its entry. `Image`
has the file over several sessions, with one step per stage at which a crash
leaves something different behind: the entry, the copy and the new mapping of a
block are steps of their own. It has one fault at a time; `Cow` has them at once.

On QEMU's side a backend (`Backend`) opens a file or an image and maps it
through `qemu_ram_mmap`; the block is put on the list of RAM blocks
(`RamList`), a region of the guest's memory refers to it (`MemoryTopology`),
commits turn the tree of regions into flat views, and a flat view into the
dispatch that accesses go through (`MemAccess`). Memory that cannot be mapped
directly goes through the bounce buffer (`Bounce`). Each module takes what the
others promise as given: regions are what accesses find, views are what the
dispatch is built from.

## Modules

**PreAlloc.** State: the fields of `struct Super` that allocator and callers
share, every `struct Meta` (freed ones too), the meta blocks and super in the
file, the ring, and a program counter per thread. Every load and store of a
shared field is an action, in program order: the build is `--enable-debug`, so
unoptimised. A load through a freed `struct Meta` yields any counter in
`FreedReads`. Offsets are counted in blocks.

**Cow.** State: what each unit of guest memory is mapped to, the contents of
data blocks, the entries with their bitmaps, the current lists, the hash
table, and per thread the stage of `cow_handler`. A whole-block copy reads and
writes unit by unit, so a guest store can fall between. Contents are version
numbers. `View`, `Commit` and `TouchAbsent` stand for hardware and kernel.

**Image.** State: the blocks of the file, its size, the operation `pcow-img`
or `fmmap` is in, the mounted session. `NewImage`, `Snapshot`, `Rollback`,
`UpdateBase` are the functions of `manager.c`; `WriteSuper`, `WriteMeta`,
`WriteBase` the later stages of `new_super` and `new_image`; `AppendEntry`, or
`NewMeta`, `WriteEntry`, `SwitchMeta` with a full meta block, those of
`new_block`; `MonitorMap`, or `InsertHt`, `CopyBlock`, `Remap`, what the monitor
or the handler then does with the block, `FaultAgain` a later fault in it;
`Fmunmap`, `FinalCopy`, `FinalEntry`, `Unmap` the way through `final_cow`.
`Crash` may come between any two. A block's content is one value, `Torn` when
units of it were lost. `Supers`, `End` and `Mapping` are the walk
that `read_next_super` and `fmmap` do. One program at a time uses the file:
the code has no lock and promises nothing for two.

**Store** is what an image promises: a disk, its snapshots, its base. The
promise is as weak as the code makes it: a block is `fresh` from the moment its
entry is counted until it is copied whole. A crash may tear fresh blocks or turn
them into zeros, and unmapping may take back one block for each that was fresh;
every other block, and every snapshot, stays.
`Image` implements it under the mapping `store`: the disk is what the guest
reads or, without a session, what the walk finds through all layers, snapshot
*n* what it finds through the first *n*. A snapshot takes effect when its super
is written.

**QemuEvent.** State: `ev->value`, the futex's waiters, the store buffer of
each setter as x86 has it, work published before `qemu_event_set`. One action
per load, locked instruction and system call.

**QemuSemaphore.** Both builds: with `sem_t` a count, otherwise mutex, count
and condition variable, with timeouts and spurious wakeups.

**MemPrealloc, QemuFork.** `os_mem_prealloc` with its threads, the table its
SIGBUS handler walks, and memory that is lacking; `qemu_fork` with masks,
pending signals and handlers of parent and child.

**Bounce.** Devices in `address_space_map` and `unmap`, the buffer, the list of
clients and their bottom halves, the references of regions.

**Backend.** State: the files, pages of the address space, each backend's place
in its life, `cur_s`. One action per system call: open, create, truncate,
reserve, map, trim, preallocate; any of them may fail where the code expects
it to. Other threads map pages and other processes create files in between.

**RamList.** State: the blocks with their links, `mru_block`, the arrays of
dirty bitmaps, RCU's grace periods, and threads that walk the list or set and
clear bits step by step. `Held` states what regions guarantee: a block is not
freed while a thread works on an address of it.

**FlatRanges** has the rendering of regions into a flat view
(`render_memory_region`, `flatview_simplify`) and the reference it is compared
with, `Resolve`: what an address leads to, read off the tree.

**MemoryTopology.** State: the tree of regions, address spaces, views with
their counts, the table of views, listeners, dirty logging, readers under RCU.
Every function that changes the tree is an action inside a transaction; a
commit goes through its stages (render, delete pass, add pass, publish,
ioeventfds) so that readers come in between.

**PhysMap, MemAccess.** The radix tree with its compaction and subpages as
functions; threads that read and write through it, piece by piece, taking and
returning the iothread lock. A piece that signals an ioeventfd goes to no
device; one narrower than all that a device implements is widened, with zeros
for the neighbours. `coalesced` is KVM's ring of writes, which `PrepareMmio`
flushes for regions that ask for it. A byte is named by who wrote it and its place.

**Numa.** State: the nodes, the distances, the CPUs' nodes, where the program
is in its start. Options end the program when refused, commands
(`set-numa-node`) do not, and leave behind what they had done by then. The node
of a `cpu` option is not compared with `MAX_NODES` (`numa.c:195`): what
`numa_info` holds beyond its end is a nondeterministic choice of `set_numa_cpu`.

`MCThreads` and `MCMemory` put several modules into one run: `using` chooses
the one that a behaviour exercises, the variables of the others stay as they are.

## Runs

Passing:

| Run | Shows |
|---|---|
| `prealloc` | two callers against the allocator thread, on a layer in any state a crash may leave: the ring loses no block, the file leads to every block handed out, and a call of `new_block` returns unless process or allocator thread ended |
| `cow_apart` | threads on different blocks: no store lost, now or by a crash, and every store made; the last (`StoresComplete`) also for threads that store to the units of one block |
| `cow_lists` | threads on the same blocks: no unit shows another unit's data, blocks copied in part stay listed; and lists that overflow: no list grows past its limit (`ListsBounded`), a node is freed in use only by as many faults on blocks of other locks as the list holds (`EvictedByOthers`), and until a handler meets a freed node threads on different blocks lose no store (`EvictionKeeps`) |
| `image` | snapshots, rollbacks, sessions, base images, layers that fill up, copies in part, unmapping and crashes: `Store` is implemented, rollback *n* restores layer *n*, a mounted session maps every block where the next one would find it, but for the block whose entry is counted and that is not mapped yet (`TableMatchesFile`) |
| `threads` | events lose no work (`WorkNoticed`), semaphores no post (`SemConserved`); preallocation touches every page or says so, and its SIGBUS handler is there as long as it is needed (`PreallocHonest`); a child runs no handler of its parent; the bounce buffer has one owner and drops its references; every wait on one of these ends (`WaitsEnd`) |
| `memory` | see below |

What `memory` shows, by part:

- backends: mapped pages, alignment and guard pages stay (`MappingsKept`), a raw
  backend leaves nothing behind (`NothingLeft`), files that were not empty keep
  their size (`NonEmptyKept`);
- RAM blocks: no two overlap (`BlocksApart`), dirty bits survive the growth of
  the bitmaps and arrays live as long as their readers (`DirtySafe`), lookups
  without a lock find their block and use none that is gone (`LookupSafe`);
- regions: every address of every space leads where the tree says
  (`ViewsCurrent`), listeners know the view and its ioeventfds, and never two
  ranges at one place (`ListenerInSync`); views are counted exactly and not used
  when destroyed (`RefsExact`); logging lasts from start to stop (`LoggingKept`);
- accesses: lookups are exact for every view of up to two ranges
  (`LookupExact`), every piece moves its own bytes and no others but those a
  device without narrower accesses has to change (`PieceLands`), devices are
  called under the lock they want and the lock goes back (`DeviceLocked`), and
  after the coalesced writes of the caller if they ask for it (`FlushedFirst`);
- NUMA: accepted tables are completed (`TableComplete`), memory is split
  exactly and evenly and backends cover it once (`MemorySplit`), whatever
  commands were refused in between.

In the `memory` run a property of that name is often the conjunction of two or
three of the component's own (`MCMemory` says which).

Runs that find the code at odds with its own comments or documentation:

| Run | What happens |
|---|---|
| `prealloc_exit` | the allocator thread ends while the layer has room; later calls of `new_block` spin |
| `cow_lost_store` | a whole-block copy overwrites a concurrent store to a unit copied before |
| `cow_two_entries` | a block is allocated twice, the two faults being recorded in different lists |
| `cow_unmap` | `final_cow` sets the address bits of the entries it completes; the next `fmmap` loses the blocks |
| `cow_crash` | after a crash the units of a block not copied yet read as zeros |
| `backend_unmap` | `qemu_ram_munmap` leaves the reservation of a pcow backend mapped, because `fmmap` maps without `MAP_FIXED` |

The modules also follow the code where it departs from its intent in ways that
have no run of their own:

- `insert_ht` reads `active_meta->counter` after `new_block` has released
  `nb_lock2`, so the bitmap may go to another entry, and computes the number of
  the meta block as `x / (n + 1) * block_size`, which truncated to `int` is 0 for
  blocks of 64 KB (`EntryFound` of `Cow`).
- A fault in the last block beyond its first byte is not served (`Refault` of
  `Cow`). The last block of `cow_apart` is of no layer, so the monitor serves it.
- When `MAX_CONCURRENT` faults on other locks come while a handler is at work, its
  list node is freed and it reads freed memory (`UseFreedNode`). `EvictedByOthers`
  says that nothing less will do; what the handler then does is not modelled.
- The entry in which `insert_ht` keeps a bitmap is one of the first meta block, so
  `final_cow` may take back a block other than the one it completes (`InsertHt`,
  `FinalEntry` of `Image`; `Release` of `Store` allows for it).
- A crash between the super of a new image and the name of its base image
  leaves a formatted image without a base, which cannot be created again
  (`WriteBase` of `Image`; `Store` allows it).
- `new_image` accepts a base image that is not formatted (`NewImage`), and a base
  image with a base of its own makes `do_base_fmmap` call itself until the stack
  is exhausted (`DoBaseFmmap`).
- A pcow block has no guard page behind it, and of two pcow backends the first
  cannot be unmapped: `fmunmap` refuses an address that is not that of `cur_s`
  (`RamMunmap` of `Backend`). `MappingsKept` asks for guard pages of raw
  backends only, and instances use pcow with the default alignment.
- A backend whose image is not formatted ends without memory, without an error
  and with its descriptor open (`MemoryAlloc` of `Backend`).
- `memory_region_get_flatview_root` drops what skipped regions say of their own,
  such as `readonly`; there `ViewsCurrent` compares with the region it ends at.
- A listener registered late is not told of the ioeventfds that exist
  (`EventfdsInSync` of `MemoryTopology` is about the others), and `address_space_destroy` sets no
  `memory_region_update_pending`, so readers see the old view until it is freed.
- CPUs stay assigned to a node whose command was refused (`parse_numa_node`), so
  a configured machine may have CPUs in nodes that are not there.
- For a big-endian device that implements only accesses wider than the one made
  the shift is negative (`memory.c:590`), undefined and on the hosts in use one
  that loses the value. `PieceLands` only says there what does not change.

## Bounds

- `PreAlloc`: two callers, a ring of 2, 2 blocks per meta block, 4 calls: the
  ring wraps, and meta blocks are switched while the allocator is between any
  two of its loads.
- `Cow`: one or two threads, 2 to 5 blocks of 2 or 3 units, up to 4 stores:
  enough for a single-unit copy, a whole-block copy and a store in between.
  Lists and tables have 1 to 3 buckets instead of 128 so that they collide;
  `MaxConcurrent` is 2 in `cow_lists`, so that lists overflow. `BlockSize` and `IntSpan`
  are scaled so that `n * BlockSize * BlockSize` wraps as 65536² does in 32 bits.
- `Image`: 2 virtual blocks, of which the base image shows one, 2 values, 1 block
  per meta block and a file of 7 blocks: three layers, one of them with a block, or
  a layer that switches meta blocks under another one. Operations are not counted. `MaxDepth` stands for the stack.
- `threads`: two setters and up to two consumers of an event, three waiters at a
  semaphore that overflows at 2, areas of up to five pages with up to three
  threads, three devices at the bounce buffer.
- `Backend`: two backends, one after or beside the other, with seven kinds of
  options, six pages of address space, one page of another thread.
- `RamList`: three blocks, one of which can grow, offsets up to 6, words and
  bitmaps of two pages so that blocks share neither; two operations of a thread
  against two changes of the list.
- `MemoryTopology`: seven regions in three spaces, of which RAM, a device and an
  alias move; two nested transactions. `Budgets` says how many changes of each
  kind a behaviour makes: every pair of changes, and each with a reader, ioeventfds
  or logging. A larger instance (three changes, readers with two, 5.9 million
  states) passes too and is not kept as it takes minutes.
- `MemAccess`: addresses 0 to 15, pages of 2, a tree of three levels of 1 bit, so
  that nodes are compacted and pages shared; all layouts of two ranges for
  lookups, two with RAM, ROM and devices of both byte orders for accesses: devices
  that split accesses, devices that widen them, ioeventfds with and without a
  value to match, coalesced writes of one thread.
- `Numa`: three nodes, two distances besides the local one, two backends, four
  machines. `Menus` says which options a behaviour may have.

## Fairness

`FairSpec` of `PreAlloc`, `BothSpec` of `MCCowApart` and the specifications that
`threads` uses give weak fairness to each thread's own steps: the threads are ordinary pthreads and the scheduler runs them. Guests
need not make another store, and no fairness is given to unmapping. Where
waiting is for a lock, the lock is held for finitely many steps.

## Proofs

`PreAllocProofs` proves, for any number of callers, any ring size, meta block
size and layer size, from the assumptions named in `PreAlloc`:

- `TypeCorrect`, `RingCorrect`: no block in the ring is overwritten before it is taken;
- `NoWrapCorrect`: `alloc_off - cur_off` never wraps round;
- `RemapCorrect`: at every moment the file leads the next `fmmap` to every
  block handed out, and to none through an unwritten entry;
- `HandedOnce`: no block is handed out twice.

None of these is inductive. `IndInv` adds, for each place the
holder of `nb_lock2` can be at, how `active_meta`, `active_meta_num`,
`active_meta_off` and the super in the file differ (`Position`), which block
leaves the ring next (`FrontAt`), and what the new meta block holds
(`Counters`, `Entries`). The crux is `AllocatorSees`: whatever mix of old and
new fields the allocator has loaded, it believes at least as many blocks to be
ahead as the ring holds, since each load can only be too low in position.
`FreedAssumption` carries weight here: a freed `struct Meta` still yields some
counter between 0 and `max_per_seg`.

`CowSteps` and `CowProofs` prove copy-on-write for any number of threads,
blocks, units, lists, buckets and locks, from `CowAssumption`, which only says
that sizes are numbers. For any guest:

- `UnitsShowTheirOwn` (`NothingForeign`): no unit shows what was stored
  elsewhere, now or after a crash;
- `PartialBlocksAreListed` (`UncompletedListed`): a block copied in part is in
  the hash table, or its handler is at work.

For a guest whose threads do not store to the same block of a read-only layer:

- `GuestSeesItsStores` (`GuestCoherent`), `StoresSurviveACrash`
  (`StoresDurable`) and `BlocksHaveOneEntry` (`OneEntryPerBlock`).

That condition, `Private`, is a hypothesis of these theorems, not an assumption
of `Cow`: the runs `cow_lost_store` and `cow_two_entries` refute the properties
without it. `cow_apart` satisfies it (`ApartIsPrivate` in `MCCow`); threads may
still meet on blocks of no layer, and on lists, buckets, locks and meta blocks.
The invariant `RunInv` of the first two says whose block every data block is
and that its contents are zeros, the original or stores of that very unit, for
all the places a data block is reached from (mappings, hash table, handlers,
monitor); that handlers of one `cow_lock` exclude each other; and that a block
copied in part is listed. `AloneInv` adds what a handler may rely on when
nobody else writes to its block: its unit is still read-only, an entry implies
that the block is mapped, listed or being filled (so whoever finds none of
these is the first to allocate), and the copy so far equals what the guest reads.

`RamListInv`, `RamListSteps` and `RamListProofs` prove, for any readers, blocks,
clients and pages:

- `BlocksStayApart` (`BlocksApart`): `find_ram_offset` never makes blocks overlap;
- `MarksAreKept` (`DirtySafe`): no dirty mark is lost to an array
  that `dirty_memory_extend` has replaced, and no freed array is used;
- `LookupIsSafe` (`LookupSafe`): a lookup finds the block of an
  address in use, and `mru_block` never leads to a block reclaimed or unlisted.

They rest on `RamAssumption`: blocks have pages and fit the RAM addresses, and a
bitmap is whole words. `RamInv` describes the list as a walk that
reaches exactly the listed blocks (`ListInv`), the gaps between blocks
(`SpaceInv`), arrays that keep the bitmaps of the ones they replace
(`ArrayInv`), and what a reader between two loads has in hand: the block it
walks from still leads to its address, or it is in the block already
(`WalkInv`); it keeps blocks and arrays from being freed (`GraceInv`); and the
arrays it loaded share the bitmaps in use now (`WorkInv`). The facts on natural
numbers that the steps need (least elements, and counting along the list) are
the definitions `NatLeast` and `NatFacts`, proved beside the theorems.

`BackendProofs`, for any backends, options, files and pages of address space, and
any files and mappings that others make between the system calls:

- `NothingIsLeft` (`NothingLeft`): a raw backend that failed or is gone leaves
  nothing behind and removes no file but its own;
- `NonEmptyFilesStay` (`NonEmptyKept`): files with contents keep their size;
- `MappingsStay` (`MappingsKept`): mapped memory stays, aligned and guarded, and
  pages of other threads are left alone. The hypothesis is `ImagesUnaligned`
  (images have the default alignment), which the instance meets
  (`mcImagesUnaligned`).

`BackendAssumption` gives the constants their types. `BackendInv` says that one
backend is allocated at a time (`OneBusy`), so that between two of its calls
only others interfere; that `created` and the files agree (`FilesInv`); and where
a raw backend's pages can be (`PlaceInv`, `Within`). This is enough for the first
two. `MapInv` adds that these pages are all there (`Exact`) and what `cur_s`
stands for (`CurLive`, `CurOnly`): the whole of one mapped image, which has at
least a page (`ImageInv`), so that unmapping by its address hits no other.

`QemuProofs`, each for any number of threads, devices, regions, signals, pages,
nodes and CPUs:

- events: `WakeupCorrect` (a sleeper is woken by the next `qemu_event_set` or
  one under way), `WorkNoticedCorrect` (with one consumer and store buffers no
  published work is slept through) and `BusyStays` (busy never turns to free).
  The invariant says what each thread between its load and its locked
  instruction may conclude from the value it saw;
- semaphores, in both builds: `ConservedCorrect` (posts and returns balance) and
  `StrandedCorrect` (enough woken threads are on their way to the count);
- `ForkIsSafe` (`ChildRunsNoHandler`): the child keeps the full mask it was
  forked with until its last handler is reset;
- `PreallocIsHonest` (`PreallocHonest`): the portions of the threads cover all
  pages, a thread has touched its portion up to where it is or has set the
  failure, and the caller joins every thread it created before it looks;
- bounce buffer: `OwnedCorrect`, `ClientsCorrect` and `RefsCorrect`
  (`RefsBalanced`). `in_use` is the claim on the buffer from the exchange in
  `address_space_map` to its release, a listed client implies an owner or a
  notification under way, and a region's count is the number of its mappings;
- NUMA: `TableCorrect`, with refused commands in between. `NumaInv` adds what options may leave in
  an incomplete table (0 or at least 10, 10 or 0 for a node itself). `Completion`
  is the lemma that a validated table is completed to a full one.

Lemmas that serve one step only are stated inside its proof, as named steps.

Only model-checked:

- liveness (`StoresComplete`, `WaitsEnd` and the others), which is out of the
  prover's reach;
- of `Cow`, `ListsBounded`, `EvictedByOthers` and `EvictionKeeps`, which are about
  lists that overflow;
- `Image` and its refinement of `Store`: layers are found by a recursive walk of
  the file, whose result for every file is an induction over data;
- `MemorySplit` of `Numa`, for the same reason: sums over the nodes;
- `MemoryTopology`, `PhysMap` and `MemAccess`: rendering, the radix tree and the
  merge of ioeventfds are recursive operators.

Proved and in no run, as the theorems say more than a run could: `TypeOK`,
`NoWrap`, `CountedAreWritten` and `SegmentsFull` of `PreAlloc`, `NoLostWakeup`,
`NoBusyToFree`, `NoStrandedPost` and `NoForgottenClient`.

## Not modelled

- Cache lines: a store is durable when made. `cow_handler` flushes an eighth
  of what it copies (`pcow.c:139`), which these models cannot see.
- The start of threads before their locks are initialised in `fmmap`, the heap
  behind `do_base_fmmap`, faults of a mapping that is no longer `cur_s`, and
  `fmunmap` racing handlers.
- `pcow-img` used on an image that is mounted: nothing locks the file
  (`manager.c:95`).
- `fmunmap` of a mapping shorter than its image (`pcow.c:540`) and format numbers
  other than the two there are (`mmap-alloc.c:133`): QEMU's callers pass none.
- Contents of a file that is not empty when it is first formatted.
- Mutexes, condition variables and thread exit: wrappers that abort on errors.
- Of `exec.c`: names and migration flags of blocks, `madvise` and discarding,
  watchpoints, notdirty and ROM sections, RAM and ROM devices, IOMMU, cached and debug
  accesses, translation blocks. They depend on parts of QEMU that are not in
  the repository (TCG, KVM, migration), so a model of them would be a guess.
- Of `memory.c`: the ranges that are coalesced and the flushes of the ring when
  regions change (accesses flush it in `MemAccess`), IOMMU regions and their notifiers, MMIO
  pointers, printing, and the QOM properties of regions.
- Of `numa.c`: the check of a plugged CPU, reports, and block notifiers.
- A file that another process removes, or whose size it changes between
  `get_file_size` and `ftruncate`.
- Argument parsing, printing, profiling, build scripts.

## Plan

1. Proofs about `Image`: `TailClean` and `TableMatchesFile`, then the
   refinement step by step. The walk is a recursive function, so an invariant
   that carries the list of supers is needed first.
2. A persistence model of the copy in `cow_handler`, with flushes and fences.
3. Views of `MemoryTopology` in place of the layouts of `MemAccess`, so that
   accesses meet commits.
