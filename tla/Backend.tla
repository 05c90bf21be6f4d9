------------------------------ MODULE Backend -------------------------------
(***************************************************************************)
(* Memory backends on files (hostmem-file.c) from their properties to the  *)
(* end of their mappings: file_ram_open, qemu_ram_alloc_from_fd and        *)
(* file_ram_alloc of exec.c, qemu_ram_mmap of mmap-alloc.c with mmap or    *)
(* fmmap.  The main thread works on the backends; other threads map memory *)
(* of their own and other processes create files meanwhile.  Sizes and     *)
(* addresses are in pages.  The kernel puts a mapping anywhere it is free. *)
(***************************************************************************)
EXTENDS Naturals, FiniteSets

CONSTANTS
  Backends,
  Earlier,       \* pairs of backends: the first is created before the second
  StartFiles,    \* the files there may be at first: functions from paths
  Options,       \* settings of the properties of a backend
  OtherSizes,    \* sizes of files that other processes create
  VirtualPages,  \* pages of the address space of the process
  MaxForeign     \* bound: pages other threads map, and files others create

VARIABLES
  file,      \* [kind, size, super, data, by] of every path
  vm,        \* who has each page of the address space
  backend,   \* the backends and where their allocation is
  cur_s,     \* where the image that pcow serves is mapped
  foreign    \* pages other threads have mapped, files others have created

backendVars == <<file, vm, backend, cur_s, foreign>>

NoPath == "unset"
NoFile == [kind |-> "absent", size |-> 0, super |-> 0, data |-> FALSE, by |-> "nobody"]
Fresh == [at |-> "new", path |-> NoPath, format |-> "raw", size |-> 0, align |-> 0, discard |-> FALSE,
          prealloc |-> FALSE, fd |-> FALSE, created |-> FALSE, tmp |-> FALSE, file_size |-> 0,
          ptr |-> 0, offset |-> 0, host |-> 0]

IsAt(b, where) == backend[b].at = where
Step(b, from, rec) == IsAt(b, from) /\ backend' = [backend EXCEPT ![b] = rec]
Ended(b, how) == [Fresh EXCEPT !.at = how, !.format = backend[b].format]
MyFile(b) == file[backend[b].path]

Span(p, n) == p..(p + n - 1)
Free == <<"free", "nobody">>
Other == <<"other", "nobody">>
FreeRuns(n) == {p \in 0..(VirtualPages - n) : \A a \in Span(p, n) : vm[a] = Free}
Put(v, p, n, who) == [a \in DOMAIN v |-> IF a \in Span(p, n) THEN who ELSE v[a]]
Reserved(b) == <<"none", b>>
Ram(b) == <<"ram", b>>

\* Sizes are numbers, and a path where no file is yet has nothing of one.
ASSUME BackendAssumption ==
  /\ {"before", "other", "nobody"} \cap Backends = {}
  /\ VirtualPages \in Nat /\ OtherSizes \subseteq Nat
  /\ \A f \in StartFiles : \A p \in DOMAIN f :
       /\ f[p] \in [kind : {"absent", "file", "dir"}, size : Nat, super : Nat, data : BOOLEAN, by : {"before", "nobody"}]
       /\ f[p].kind = "absent" => f[p] = NoFile
  /\ \A o \in Options :
       /\ o.size \in Nat /\ o.align \in Nat /\ o.discard \in BOOLEAN /\ o.prealloc \in BOOLEAN
       /\ \A f \in StartFiles : o.path \in DOMAIN f \cup {NoPath}

BackendInit ==
  /\ file \in StartFiles
  /\ vm = [a \in 0..(VirtualPages - 1) |-> Free]
  /\ backend = [b \in Backends |-> Fresh]
  /\ cur_s = [addr |-> 0, length |-> 0, live |-> FALSE]
  /\ foreign = [pages |-> {}, files |-> {}]

-----------------------------------------------------------------------------
(* Properties, and file_backend_memory_alloc                               *)

(* set_mem_path, set_format_name and file_memory_backend_set_align, which  *)
(* refuse once the region is there.  QEMU creates one object at a time.    *)
SetProperties(b, o) ==
  /\ \A x \in Backends : <<x, b>> \in Earlier => ~IsAt(x, "new")
  /\ Step(b, "new", [Fresh EXCEPT !.path = o.path, !.format = o.format, !.size = o.size, !.align = o.align,
                                  !.discard = o.discard, !.prealloc = o.prealloc])
  /\ UNCHANGED <<file, vm, cur_s, foreign>>

(* file_backend_memory_alloc: a pcow image gives the size, and is created  *)
(* when it is missing; without a super in it there is no memory and no     *)
(* error, and its descriptor stays open.                                   *)
MemoryAlloc(b) ==
  LET o == backend[b]
      wrong == \/ o.size = 0 /\ o.format = "raw"
               \/ o.path = NoPath
               \/ o.format # "raw" /\ o.size # 0
               \/ o.format \notin {"raw", "pcow"}
  IN /\ \A x \in Backends \ {b} : backend[x].at \in {"new", "nomemory", "mapped", "unparented", "failed", "gone"}
     /\ \/ wrong /\ Step(b, "new", Ended(b, "failed")) /\ UNCHANGED file
        \/ ~wrong /\ o.format = "raw" /\ Step(b, "new", [o EXCEPT !.at = "open"]) /\ UNCHANGED file
        \/ /\ ~wrong /\ o.format = "pcow"
           /\ file' = IF MyFile(b).kind = "absent"
                      THEN [file EXCEPT ![o.path] = [NoFile EXCEPT !.kind = "file", !.by = b]] ELSE file
           /\ Step(b, "new", IF MyFile(b).super = 0 THEN [o EXCEPT !.at = "nomemory", !.fd = TRUE]
                             ELSE [o EXCEPT !.at = "open", !.size = MyFile(b).super])
     /\ UNCHANGED <<vm, cur_s, foreign>>

-----------------------------------------------------------------------------
(* file_ram_open                                                           *)

OpenFile(b) ==
  LET o == backend[b] IN
  /\ \/ Step(b, "open", Ended(b, "failed"))
     \/ Step(b, "open", CASE MyFile(b).kind = "file" -> [o EXCEPT !.at = "size", !.fd = TRUE]
                          [] MyFile(b).kind = "dir" -> [o EXCEPT !.at = "size", !.fd = TRUE, !.tmp = TRUE]
                          [] MyFile(b).kind = "absent" -> [o EXCEPT !.at = "create"])
  /\ UNCHANGED <<file, vm, cur_s, foreign>>

(* With O_EXCL: when another process was faster, it is opened once more.   *)
Created(b, remember) ==
  LET o == backend[b] IN
  /\ IsAt(b, "create")
  /\ IF MyFile(b).kind = "absent"
     THEN /\ file' = [file EXCEPT ![o.path] = [NoFile EXCEPT !.kind = "file", !.by = b]]
          /\ Step(b, "create", [o EXCEPT !.at = "size", !.fd = TRUE, !.created = remember])
     ELSE Step(b, "create", [o EXCEPT !.at = "open"]) /\ UNCHANGED file
  /\ UNCHANGED <<vm, cur_s, foreign>>

\* Fault: *created is not set.
CreateFile_forget(b) == Created(b, FALSE)

CreateFile(b) == Created(b, TRUE)

\* The end of qemu_ram_alloc_from_file when there is no block.
Fail(b, from) ==
  /\ Step(b, from, Ended(b, "failed"))
  /\ file' = IF backend[b].created THEN [file EXCEPT ![backend[b].path] = [NoFile EXCEPT !.by = MyFile(b).by]] ELSE file

-----------------------------------------------------------------------------
(* qemu_ram_alloc_from_fd and file_ram_alloc                               *)

SizeFile(b) ==
  LET o == backend[b]
      size == IF o.tmp THEN 0 ELSE MyFile(b).size
  IN /\ IsAt(b, "size")
     /\ IF o.format = "raw" /\ size > 0 /\ size < o.size
        THEN Fail(b, "size")
        ELSE Step(b, "size", [o EXCEPT !.at = "area", !.file_size = size]) /\ UNCHANGED file
     /\ UNCHANGED <<vm, cur_s, foreign>>

is_power_of_2(n) == \E k \in 0..n : n = 2 ^ k

\* The checks of the alignment, and ftruncate, whose failure is only reported.
Truncating(b, truncate) ==
  LET o == backend[b] IN
  /\ IF o.align # 0 /\ ~is_power_of_2(o.align)
     THEN Fail(b, "area")
     ELSE /\ Step(b, "area", [o EXCEPT !.at = "reserve", !.align = IF @ = 0 THEN 1 ELSE @])
          /\ \/ UNCHANGED file
             \/ truncate /\ ~o.tmp /\ file' = [file EXCEPT ![o.path].size = o.size]
  /\ UNCHANGED <<vm, cur_s, foreign>>

\* Fault: a file that is longer than the memory is cut.
FileRamAlloc_shrink(b) == Truncating(b, backend[b].file_size # backend[b].size)

FileRamAlloc(b) == Truncating(b, backend[b].file_size = 0)

-----------------------------------------------------------------------------
(* qemu_ram_mmap, with fmmap for images                                    *)

Total(b) == backend[b].size + backend[b].align

Reserve(b) ==
  LET o == backend[b]
      up(p) == ((p + o.align - 1) \div o.align) * o.align
  IN /\ \/ Fail(b, "reserve") /\ UNCHANGED vm
        \/ \E p \in FreeRuns(Total(b)) :
             /\ Step(b, "reserve", [o EXCEPT !.at = "map", !.ptr = p, !.offset = up(p) - p])
             /\ vm' = Put(vm, p, Total(b), Reserved(b))
             /\ UNCHANGED file
     /\ UNCHANGED <<cur_s, foreign>>

(* mmap replaces part of the reservation (MAP_FIXED).  fmmap passes its    *)
(* address as a hint only, and as that is taken the kernel finds another.  *)
MapArea(b) ==
  LET o == backend[b]
      place == o.ptr + o.offset
  IN /\ \/ Fail(b, "map") /\ vm' = Put(vm, o.ptr, Total(b), Free) /\ UNCHANGED cur_s
        \/ /\ o.format = "raw"
           /\ Step(b, "map", [o EXCEPT !.at = "trim", !.host = place])
           /\ vm' = Put(vm, place, o.size, Ram(b))
           /\ UNCHANGED <<file, cur_s>>
        \/ /\ o.format = "pcow"
           /\ \E q \in FreeRuns(o.size) :
                /\ Step(b, "map", [o EXCEPT !.at = "trim", !.host = q])
                /\ vm' = Put(vm, q, o.size, Ram(b))
                /\ cur_s' = [addr |-> q, length |-> MyFile(b).super, live |-> TRUE]
           /\ UNCHANGED file
     /\ UNCHANGED foreign

\* What is left of the reservation before and behind the block goes, but for
\* the given number of guard pages.
Trimmed(b, guard) ==
  LET o == backend[b]
      behind == o.host + o.size + guard
      rest == Total(b) - o.offset
      front == Put(vm, o.ptr, o.offset, Free)
  IN /\ Step(b, "trim", [o EXCEPT !.at = IF o.prealloc THEN "prealloc" ELSE "mapped",
                                      !.ptr = 0, !.offset = 0, !.file_size = 0])
     /\ vm' = IF rest > o.size + guard THEN Put(front, behind, rest - o.size - guard, Free) ELSE front
     /\ UNCHANGED <<file, cur_s, foreign>>

\* Fault: the guard page goes too.
Trim_guard(b) == Trimmed(b, 0)

Trim(b) == Trimmed(b, 1)

\* qemu_ram_munmap: a block with its guard page, or fmunmap, which refuses an
\* address that is not that of cur_s.  After it has freed cur_s, another call
\* reads freed memory: no behaviour goes on from there.
RamMunmap(b) ==
  LET o == backend[b] IN
  IF o.format = "raw" THEN vm' = Put(vm, o.host, o.size + 1, Free) /\ UNCHANGED cur_s
  ELSE /\ cur_s.live
       /\ IF cur_s.addr # o.host THEN UNCHANGED <<vm, cur_s>>
          ELSE vm' = Put(vm, o.host, cur_s.length, Free) /\ cur_s' = [cur_s EXCEPT !.live = FALSE]

(* os_mem_prealloc reports an error, or not; then ram_block_add lists the  *)
(* block, which has its memory and so cannot fail.                         *)
Prealloc(b) ==
  /\ \/ Fail(b, "prealloc") /\ RamMunmap(b)
     \/ Step(b, "prealloc", [backend[b] EXCEPT !.at = "mapped"]) /\ UNCHANGED <<file, vm, cur_s>>
  /\ UNCHANGED foreign

(* file_backend_unparent: MADV_REMOVE takes the contents if so set.        *)
Unparent(b) ==
  /\ Step(b, "mapped", [backend[b] EXCEPT !.at = "unparented"])
  /\ file' = IF backend[b].discard /\ ~backend[b].tmp THEN [file EXCEPT ![backend[b].path].data = FALSE] ELSE file
  /\ UNCHANGED <<vm, cur_s, foreign>>

(* reclaim_ramblock, after the last reference to the region is gone.       *)
Reclaim(b) ==
  /\ Step(b, "unparented", Ended(b, "gone"))
  /\ RamMunmap(b)
  /\ UNCHANGED <<file, foreign>>

-----------------------------------------------------------------------------
(* Others                                                                  *)

OtherThreadMaps(p) ==
  /\ vm[p] = Free /\ Cardinality(foreign.pages) < MaxForeign
  /\ vm' = [vm EXCEPT ![p] = Other]
  /\ foreign' = [foreign EXCEPT !.pages = @ \cup {p}]
  /\ UNCHANGED <<file, backend, cur_s>>

OtherProcessCreates(path, size) ==
  /\ file[path].kind = "absent" /\ Cardinality(foreign.files) < MaxForeign
  /\ file' = [file EXCEPT ![path] = [NoFile EXCEPT !.kind = "file", !.size = size, !.data = size > 0, !.by = "other"]]
  /\ foreign' = [foreign EXCEPT !.files = @ \cup {path}]
  /\ UNCHANGED <<vm, backend, cur_s>>

BackendNext ==
  \/ \E b \in Backends :
       \/ \E o \in Options : SetProperties(b, o)
       \/ MemoryAlloc(b)
       \/ OpenFile(b)
       \/ CreateFile(b)
       \/ SizeFile(b)
       \/ FileRamAlloc(b)
       \/ Reserve(b)
       \/ MapArea(b)
       \/ Trim(b)
       \/ Prealloc(b)
       \/ Unparent(b)
       \/ Reclaim(b)
  \/ \E p \in DOMAIN vm : OtherThreadMaps(p)
  \/ \E path \in DOMAIN file, size \in OtherSizes : OtherProcessCreates(path, size)

BackendSpec == BackendInit /\ [][BackendNext]_backendVars

-----------------------------------------------------------------------------
(* Images have the default alignment, of a page. qemu_ram_mmap maps an     *)
(* image elsewhere than its reservation, so that with another alignment    *)
(* the unmapping of the surplus may hit the image or other threads' pages. *)
ImagesUnaligned == \A o \in Options : o.format = "pcow" => o.align \in {0, 1}

(* While a backend is mapped its pages stay its own, aligned and with a    *)
(* page behind them that nobody can use if it is raw, and where cur_s is   *)
(* if it is the only image; and pages of other threads are never unmapped  *)
(* or mapped over, wherever they come between the calls of qemu_ram_mmap.  *)
MappingsKept ==
  /\ \A p \in foreign.pages : vm[p] = Other
  /\ \A b \in Backends :
       LET o == backend[b] IN
       o.at \in {"prealloc", "mapped", "unparented"} =>
         /\ \A a \in Span(o.host, o.size) : vm[a] = Ram(b)
         /\ o.format = "raw" => vm[o.host + o.size] = Reserved(b) /\ o.host % o.align = 0
         /\ o.format = "pcow" /\ (\A x \in Backends \ {b} : backend[x].format # "pcow") =>
              cur_s = [addr |-> o.host, length |-> o.size, live |-> TRUE]

(* A raw backend that failed or is gone has left no page and no descriptor *)
(* behind, and no file if it failed; no file that it had not created is    *)
(* removed, though others create files between the two calls of open.      *)
NothingLeft ==
  /\ \A p \in DOMAIN file : file[p].kind = "absent" => file[p].by \in Backends \cup {"nobody"}
  /\ \A b \in Backends :
       backend[b].format = "raw" /\ backend[b].at \in {"failed", "gone"} =>
         /\ \A a \in DOMAIN vm : vm[a] \notin {Reserved(b), Ram(b)}
         /\ ~backend[b].fd
         /\ backend[b].at = "failed" => \A p \in DOMAIN file : file[p].by = b => file[p].kind = "absent"

(* mmap-alloc.c, qemu_ram_munmap: "Unmap both the RAM block and the guard  *)
(* page": of a backend that is gone no page is left, whatever its format.  *)
AllUnmapped ==
  \A b \in Backends : IsAt(b, "gone") => \A a \in DOMAIN vm : vm[a] \notin {Reserved(b), Ram(b)}

(* exec.c, file_ram_alloc: "Do not truncate the non-empty backend file to  *)
(* avoid corrupting the existing data": the size of such a file never      *)
(* changes, and its contents go only with a backend that discards them.    *)
NonEmptyStep ==
  \A p \in DOMAIN file : file[p].size > 0 /\ file[p].by \notin Backends =>
    /\ file'[p].size = file[p].size
    /\ file[p].data /\ ~file'[p].data =>
         \E b \in Backends : IsAt(b, "mapped") /\ backend[b].path = p /\ backend[b].discard

(* NonEmptyStep of every step.                                             *)
NonEmptyKept == [][NonEmptyStep]_backendVars
=============================================================================
