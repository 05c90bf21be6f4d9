--------------------------- MODULE BackendProofs ---------------------------
(***************************************************************************)
(* Files behind memory, for any number of backends, options, files and     *)
(* pages: no file or page is left by a backend that failed or is gone,     *)
(* files with contents keep their size, and mappings stay where they are.  *)
(*                                                                         *)
(* BackendInv says what holds of files and pages in every state. OneBusy:  *)
(* one backend at a time is allocated, so that between the calls of open,  *)
(* fstat, ftruncate and mmap only other processes and threads work.        *)
(* FilesInv: the flag created and the files that backends made agree.      *)
(* PlaceInv and Within: a raw backend has pages inside its reservation,    *)
(* later inside its memory and the guard page. MapInv adds that all of     *)
(* these pages are there (Exact), which images cur_s stands for (CurLive,  *)
(* CurOnly), and that images have a page at least and no surplus           *)
(* (ImageInv); for ImageInv the options have to give images the default    *)
(* alignment (ImagesUnaligned).                                            *)
(***************************************************************************)
EXTENDS Backend, TLAPS

-----------------------------------------------------------------------------
(* States                                                                  *)

\* A backend at rest, and one whose memory is being allocated:
\* qemu_ram_alloc_from_file runs from one to the other under the iothread lock.
Rest == {"new", "nomemory", "mapped", "unparented", "failed", "gone"}
Busy == {"open", "create", "size", "area", "reserve", "map", "trim", "prealloc"}

\* What options may have.
Paths == {o.path : o \in Options} \cup {NoPath}
Formats == {o.format : o \in Options} \cup {"raw"}

\* Files, and what is known of a backend.
FileRecs == [kind : {"absent", "file", "dir"}, size : Nat, super : Nat, data : BOOLEAN,
             by : Backends \cup {"before", "other", "nobody"}]
BackendRecs ==
  [at : Rest \cup Busy, path : Paths, format : Formats, size : Nat, align : Nat, discard : BOOLEAN,
   prealloc : BOOLEAN, fd : BOOLEAN, created : BOOLEAN, tmp : BOOLEAN, file_size : Nat, ptr : Nat,
   offset : Nat, host : Nat]

\* The types. Files and pages do not come and go.
BackendTypes ==
  /\ backend \in [Backends -> BackendRecs]
  /\ \A p \in DOMAIN file : file[p] \in FileRecs
  /\ \A p \in Paths : p \in DOMAIN file \cup {NoPath}
  /\ DOMAIN vm = 0..(VirtualPages - 1)
  /\ cur_s \in [addr : Nat, length : Nat, live : BOOLEAN]
  /\ DOMAIN foreign = {"pages", "files"}

\* At most one backend is being allocated at any moment.
OneBusy == \A x, y \in Backends : backend[x].at \in Busy /\ backend[y].at \in Busy => x = y

\* A file that is not there has nothing, and if one was removed a backend had
\* made it.
AbsentEmpty ==
  \A p \in DOMAIN file : file[p].kind = "absent" =>
    file[p].size = 0 /\ file[p].super = 0 /\ file[p].by \in Backends \cup {"nobody"}

\* A backend that opened its file has a path, and one of the two formats that
\* memory is allocated with.
HasPath(b) ==
  backend[b].at \in Busy \cup {"mapped", "unparented"} =>
    backend[b].path \in DOMAIN file /\ backend[b].format \in {"raw", "pcow"}

\* While created is set the file is there and the backend's own.
CreatedMine(b) ==
  backend[b].created =>
    /\ backend[b].at \in (Busy \ {"open", "create"}) \cup {"mapped", "unparented"}
    /\ MyFile(b).by = b /\ MyFile(b).kind = "file"

\* Between fstat and ftruncate nobody else changes the size of the file.
Opened(b) ==
  backend[b].at \in {"size", "area"} /\ ~backend[b].tmp =>
    /\ MyFile(b).kind # "absent"
    /\ backend[b].at = "area" => MyFile(b).size = backend[b].file_size

\* Every file that a raw backend made and did not remove is the one that its
\* created stands for.
MineCreated(b) ==
  (backend[b].format = "raw" /\ backend[b].at # "gone") \/ backend[b].at = "new" =>
    \A p \in DOMAIN file : file[p].by = b /\ file[p].kind # "absent" => backend[b].created /\ backend[b].path = p

\* What holds of files.
FilesInv == AbsentEmpty /\ \A b \in Backends : HasPath(b) /\ CreatedMine(b) /\ Opened(b) /\ MineCreated(b)

\* The record of a new backend has its type.
LEMMA FreshRec == Fresh \in BackendRecs
  BY Zenon DEF Fresh, BackendRecs, Rest, Busy, Paths, Formats

\* The first state has the types, and files are as FilesInv says.
LEMMA InitTypes == BackendInit => BackendTypes /\ OneBusy /\ FilesInv
<1> SUFFICES ASSUME BackendInit PROVE BackendTypes /\ OneBusy /\ FilesInv
  BY Zenon
<1> USE BackendAssumption
<1>1. file \in StartFiles /\ backend = [b \in Backends |-> Fresh]
  BY Zenon DEF BackendInit
<1>2. \A p \in DOMAIN file : file[p] \in FileRecs
  BY <1>1, Zenon DEF FileRecs
<1>3. \A p \in Paths : p \in DOMAIN file \cup {NoPath}
  BY <1>1 DEF Paths
<1>4. BackendTypes
  BY <1>1, <1>2, <1>3, FreshRec, Zenon DEF BackendTypes, BackendInit
<1>5. \A b \in Backends : backend[b].at = "new" /\ ~backend[b].created
  BY <1>1, Zenon DEF Fresh
<1>6. OneBusy
  BY <1>5, Zenon DEF OneBusy, Busy
<1>7. AbsentEmpty
  BY <1>1 DEF AbsentEmpty, NoFile
<1>8. ASSUME NEW b \in Backends, NEW p \in DOMAIN file PROVE file[p].by # b
  BY <1>1, Zenon
<1> QED BY <1>4, <1>5, <1>6, <1>7, <1>8, Zenon DEF FilesInv, HasPath, CreatedMine, Opened, MineCreated, Busy

-----------------------------------------------------------------------------
(* What each step does                                                     *)

\* Other backends stay as they are.
Same(b) == \A x \in Backends \ {b} : backend'[x] = backend[x]

\* What Step does to the records.
LEMMA StepIs ==
  ASSUME BackendTypes, NEW b \in Backends, NEW w, NEW r, Step(b, w, r), r \in BackendRecs
  PROVE  backend[b].at = w /\ backend'[b] = r /\ Same(b) /\ backend' \in [Backends -> BackendRecs]
  BY Zenon DEF Step, IsAt, Same, BackendTypes

\* The record of a backend that failed or is gone has nothing left but its
\* format.
LEMMA EndedRec ==
  ASSUME BackendTypes, NEW b \in Backends, NEW how \in Rest
  PROVE  /\ Ended(b, how) \in BackendRecs
         /\ Ended(b, how).at = how /\ Ended(b, how).format = backend[b].format
         /\ ~Ended(b, how).created /\ ~Ended(b, how).fd
  BY Zenon DEF Ended, Fresh, BackendRecs, Rest, Busy, Paths, BackendTypes

\* What a step of b that goes on makes of its record: it keeps the given
\* fields.
Becomes(b, w, at, fields) ==
  /\ backend[b].at = w /\ backend'[b].at = at /\ Same(b) /\ backend' \in [Backends -> BackendRecs]
  /\ \A f \in fields : backend'[b][f] = backend[b][f]

\* The fields that a step may keep.
Fields == {"path", "format", "size", "align", "discard", "prealloc", "fd", "created", "tmp", "file_size",
           "ptr", "offset", "host"}

\* A step of b with which it fails or goes.
Ends(b, w, how) ==
  /\ backend[b].at = w /\ backend'[b] = Ended(b, how) /\ Same(b) /\ backend' \in [Backends -> BackendRecs]
  /\ backend'[b].at = how /\ backend'[b].format = backend[b].format
  /\ ~backend'[b].created /\ ~backend'[b].fd

\* A step to Ended is such a step.
LEMMA EndStep ==
  ASSUME BackendTypes, NEW b \in Backends, NEW how \in Rest, NEW w, Step(b, w, Ended(b, how))
  PROVE  Ends(b, w, how)
  BY StepIs, EndedRec DEF Ends

\* What file_backend_memory_alloc does: it refuses the options, or goes on with
\* the size of the image or of the option, and opening an image creates its
\* file.
LEMMA DoMemoryAlloc ==
  ASSUME BackendTypes, NEW b \in Backends, MemoryAlloc(b)
  PROVE  \/ Ends(b, "new", "failed") /\ file' = file
         \/ /\ Becomes(b, "new", "open", Fields) /\ file' = file
            /\ backend[b].format = "raw" /\ backend[b].path # NoPath
         \/ /\ backend[b].format = "pcow" /\ backend[b].path # NoPath
            /\ Becomes(b, "new", "nomemory", Fields \ {"fd"})
            /\ file' = IF MyFile(b).kind = "absent"
                       THEN [file EXCEPT ![backend[b].path] = [NoFile EXCEPT !.kind = "file", !.by = b]] ELSE file
         \/ /\ backend[b].format = "pcow" /\ backend[b].path # NoPath /\ MyFile(b).super # 0
            /\ Becomes(b, "new", "open", Fields \ {"size"}) /\ backend'[b].size = MyFile(b).super
            /\ file' = IF MyFile(b).kind = "absent"
                       THEN [file EXCEPT ![backend[b].path] = [NoFile EXCEPT !.kind = "file", !.by = b]] ELSE file
<1> DEFINE o == backend[b]
           wrong == \/ o.size = 0 /\ o.format = "raw"
                    \/ o.path = NoPath
                    \/ o.format # "raw" /\ o.size # 0
                    \/ o.format \notin {"raw", "pcow"}
           make == IF MyFile(b).kind = "absent"
                      THEN [file EXCEPT ![o.path] = [NoFile EXCEPT !.kind = "file", !.by = b]] ELSE file
<1>0. o \in BackendRecs
  BY Zenon DEF BackendTypes
<1>1. CASE wrong /\ Step(b, "new", Ended(b, "failed")) /\ UNCHANGED file
  BY <1>1, EndStep, Zenon DEF Rest
<1>2. CASE ~wrong /\ o.format = "raw" /\ Step(b, "new", [o EXCEPT !.at = "open"]) /\ UNCHANGED file
  <2>1. [o EXCEPT !.at = "open"] \in BackendRecs
    BY <1>0, Zenon DEF BackendRecs, Busy
  <2>2. backend'[b] = [o EXCEPT !.at = "open"] /\ Same(b) /\ backend' \in [Backends -> BackendRecs] /\ o.at = "new"
    BY <1>2, <2>1, StepIs
  <2>3. Becomes(b, "new", "open", Fields)
    BY <1>0, <2>2, Zenon DEF Becomes, Fields, BackendRecs
  <2> QED BY <1>2, <2>3, Zenon
<1>3. CASE ~wrong /\ o.format = "pcow" /\ file' = make /\ MyFile(b).super = 0 /\ Step(b, "new", [o EXCEPT !.at = "nomemory", !.fd = TRUE])
  <2> DEFINE r == [o EXCEPT !.at = "nomemory", !.fd = TRUE]
  <2>1. r \in BackendRecs
    BY <1>0, Zenon DEF BackendRecs, Rest
  <2>2. backend'[b] = r /\ Same(b) /\ backend' \in [Backends -> BackendRecs] /\ o.at = "new"
    BY <1>3, <2>1, StepIs
  <2>3. Becomes(b, "new", "nomemory", Fields \ {"fd"})
    BY <1>0, <2>2, Zenon DEF Becomes, Fields, BackendRecs
  <2> QED BY <1>3, <2>3, Zenon
<1>4. CASE ~wrong /\ o.format = "pcow" /\ file' = make /\ MyFile(b).super # 0 /\ Step(b, "new", [o EXCEPT !.at = "open", !.size = MyFile(b).super])
  <2> DEFINE r == [o EXCEPT !.at = "open", !.size = MyFile(b).super]
  <2>0. MyFile(b).super \in Nat
    BY <1>0, <1>4, Zenon DEF MyFile, BackendTypes, FileRecs, BackendRecs
  <2>1. r \in BackendRecs
    BY <1>0, <2>0, Zenon DEF BackendRecs, Busy
  <2>2. backend'[b] = r /\ Same(b) /\ backend' \in [Backends -> BackendRecs] /\ o.at = "new"
    BY <1>4, <2>1, StepIs
  <2>3. Becomes(b, "new", "open", Fields \ {"size"}) /\ backend'[b].size = MyFile(b).super
    BY <1>0, <2>2, Zenon DEF Becomes, Fields, BackendRecs
  <2> QED BY <1>4, <2>3, Zenon
<1> QED BY <1>1, <1>2, <1>3, <1>4, Zenon DEF MemoryAlloc

\* What setting the properties does.
LEMMA DoSetProperties ==
  ASSUME BackendTypes, NEW b \in Backends, NEW o \in Options, SetProperties(b, o)
  PROVE  /\ backend[b].at = "new" /\ backend'[b].at = "new" /\ Same(b) /\ backend' \in [Backends -> BackendRecs]
         /\ ~backend'[b].created
         /\ backend'[b].format = o.format /\ backend'[b].align = o.align
<1> DEFINE r == [Fresh EXCEPT !.path = o.path, !.format = o.format, !.size = o.size, !.align = o.align,
                              !.discard = o.discard, !.prealloc = o.prealloc]
<1>1. r \in BackendRecs
  BY FreshRec, BackendAssumption DEF Fresh, BackendRecs, Paths, Formats
<1>2. r.at = "new" /\ ~r.created /\ r.format = o.format /\ r.align = o.align
  BY Zenon DEF Fresh
<1>3. Step(b, "new", r)
  BY Zenon DEF SetProperties
<1> QED BY <1>1, <1>2, <1>3, StepIs, Zenon

\* What the first open of file_ram_open does.
LEMMA DoOpen ==
  ASSUME BackendTypes, FilesInv, NEW b \in Backends, OpenFile(b)
  PROVE  \/ Ends(b, "open", "failed")
         \/ MyFile(b).kind # "absent" /\ Becomes(b, "open", "size", Fields \ {"fd", "tmp"})
         \/ Becomes(b, "open", "create", Fields)
<1> DEFINE o == backend[b]
<1>0. o \in BackendRecs
  BY Zenon DEF BackendTypes
<1>1. CASE Step(b, "open", Ended(b, "failed"))
  BY <1>1, EndStep, Zenon DEF Rest
<1>2. CASE MyFile(b).kind = "file" /\ Step(b, "open", [o EXCEPT !.at = "size", !.fd = TRUE])
  <2> DEFINE r == [o EXCEPT !.at = "size", !.fd = TRUE]
  <2>1. r \in BackendRecs
    BY <1>0, Zenon DEF BackendRecs, Busy
  <2>2. backend'[b] = r /\ Same(b) /\ backend' \in [Backends -> BackendRecs] /\ o.at = "open"
    BY <1>2, <2>1, StepIs
  <2>3. Becomes(b, "open", "size", Fields \ {"fd", "tmp"})
    BY <1>0, <2>2, Zenon DEF Becomes, Fields, BackendRecs
  <2> QED BY <1>2, <2>3, Zenon
<1>3. CASE MyFile(b).kind = "dir" /\ Step(b, "open", [o EXCEPT !.at = "size", !.fd = TRUE, !.tmp = TRUE])
  <2> DEFINE r == [o EXCEPT !.at = "size", !.fd = TRUE, !.tmp = TRUE]
  <2>1. r \in BackendRecs
    BY <1>0, Zenon DEF BackendRecs, Busy
  <2>2. backend'[b] = r /\ Same(b) /\ backend' \in [Backends -> BackendRecs] /\ o.at = "open"
    BY <1>3, <2>1, StepIs
  <2>3. Becomes(b, "open", "size", Fields \ {"fd", "tmp"})
    BY <1>0, <2>2, Zenon DEF Becomes, Fields, BackendRecs
  <2> QED BY <1>3, <2>3, Zenon
<1>4. CASE MyFile(b).kind = "absent" /\ Step(b, "open", [o EXCEPT !.at = "create"])
  <2> DEFINE r == [o EXCEPT !.at = "create"]
  <2>1. r \in BackendRecs
    BY <1>0, Zenon DEF BackendRecs, Busy
  <2>2. backend'[b] = r /\ Same(b) /\ backend' \in [Backends -> BackendRecs] /\ o.at = "open"
    BY <1>4, <2>1, StepIs
  <2>3. Becomes(b, "open", "create", Fields)
    BY <1>0, <2>2, Zenon DEF Becomes, Fields, BackendRecs
  <2> QED BY <2>3, Zenon
<1>5. ASSUME o.at = "open" PROVE MyFile(b).kind \in {"absent", "file", "dir"}
  <2>1. o.path \in DOMAIN file
    BY <1>5, Zenon DEF FilesInv, HasPath, Busy
  <2> QED BY <2>1, Zenon DEF MyFile, BackendTypes, FileRecs
<1>6. OpenFile(b) => o.at = "open"
  BY Zenon DEF OpenFile, Step, IsAt
<1> QED BY <1>1, <1>2, <1>3, <1>4, <1>5, <1>6, Zenon DEF OpenFile

\* What open with O_CREAT and O_EXCL does.
LEMMA DoCreate ==
  ASSUME BackendTypes, NEW b \in Backends, CreateFile(b)
  PROVE  \/ /\ MyFile(b).kind = "absent" /\ Becomes(b, "create", "size", Fields \ {"fd", "created"}) /\ backend'[b].created
            /\ file' = [file EXCEPT ![backend[b].path] = [NoFile EXCEPT !.kind = "file", !.by = b]]
         \/ Becomes(b, "create", "open", Fields) /\ file' = file
<1> DEFINE o == backend[b]
<1>0. o \in BackendRecs
  BY Zenon DEF BackendTypes
<1>2. CASE MyFile(b).kind = "absent"
  <2> DEFINE r == [o EXCEPT !.at = "size", !.fd = TRUE, !.created = TRUE]
  <2>1. r \in BackendRecs
    BY <1>0, Zenon DEF BackendRecs, Busy
  <2>4. Step(b, "create", r) /\ file' = [file EXCEPT ![backend[b].path] = [NoFile EXCEPT !.kind = "file", !.by = b]]
    BY <1>2, Zenon DEF CreateFile, Created
  <2>2. backend'[b] = r /\ Same(b) /\ backend' \in [Backends -> BackendRecs] /\ o.at = "create"
    BY <2>4, <2>1, StepIs, Zenon
  <2>3. Becomes(b, "create", "size", Fields \ {"fd", "created"}) /\ backend'[b].created
    BY <1>0, <2>2, Zenon DEF Becomes, Fields, BackendRecs
  <2> QED BY <1>2, <2>3, <2>4, Zenon
<1>4. CASE MyFile(b).kind # "absent"
  <2> DEFINE r == [o EXCEPT !.at = "open"]
  <2>1. r \in BackendRecs
    BY <1>0, Zenon DEF BackendRecs, Busy
  <2>4. Step(b, "create", r) /\ file' = file
    BY <1>4, Zenon DEF CreateFile, Created
  <2>2. backend'[b] = r /\ Same(b) /\ backend' \in [Backends -> BackendRecs] /\ o.at = "create"
    BY <2>4, <2>1, StepIs, Zenon
  <2>3. Becomes(b, "create", "open", Fields)
    BY <1>0, <2>2, Zenon DEF Becomes, Fields, BackendRecs
  <2> QED BY <2>3, <2>4, Zenon
<1> QED BY <1>2, <1>4, Zenon

\* Failing removes the file if created is set.
Removes(b) ==
  file' = IF backend[b].created
          THEN [file EXCEPT ![backend[b].path] = [NoFile EXCEPT !.by = MyFile(b).by]] ELSE file

\* What the error path of qemu_ram_alloc_from_file does.
LEMMA DoFail ==
  ASSUME BackendTypes, NEW b \in Backends, NEW w, Fail(b, w)
  PROVE  Ends(b, w, "failed") /\ Removes(b)
<1>1. Step(b, w, Ended(b, "failed"))
  BY Zenon DEF Fail
<1> QED BY <1>1, EndStep, Zenon DEF Rest, Fail, Removes

\* What get_file_size does, and the comparison with the wanted size.
LEMMA DoSize ==
  ASSUME BackendTypes, FilesInv, NEW b \in Backends, SizeFile(b)
  PROVE  \/ Ends(b, "size", "failed") /\ Removes(b)
         \/ /\ Becomes(b, "size", "area", Fields \ {"file_size"}) /\ file' = file
            /\ ~backend[b].tmp => backend'[b].file_size = MyFile(b).size
<1> DEFINE o == backend[b]
           size == IF o.tmp THEN 0 ELSE MyFile(b).size
           r == [o EXCEPT !.at = "area", !.file_size = size]
<1>0. o \in BackendRecs
  BY Zenon DEF BackendTypes
<1>1. CASE Fail(b, "size")
  BY <1>1, DoFail, Zenon
<1>2. CASE Step(b, "size", r) /\ UNCHANGED file
  <2>0. o.at = "size"
    BY <1>2, Zenon DEF Step, IsAt
  <2>5. size \in Nat
    BY <1>0, <2>0, Zenon DEF BackendTypes, FilesInv, HasPath, Busy, MyFile, FileRecs, BackendRecs
  <2>1. r \in BackendRecs
    <3> HIDE DEF size
    <3> QED BY <1>0, <2>5, Zenon DEF BackendRecs, Busy
  <2>2. backend'[b] = r /\ Same(b) /\ backend' \in [Backends -> BackendRecs] /\ o.at = "size"
    <3> HIDE DEF r
    <3> QED BY <1>2, <2>1, StepIs, Zenon
  <2>3. Becomes(b, "size", "area", Fields \ {"file_size"}) /\ backend'[b].file_size = size
    <3> HIDE DEF size
    <3> QED BY <1>0, <2>2, Zenon DEF Becomes, Fields, BackendRecs
  <2> QED BY <1>2, <2>3, Zenon
<1> QED BY <1>1, <1>2, Zenon DEF SizeFile

\* What file_ram_alloc does before the mapping: only a file that was empty gets
\* another size.
LEMMA DoTruncate ==
  ASSUME BackendTypes, NEW b \in Backends, FileRamAlloc(b)
  PROVE  \/ Ends(b, "area", "failed") /\ Removes(b)
         \/ /\ Becomes(b, "area", "reserve", Fields \ {"align"})
            /\ backend'[b].align = IF backend[b].align = 0 THEN 1 ELSE backend[b].align
            /\ \/ file' = file
               \/ /\ backend[b].file_size = 0 /\ ~backend[b].tmp
                  /\ file' = [file EXCEPT ![backend[b].path].size = backend[b].size]
<1> DEFINE o == backend[b]
           al == IF o.align = 0 THEN 1 ELSE o.align
           r == [o EXCEPT !.at = "reserve", !.align = al]
<1>0. o \in BackendRecs
  BY Zenon DEF BackendTypes
<1>1. CASE Fail(b, "area")
  BY <1>1, DoFail, Zenon
<1>2. CASE /\ Step(b, "area", [o EXCEPT !.at = "reserve", !.align = IF @ = 0 THEN 1 ELSE @])
           /\ \/ UNCHANGED file
              \/ o.file_size = 0 /\ ~o.tmp /\ file' = [file EXCEPT ![o.path].size = o.size]
  <2>6. al \in Nat
    BY <1>0, Zenon DEF BackendRecs
  <2>5. [o EXCEPT !.at = "reserve", !.align = IF @ = 0 THEN 1 ELSE @] = r
    BY <1>0, Zenon DEF BackendRecs
  <2>1. r \in BackendRecs
    <3> HIDE DEF al
    <3> QED BY <1>0, <2>6, Zenon DEF BackendRecs, Busy
  <2>2. backend'[b] = r /\ Same(b) /\ backend' \in [Backends -> BackendRecs] /\ o.at = "area"
    <3> HIDE DEF r
    <3> QED BY <1>2, <2>1, <2>5, StepIs
  <2>3. Becomes(b, "area", "reserve", Fields \ {"align"}) /\ backend'[b].align = al
    <3> HIDE DEF al
    <3> QED BY <1>0, <2>2, Zenon DEF Becomes, Fields, BackendRecs
  <2> QED BY <1>2, <2>3, Zenon
<1> QED BY <1>1, <1>2, Zenon DEF FileRamAlloc, Truncating

\* Rounding up to a multiple.
LEMMA UpIs ==
  ASSUME NEW p \in Nat, NEW al \in Nat \ {0}, NEW up, up = ((p + al - 1) \div al) * al
  PROVE  up \in Nat /\ p <= up /\ up < p + al /\ up % al = 0
<1> DEFINE q == (p + al - 1) \div al
<1>1. q \in Nat /\ al * q <= p + al - 1 /\ p + al - 1 < al * q + al
  OBVIOUS
<1>2. up = al * q
  BY <1>1
<1>3. al * q \in Nat /\ (al * q) % al = 0
  BY <1>1
<1> HIDE DEF q
<1> QED BY <1>1, <1>2, <1>3

\* What the reservation of qemu_ram_mmap does.
LEMMA DoReserve ==
  ASSUME BackendTypes, NEW b \in Backends, Reserve(b), backend[b].align # 0
  PROVE  \/ Ends(b, "reserve", "failed") /\ Removes(b) /\ vm' = vm
         \/ /\ Becomes(b, "reserve", "map", Fields \ {"ptr", "offset"}) /\ file' = file
            /\ backend'[b].ptr \in FreeRuns(Total(b))
            /\ backend'[b].offset < backend[b].align
            /\ (backend'[b].ptr + backend'[b].offset) % backend[b].align = 0
            /\ vm' = Put(vm, backend'[b].ptr, Total(b), Reserved(b))
<1> DEFINE o == backend[b]
           up(p) == ((p + o.align - 1) \div o.align) * o.align
<1>0. o \in BackendRecs
  BY Zenon DEF BackendTypes
<1>1. CASE Fail(b, "reserve") /\ UNCHANGED vm
  BY <1>1, DoFail, Zenon
<1>2. ASSUME NEW p \in FreeRuns(Total(b)), Step(b, "reserve", [o EXCEPT !.at = "map", !.ptr = p, !.offset = up(p) - p]),
             vm' = Put(vm, p, Total(b), Reserved(b)), UNCHANGED file
      PROVE  /\ Becomes(b, "reserve", "map", Fields \ {"ptr", "offset"}) /\ file' = file
             /\ backend'[b].ptr \in FreeRuns(Total(b))
             /\ backend'[b].offset < backend[b].align
             /\ (backend'[b].ptr + backend'[b].offset) % backend[b].align = 0
             /\ vm' = Put(vm, backend'[b].ptr, Total(b), Reserved(b))
  <2>0. o.align \in Nat \ {0}
    BY <1>0, Zenon DEF BackendRecs
  <2>5. p \in Nat
    BY DEF FreeRuns
  <2>6. PICK u : u = up(p)
    BY Zenon
  <2>7. u \in Nat /\ p <= u /\ u < p + o.align /\ u % o.align = 0
    BY <2>0, <2>5, <2>6, UpIs, Zenon
  <2> DEFINE off == u - p
             r == [o EXCEPT !.at = "map", !.ptr = p, !.offset = off]
  <2>8. off \in Nat /\ off < o.align /\ p + off = u
    BY <2>0, <2>5, <2>7
  <2>9. [o EXCEPT !.at = "map", !.ptr = p, !.offset = up(p) - p] = r
    BY <2>6, Zenon
  <2> HIDE DEF off
  <2>1. r \in BackendRecs
    BY <1>0, <2>5, <2>8, Zenon DEF BackendRecs, Busy
  <2>2. backend'[b] = r /\ Same(b) /\ backend' \in [Backends -> BackendRecs] /\ o.at = "reserve"
    BY <1>2, <2>1, <2>9, StepIs, Zenon
  <2>3. Becomes(b, "reserve", "map", Fields \ {"ptr", "offset"}) /\ backend'[b].ptr = p /\ backend'[b].offset = off
    BY <1>0, <2>2, Zenon DEF Becomes, Fields, BackendRecs
  <2> QED BY <1>2, <2>3, <2>7, <2>8, Zenon
<1> QED BY <1>1, <1>2, Zenon DEF Reserve

\* What mapping the file, or ram_mmap of an image, does.
LEMMA DoMap ==
  ASSUME BackendTypes, NEW b \in Backends, MapArea(b)
  PROVE  \/ Ends(b, "map", "failed") /\ Removes(b) /\ vm' = Put(vm, backend[b].ptr, Total(b), Free) /\ cur_s' = cur_s
         \/ /\ Becomes(b, "map", "trim", Fields \ {"host"}) /\ file' = file /\ cur_s' = cur_s
            /\ backend[b].format = "raw" /\ backend'[b].host = backend[b].ptr + backend[b].offset
            /\ vm' = Put(vm, backend'[b].host, backend[b].size, Ram(b))
         \/ /\ Becomes(b, "map", "trim", Fields \ {"host"}) /\ file' = file
            /\ backend[b].format = "pcow" /\ backend'[b].host \in FreeRuns(backend[b].size)
            /\ vm' = Put(vm, backend'[b].host, backend[b].size, Ram(b))
            /\ cur_s' = [addr |-> backend'[b].host, length |-> MyFile(b).super, live |-> TRUE]
<1> DEFINE o == backend[b]
           place == o.ptr + o.offset
<1>0. o \in BackendRecs
  BY Zenon DEF BackendTypes
<1>1. CASE Fail(b, "map") /\ vm' = Put(vm, o.ptr, Total(b), Free) /\ UNCHANGED cur_s
  BY <1>1, DoFail, Zenon
<1>2. ASSUME NEW h \in Nat, Step(b, "map", [o EXCEPT !.at = "trim", !.host = h])
      PROVE  Becomes(b, "map", "trim", Fields \ {"host"}) /\ backend'[b].host = h
  <2> DEFINE r == [o EXCEPT !.at = "trim", !.host = h]
  <2>1. r \in BackendRecs
    BY <1>0, Zenon DEF BackendRecs, Busy
  <2>2. backend'[b] = r /\ Same(b) /\ backend' \in [Backends -> BackendRecs] /\ o.at = "map"
    BY <1>2, <2>1, StepIs, Zenon
  <2> QED BY <1>0, <2>2, Zenon DEF Becomes, Fields, BackendRecs
<1>3. place \in Nat
  BY <1>0 DEF BackendRecs
<1>4. CASE /\ o.format = "raw"
           /\ Step(b, "map", [o EXCEPT !.at = "trim", !.host = place])
           /\ vm' = Put(vm, place, o.size, Ram(b))
           /\ UNCHANGED <<file, cur_s>>
  BY <1>2, <1>3, <1>4, Zenon
<1>5. ASSUME o.format = "pcow", NEW q \in FreeRuns(o.size),
             Step(b, "map", [o EXCEPT !.at = "trim", !.host = q]),
             vm' = Put(vm, q, o.size, Ram(b)),
             cur_s' = [addr |-> q, length |-> MyFile(b).super, live |-> TRUE], UNCHANGED file
      PROVE  /\ Becomes(b, "map", "trim", Fields \ {"host"}) /\ file' = file
             /\ backend[b].format = "pcow" /\ backend'[b].host \in FreeRuns(backend[b].size)
             /\ vm' = Put(vm, backend'[b].host, backend[b].size, Ram(b))
             /\ cur_s' = [addr |-> backend'[b].host, length |-> MyFile(b).super, live |-> TRUE]
  <2>1. q \in Nat
    BY DEF FreeRuns
  <2> QED BY <1>2, <1>5, <2>1, Zenon
<1> QED BY <1>1, <1>4, <1>5, Zenon DEF MapArea

\* What qemu_ram_munmap does: a raw backend's pages and the guard page, or all
\* of the image that cur_s stands for.
Unmaps(b) ==
  \/ /\ backend[b].format = "raw" /\ cur_s' = cur_s
     /\ vm' = Put(vm, backend[b].host, backend[b].size + 1, Free)
  \/ backend[b].format # "raw" /\ cur_s.live /\ cur_s.addr # backend[b].host /\ vm' = vm /\ cur_s' = cur_s
  \/ /\ backend[b].format # "raw" /\ cur_s.live /\ cur_s.addr = backend[b].host
     /\ vm' = Put(vm, backend[b].host, cur_s.length, Free) /\ cur_s' = [cur_s EXCEPT !.live = FALSE]

\* RamMunmap does that.
LEMMA DoUnmap == ASSUME NEW b, RamMunmap(b) PROVE Unmaps(b)
  BY Zenon DEF RamMunmap, Unmaps

\* What unmapping the surplus before and behind the memory does.
LEMMA DoTrim ==
  ASSUME BackendTypes, NEW b \in Backends, Trim(b)
  PROVE  /\ \/ Becomes(b, "trim", "prealloc", Fields \ {"ptr", "offset", "file_size"})
            \/ Becomes(b, "trim", "mapped", Fields \ {"ptr", "offset", "file_size"})
         /\ file' = file /\ cur_s' = cur_s
         /\ LET o == backend[b]
                rest == Total(b) - o.offset
                front == Put(vm, o.ptr, o.offset, Free)
            IN  vm' = IF rest > o.size + 1 THEN Put(front, o.host + o.size + 1, rest - o.size - 1, Free) ELSE front
<1> DEFINE o == backend[b]
           next == IF o.prealloc THEN "prealloc" ELSE "mapped"
           r == [o EXCEPT !.at = next, !.ptr = 0, !.offset = 0, !.file_size = 0]
<1>0. o \in BackendRecs
  BY Zenon DEF BackendTypes
<1>1. next \in {"prealloc", "mapped"}
  BY Zenon
<1>2. Step(b, "trim", r)
  BY Zenon DEF Trim, Trimmed
<1>3. r \in BackendRecs
  <2> HIDE DEF next
  <2> QED BY <1>0, <1>1, Zenon DEF BackendRecs, Busy, Rest
<1>4. backend'[b] = r /\ Same(b) /\ backend' \in [Backends -> BackendRecs] /\ o.at = "trim"
  <2> HIDE DEF r
  <2> QED BY <1>2, <1>3, StepIs, Zenon
<1>5. Becomes(b, "trim", next, Fields \ {"ptr", "offset", "file_size"})
  <2> HIDE DEF next
  <2> QED BY <1>0, <1>4, Zenon DEF Becomes, Fields, BackendRecs
<1>6. file' = file /\ cur_s' = cur_s
  BY Zenon DEF Trim, Trimmed
<1>7. LET rest == Total(b) - o.offset
          front == Put(vm, o.ptr, o.offset, Free)
      IN  vm' = IF rest > o.size + 1 THEN Put(front, o.host + o.size + 1, rest - o.size - 1, Free) ELSE front
  BY Zenon DEF Trim, Trimmed
<1> QED BY <1>1, <1>5, <1>6, <1>7, Zenon

\* What os_mem_prealloc does: it fails and everything is undone, or the backend
\* is mapped.
LEMMA DoPrealloc ==
  ASSUME BackendTypes, NEW b \in Backends, Prealloc(b)
  PROVE  \/ Ends(b, "prealloc", "failed") /\ Removes(b) /\ Unmaps(b)
         \/ Becomes(b, "prealloc", "mapped", Fields) /\ file' = file /\ vm' = vm /\ cur_s' = cur_s
<1> DEFINE o == backend[b]
           r == [o EXCEPT !.at = "mapped"]
<1>0. o \in BackendRecs
  BY Zenon DEF BackendTypes
<1>1. CASE Fail(b, "prealloc") /\ RamMunmap(b)
  BY <1>1, DoFail, DoUnmap, Zenon
<1>2. CASE Step(b, "prealloc", r) /\ UNCHANGED <<file, vm, cur_s>>
  <2>1. r \in BackendRecs
    BY <1>0, Zenon DEF BackendRecs, Rest
  <2>2. backend'[b] = r /\ Same(b) /\ backend' \in [Backends -> BackendRecs] /\ o.at = "prealloc"
    <3> HIDE DEF r
    <3> QED BY <1>2, <2>1, StepIs, Zenon
  <2>3. Becomes(b, "prealloc", "mapped", Fields)
    BY <1>0, <2>2, Zenon DEF Becomes, Fields, BackendRecs
  <2> QED BY <1>2, <2>3, Zenon
<1> QED BY <1>1, <1>2, Zenon DEF Prealloc

\* What file_backend_unparent does: contents of the file may go, if they are to
\* be discarded.
LEMMA DoUnparent ==
  ASSUME BackendTypes, NEW b \in Backends, Unparent(b)
  PROVE  /\ Becomes(b, "mapped", "unparented", Fields) /\ vm' = vm /\ cur_s' = cur_s
         /\ \/ file' = file
            \/ backend[b].discard /\ file' = [file EXCEPT ![backend[b].path].data = FALSE]
<1> DEFINE o == backend[b]
           r == [o EXCEPT !.at = "unparented"]
<1>0. o \in BackendRecs
  BY Zenon DEF BackendTypes
<1>1. r \in BackendRecs
  BY <1>0, Zenon DEF BackendRecs, Rest
<1>2. Step(b, "mapped", r)
  BY Zenon DEF Unparent
<1>3. backend'[b] = r /\ Same(b) /\ backend' \in [Backends -> BackendRecs] /\ o.at = "mapped"
  <2> HIDE DEF r
  <2> QED BY <1>1, <1>2, StepIs, Zenon
<1>4. Becomes(b, "mapped", "unparented", Fields)
  BY <1>0, <1>3, Zenon DEF Becomes, Fields, BackendRecs
<1> QED BY <1>4, Zenon DEF Unparent

\* What reclaim_ramblock does.
LEMMA DoReclaim ==
  ASSUME BackendTypes, NEW b \in Backends, Reclaim(b)
  PROVE  Ends(b, "unparented", "gone") /\ file' = file /\ Unmaps(b)
<1>1. Step(b, "unparented", Ended(b, "gone"))
  BY Zenon DEF Reclaim
<1> QED BY <1>1, EndStep, DoUnmap, Zenon DEF Rest, Reclaim

-----------------------------------------------------------------------------
(* Files                                                                   *)

\* A file that open creates, and what unlink leaves of one.
NewFile(by) == [NoFile EXCEPT !.kind = "file", !.by = by]
GoneFile(by) == [NoFile EXCEPT !.by = by]

\* Whatever the contents: a file keeps its kind, size, table and maker.
FileStays(p) ==
  /\ file'[p].kind = file[p].kind /\ file'[p].size = file[p].size
  /\ file'[p].super = file[p].super /\ file'[p].by = file[p].by

\* What a step of b may do to files. Contents may go with unparent; otherwise
\* one file changes, while no other backend is being allocated: one is made
\* where none was, or b's own one is removed, or one that was empty gets a
\* size.
FileChange(b) ==
  /\ DOMAIN file' = DOMAIN file
  /\ \A p \in DOMAIN file : file'[p] \in FileRecs
  /\ \/ \A p \in DOMAIN file :
          /\ FileStays(p)
          /\ file[p].data # file'[p].data => IsAt(b, "mapped") /\ backend[b].path = p /\ backend[b].discard
     \/ /\ \A x \in Backends \ {b} : backend[x].at \notin Busy
        /\ \E q \in DOMAIN file :
             /\ \A p \in DOMAIN file \ {q} : file'[p] = file[p]
             /\ \/ file[q].kind = "absent" /\ file'[q] = NewFile(b)
                \/ file[q].by = b /\ file'[q] = GoneFile(b)
                \/ /\ file[q].kind # "absent" /\ file[q].size = 0
                   /\ file'[q] = [file[q] EXCEPT !.size = file'[q].size]

\* The fields of such files.
LEMMA NewFileIs ==
  ASSUME NEW by \in Backends \cup {"before", "other", "nobody"}
  PROVE  /\ NewFile(by) \in FileRecs
         /\ NewFile(by).kind = "file" /\ NewFile(by).size = 0 /\ NewFile(by).super = 0 /\ NewFile(by).by = by
         /\ GoneFile(by) \in FileRecs
         /\ GoneFile(by).kind = "absent" /\ GoneFile(by).size = 0
         /\ GoneFile(by).super = 0 /\ GoneFile(by).by = by
  BY Zenon DEF NewFile, GoneFile, NoFile, FileRecs

\* A step that leaves the files is such a step.
LEMMA SameFiles ==
  ASSUME BackendTypes, NEW b \in Backends, file' = file PROVE FileChange(b)
  BY Zenon DEF FileChange, FileStays, BackendTypes

\* Creating a file is such a step.
LEMMA FileMade ==
  ASSUME BackendTypes, NEW b \in Backends, NEW q \in DOMAIN file, file[q].kind = "absent",
         file' = [file EXCEPT ![q] = NewFile(b)], \A x \in Backends \ {b} : backend[x].at \notin Busy
  PROVE  FileChange(b)
<1>1. DOMAIN file' = DOMAIN file /\ file'[q] = NewFile(b) /\ \A p \in DOMAIN file \ {q} : file'[p] = file[p]
  BY Zenon
<1>2. \A p \in DOMAIN file : file'[p] \in FileRecs
  BY <1>1, NewFileIs, Zenon DEF BackendTypes
<1> QED BY <1>1, <1>2, Zenon DEF FileChange

\* Removing what b created is such a step.
LEMMA FileRemoved ==
  ASSUME BackendTypes, FilesInv, NEW b \in Backends, Removes(b), \A x \in Backends \ {b} : backend[x].at \notin Busy
  PROVE  FileChange(b)
<1>1. CASE ~backend[b].created
  BY <1>1, SameFiles, Zenon DEF Removes
<1>2. CASE backend[b].created
  <2> DEFINE q == backend[b].path
  <2>1. q \in DOMAIN file /\ file[q].by = b
    BY <1>2, Zenon DEF FilesInv, CreatedMine, HasPath, MyFile
  <2>2. file' = [file EXCEPT ![q] = GoneFile(b)]
    BY <1>2, <2>1, Zenon DEF Removes, MyFile, GoneFile
  <2>3. DOMAIN file' = DOMAIN file /\ file'[q] = GoneFile(b) /\ \A p \in DOMAIN file \ {q} : file'[p] = file[p]
    BY <2>1, <2>2, Zenon
  <2>4. \A p \in DOMAIN file : file'[p] \in FileRecs
    BY <2>3, NewFileIs DEF BackendTypes
  <2> QED BY <2>1, <2>3, <2>4, Zenon DEF FileChange
<1>3. backend[b].created \in BOOLEAN
  BY Zenon DEF BackendTypes, BackendRecs
<1> QED BY <1>1, <1>2, <1>3, Zenon

\* While b is being allocated no other backend is.
LEMMA BusyAlone ==
  ASSUME OneBusy, NEW b \in Backends, backend[b].at \in Busy
  PROVE  \A x \in Backends \ {b} : backend[x].at \notin Busy
  BY Zenon DEF OneBusy

\* The steps of one backend.
BackendStep(b) ==
  \/ \E o \in Options : SetProperties(b, o)
  \/ MemoryAlloc(b) \/ OpenFile(b) \/ CreateFile(b) \/ SizeFile(b) \/ FileRamAlloc(b) \/ Reserve(b)
  \/ MapArea(b) \/ Trim(b) \/ Prealloc(b) \/ Unparent(b) \/ Reclaim(b)

\* Where the reservation and the memory are: within the address space, and
\* aligned.
PlaceInv(b) ==
  LET o == backend[b] IN
  /\ o.at \in {"reserve", "map", "trim", "prealloc", "mapped", "unparented"} => o.align # 0
  /\ o.at \in {"map", "trim"} => o.offset < o.align /\ (o.ptr + o.offset) % o.align = 0 /\ o.ptr + Total(b) <= VirtualPages
  /\ o.format = "raw" /\ o.at = "trim" => o.host = o.ptr + o.offset
  /\ o.format = "raw" /\ o.at \in {"prealloc", "mapped", "unparented"} => o.host % o.align = 0

\* Every step of a backend changes files so.
LEMMA FilesChange ==
  ASSUME BackendTypes, OneBusy, FilesInv, NEW b \in Backends, PlaceInv(b), BackendStep(b)
  PROVE  FileChange(b)
<1>1. CASE \E o \in Options : SetProperties(b, o)
  BY <1>1, SameFiles, Zenon DEF SetProperties
<1>2. CASE MemoryAlloc(b)
  <2>1. \A x \in Backends \ {b} : backend[x].at \notin Busy
    BY <1>2, Zenon DEF MemoryAlloc, Busy
  <2>2. CASE file' = file
    BY <2>2, SameFiles, Zenon
  <2>3. ASSUME backend[b].path # NoPath, MyFile(b).kind = "absent", file' = [file EXCEPT ![backend[b].path] = NewFile(b)]
        PROVE FileChange(b)
    <3>1. backend[b].path \in DOMAIN file
      BY <2>3, Zenon DEF BackendTypes, BackendRecs
    <3> QED BY <2>1, <2>3, <3>1, FileMade, Zenon DEF MyFile
  <2> QED BY <1>2, <2>2, <2>3, DoMemoryAlloc, Zenon DEF NewFile
<1>3. CASE OpenFile(b)
  BY <1>3, SameFiles, Zenon DEF OpenFile
<1>4. CASE CreateFile(b)
  <2>1. CASE file' = file
    BY <2>1, SameFiles, Zenon
  <2>2. CASE MyFile(b).kind = "absent" /\ backend[b].at = "create" /\ file' = [file EXCEPT ![backend[b].path] = NewFile(b)]
    <3>1. backend[b].path \in DOMAIN file /\ backend[b].at \in Busy
      BY <2>2, Zenon DEF FilesInv, HasPath, Busy
    <3> QED BY <2>2, <3>1, FileMade, BusyAlone, Zenon DEF MyFile
  <2> QED BY <1>4, <2>1, <2>2, DoCreate, Zenon DEF NewFile, Becomes
<1>5. ASSUME NEW w \in Busy, Ends(b, w, "failed"), Removes(b) PROVE FileChange(b)
  BY <1>5, FileRemoved, BusyAlone, Zenon DEF Ends
<1>6. CASE SizeFile(b)
  BY <1>5, <1>6, DoSize, SameFiles, Zenon DEF Busy
<1>7. CASE FileRamAlloc(b)
  <2>1. CASE file' = file
    BY <2>1, SameFiles, Zenon
  <2>2. CASE /\ Becomes(b, "area", "reserve", Fields \ {"align"}) /\ backend[b].file_size = 0 /\ ~backend[b].tmp
             /\ file' = [file EXCEPT ![backend[b].path].size = backend[b].size]
    <3> DEFINE q == backend[b].path
    <3>1. backend[b].at = "area" /\ backend[b].at \in Busy /\ backend[b] \in BackendRecs
      BY <2>2, Zenon DEF Becomes, Busy, BackendTypes
    <3>2. q \in DOMAIN file /\ file[q].kind # "absent" /\ file[q].size = 0 /\ file[q] \in FileRecs
      BY <2>2, <3>1, Zenon DEF FilesInv, HasPath, Opened, MyFile, BackendTypes
    <3>3. DOMAIN file' = DOMAIN file /\ file'[q] = [file[q] EXCEPT !.size = backend[b].size] /\ \A p \in DOMAIN file \ {q} : file'[p] = file[p]
      BY <2>2, <3>2, Zenon
    <3>4. [file[q] EXCEPT !.size = backend[b].size] \in FileRecs /\ [file[q] EXCEPT !.size = backend[b].size].size = backend[b].size
      BY <3>1, <3>2, Zenon DEF FileRecs, BackendRecs
    <3>5. \A p \in DOMAIN file : file'[p] \in FileRecs
      BY <3>3, <3>4, Zenon DEF BackendTypes
    <3> QED BY <3>1, <3>2, <3>3, <3>4, <3>5, BusyAlone DEF FileChange
  <2> QED BY <1>5, <1>7, <2>1, <2>2, DoTruncate, Zenon DEF Busy
<1>8. CASE Reserve(b)
  <2>1. backend[b].align # 0
    BY <1>8, Zenon DEF PlaceInv, Reserve, Fail, Step, IsAt
  <2> QED BY <1>5, <1>8, <2>1, DoReserve, SameFiles, Zenon DEF Busy
<1>9. CASE MapArea(b)
  BY <1>5, <1>9, DoMap, SameFiles, Zenon DEF Busy
<1>10. CASE Trim(b)
  BY <1>10, DoTrim, SameFiles, Zenon
<1>11. CASE Prealloc(b)
  BY <1>5, <1>11, DoPrealloc, SameFiles, Zenon DEF Busy
<1>12. CASE Unparent(b)
  <2>1. CASE file' = file
    BY <2>1, SameFiles, Zenon
  <2>2. CASE backend[b].discard /\ file' = [file EXCEPT ![backend[b].path].data = FALSE]
    <3> DEFINE q == backend[b].path
    <3>1. IsAt(b, "mapped") /\ q \in DOMAIN file /\ file[q] \in FileRecs
      BY <1>12, Zenon DEF Unparent, Step, IsAt, FilesInv, HasPath, BackendTypes
    <3>2. [file[q] EXCEPT !.data = FALSE] \in FileRecs
      BY <3>1, Zenon DEF FileRecs
    <3>3. DOMAIN file' = DOMAIN file /\ file'[q] = [file[q] EXCEPT !.data = FALSE] /\ \A p \in DOMAIN file \ {q} : file'[p] = file[p]
      BY <2>2, <3>1, Zenon
    <3>4. \A p \in DOMAIN file : file'[p] \in FileRecs
      BY <3>2, <3>3, Zenon DEF BackendTypes
    <3>5. \A p \in DOMAIN file : FileStays(p)
      BY <3>1, <3>3 DEF FileStays, FileRecs
    <3> QED BY <2>2, <3>1, <3>3, <3>4, <3>5, Zenon DEF FileChange
  <2> QED BY <1>12, <2>1, <2>2, DoUnparent, Zenon
<1>13. CASE Reclaim(b)
  BY <1>13, DoReclaim, SameFiles, Zenon
<1> QED BY <1>1, <1>2, <1>3, <1>4, <1>6, <1>7, <1>8, <1>9, <1>10, <1>11, <1>12, <1>13, Zenon DEF BackendStep

\* AbsentEmpty is kept, whatever backend works.
LEMMA FilesKept ==
  ASSUME BackendTypes, FilesInv, NEW b \in Backends, FileChange(b)
  PROVE  /\ AbsentEmpty'
         /\ \A p \in Paths : p \in DOMAIN file' \cup {NoPath}
         /\ \A p \in DOMAIN file' : file'[p] \in FileRecs
<1>1. DOMAIN file' = DOMAIN file /\ \A p \in DOMAIN file : file'[p] \in FileRecs
  BY Zenon DEF FileChange
<1>2. ASSUME NEW p \in DOMAIN file, file'[p].kind = "absent"
      PROVE file'[p].size = 0 /\ file'[p].super = 0 /\ file'[p].by \in Backends \cup {"nobody"}
  <2>1. file[p].kind = "absent" => file[p].size = 0 /\ file[p].super = 0 /\ file[p].by \in Backends \cup {"nobody"}
    BY Zenon DEF FilesInv, AbsentEmpty
  <2>2. CASE FileStays(p)
    BY <1>2, <2>1, <2>2, Zenon DEF FileStays
  <2>3. CASE file'[p] = file[p]
    BY <1>2, <2>1, <2>3, Zenon
  <2>4. CASE file'[p] = NewFile(b)
    BY <1>2, <2>4, NewFileIs, Zenon
  <2>5. CASE file'[p] = GoneFile(b)
    BY <2>5, NewFileIs
  <2>6. CASE file[p].kind # "absent" /\ file'[p] = [file[p] EXCEPT !.size = file'[p].size]
    <3>1. file[p] \in FileRecs
      BY Zenon DEF BackendTypes
    <3>2. file'[p].kind = file[p].kind
      BY <2>6, <3>1, Zenon DEF FileRecs
    <3> QED BY <1>2, <2>6, <3>2, Zenon
  <2> QED BY <2>2, <2>3, <2>4, <2>5, <2>6, Zenon DEF FileChange
<1> QED BY <1>1, <1>2, Zenon DEF AbsentEmpty, BackendTypes

\* Of one file, for a backend that is not the one at work.
LEMMA FileOfOther ==
  ASSUME BackendTypes, FilesInv, NEW b \in Backends, FileChange(b), NEW x \in Backends \ {b}, NEW p \in DOMAIN file
  PROVE  /\ file[p].by = x /\ file[p].kind = "file" => file'[p].by = x /\ file'[p].kind = "file"
         /\ file'[p].by = x /\ file'[p].kind # "absent" => file[p].by = x /\ file[p].kind # "absent"
         /\ backend[x].at \in Busy => FileStays(p)
<1>1. CASE FileStays(p)
  BY <1>1, Zenon DEF FileStays
<1>2. CASE file'[p] = file[p] /\ \A y \in Backends \ {b} : backend[y].at \notin Busy
  BY <1>2, Zenon
<1>3. CASE file[p].kind = "absent" /\ file'[p] = NewFile(b) /\ \A y \in Backends \ {b} : backend[y].at \notin Busy
  BY <1>3, NewFileIs
<1>4. CASE file[p].by = b /\ file'[p] = GoneFile(b) /\ \A y \in Backends \ {b} : backend[y].at \notin Busy
  BY <1>4, NewFileIs
<1>5. CASE file'[p] = [file[p] EXCEPT !.size = file'[p].size] /\ \A y \in Backends \ {b} : backend[y].at \notin Busy
  <2>1. file[p] \in FileRecs
    BY Zenon DEF BackendTypes
  <2>2. file'[p].kind = file[p].kind /\ file'[p].by = file[p].by
    BY <1>5, <2>1, Zenon DEF FileRecs
  <2> QED BY <1>5, <2>2, Zenon
<1> QED BY <1>1, <1>2, <1>3, <1>4, <1>5, Zenon DEF FileChange

\* What holds of the files of the other backends is kept.
LEMMA OthersFiles ==
  ASSUME BackendTypes, FilesInv, NEW b \in Backends, FileChange(b), NEW x \in Backends \ {b}, Same(b)
  PROVE  HasPath(x)' /\ CreatedMine(x)' /\ Opened(x)' /\ MineCreated(x)'
<1>1. DOMAIN file' = DOMAIN file /\ backend'[x] = backend[x]
  BY Zenon DEF FileChange, Same
<1>2. HasPath(x) /\ CreatedMine(x) /\ Opened(x) /\ MineCreated(x)
  BY Zenon DEF FilesInv
<1>3. HasPath(x)'
  BY <1>1, <1>2, Zenon DEF HasPath
<1>4. CreatedMine(x)'
  <2> SUFFICES ASSUME backend[x].created PROVE CreatedMine(x)'
    BY <1>1, Zenon DEF CreatedMine
  <2>1. backend[x].path \in DOMAIN file
    BY <1>2, Zenon DEF CreatedMine, HasPath
  <2>2. file[backend[x].path].by = x /\ file[backend[x].path].kind = "file"
    BY <1>2, Zenon DEF CreatedMine, MyFile
  <2>3. file'[backend[x].path].by = x /\ file'[backend[x].path].kind = "file"
    <3>1. \A p \in DOMAIN file : file[p].by = x /\ file[p].kind = "file" => file'[p].by = x /\ file'[p].kind = "file"
      BY FileOfOther, Zenon
    <3> QED BY <2>1, <2>2, <3>1, Zenon
  <2> QED BY <1>1, <1>2, <2>3, Zenon DEF CreatedMine, MyFile
<1>5. Opened(x)'
  <2> SUFFICES ASSUME backend[x].at \in {"size", "area"}, ~backend[x].tmp PROVE Opened(x)'
    BY <1>1, Zenon DEF Opened
  <2>1. backend[x].path \in DOMAIN file /\ backend[x].at \in Busy
    BY <1>2, Zenon DEF HasPath, Busy
  <2>2. FileStays(backend[x].path)
    BY <2>1, FileOfOther, Zenon
  <2> QED BY <1>1, <1>2, <2>2, Zenon DEF Opened, MyFile, FileStays
<1>6. MineCreated(x)'
  <2>1. \A p \in DOMAIN file : file'[p].by = x /\ file'[p].kind # "absent" => file[p].by = x /\ file[p].kind # "absent"
    BY FileOfOther, Zenon
  <2> QED BY <1>1, <1>2, <2>1, Zenon DEF MineCreated
<1> QED BY <1>3, <1>4, <1>5, <1>6, Zenon

\* A backend that ends has no file that it created, or is gone for good.
LEMMA EndedFiles ==
  ASSUME BackendTypes, FilesInv, NEW b \in Backends, FileChange(b), NEW w, NEW how \in {"failed", "gone"},
         Ends(b, w, how), how = "failed" => Removes(b), backend[b].at # "gone"
  PROVE  HasPath(b)' /\ CreatedMine(b)' /\ Opened(b)' /\ MineCreated(b)'
<1>1. backend'[b].at = how /\ ~backend'[b].created /\ backend'[b].format = backend[b].format
  BY Zenon DEF Ends
<1>2. HasPath(b)' /\ CreatedMine(b)' /\ Opened(b)'
  BY <1>1, Zenon DEF HasPath, CreatedMine, Opened, Busy
<1>3. MineCreated(b)'
  <2> SUFFICES ASSUME how = "failed", backend[b].format = "raw", NEW p \in DOMAIN file', file'[p].by = b, file'[p].kind # "absent"
               PROVE  FALSE
    BY <1>1, Zenon DEF MineCreated
  <2>1. p \in DOMAIN file
    BY Zenon DEF FileChange
  <2>2. CASE ~backend[b].created
    BY <2>1, <2>2, Zenon DEF Removes, FilesInv, MineCreated
  <2>3. CASE backend[b].created
    <3>1. MyFile(b).by = b /\ backend[b].path \in DOMAIN file
      BY <2>3, Zenon DEF FilesInv, CreatedMine, HasPath
    <3>2. file' = [file EXCEPT ![backend[b].path] = GoneFile(b)]
      BY <2>3, <3>1, Zenon DEF Removes, GoneFile
    <3>3. CASE p = backend[b].path
      BY <3>1, <3>2, <3>3, NewFileIs
    <3>4. CASE p # backend[b].path
      <4>1. file'[p] = file[p]
        BY <2>1, <3>1, <3>2, <3>4, Zenon
      <4> QED BY <2>1, <3>4, <4>1, Zenon DEF FilesInv, MineCreated
    <3> QED BY <3>3, <3>4, Zenon
  <2> QED BY <2>2, <2>3, Zenon
<1> QED BY <1>2, <1>3, Zenon

\* A backend that goes on, while files keep their kinds, keeps what holds of
\* its own.
LEMMA GoingFiles ==
  ASSUME BackendTypes, FilesInv, NEW b \in Backends, FileChange(b), NEW w \in Busy \cup {"new", "mapped"},
         NEW at \in Busy \cup Rest, at \notin {"failed", "gone", "new"},
         NEW fields, {"path", "format"} \subseteq fields, Becomes(b, w, at, fields),
         at \in Busy \cup {"mapped", "unparented"} => backend[b].path \in DOMAIN file /\ backend[b].format \in {"raw", "pcow"},
         backend'[b].created = backend[b].created, at \in {"open", "create", "nomemory"} => ~backend[b].created,
         \A p \in DOMAIN file : /\ file'[p].kind = file[p].kind /\ file'[p].by = file[p].by
                                /\ at \in {"size", "area"} => file'[p] = file[p],
         at = "size" => backend'[b].tmp \/ MyFile(b).kind # "absent",
         at = "area" => /\ w = "size" /\ backend'[b].tmp = backend[b].tmp
                        /\ ~backend[b].tmp => backend'[b].file_size = MyFile(b).size
  PROVE  HasPath(b)' /\ CreatedMine(b)' /\ Opened(b)' /\ MineCreated(b)'
<1>1. /\ backend[b].at = w /\ backend'[b].at = at /\ DOMAIN file' = DOMAIN file
      /\ backend'[b].path = backend[b].path /\ backend'[b].format = backend[b].format
  BY Zenon DEF Becomes, FileChange
<1>2. HasPath(b) /\ CreatedMine(b) /\ Opened(b) /\ MineCreated(b)
  BY Zenon DEF FilesInv
<1>3. HasPath(b)'
  BY <1>1, Zenon DEF HasPath
<1>4. CreatedMine(b)'
  <2> SUFFICES ASSUME backend[b].created PROVE CreatedMine(b)'
    BY Zenon DEF CreatedMine
  <2>1. backend[b].path \in DOMAIN file /\ MyFile(b).by = b /\ MyFile(b).kind = "file"
    BY <1>2, Zenon DEF CreatedMine, HasPath
  <2>2. at \in (Busy \ {"open", "create"}) \cup {"mapped", "unparented"}
    BY Zenon DEF Busy, Rest
  <2> QED BY <1>1, <2>1, <2>2, Zenon DEF CreatedMine, MyFile
<1>5. Opened(b)'
  <2> SUFFICES ASSUME at \in {"size", "area"}, ~backend'[b].tmp PROVE Opened(b)'
    BY <1>1, Zenon DEF Opened
  <2>1. file'[backend[b].path] = file[backend[b].path] /\ backend[b].path \in DOMAIN file
    <3>1. at \in Busy
      BY Zenon DEF Busy
    <3> QED BY <3>1, Zenon
  <2>2. MyFile(b).kind # "absent"
    BY <1>1, <1>2, Zenon DEF Opened
  <2> QED BY <1>1, <2>1, <2>2, Zenon DEF Opened, MyFile
<1>6. MineCreated(b)'
  <2>1. w # "gone"
    BY Zenon DEF Busy
  <2> QED BY <1>1, <1>2, <2>1, Zenon DEF MineCreated
<1> QED BY <1>3, <1>4, <1>5, <1>6, Zenon

\* What FilesInv says of b holds after the step.
OwnFiles(b) == HasPath(b)' /\ CreatedMine(b)' /\ Opened(b)' /\ MineCreated(b)'

\* memory_alloc keeps it.
LEMMA AllocFiles ==
  ASSUME BackendTypes, OneBusy, FilesInv, NEW b \in Backends, FileChange(b), MemoryAlloc(b)
  PROVE  OwnFiles(b)
<1>0. backend[b].at = "new" => ~backend[b].created
  BY Zenon DEF FilesInv, CreatedMine, Busy
<1>1. CASE Ends(b, "new", "failed") /\ file' = file
  <2>1. Removes(b) /\ backend[b].at # "gone"
    BY <1>0, <1>1, Zenon DEF Ends, Removes
  <2> QED BY <1>1, <2>1, EndedFiles, Zenon DEF OwnFiles
<1>3. ASSUME NEW at \in {"open", "nomemory"}, NEW fields, {"path", "format", "created"} \subseteq fields,
             Becomes(b, "new", at, fields), backend[b].path # NoPath, backend[b].format = "pcow" \/ (backend[b].format = "raw" /\ file' = file)
      PROVE  OwnFiles(b)
  <2>1. /\ backend[b].at = "new" /\ backend'[b].at = at /\ backend'[b].path = backend[b].path
        /\ backend'[b].format = backend[b].format /\ backend'[b].created = backend[b].created
    BY <1>3, Zenon DEF Becomes
  <2>2. backend[b].path \in DOMAIN file /\ DOMAIN file' = DOMAIN file
    BY <1>3, Zenon DEF BackendTypes, BackendRecs, FileChange
  <2>3. HasPath(b)'
    BY <1>3, <2>1, <2>2, Zenon DEF HasPath
  <2>4. CreatedMine(b)' /\ Opened(b)'
    BY <1>0, <2>1, Zenon DEF CreatedMine, Opened
  <2>5. MineCreated(b)'
    BY <1>0, <1>3, <2>1, Zenon DEF MineCreated, FilesInv
  <2> QED BY <2>3, <2>4, <2>5, Zenon DEF OwnFiles
<1>4. {"path", "format", "created"} \subseteq Fields /\ {"path", "format", "created"} \subseteq Fields \ {"fd"}
      /\ {"path", "format", "created"} \subseteq Fields \ {"size"}
  BY Zenon DEF Fields
<1> QED BY <1>1, <1>3, <1>4, DoMemoryAlloc, Zenon

\* Creating the file keeps it.
LEMMA CreateFiles ==
  ASSUME BackendTypes, OneBusy, FilesInv, NEW b \in Backends, FileChange(b), CreateFile(b)
  PROVE  OwnFiles(b)
<1>0. CreatedMine(b) /\ HasPath(b) /\ MineCreated(b)
  BY Zenon DEF FilesInv
<1>1. CASE Becomes(b, "create", "open", Fields) /\ file' = file
  <2>1. backend[b].at = "create" /\ ~backend[b].created /\ backend[b].path \in DOMAIN file /\ backend[b].format \in {"raw", "pcow"}
    BY <1>0, <1>1, Zenon DEF Becomes, CreatedMine, HasPath, Busy
  <2>2. backend'[b].created = backend[b].created /\ {"path", "format"} \subseteq Fields
    BY <1>1, Zenon DEF Becomes, Fields
  <2> QED BY <1>1, <2>1, <2>2, GoingFiles, Zenon DEF OwnFiles, Busy, Rest
<1>2. CASE /\ MyFile(b).kind = "absent" /\ Becomes(b, "create", "size", Fields \ {"fd", "created"}) /\ backend'[b].created
           /\ file' = [file EXCEPT ![backend[b].path] = NewFile(b)]
  <2> DEFINE q == backend[b].path
  <2>1. backend[b].at = "create" /\ backend'[b].at = "size" /\ backend'[b].path = q /\ backend'[b].format = backend[b].format
    BY <1>2, Zenon DEF Becomes, Fields
  <2>2. q \in DOMAIN file /\ backend[b].format \in {"raw", "pcow"} /\ ~backend[b].created
    BY <1>0, <2>1, Zenon DEF CreatedMine, HasPath, Busy
  <2>3. DOMAIN file' = DOMAIN file /\ file'[q] = NewFile(b) /\ \A p \in DOMAIN file \ {q} : file'[p] = file[p]
    BY <1>2, <2>2, Zenon
  <2>4. file'[q].kind = "file" /\ file'[q].by = b
    BY <2>3, NewFileIs
  <2>5. HasPath(b)'
    BY <2>1, <2>2, <2>3, Zenon DEF HasPath
  <2>6. CreatedMine(b)' /\ Opened(b)'
    BY <2>1, <2>4, Zenon DEF CreatedMine, Opened, MyFile, Busy
  <2>7. MineCreated(b)'
    <3> SUFFICES ASSUME backend[b].format = "raw", NEW p \in DOMAIN file, file'[p].by = b, file'[p].kind # "absent"
                 PROVE  p = q
      BY <1>2, <2>1, <2>3, Zenon DEF MineCreated
    <3> QED BY <1>0, <2>1, <2>2, <2>3 DEF MineCreated
  <2> QED BY <2>5, <2>6, <2>7, Zenon DEF OwnFiles
<1> QED BY <1>1, <1>2, DoCreate, Zenon DEF NewFile

\* So do the other steps, which leave kinds and makers of files, or end.
LEMMA StepOwnFiles ==
  ASSUME BackendTypes, OneBusy, FilesInv, NEW b \in Backends, PlaceInv(b), BackendStep(b), FileChange(b)
  PROVE  OwnFiles(b)
<1>0. CreatedMine(b) /\ HasPath(b) /\ MineCreated(b) /\ Opened(b)
  BY Zenon DEF FilesInv
<1>1. CASE \E o \in Options : SetProperties(b, o)
  <2>1. backend[b].at = "new" /\ backend'[b].at = "new" /\ ~backend'[b].created
    BY <1>1, DoSetProperties, Zenon
  <2>2. file' = file /\ ~backend[b].created
    BY <1>0, <1>1, <2>1, Zenon DEF SetProperties, CreatedMine, Busy
  <2> QED BY <1>0, <2>1, <2>2, Zenon DEF OwnFiles, HasPath, CreatedMine, Opened, MineCreated, Busy
<1>2. CASE MemoryAlloc(b)
  BY <1>2, AllocFiles, Zenon
<1>3. CASE CreateFile(b)
  BY <1>3, CreateFiles, Zenon
<1>4. ASSUME NEW w \in Busy, Ends(b, w, "failed"), Removes(b) PROVE OwnFiles(b)
  <2>1. backend[b].at # "gone"
    BY <1>4, Zenon DEF Ends, Busy
  <2> QED BY <1>4, <2>1, EndedFiles, Zenon DEF OwnFiles
<1>5. ASSUME NEW w \in Busy \cup {"mapped"}, NEW at \in Busy \cup {"mapped", "unparented"}, at \notin {"open", "size", "area"},
             at = "create" => w = "open",
             NEW fields, {"path", "format", "created"} \subseteq fields, Becomes(b, w, at, fields),
             \A p \in DOMAIN file : file'[p].kind = file[p].kind /\ file'[p].by = file[p].by
      PROVE  OwnFiles(b)
  <2>1. backend[b].at = w /\ backend'[b].created = backend[b].created
    BY <1>5, Zenon DEF Becomes
  <2>2. backend[b].path \in DOMAIN file /\ backend[b].format \in {"raw", "pcow"}
    BY <1>0, <2>1, Zenon DEF HasPath
  <2>3. at \in {"open", "create", "nomemory"} => ~backend[b].created
    BY <1>0, <1>5, <2>1, Zenon DEF CreatedMine, Busy
  <2>4. at \in Busy \cup Rest /\ at \notin {"failed", "gone", "new", "size", "area"} /\ w \in Busy \cup {"new", "mapped"}
    BY <1>5, Zenon DEF Busy, Rest
  <2>5. {"path", "format"} \subseteq fields
    BY <1>5, Zenon
  <2> QED BY <1>5, <2>1, <2>2, <2>3, <2>4, <2>5, GoingFiles DEF OwnFiles
<1>6. /\ {"path", "format", "created"} \subseteq Fields /\ {"path", "format", "created"} \subseteq Fields \ {"align"}
      /\ {"path", "format", "created"} \subseteq Fields \ {"ptr", "offset"}
      /\ {"path", "format", "created"} \subseteq Fields \ {"host"}
      /\ {"path", "format", "created"} \subseteq Fields \ {"ptr", "offset", "file_size"}
  BY Zenon DEF Fields
<1>7. CASE OpenFile(b)
  <2>0. file' = file
    BY <1>7, Zenon DEF OpenFile
  <2>1. CASE Ends(b, "open", "failed")
    <3>1. Removes(b)
      BY <1>0, <2>0, <2>1, Zenon DEF Ends, CreatedMine, Busy, Removes
    <3> QED BY <1>4, <2>1, <3>1, Zenon DEF Busy
  <2>2. CASE Becomes(b, "open", "create", Fields)
    BY <1>5, <1>6, <2>0, <2>2, Zenon DEF Busy
  <2>3. CASE MyFile(b).kind # "absent" /\ Becomes(b, "open", "size", Fields \ {"fd", "tmp"})
    <3>1. backend[b].at = "open" /\ backend'[b].created = backend[b].created /\ {"path", "format"} \subseteq Fields \ {"fd", "tmp"}
      BY <2>3, Zenon DEF Becomes, Fields
    <3>2. backend[b].path \in DOMAIN file /\ backend[b].format \in {"raw", "pcow"}
      BY <1>0, <3>1, Zenon DEF HasPath, Busy
    <3>3. "size" \in Busy \cup Rest /\ "open" \in Busy \cup {"new", "mapped"}
      BY Zenon DEF Busy
    <3> QED BY <2>0, <2>3, <3>1, <3>2, <3>3, GoingFiles, Zenon DEF OwnFiles
  <2> QED BY <1>7, <2>1, <2>2, <2>3, DoOpen, Zenon
<1>8. CASE SizeFile(b)
  <2>1. CASE Ends(b, "size", "failed") /\ Removes(b)
    BY <1>4, <2>1, Zenon DEF Busy
  <2>2. CASE /\ Becomes(b, "size", "area", Fields \ {"file_size"}) /\ file' = file
             /\ ~backend[b].tmp => backend'[b].file_size = MyFile(b).size
    <3>1. /\ backend[b].at = "size" /\ backend'[b].created = backend[b].created /\ backend'[b].tmp = backend[b].tmp
          /\ {"path", "format"} \subseteq Fields \ {"file_size"}
      BY <2>2, Zenon DEF Becomes, Fields
    <3>2. backend[b].path \in DOMAIN file /\ backend[b].format \in {"raw", "pcow"}
      BY <1>0, <3>1, Zenon DEF HasPath, Busy
    <3>3. "area" \in Busy \cup Rest /\ "size" \in Busy \cup {"new", "mapped"}
      BY Zenon DEF Busy
    <3> QED BY <2>2, <3>1, <3>2, <3>3, GoingFiles, Zenon DEF OwnFiles
  <2> QED BY <1>8, <2>1, <2>2, DoSize, Zenon
<1>9. CASE FileRamAlloc(b)
  <2>1. CASE Ends(b, "area", "failed") /\ Removes(b)
    BY <1>4, <2>1, Zenon DEF Busy
  <2>2. CASE /\ Becomes(b, "area", "reserve", Fields \ {"align"})
             /\ file' = file \/ file' = [file EXCEPT ![backend[b].path].size = backend[b].size]
    <3>1. \A p \in DOMAIN file : file'[p].kind = file[p].kind /\ file'[p].by = file[p].by
      BY <2>2 DEF BackendTypes, FileRecs
    <3> QED BY <1>5, <1>6, <2>2, <3>1, Zenon DEF Busy
  <2> QED BY <1>9, <2>1, <2>2, DoTruncate, Zenon
<1>10. CASE Reserve(b)
  <2>1. backend[b].align # 0
    BY <1>10, Zenon DEF PlaceInv, Reserve, Fail, Step, IsAt
  <2>2. CASE Ends(b, "reserve", "failed") /\ Removes(b)
    BY <1>4, <2>2, Zenon DEF Busy
  <2>3. CASE Becomes(b, "reserve", "map", Fields \ {"ptr", "offset"}) /\ file' = file
    BY <1>5, <1>6, <2>3, Zenon DEF Busy
  <2> QED BY <1>10, <2>1, <2>2, <2>3, DoReserve, Zenon
<1>11. CASE MapArea(b)
  <2>2. CASE Ends(b, "map", "failed") /\ Removes(b)
    BY <1>4, <2>2, Zenon DEF Busy
  <2>3. CASE Becomes(b, "map", "trim", Fields \ {"host"}) /\ file' = file
    BY <1>5, <1>6, <2>3, Zenon DEF Busy
  <2> QED BY <1>11, <2>2, <2>3, DoMap, Zenon
<1>12. CASE Trim(b)
  <2>2. CASE Becomes(b, "trim", "prealloc", Fields \ {"ptr", "offset", "file_size"}) /\ file' = file
    BY <1>5, <1>6, <2>2, Zenon DEF Busy
  <2>3. CASE Becomes(b, "trim", "mapped", Fields \ {"ptr", "offset", "file_size"}) /\ file' = file
    BY <1>5, <1>6, <2>3, Zenon DEF Busy
  <2> QED BY <1>12, <2>2, <2>3, DoTrim, Zenon
<1>13. CASE Prealloc(b)
  <2>2. CASE Ends(b, "prealloc", "failed") /\ Removes(b)
    BY <1>4, <2>2, Zenon DEF Busy
  <2>3. CASE Becomes(b, "prealloc", "mapped", Fields) /\ file' = file
    BY <1>5, <1>6, <2>3, Zenon DEF Busy
  <2> QED BY <1>13, <2>2, <2>3, DoPrealloc, Zenon
<1>14. CASE Unparent(b)
  <2>1. Becomes(b, "mapped", "unparented", Fields)
    BY <1>14, DoUnparent, Zenon
  <2>2. \A p \in DOMAIN file : file'[p].kind = file[p].kind /\ file'[p].by = file[p].by
    <3>1. file' = file \/ file' = [file EXCEPT ![backend[b].path].data = FALSE]
      BY <1>14, DoUnparent, Zenon
    <3> QED BY <3>1 DEF BackendTypes, FileRecs
  <2> QED BY <1>5, <1>6, <2>1, <2>2, Zenon DEF Busy
<1>15. CASE Reclaim(b)
  <2>1. Ends(b, "unparented", "gone") /\ backend[b].at # "gone"
    BY <1>15, DoReclaim, Zenon DEF Ends
  <2> QED BY <2>1, EndedFiles, Zenon DEF OwnFiles
<1> QED BY <1>1, <1>2, <1>3, <1>7, <1>8, <1>9, <1>10, <1>11, <1>12, <1>13, <1>14, <1>15, Zenon DEF BackendStep

-----------------------------------------------------------------------------
(* Pages                                                                   *)

\* The places of a backend whose memory is mapped.
Mapped == {"prealloc", "mapped", "unparented"}

\* A raw backend has pages only while it is mapped or being mapped, and only
\* inside its reservation, later inside its memory and the guard page.
Within(b) ==
  LET o == backend[b] IN
  o.format = "raw" \/ o.at = "new" =>
    \A a \in DOMAIN vm : vm[a] \in {Reserved(b), Ram(b)} =>
      /\ o.at \in {"map", "trim"} \cup Mapped
      /\ o.at \in {"map", "trim"} => a \in Span(o.ptr, Total(b))
      /\ o.at \in Mapped => a \in Span(o.host, o.size + 1)

\* Every page that changes becomes free or b's.
PagesChange(b) ==
  /\ DOMAIN vm' = DOMAIN vm
  /\ \A a \in DOMAIN vm : vm'[a] = vm[a] \/ vm'[a] \in {Free, Reserved(b), Ram(b)}

\* What Put does to each page.
LEMMA PutIs ==
  ASSUME NEW v, NEW p, NEW n, NEW who
  PROVE  /\ DOMAIN Put(v, p, n, who) = DOMAIN v
         /\ \A a \in DOMAIN v : Put(v, p, n, who)[a] = IF a \in Span(p, n) THEN who ELSE v[a]
  BY Zenon DEF Put

\* Pages of different holders are different.
LEMMA PagesDiffer ==
  ASSUME NEW b, NEW x
  PROVE  /\ Free # Reserved(b) /\ Free # Ram(b) /\ Reserved(b) # Ram(x)
         /\ Other # Free /\ Other # Reserved(b) /\ Other # Ram(b)
         /\ b # x => Reserved(b) # Reserved(x) /\ Ram(b) # Ram(x)
  BY Zenon DEF Free, Reserved, Ram, Other

\* What holds of places and pages of the other backends is kept.
LEMMA PlacesKept ==
  ASSUME BackendTypes, NEW b \in Backends, NEW x \in Backends \ {b}, Same(b), PlaceInv(x), Within(x), PagesChange(b)
  PROVE  PlaceInv(x)' /\ Within(x)'
<1>1. backend'[x] = backend[x] /\ Total(x)' = Total(x)
  BY Zenon DEF Same, Total
<1>2. PlaceInv(x)'
  BY <1>1, Zenon DEF PlaceInv
<1>3. ASSUME NEW a \in DOMAIN vm, vm'[a] \in {Reserved(x), Ram(x)} PROVE vm[a] = vm'[a]
  BY <1>3, PagesDiffer, Zenon DEF PagesChange
<1>4. Within(x)'
  BY <1>1, <1>3, Zenon DEF Within, PagesChange
<1> QED BY <1>2, <1>4, Zenon

\* Writing free pages, or b's, over pages is such a change.
LEMMA PutChanges ==
  ASSUME NEW b, NEW p, NEW n, NEW who \in {Free, Reserved(b), Ram(b)}, vm' = Put(vm, p, n, who)
  PROVE  PagesChange(b)
  BY PutIs DEF PagesChange

\* Leaving them is, too.
LEMMA StayChanges == ASSUME NEW b, vm' = vm PROVE PagesChange(b)
  BY Zenon DEF PagesChange

\* A backend without pages that goes on without any.
LEMMA NoPages ==
  ASSUME BackendTypes, NEW b \in Backends, Within(b), PagesChange(b),
         backend[b].at \notin {"map", "trim"} \cup Mapped, vm' = vm,
         backend[b].at = "new" \/ backend'[b].format = backend[b].format,
         backend'[b].at \notin {"reserve", "map", "trim"} \cup Mapped \/ (backend'[b].at = "reserve" /\ backend'[b].align # 0),
         backend'[b].at = "new" => backend[b].at = "new"
  PROVE  PlaceInv(b)' /\ Within(b)'
<1>1. PlaceInv(b)'
  BY Zenon DEF PlaceInv, Mapped
<1>2. Within(b)'
  BY Zenon DEF Within, Mapped
<1> QED BY <1>1, <1>2, Zenon

\* The numbers of a record are numbers.
LEMMA RecFields ==
  ASSUME BackendTypes, NEW b \in Backends
  PROVE  /\ backend[b].size \in Nat /\ backend[b].align \in Nat /\ backend[b].ptr \in Nat
         /\ backend[b].offset \in Nat /\ backend[b].host \in Nat /\ backend[b].format \in Formats
         /\ Total(b) \in Nat /\ Total(b) = backend[b].size + backend[b].align
  BY DEF BackendTypes, BackendRecs, Total

\* After qemu_ram_munmap a raw backend has no page.
LEMMA UnmapPages ==
  ASSUME BackendTypes, NEW b \in Backends, PlaceInv(b), Within(b), Unmaps(b), NEW w \in Mapped, NEW how \in {"failed", "gone"},
         Ends(b, w, how)
  PROVE  PagesChange(b) /\ PlaceInv(b)' /\ Within(b)'
<1>1. backend[b].at = w /\ backend'[b].at = how /\ backend'[b].format = backend[b].format
  BY Zenon DEF Ends
<1>2. PagesChange(b)
  BY PutChanges, StayChanges, Zenon DEF Unmaps
<1>3. PlaceInv(b)'
  BY <1>1, Zenon DEF PlaceInv
<1>4. Within(b)'
  <2> SUFFICES ASSUME backend[b].format = "raw", NEW a \in DOMAIN vm', vm'[a] \in {Reserved(b), Ram(b)}
               PROVE  FALSE
    BY <1>1, Zenon DEF Within
  <2>1. vm' = Put(vm, backend[b].host, backend[b].size + 1, Free)
    BY Zenon DEF Unmaps
  <2>2. a \in DOMAIN vm /\ a \notin Span(backend[b].host, backend[b].size + 1) /\ vm'[a] = vm[a]
    BY <2>1, PutIs, PagesDiffer
  <2> QED BY <1>1, <2>2, Zenon DEF Within
<1> QED BY <1>2, <1>3, <1>4, Zenon

\* The reservation keeps Within and PlaceInv.
LEMMA ReservePages ==
  ASSUME BackendTypes, NEW b \in Backends, PlaceInv(b), Within(b), Reserve(b)
  PROVE  PagesChange(b) /\ PlaceInv(b)' /\ Within(b)'
<1>1. backend[b].align # 0 /\ backend[b].at = "reserve"
  BY Zenon DEF PlaceInv, Reserve, Fail, Step, IsAt
<1>2. CASE Ends(b, "reserve", "failed") /\ vm' = vm
  <2>1. PagesChange(b)
    BY <1>2, StayChanges, Zenon
  <2>2. backend'[b].at = "failed" /\ backend'[b].format = backend[b].format
    BY <1>2, Zenon DEF Ends
  <2> QED BY <1>1, <1>2, <2>1, <2>2, NoPages, Zenon DEF Mapped
<1>3. CASE /\ Becomes(b, "reserve", "map", Fields \ {"ptr", "offset"})
           /\ backend'[b].ptr \in FreeRuns(Total(b))
           /\ backend'[b].offset < backend[b].align
           /\ (backend'[b].ptr + backend'[b].offset) % backend[b].align = 0
           /\ vm' = Put(vm, backend'[b].ptr, Total(b), Reserved(b))
  <2>1. /\ backend'[b].at = "map" /\ backend'[b].format = backend[b].format /\ backend'[b].size = backend[b].size
        /\ backend'[b].align = backend[b].align
    BY <1>3, Zenon DEF Becomes, Fields
  <2>2. Total(b)' = Total(b) /\ Total(b) \in Nat
    BY <2>1, RecFields, Zenon DEF Total
  <2>3. backend'[b].ptr \in Nat /\ backend'[b].ptr + Total(b) <= VirtualPages
    BY <1>3, <2>2, BackendAssumption DEF FreeRuns
  <2>4. PlaceInv(b)'
    BY <1>1, <1>3, <2>1, <2>2, <2>3, Zenon DEF PlaceInv
  <2>5. PagesChange(b)
    BY <1>3, PutChanges, Zenon
  <2>6. Within(b)'
    <3> SUFFICES ASSUME backend[b].format = "raw", NEW a \in DOMAIN vm, vm'[a] \in {Reserved(b), Ram(b)}
                 PROVE  a \in Span(backend'[b].ptr, Total(b))
      BY <2>1, <2>2, <2>5, Zenon DEF Within, PagesChange, Mapped
    <3> SUFFICES ASSUME a \notin Span(backend'[b].ptr, Total(b)) PROVE FALSE
      BY Zenon
    <3>1. vm'[a] = vm[a]
      BY <1>3, PutIs
    <3> QED BY <1>1, <3>1, Zenon DEF Within, Mapped
  <2> QED BY <2>4, <2>5, <2>6, Zenon
<1> QED BY <1>1, <1>2, <1>3, DoReserve, Zenon

\* Mapping over the reservation does.
LEMMA MapPages ==
  ASSUME BackendTypes, NEW b \in Backends, PlaceInv(b), Within(b), MapArea(b)
  PROVE  PagesChange(b) /\ PlaceInv(b)' /\ Within(b)'
<1>1. CASE Ends(b, "map", "failed") /\ vm' = Put(vm, backend[b].ptr, Total(b), Free)
  <2>1. backend[b].at = "map" /\ backend'[b].at = "failed" /\ backend'[b].format = backend[b].format
    BY <1>1, Zenon DEF Ends
  <2>2. PagesChange(b)
    BY <1>1, PutChanges, Zenon
  <2>3. PlaceInv(b)'
    BY <2>1, Zenon DEF PlaceInv
  <2>4. Within(b)'
    <3> SUFFICES ASSUME backend[b].format = "raw", NEW a \in DOMAIN vm, vm'[a] \in {Reserved(b), Ram(b)}
                 PROVE  FALSE
      BY <2>1, <2>2, Zenon DEF Within, PagesChange
    <3>1. a \notin Span(backend[b].ptr, Total(b)) /\ vm'[a] = vm[a]
      BY <1>1, PutIs, PagesDiffer
    <3> QED BY <2>1, <3>1, Zenon DEF Within
  <2> QED BY <2>2, <2>3, <2>4, Zenon
<1>2. CASE /\ Becomes(b, "map", "trim", Fields \ {"host"})
           /\ vm' = Put(vm, backend'[b].host, backend[b].size, Ram(b))
           /\ backend[b].format = "raw" => backend'[b].host = backend[b].ptr + backend[b].offset
  <2>1. /\ backend[b].at = "map" /\ backend'[b].at = "trim" /\ backend'[b].format = backend[b].format
        /\ backend'[b].size = backend[b].size /\ backend'[b].align = backend[b].align
        /\ backend'[b].ptr = backend[b].ptr /\ backend'[b].offset = backend[b].offset
    BY <1>2, Zenon DEF Becomes, Fields
  <2>2. Total(b)' = Total(b)
    BY <2>1, Zenon DEF Total
  <2>3. PlaceInv(b)'
    BY <1>2, <2>1, <2>2, Zenon DEF PlaceInv
  <2>4. PagesChange(b)
    BY <1>2, PutChanges, Zenon
  <2>5. Within(b)'
    <3> SUFFICES ASSUME backend[b].format = "raw", NEW a \in DOMAIN vm, vm'[a] \in {Reserved(b), Ram(b)}
                 PROVE  a \in Span(backend[b].ptr, Total(b))
      BY <2>1, <2>2, <2>4, Zenon DEF Within, PagesChange, Mapped
    <3>1. CASE a \in Span(backend'[b].host, backend[b].size)
      <4>1. backend[b].offset < backend[b].align
        BY <2>1, Zenon DEF PlaceInv
      <4>2. a \in Span(backend[b].ptr + backend[b].offset, backend[b].size)
        BY <1>2, <3>1, Zenon
      <4> HIDE DEF Becomes
      <4> QED BY <4>1, <4>2, RecFields DEF Span
    <3>2. CASE a \notin Span(backend'[b].host, backend[b].size)
      <4>1. vm'[a] = vm[a]
        BY <1>2, <3>2, PutIs
      <4> QED BY <2>1, <4>1, Zenon DEF Within
    <3> QED BY <3>1, <3>2, Zenon
  <2> QED BY <2>3, <2>4, <2>5, Zenon
<1>3. "raw" # "pcow"
  BY Zenon
<1> QED BY <1>1, <1>2, <1>3, DoMap, Zenon

\* Unmapping the surplus does: what is left is the memory and the guard page.
LEMMA TrimPages ==
  ASSUME BackendTypes, NEW b \in Backends, PlaceInv(b), Within(b), Trim(b)
  PROVE  PagesChange(b) /\ PlaceInv(b)' /\ Within(b)'
<1> DEFINE o == backend[b]
           rest == Total(b) - o.offset
           front == Put(vm, o.ptr, o.offset, Free)
<1>1. /\ o.at = "trim" /\ backend'[b].at \in {"prealloc", "mapped"} /\ backend'[b].format = o.format
      /\ backend'[b].size = o.size /\ backend'[b].align = o.align /\ backend'[b].host = o.host
  BY DoTrim, Zenon DEF Becomes, Fields
<1>2. vm' = IF rest > o.size + 1 THEN Put(front, o.host + o.size + 1, rest - o.size - 1, Free) ELSE front
  BY DoTrim, Zenon
<1>3. DOMAIN vm' = DOMAIN vm
  BY <1>2, PutIs
<1>4. ASSUME NEW a \in DOMAIN vm
      PROVE  /\ vm'[a] = vm[a] \/ vm'[a] = Free
             /\ a \in Span(o.ptr, o.offset) => vm'[a] = Free
             /\ rest > o.size + 1 /\ a \in Span(o.host + o.size + 1, rest - o.size - 1) => vm'[a] = Free
  <2>1. front[a] = IF a \in Span(o.ptr, o.offset) THEN Free ELSE vm[a]
    BY PutIs
  <2>2. a \in DOMAIN front
    BY PutIs
  <2>3. Put(front, o.host + o.size + 1, rest - o.size - 1, Free)[a] = IF a \in Span(o.host + o.size + 1, rest - o.size - 1) THEN Free ELSE front[a]
    BY <2>2, PutIs
  <2> QED BY <1>2, <2>1, <2>3, Zenon
<1>5. PagesChange(b)
  BY <1>3, <1>4, Zenon DEF PagesChange
<1>6. /\ o.align # 0 /\ o.offset < o.align /\ (o.ptr + o.offset) % o.align = 0 /\ o.ptr + Total(b) <= VirtualPages
      /\ o.format = "raw" => o.host = o.ptr + o.offset
  BY <1>1, Zenon DEF PlaceInv
<1>7. PlaceInv(b)'
  BY <1>1, <1>6, Zenon DEF PlaceInv
<1>8. Within(b)'
  <2> SUFFICES ASSUME o.format = "raw", NEW a \in DOMAIN vm, vm'[a] \in {Reserved(b), Ram(b)}
               PROVE  a \in Span(o.host, o.size + 1)
    BY <1>1, <1>3, Zenon DEF Within, Mapped
  <2>1. /\ vm'[a] = vm[a] /\ a \notin Span(o.ptr, o.offset)
        /\ ~(rest > o.size + 1 /\ a \in Span(o.host + o.size + 1, rest - o.size - 1))
    BY <1>4, PagesDiffer, Zenon
  <2>2. a \in Span(o.ptr, Total(b))
    BY <1>1, <2>1, Zenon DEF Within
  <2>3. /\ o.size \in Nat /\ o.align \in Nat /\ o.ptr \in Nat /\ o.offset \in Nat
        /\ Total(b) = o.size + o.align /\ o.host = o.ptr + o.offset
    BY <1>6, RecFields, Zenon
  <2> HIDE DEF o
  <2> QED BY <1>6, <2>1, <2>2, <2>3 DEF Span
<1> QED BY <1>5, <1>7, <1>8, Zenon

\* Every step of a backend keeps Within and PlaceInv.
LEMMA StepPages ==
  ASSUME BackendTypes, OneBusy, FilesInv, NEW b \in Backends, PlaceInv(b), Within(b), BackendStep(b)
  PROVE  PagesChange(b) /\ PlaceInv(b)' /\ Within(b)'
<1>1. ASSUME vm' = vm, backend[b].at \in {"new", "open", "create", "size", "area"},
             backend[b].at = "new" \/ backend'[b].format = backend[b].format,
             \/ backend'[b].at \in {"nomemory", "open", "create", "size", "area", "failed"}
             \/ backend'[b].at = "reserve" /\ backend'[b].align # 0
             \/ backend'[b].at = "new" /\ backend[b].at = "new"
      PROVE  PagesChange(b) /\ PlaceInv(b)' /\ Within(b)'
  BY <1>1, StayChanges, NoPages, Zenon DEF Mapped
<1>2. CASE \E o \in Options : SetProperties(b, o)
  <2>1. vm' = vm /\ backend[b].at = "new" /\ backend'[b].at = "new"
    BY <1>2, DoSetProperties, Zenon DEF SetProperties
  <2> QED BY <1>1, <2>1, Zenon
<1>3. CASE MemoryAlloc(b)
  <2>1. vm' = vm
    BY <1>3, Zenon DEF MemoryAlloc
  <2>2. backend[b].at = "new" /\ backend'[b].at \in {"failed", "open", "nomemory"}
    BY <1>3, DoMemoryAlloc, Zenon DEF Ends, Becomes
  <2> QED BY <1>1, <2>1, <2>2, Zenon
<1>4. CASE OpenFile(b)
  <2>1. vm' = vm
    BY <1>4, Zenon DEF OpenFile
  <2>2. backend[b].at = "open" /\ backend'[b].at \in {"failed", "size", "create"} /\ backend'[b].format = backend[b].format
    BY <1>4, DoOpen DEF Ends, Becomes, Fields
  <2> QED BY <1>1, <2>1, <2>2, Zenon
<1>5. CASE CreateFile(b)
  <2>1. vm' = vm
    BY <1>5, Zenon DEF CreateFile, Created
  <2>2. backend[b].at = "create" /\ backend'[b].at \in {"size", "open"} /\ backend'[b].format = backend[b].format
    <3>1. Becomes(b, "create", "size", Fields \ {"fd", "created"}) \/ Becomes(b, "create", "open", Fields)
      BY <1>5, DoCreate, Zenon
    <3> QED BY <3>1, Zenon DEF Becomes, Fields
  <2> QED BY <1>1, <2>1, <2>2, Zenon
<1>6. CASE SizeFile(b)
  <2>1. vm' = vm
    BY <1>6, Zenon DEF SizeFile
  <2>2. backend[b].at = "size" /\ backend'[b].at \in {"area", "failed"} /\ backend'[b].format = backend[b].format
    BY <1>6, DoSize, Zenon DEF Becomes, Fields, Ends
  <2> QED BY <1>1, <2>1, <2>2, Zenon
<1>7. CASE FileRamAlloc(b)
  <2>1. vm' = vm
    BY <1>7, Zenon DEF FileRamAlloc, Truncating
  <2>2. CASE Ends(b, "area", "failed")
    <3>1. backend[b].at = "area" /\ backend'[b].at = "failed" /\ backend'[b].format = backend[b].format
      BY <2>2, Zenon DEF Ends
    <3> QED BY <1>1, <2>1, <3>1, Zenon
  <2>3. CASE /\ Becomes(b, "area", "reserve", Fields \ {"align"})
             /\ backend'[b].align = IF backend[b].align = 0 THEN 1 ELSE backend[b].align
    <3>1. /\ backend[b].at = "area" /\ backend'[b].at = "reserve" /\ backend'[b].format = backend[b].format
          /\ backend'[b].align # 0
      BY <2>3 DEF Becomes, Fields
    <3> QED BY <1>1, <2>1, <3>1, Zenon
  <2> QED BY <1>7, <2>2, <2>3, DoTruncate, Zenon
<1>8. CASE Prealloc(b)
  <2>1. CASE Ends(b, "prealloc", "failed") /\ Unmaps(b)
    BY <2>1, UnmapPages, Zenon DEF Mapped
  <2>2. CASE Becomes(b, "prealloc", "mapped", Fields) /\ vm' = vm
    <3>1. /\ backend[b].at = "prealloc" /\ backend'[b].at = "mapped" /\ backend'[b].format = backend[b].format
          /\ backend'[b].align = backend[b].align /\ backend'[b].host = backend[b].host /\ backend'[b].size = backend[b].size
      BY <2>2, Zenon DEF Becomes, Fields
    <3>2. PlaceInv(b)' /\ Within(b)'
      BY <2>2, <3>1, Zenon DEF PlaceInv, Within, Mapped
    <3> QED BY <2>2, <3>2, StayChanges, Zenon
  <2> QED BY <1>8, <2>1, <2>2, DoPrealloc, Zenon
<1>9. CASE Unparent(b)
  <2>2. Becomes(b, "mapped", "unparented", Fields) /\ vm' = vm
    BY <1>9, DoUnparent, Zenon
  <2>3. /\ backend[b].at = "mapped" /\ backend'[b].at = "unparented" /\ backend'[b].format = backend[b].format
        /\ backend'[b].align = backend[b].align /\ backend'[b].host = backend[b].host /\ backend'[b].size = backend[b].size
    BY <2>2, Zenon DEF Becomes, Fields
  <2>4. PlaceInv(b)' /\ Within(b)'
    BY <2>2, <2>3, Zenon DEF PlaceInv, Within, Mapped
  <2> QED BY <2>2, <2>4, StayChanges, Zenon
<1>10. CASE Reclaim(b)
  BY <1>10, DoReclaim, UnmapPages, Zenon DEF Mapped
<1> QED BY <1>2, <1>3, <1>4, <1>5, <1>6, <1>7, <1>8, <1>9, <1>10, ReservePages, MapPages, TrimPages, Zenon DEF BackendStep

\* What a step does to records: others' stay, an ended backend has no
\* descriptor, and allocation begins only when no other is going on.
RecordsStep(b) ==
  /\ Same(b) /\ backend' \in [Backends -> BackendRecs]
  /\ backend'[b].at \in {"failed", "gone"} => ~backend'[b].fd
  /\ backend'[b].at \in Busy => \A x \in Backends \ {b} : backend[x].at \notin Busy

\* Every step of a backend does so.
LEMMA StepRecords ==
  ASSUME BackendTypes, OneBusy, FilesInv, NEW b \in Backends, PlaceInv(b), BackendStep(b)
  PROVE  RecordsStep(b)
<1>1. ASSUME NEW w, NEW how \in {"failed", "gone"}, Ends(b, w, how) PROVE RecordsStep(b)
  BY <1>1, Zenon DEF Ends, Busy, RecordsStep
<1>2. ASSUME NEW w \in Busy, NEW at \in Busy \cup {"mapped"}, NEW fields, Becomes(b, w, at, fields) PROVE RecordsStep(b)
  <2>1. at \notin {"failed", "gone"}
    BY <1>2, Zenon DEF Busy
  <2> QED BY <1>2, <2>1, BusyAlone, Zenon DEF Becomes, RecordsStep
<1>3. CASE \E o \in Options : SetProperties(b, o)
  BY <1>3, DoSetProperties, Zenon DEF Busy, RecordsStep
<1>4. CASE MemoryAlloc(b)
  <2>1. \A x \in Backends \ {b} : backend[x].at \notin Busy
    BY <1>4, Zenon DEF MemoryAlloc, Busy
  <2>2. ASSUME NEW at \in {"open", "nomemory"}, NEW fields, Becomes(b, "new", at, fields) PROVE RecordsStep(b)
    BY <2>1, <2>2, Zenon DEF Becomes, RecordsStep
  <2> QED BY <1>1, <1>4, <2>2, DoMemoryAlloc, Zenon
<1>5. CASE OpenFile(b)
  BY <1>1, <1>2, <1>5, DoOpen, Zenon DEF Busy
<1>6. CASE CreateFile(b)
  <2>1. Becomes(b, "create", "size", Fields \ {"fd", "created"}) \/ Becomes(b, "create", "open", Fields)
    BY <1>6, DoCreate, Zenon
  <2> QED BY <1>2, <2>1, Zenon DEF Busy
<1>7. CASE SizeFile(b)
  BY <1>1, <1>2, <1>7, DoSize, Zenon DEF Busy
<1>8. CASE FileRamAlloc(b)
  BY <1>1, <1>2, <1>8, DoTruncate, Zenon DEF Busy
<1>9. CASE Reserve(b)
  <2>1. backend[b].align # 0
    BY <1>9, Zenon DEF PlaceInv, Reserve, Fail, Step, IsAt
  <2> QED BY <1>1, <1>2, <1>9, <2>1, DoReserve, Zenon DEF Busy
<1>10. CASE MapArea(b)
  BY <1>1, <1>2, <1>10, DoMap, Zenon DEF Busy
<1>11. CASE Trim(b)
  BY <1>2, <1>11, DoTrim, Zenon DEF Busy
<1>12. CASE Prealloc(b)
  BY <1>1, <1>2, <1>12, DoPrealloc, Zenon DEF Busy
<1>13. CASE Unparent(b)
  <2>1. Becomes(b, "mapped", "unparented", Fields)
    BY <1>13, DoUnparent, Zenon
  <2> QED BY <2>1, Zenon DEF Becomes, Busy, RecordsStep
<1>14. CASE Reclaim(b)
  BY <1>1, <1>14, DoReclaim, Zenon
<1> QED BY <1>3, <1>4, <1>5, <1>6, <1>7, <1>8, <1>9, <1>10, <1>11, <1>12, <1>13, <1>14, Zenon DEF BackendStep

\* No step of a backend touches what is recorded of the others' pages, and
\* cur_s keeps its type.
LEMMA StepServed ==
  ASSUME BackendTypes, FilesInv, NEW b \in Backends, BackendStep(b)
  PROVE  cur_s' \in [addr : Nat, length : Nat, live : BOOLEAN] /\ foreign' = foreign
<1>0. cur_s \in [addr : Nat, length : Nat, live : BOOLEAN]
  BY Zenon DEF BackendTypes
<1>1. foreign' = foreign
  BY Zenon DEF BackendStep, SetProperties, MemoryAlloc, OpenFile, CreateFile, Created, SizeFile, FileRamAlloc, Truncating,
     Reserve, MapArea, Trim, Trimmed, Prealloc, Unparent, Reclaim
<1>2. ASSUME RamMunmap(b) PROVE cur_s' \in [addr : Nat, length : Nat, live : BOOLEAN]
  <2>1. [cur_s EXCEPT !.live = FALSE] \in [addr : Nat, length : Nat, live : BOOLEAN]
    BY <1>0, Zenon
  <2>2. cur_s' = cur_s \/ cur_s' = [cur_s EXCEPT !.live = FALSE]
    BY <1>2, DoUnmap, Zenon DEF Unmaps
  <2> QED BY <1>0, <2>1, <2>2, Zenon
<1>3. CASE MapArea(b)
  <2>1. CASE cur_s' = cur_s
    BY <1>0, <1>1, <2>1, Zenon
  <2>2. CASE /\ Becomes(b, "map", "trim", Fields \ {"host"})
             /\ backend'[b].host \in FreeRuns(backend[b].size)
             /\ cur_s' = [addr |-> backend'[b].host, length |-> MyFile(b).super, live |-> TRUE]
    <3>1. backend[b].path \in DOMAIN file
      BY <2>2, Zenon DEF Becomes, FilesInv, HasPath, Busy
    <3>2. MyFile(b).super \in Nat
      BY <3>1, Zenon DEF MyFile, BackendTypes, FileRecs
    <3>3. backend'[b].host \in Nat
      BY <2>2 DEF FreeRuns
    <3> QED BY <1>1, <2>2, <3>2, <3>3, Zenon
  <2> QED BY <1>3, <2>1, <2>2, DoMap, Zenon
<1>4. CASE cur_s' = cur_s
  BY <1>0, <1>1, <1>4, Zenon
<1>5. cur_s' = cur_s \/ RamMunmap(b) \/ MapArea(b)
  BY Zenon DEF BackendStep, SetProperties, MemoryAlloc, OpenFile, CreateFile, Created, SizeFile, FileRamAlloc, Truncating,
     Reserve, Trim, Trimmed, Prealloc, Unparent, Reclaim
<1> QED BY <1>1, <1>2, <1>3, <1>4, <1>5, Zenon

-----------------------------------------------------------------------------
(* The invariant                                                           *)

\* The inductive invariant of NothingLeft and NonEmptyKept.
BackendInv ==
  /\ BackendTypes /\ OneBusy /\ FilesInv
  /\ \A b \in Backends : PlaceInv(b) /\ Within(b) /\ (backend[b].at \in {"failed", "gone"} => ~backend[b].fd)

\* It holds at first.
LEMMA InitBackend == BackendInit => BackendInv
<1> SUFFICES ASSUME BackendInit PROVE BackendInv
  BY Zenon
<1>1. BackendTypes /\ OneBusy /\ FilesInv
  BY InitTypes, Zenon
<1>2. ASSUME NEW b \in Backends PROVE PlaceInv(b) /\ Within(b) /\ (backend[b].at \in {"failed", "gone"} => ~backend[b].fd)
  <2>1. backend[b].at = "new"
    BY Zenon DEF BackendInit, Fresh
  <2>2. \A a \in DOMAIN vm : vm[a] = Free
    BY Zenon DEF BackendInit
  <2> QED BY <2>1, <2>2, PagesDiffer, Zenon DEF PlaceInv, Within
<1> QED BY <1>1, <1>2, Zenon DEF BackendInv

\* The steps of backends keep it.
LEMMA StepBackend ==
  ASSUME BackendInv, NEW b \in Backends, BackendStep(b)
  PROVE  BackendInv' /\ FileChange(b)
<1>1. BackendTypes /\ OneBusy /\ FilesInv /\ PlaceInv(b) /\ Within(b)
  BY Zenon DEF BackendInv
<1>2. FileChange(b)
  BY <1>1, FilesChange, Zenon
<1>3. /\ Same(b) /\ backend' \in [Backends -> BackendRecs]
      /\ backend'[b].at \in {"failed", "gone"} => ~backend'[b].fd
      /\ backend'[b].at \in Busy => \A x \in Backends \ {b} : backend[x].at \notin Busy
  BY <1>1, StepRecords, Zenon DEF RecordsStep
<1>4. PagesChange(b) /\ PlaceInv(b)' /\ Within(b)'
  BY <1>1, StepPages, Zenon
<1>5. OneBusy'
  <2> SUFFICES ASSUME NEW x \in Backends, NEW y \in Backends, backend'[x].at \in Busy, backend'[y].at \in Busy PROVE x = y
    BY Zenon DEF OneBusy
  <2>1. \A z \in Backends \ {b} : backend'[z] = backend[z]
    BY <1>3, Zenon DEF Same
  <2> QED BY <1>1, <1>3, <2>1, Zenon DEF OneBusy
<1>6. AbsentEmpty' /\ (\A p \in Paths : p \in DOMAIN file' \cup {NoPath}) /\ \A p \in DOMAIN file' : file'[p] \in FileRecs
  BY <1>1, <1>2, FilesKept, Zenon
<1>7. BackendTypes'
  <2>1. DOMAIN vm' = 0..(VirtualPages - 1)
    BY <1>1, <1>4, Zenon DEF BackendTypes, PagesChange
  <2>2. cur_s' \in [addr : Nat, length : Nat, live : BOOLEAN] /\ foreign' = foreign
    BY <1>1, StepServed, Zenon
  <2> QED BY <1>1, <1>3, <1>6, <2>1, <2>2, Zenon DEF BackendTypes
<1>8. ASSUME NEW x \in Backends PROVE HasPath(x)' /\ CreatedMine(x)' /\ Opened(x)' /\ MineCreated(x)'
  <2>1. CASE x = b
    BY <1>1, <1>2, <2>1, StepOwnFiles, Zenon DEF OwnFiles
  <2>2. CASE x # b
    BY <1>1, <1>2, <1>3, <2>2, OthersFiles, Zenon
  <2> QED BY <2>1, <2>2, Zenon
<1>9. ASSUME NEW x \in Backends PROVE PlaceInv(x)' /\ Within(x)' /\ (backend'[x].at \in {"failed", "gone"} => ~backend'[x].fd)
  <2>1. CASE x = b
    BY <1>3, <1>4, <2>1, Zenon
  <2>2. CASE x # b
    <3>1. PlaceInv(x) /\ Within(x) /\ (backend[x].at \in {"failed", "gone"} => ~backend[x].fd) /\ x \in Backends \ {b}
      BY <2>2, Zenon DEF BackendInv
    <3>2. PlaceInv(x)' /\ Within(x)'
      BY <1>1, <1>3, <1>4, <3>1, PlacesKept, Zenon
    <3> QED BY <1>3, <3>1, <3>2, Zenon DEF Same
  <2> QED BY <2>1, <2>2, Zenon
<1>10. FilesInv'
  BY <1>6, <1>8, Zenon DEF FilesInv
<1> QED BY <1>2, <1>5, <1>7, <1>9, <1>10, Zenon DEF BackendInv

\* Mappings of other threads, files of other processes and steps that change
\* nothing keep it.
LEMMA OthersBackend ==
  ASSUME BackendInv,
         \/ \E p \in DOMAIN vm : OtherThreadMaps(p)
         \/ \E path \in DOMAIN file, size \in OtherSizes : OtherProcessCreates(path, size)
         \/ UNCHANGED backendVars
  PROVE  BackendInv'
<1>0. BackendTypes /\ OneBusy /\ FilesInv
  BY Zenon DEF BackendInv
<1>1. ASSUME NEW p \in DOMAIN vm, OtherThreadMaps(p) PROVE BackendInv'
  <2>1. vm' = [vm EXCEPT ![p] = Other] /\ backend' = backend /\ file' = file /\ cur_s' = cur_s /\ DOMAIN foreign' = DOMAIN foreign
    BY <1>1, Zenon DEF OtherThreadMaps
  <2>2. BackendTypes' /\ OneBusy' /\ FilesInv'
    BY <1>0, <2>1 DEF BackendTypes, OneBusy, FilesInv, AbsentEmpty, HasPath, CreatedMine, Opened, MineCreated, MyFile
  <2>3. ASSUME NEW x \in Backends PROVE PlaceInv(x)' /\ Within(x)' /\ (backend'[x].at \in {"failed", "gone"} => ~backend'[x].fd)
    <3>1. PlaceInv(x) /\ Within(x) /\ (backend[x].at \in {"failed", "gone"} => ~backend[x].fd) /\ Total(x)' = Total(x)
      BY <2>1, Zenon DEF BackendInv, Total
    <3>2. PlaceInv(x)'
      BY <2>1, <3>1, Zenon DEF PlaceInv
    <3>3. DOMAIN vm' = DOMAIN vm /\ \A a \in DOMAIN vm : vm'[a] = vm[a] \/ vm'[a] = Other
      BY <2>1, Zenon
    <3>4. \A a \in DOMAIN vm : vm'[a] \in {Reserved(x), Ram(x)} => vm[a] = vm'[a]
      BY <3>3, PagesDiffer, Zenon
    <3>5. Within(x)'
      BY <2>1, <3>1, <3>3, <3>4, Zenon DEF Within
    <3> QED BY <2>1, <3>1, <3>2, <3>5, Zenon
  <2> QED BY <2>2, <2>3, Zenon DEF BackendInv
<1>2. ASSUME NEW q \in DOMAIN file, NEW size \in OtherSizes, OtherProcessCreates(q, size) PROVE BackendInv'
  <2> DEFINE r == [NoFile EXCEPT !.kind = "file", !.size = size, !.data = size > 0, !.by = "other"]
  <2>1. file' = [file EXCEPT ![q] = r] /\ backend' = backend /\ vm' = vm /\ cur_s' = cur_s /\ file[q].kind = "absent"
    BY <1>2, Zenon DEF OtherProcessCreates
  <2>2. DOMAIN foreign' = DOMAIN foreign
    BY <1>2, Zenon DEF OtherProcessCreates
  <2>3. r \in FileRecs /\ r.kind = "file" /\ r.by = "other"
    <3>1. size \in Nat /\ (size > 0) \in BOOLEAN
      BY BackendAssumption
    <3>2. PICK d \in BOOLEAN : d = (size > 0)
      BY <3>1, Zenon
    <3>3. r = [NoFile EXCEPT !.kind = "file", !.size = size, !.data = d, !.by = "other"]
      BY <3>2, Zenon
    <3> HIDE DEF r
    <3>4. r = [kind |-> "file", size |-> size, super |-> 0, data |-> d, by |-> "other"]
      BY <3>3, Zenon DEF NoFile
    <3> QED BY <3>1, <3>4, Zenon DEF FileRecs
  <2>4. DOMAIN file' = DOMAIN file /\ file'[q] = r /\ \A p \in DOMAIN file \ {q} : file'[p] = file[p]
    <3> HIDE DEF r
    <3> QED BY <2>1, Zenon
  <2> HIDE DEF r
  <2>5. BackendTypes'
    BY <1>0, <2>1, <2>2, <2>3, <2>4, Zenon DEF BackendTypes
  <2>6. OneBusy'
    BY <1>0, <2>1, Zenon DEF OneBusy
  <2>7. AbsentEmpty'
    BY <1>0, <2>3, <2>4 DEF AbsentEmpty, FilesInv
  <2>8. ASSUME NEW x \in Backends PROVE HasPath(x)' /\ CreatedMine(x)' /\ Opened(x)' /\ MineCreated(x)'
    <3>1. HasPath(x) /\ CreatedMine(x) /\ Opened(x) /\ MineCreated(x) /\ x # "other"
      BY <1>0, BackendAssumption, Zenon DEF FilesInv
    <3>2. HasPath(x)'
      BY <2>1, <2>4, <3>1, Zenon DEF HasPath
    <3>3. CreatedMine(x)'
      BY <2>1, <2>4, <3>1, Zenon DEF CreatedMine, HasPath, MyFile, Busy
    <3>4. Opened(x)'
      BY <2>1, <2>4, <3>1, Zenon DEF Opened, HasPath, MyFile, Busy
    <3>5. MineCreated(x)'
      BY <2>1, <2>3, <2>4, <3>1, Zenon DEF MineCreated
    <3> QED BY <3>2, <3>3, <3>4, <3>5, Zenon
  <2>9. \A x \in Backends : PlaceInv(x)' /\ Within(x)' /\ (backend'[x].at \in {"failed", "gone"} => ~backend'[x].fd)
    BY <2>1, Zenon DEF BackendInv, PlaceInv, Within, Total
  <2>10. FilesInv'
    BY <2>7, <2>8, Zenon DEF FilesInv
  <2> QED BY <2>5, <2>6, <2>9, <2>10, Zenon DEF BackendInv
<1>3. CASE UNCHANGED backendVars
  <2>1. file' = file /\ vm' = vm /\ backend' = backend /\ cur_s' = cur_s /\ foreign' = foreign
    BY <1>3, Zenon DEF backendVars
  <2>2. BackendTypes' /\ OneBusy'
    BY <1>0, <2>1, Zenon DEF BackendTypes, OneBusy
  <2>3. FilesInv'
    BY <1>0, <2>1, Zenon DEF FilesInv, AbsentEmpty, HasPath, CreatedMine, Opened, MineCreated, MyFile
  <2>4. \A x \in Backends : PlaceInv(x)' /\ Within(x)' /\ (backend'[x].at \in {"failed", "gone"} => ~backend'[x].fd)
    BY <2>1, Zenon DEF BackendInv, PlaceInv, Within, Total
  <2> QED BY <2>2, <2>3, <2>4, Zenon DEF BackendInv
<1> QED BY <1>1, <1>2, <1>3, Zenon

\* Every step is one of these.
LEMMA NextCases ==
  BackendNext => \/ \E b \in Backends : BackendStep(b)
                 \/ \E p \in DOMAIN vm : OtherThreadMaps(p)
                 \/ \E path \in DOMAIN file, size \in OtherSizes : OtherProcessCreates(path, size)
  BY Zenon DEF BackendNext, BackendStep

\* The invariant holds always, for any backends, options, files and address
\* space.
THEOREM BackendInvariant == BackendSpec => []BackendInv
<1>1. BackendInit => BackendInv
  BY InitBackend, Zenon
<1>2. BackendInv /\ [BackendNext]_backendVars => BackendInv'
  BY StepBackend, OthersBackend, NextCases, Zenon
<1> QED BY <1>1, <1>2, PTL DEF BackendSpec

\* qemu_ram_alloc_from_file and reclaim_ramblock, for any backends and options:
\* a raw backend that failed or is gone has left no page and no descriptor
\* behind, and no file if it failed, and no file is removed that file_ram_open
\* had not created, whatever other processes create in between.
THEOREM NothingIsLeft == BackendSpec => []NothingLeft
<1>1. ASSUME BackendInv PROVE NothingLeft
  <2>1. AbsentEmpty /\ \A b \in Backends : MineCreated(b) /\ CreatedMine(b)
    BY <1>1, Zenon DEF BackendInv, FilesInv
  <2>2. \A p \in DOMAIN file : file[p].kind = "absent" => file[p].by \in Backends \cup {"nobody"}
    BY <2>1, Zenon DEF AbsentEmpty
  <2>3. ASSUME NEW b \in Backends, backend[b].format = "raw", backend[b].at \in {"failed", "gone"}
        PROVE  /\ \A a \in DOMAIN vm : vm[a] \notin {Reserved(b), Ram(b)}
               /\ ~backend[b].fd
               /\ backend[b].at = "failed" => \A p \in DOMAIN file : file[p].by = b => file[p].kind = "absent"
    <3>1. Within(b) /\ ~backend[b].fd
      BY <1>1, <2>3, Zenon DEF BackendInv
    <3>2. \A a \in DOMAIN vm : vm[a] \notin {Reserved(b), Ram(b)}
      BY <2>3, <3>1, Zenon DEF Within, Mapped
    <3>3. ~backend[b].created
      BY <2>1, <2>3, Zenon DEF CreatedMine, Busy
    <3> QED BY <2>1, <2>3, <3>1, <3>2, <3>3, Zenon DEF MineCreated
  <2> QED BY <2>2, <2>3, Zenon DEF NothingLeft
<1> QED BY <1>1, BackendInvariant, PTL

\* A file that is not empty and none of the backends' own keeps its size, and
\* loses its contents only to a backend that discards them.
LEMMA NonEmptyStays ==
  ASSUME BackendInv, BackendNext, NEW p \in DOMAIN file, file[p].size # 0, file[p].by \notin Backends
  PROVE  \/ file'[p] = file[p]
         \/ /\ FileStays(p)
            /\ file[p].data # file'[p].data =>
                 \E b \in Backends : IsAt(b, "mapped") /\ backend[b].path = p /\ backend[b].discard
<1>1. file[p].kind # "absent"
  BY Zenon DEF BackendInv, FilesInv, AbsentEmpty
<1>2. CASE \E b \in Backends : BackendStep(b)
  <2>1. PICK b \in Backends : FileChange(b)
    BY <1>2, StepBackend, Zenon
  <2> QED BY <1>1, <2>1, Zenon DEF FileChange
<1>3. CASE \E q \in DOMAIN vm : OtherThreadMaps(q)
  BY <1>3, Zenon DEF OtherThreadMaps
<1>4. CASE \E path \in DOMAIN file, size \in OtherSizes : OtherProcessCreates(path, size)
  <2>1. PICK q \in DOMAIN file : file[q].kind = "absent" /\ \E r : file' = [file EXCEPT ![q] = r]
    BY <1>4, Zenon DEF OtherProcessCreates
  <2> QED BY <1>1, <2>1, Zenon
<1> QED BY <1>2, <1>3, <1>4, NextCases, Zenon

\* file_ram_alloc and file_backend_unparent, for any backends and options: no
\* step changes the size of a file that was not empty and that no backend made,
\* and its contents go only with a backend that discards them.
THEOREM NonEmptyFilesStay == BackendSpec => NonEmptyKept
<1>1. ASSUME BackendInv, BackendNext PROVE NonEmptyStep
  <2> SUFFICES ASSUME NEW p \in DOMAIN file, file[p].size > 0, file[p].by \notin Backends
               PROVE  /\ file'[p].size = file[p].size
                      /\ file[p].data /\ ~file'[p].data =>
                           \E b \in Backends : IsAt(b, "mapped") /\ backend[b].path = p /\ backend[b].discard
    BY Zenon DEF NonEmptyStep
  <2>1. file[p].size # 0
    BY <1>1 DEF BackendInv, BackendTypes, FileRecs
  <2> QED BY <1>1, <2>1, NonEmptyStays, Zenon DEF FileStays
<1>2. BackendInv /\ [BackendNext]_backendVars => [NonEmptyStep]_backendVars
  BY <1>1, Zenon
<1> QED BY <1>2, BackendInvariant, PTL DEF BackendSpec, NonEmptyKept

-----------------------------------------------------------------------------
(* Mappings                                                                *)

\* The places of a backend whose memory is where it will be.
Placed == {"trim"} \cup Mapped

\* Of images: the alignment is a page, and the size is that of the super block
\* and not 0 (memory_alloc takes no other).
ImageInv(b) ==
  LET o == backend[b] IN
  o.format = "pcow" =>
    /\ o.at \in {"new", "open", "create", "size", "area"} => o.align \in {0, 1}
    /\ o.at \in {"reserve", "map", "trim"} => o.align = 1
    /\ o.at \in {"open", "create", "size", "area", "reserve", "map"} => o.size = MyFile(b).super
    /\ o.at \in Busy \cup Placed => o.size # 0

\* Every page of a reservation is there until it is used, every page of the
\* memory once it is mapped, and behind raw memory the guard page.
Exact(b) ==
  LET o == backend[b] IN
  /\ o.at = "map" => \A a \in Span(o.ptr, Total(b)) : vm[a] = Reserved(b)
  /\ o.at = "trim" /\ o.format = "raw" => \A a \in Span(o.ptr, Total(b)) \ Span(o.host, o.size) : vm[a] = Reserved(b)
  /\ o.at \in Placed => o.host + o.size <= VirtualPages /\ \A a \in Span(o.host, o.size) : vm[a] = Ram(b)
  /\ o.at \in Mapped /\ o.format = "raw" => o.host + o.size < VirtualPages /\ vm[o.host + o.size] = Reserved(b)

\* A mapped image, and that cur_s stands for it.
Image(b) == backend[b].format = "pcow" /\ backend[b].at \in Placed
Shows(b) == cur_s = [addr |-> backend[b].host, length |-> backend[b].size, live |-> TRUE]

\* What cur_s stands for is the whole of a mapped image.
CurLive == cur_s.live => \E x \in Backends : Image(x) /\ backend[x].host = cur_s.addr /\ backend[x].size = cur_s.length

\* cur_s stands for every mapped image that has had no other image beside it.
CurOnly ==
  \A b \in Backends : Image(b) =>
    Shows(b) \/ \E x \in Backends \ {b} : backend[x].format = "pcow" /\ backend[x].at # "new"

\* Pages of other threads are theirs.
ForeignKept == \A p \in foreign.pages : p \in DOMAIN vm /\ vm[p] = Other

\* The inductive invariant of MappingsKept.
MapInv ==
  /\ BackendInv /\ CurLive /\ CurOnly /\ ForeignKept
  /\ \A b \in Backends : ImageInv(b) /\ Exact(b)

\* Pages that a step of b changes are free or b's own.
Owns(b) == DOMAIN vm' = DOMAIN vm /\ \A a \in DOMAIN vm : vm'[a] = vm[a] \/ vm[a] \in {Free, Reserved(b), Ram(b)}

\* Then pages of other threads stay theirs.
LEMMA ForeignStays ==
  ASSUME NEW b, ForeignKept, Owns(b), foreign' = foreign PROVE ForeignKept'
  BY PagesDiffer, Zenon DEF ForeignKept, Owns

\* Writing over free pages or b's own is such a step.
LEMMA PutOwns ==
  ASSUME NEW b, NEW p, NEW n, NEW who, vm' = Put(vm, p, n, who),
         \A a \in Span(p, n) : a \in DOMAIN vm => vm[a] \in {Free, Reserved(b), Ram(b)}
  PROVE  Owns(b)
  BY PutIs DEF Owns

\* Leaving them is, too.
LEMMA StayOwns == ASSUME NEW b, vm' = vm PROVE Owns(b)
  BY Zenon DEF Owns

\* Pages up to the end of the address space are in it.
LEMMA SpansInside ==
  ASSUME BackendTypes, NEW p \in Nat, NEW n \in Nat, p + n <= VirtualPages
  PROVE  Span(p, n) \subseteq DOMAIN vm
  BY BackendAssumption DEF BackendTypes, Span

\* Another backend keeps its pages.
LEMMA ExactOther ==
  ASSUME BackendTypes, NEW b \in Backends, NEW x \in Backends \ {b}, PlaceInv(x), Exact(x), Same(b), Owns(b)
  PROVE  Exact(x)'
<1>1. backend'[x] = backend[x] /\ Total(x)' = Total(x)
  BY Zenon DEF Same, Total
<1>2. \A a \in DOMAIN vm : vm[a] \in {Reserved(x), Ram(x)} => vm'[a] = vm[a]
  BY PagesDiffer, Zenon DEF Owns
<1>3. /\ backend[x].size \in Nat /\ backend[x].ptr \in Nat /\ backend[x].host \in Nat /\ Total(x) \in Nat
      /\ VirtualPages \in Nat
  BY RecFields, BackendAssumption, Zenon
<1>4. backend[x].at \in {"map", "trim"} => Span(backend[x].ptr, Total(x)) \subseteq DOMAIN vm
  BY <1>3, SpansInside, Zenon DEF PlaceInv
<1>5. backend[x].at \in Placed => Span(backend[x].host, backend[x].size) \subseteq DOMAIN vm
  BY <1>3, SpansInside, Zenon DEF Exact
<1>6. backend[x].at \in Mapped /\ backend[x].format = "raw" => backend[x].host + backend[x].size \in DOMAIN vm
  BY <1>3 DEF Exact, BackendTypes
<1> QED BY <1>1, <1>2, <1>4, <1>5, <1>6, Zenon DEF Exact

\* Another image keeps its size and its super block.
LEMMA ImageOther ==
  ASSUME BackendTypes, FilesInv, NEW b \in Backends, NEW x \in Backends \ {b}, ImageInv(x), Same(b), FileChange(b)
  PROVE  ImageInv(x)'
<1>1. backend'[x] = backend[x]
  BY Zenon DEF Same
<1>2. ASSUME backend[x].at \in {"open", "create", "size", "area", "reserve", "map"}
      PROVE  MyFile(x)'.super = MyFile(x).super
  <2>1. backend[x].at \in Busy /\ backend[x].path \in DOMAIN file
    BY <1>2, Zenon DEF Busy, FilesInv, HasPath
  <2>2. \A p \in DOMAIN file : FileStays(p)
    BY <2>1, FileOfOther, Zenon
  <2> QED BY <1>1, <2>1, <2>2, Zenon DEF MyFile, FileStays
<1> QED BY <1>1, <1>2, Zenon DEF ImageInv

\* cur_s stays, and b is an image before and after the step, or neither:
\* CurLive and CurOnly are kept.
LEMMA ServedStays ==
  ASSUME CurLive, CurOnly, NEW b \in Backends, Same(b), cur_s' = cur_s,
         backend[b].at # "new" => backend'[b].format = backend[b].format /\ backend'[b].at # "new",
         Image(b)' => Image(b) /\ backend'[b].host = backend[b].host /\ backend'[b].size = backend[b].size,
         cur_s.live /\ cur_s.addr = backend[b].host /\ Image(b) =>
           Image(b)' /\ backend'[b].host = backend[b].host /\ backend'[b].size = backend[b].size
  PROVE  CurLive' /\ CurOnly'
<1>1. \A x \in Backends \ {b} : backend'[x] = backend[x]
  BY Zenon DEF Same
<1>2. CurLive'
  <2> SUFFICES ASSUME cur_s.live PROVE \E x \in Backends : Image(x)' /\ backend'[x].host = cur_s.addr /\ backend'[x].size = cur_s.length
    BY Zenon DEF CurLive
  <2>1. PICK x \in Backends : Image(x) /\ backend[x].host = cur_s.addr /\ backend[x].size = cur_s.length
    BY Zenon DEF CurLive
  <2>2. CASE x = b
    BY <2>1, <2>2, Zenon
  <2>3. CASE x # b
    <3>1. backend'[x] = backend[x]
      BY <1>1, <2>3, Zenon
    <3> QED BY <2>1, <3>1, Zenon DEF Image
  <2> QED BY <2>2, <2>3, Zenon
<1>3. CurOnly'
  <2> SUFFICES ASSUME NEW y \in Backends, Image(y)'
               PROVE  Shows(y)' \/ \E x \in Backends \ {y} : backend'[x].format = "pcow" /\ backend'[x].at # "new"
    BY Zenon DEF CurOnly
  <2>1. Image(y) /\ backend'[y].host = backend[y].host /\ backend'[y].size = backend[y].size
    BY <1>1, Zenon DEF Image
  <2>2. CASE Shows(y)
    BY <2>1, <2>2, Zenon DEF Shows
  <2>3. ASSUME NEW x \in Backends \ {y}, backend[x].format = "pcow", backend[x].at # "new"
        PROVE  \E z \in Backends \ {y} : backend'[z].format = "pcow" /\ backend'[z].at # "new"
    BY <1>1, <2>3, Zenon
  <2> QED BY <2>1, <2>2, <2>3, Zenon DEF CurOnly
<1> QED BY <1>2, <1>3, Zenon

\* What each step of b has to do to keep MapInv.
MapStep(b) == Owns(b) /\ Exact(b)' /\ ImageInv(b)' /\ CurLive' /\ CurOnly'

\* Before the reservation and after the end a backend has no page to keep.
LEMMA NoMapStep ==
  ASSUME CurLive, CurOnly, NEW b \in Backends, Same(b), vm' = vm, cur_s' = cur_s,
         backend[b].at \notin Placed, backend'[b].at \notin {"map"} \cup Placed,
         backend[b].at # "new" => backend'[b].format = backend[b].format /\ backend'[b].at # "new",
         ImageInv(b)'
  PROVE  MapStep(b)
<1>1. Owns(b)
  BY StayOwns, Zenon
<1>2. Exact(b)'
  BY Zenon DEF Exact, Placed, Mapped
<1>3. ~Image(b) /\ ~Image(b)'
  BY Zenon DEF Image
<1>4. CurLive' /\ CurOnly'
  BY <1>3, ServedStays, Zenon
<1> QED BY <1>1, <1>2, <1>4, Zenon DEF MapStep

\* The steps up to the reservation do not touch pages.
LEMMA EarlyMapStep ==
  ASSUME BackendInv, CurLive, CurOnly, ImagesUnaligned, NEW b \in Backends, ImageInv(b), Same(b),
         \/ \E o \in Options : SetProperties(b, o)
         \/ MemoryAlloc(b) \/ OpenFile(b) \/ CreateFile(b) \/ SizeFile(b) \/ FileRamAlloc(b)
  PROVE  MapStep(b)
<1>0. BackendTypes /\ OneBusy /\ FilesInv /\ PlaceInv(b)
  BY Zenon DEF BackendInv
<1>1. vm' = vm /\ cur_s' = cur_s
  BY Zenon DEF SetProperties, MemoryAlloc, OpenFile, CreateFile, Created, SizeFile, FileRamAlloc, Truncating
<1>2. ASSUME NEW w, Ends(b, w, "failed"), w \in {"new", "open", "create", "size", "area"} PROVE MapStep(b)
  <2>1. backend[b].at = w /\ backend'[b].at = "failed" /\ backend'[b].format = backend[b].format
    BY <1>2, Zenon DEF Ends
  <2>2. ImageInv(b)'
    BY <2>1, Zenon DEF ImageInv, Busy, Placed, Mapped
  <2> QED BY <1>1, <1>2, <2>1, <2>2, NoMapStep, Zenon DEF Placed, Mapped
<1>3. CASE \E o \in Options : SetProperties(b, o)
  <2>1. PICK o \in Options : /\ backend[b].at = "new" /\ backend'[b].at = "new"
                             /\ backend'[b].format = o.format /\ backend'[b].align = o.align
    BY <1>0, <1>3, DoSetProperties, Zenon
  <2>2. ImageInv(b)'
    BY <2>1, Zenon DEF ImageInv, ImagesUnaligned, Busy, Placed, Mapped
  <2> QED BY <1>1, <2>1, <2>2, NoMapStep, Zenon DEF Placed, Mapped
<1>4. CASE MemoryAlloc(b)
  <2>1. CASE Becomes(b, "new", "open", Fields) /\ backend[b].format = "raw"
    <3>1. backend[b].at = "new" /\ backend'[b].at = "open" /\ backend'[b].format = "raw"
      BY <2>1, Zenon DEF Becomes, Fields
    <3>2. ImageInv(b)'
      BY <3>1, Zenon DEF ImageInv
    <3> QED BY <1>1, <3>1, <3>2, NoMapStep, Zenon DEF Placed, Mapped
  <2>2. CASE Becomes(b, "new", "nomemory", Fields \ {"fd"})
    <3>1. backend[b].at = "new" /\ backend'[b].at = "nomemory"
      BY <2>2, Zenon DEF Becomes
    <3>2. ImageInv(b)'
      BY <3>1, Zenon DEF ImageInv, Busy, Placed, Mapped
    <3> QED BY <1>1, <3>1, <3>2, NoMapStep, Zenon DEF Placed, Mapped
  <2>3. CASE /\ backend[b].format = "pcow" /\ backend[b].path # NoPath /\ MyFile(b).super # 0
             /\ Becomes(b, "new", "open", Fields \ {"size"}) /\ backend'[b].size = MyFile(b).super
             /\ file' = IF MyFile(b).kind = "absent" THEN [file EXCEPT ![backend[b].path] = NewFile(b)] ELSE file
    <3>1. /\ backend[b].at = "new" /\ backend'[b].at = "open" /\ backend'[b].format = "pcow"
          /\ backend'[b].align = backend[b].align /\ backend'[b].path = backend[b].path
      BY <2>3, Zenon DEF Becomes, Fields
    <3>2. backend[b].path \in DOMAIN file
      BY <1>0, <2>3, Zenon DEF BackendTypes, BackendRecs
    <3>3. MyFile(b).kind # "absent"
      BY <1>0, <2>3, <3>2, Zenon DEF FilesInv, AbsentEmpty, MyFile
    <3>4. MyFile(b)' = MyFile(b)
      BY <2>3, <3>1, <3>3, Zenon DEF MyFile
    <3>5. ImageInv(b)'
      BY <2>3, <3>1, <3>4, Zenon DEF ImageInv
    <3> QED BY <1>1, <3>1, <3>5, NoMapStep, Zenon DEF Placed, Mapped
  <2> QED BY <1>0, <1>2, <1>4, <2>1, <2>2, <2>3, DoMemoryAlloc, Zenon DEF NewFile
<1>5. ASSUME NEW w \in {"open", "create", "size", "area"}, NEW at \in {"open", "create", "size", "area", "reserve"},
             NEW fields, {"path", "format", "size"} \subseteq fields, Becomes(b, w, at, fields),
             backend[b].format = "pcow" => MyFile(b)'.super = MyFile(b).super,
             backend'[b].align = backend[b].align \/ (at = "reserve" /\ backend'[b].align = IF backend[b].align = 0 THEN 1 ELSE backend[b].align),
             at = "reserve" => backend'[b].align # 0
      PROVE  MapStep(b)
  <2>1. /\ backend[b].at = w /\ backend'[b].at = at /\ backend'[b].path = backend[b].path
        /\ backend'[b].format = backend[b].format /\ backend'[b].size = backend[b].size
    BY <1>5, Zenon DEF Becomes
  <2>2. ImageInv(b)'
    BY <1>5, <2>1, Zenon DEF ImageInv, Busy, Placed, Mapped
  <2> QED BY <1>1, <1>5, <2>1, <2>2, NoMapStep, Zenon DEF Placed, Mapped
<1>6. CASE OpenFile(b)
  <2>1. file' = file
    BY <1>6, Zenon DEF OpenFile
  <2>2. CASE Becomes(b, "open", "size", Fields \ {"fd", "tmp"})
    <3>1. /\ backend'[b].path = backend[b].path /\ backend'[b].align = backend[b].align
          /\ {"path", "format", "size"} \subseteq Fields \ {"fd", "tmp"}
      BY <2>2, Zenon DEF Becomes, Fields
    <3>2. MyFile(b)'.super = MyFile(b).super
      BY <2>1, <3>1, Zenon DEF MyFile
    <3> QED BY <1>5, <2>2, <3>1, <3>2, Zenon
  <2>3. CASE Becomes(b, "open", "create", Fields)
    <3>1. /\ backend'[b].path = backend[b].path /\ backend'[b].align = backend[b].align
          /\ {"path", "format", "size"} \subseteq Fields
      BY <2>3, Zenon DEF Becomes, Fields
    <3>2. MyFile(b)'.super = MyFile(b).super
      BY <2>1, <3>1, Zenon DEF MyFile
    <3> QED BY <1>5, <2>3, <3>1, <3>2, Zenon
  <2> QED BY <1>0, <1>2, <1>6, <2>2, <2>3, DoOpen, Zenon
<1>7. CASE CreateFile(b)
  <2>1. CASE Becomes(b, "create", "open", Fields) /\ file' = file
    <3>1. /\ backend'[b].path = backend[b].path /\ backend'[b].align = backend[b].align
          /\ {"path", "format", "size"} \subseteq Fields
      BY <2>1, Zenon DEF Becomes, Fields
    <3>2. MyFile(b)'.super = MyFile(b).super
      BY <2>1, <3>1, Zenon DEF MyFile
    <3> QED BY <1>5, <2>1, <3>1, <3>2, Zenon
  <2>2. CASE MyFile(b).kind = "absent" /\ Becomes(b, "create", "size", Fields \ {"fd", "created"})
    <3>1. /\ backend[b].at = "create" /\ backend'[b].align = backend[b].align
          /\ {"path", "format", "size"} \subseteq Fields \ {"fd", "created"}
      BY <2>2, Zenon DEF Becomes, Fields
    <3>2. backend[b].path \in DOMAIN file
      BY <1>0, <3>1, Zenon DEF FilesInv, HasPath, Busy
    <3>3. MyFile(b).super = 0
      BY <1>0, <2>2, <3>2, Zenon DEF FilesInv, AbsentEmpty, MyFile
    <3>4. backend[b].format # "pcow"
      BY <3>1, <3>3, Zenon DEF ImageInv, Busy
    <3> QED BY <1>5, <2>2, <3>1, <3>4, Zenon
  <2> QED BY <1>0, <1>7, <2>1, <2>2, DoCreate, Zenon
<1>8. CASE SizeFile(b)
  <2>1. CASE Becomes(b, "size", "area", Fields \ {"file_size"}) /\ file' = file
    <3>1. /\ backend'[b].path = backend[b].path /\ backend'[b].align = backend[b].align
          /\ {"path", "format", "size"} \subseteq Fields \ {"file_size"}
      BY <2>1, Zenon DEF Becomes, Fields
    <3>2. MyFile(b)'.super = MyFile(b).super
      BY <2>1, <3>1, Zenon DEF MyFile
    <3> QED BY <1>5, <2>1, <3>1, <3>2, Zenon
  <2> QED BY <1>0, <1>2, <1>8, <2>1, DoSize, Zenon
<1>9. CASE FileRamAlloc(b)
  <2>1. CASE /\ Becomes(b, "area", "reserve", Fields \ {"align"})
             /\ backend'[b].align = IF backend[b].align = 0 THEN 1 ELSE backend[b].align
             /\ file' = file \/ file' = [file EXCEPT ![backend[b].path].size = backend[b].size]
    <3>1. /\ backend[b].at = "area" /\ backend'[b].path = backend[b].path
          /\ {"path", "format", "size"} \subseteq Fields \ {"align"}
      BY <2>1, Zenon DEF Becomes, Fields
    <3>2. backend[b].path \in DOMAIN file
      BY <1>0, <3>1, Zenon DEF FilesInv, HasPath, Busy
    <3>3. file'[backend[b].path].super = file[backend[b].path].super
      <4>1. CASE file' = file
        BY <4>1, Zenon
      <4>2. CASE file' = [file EXCEPT ![backend[b].path].size = backend[b].size]
        <5>1. file'[backend[b].path] = [file[backend[b].path] EXCEPT !.size = backend[b].size]
          BY <3>2, <4>2, Zenon
        <5>2. file[backend[b].path] \in FileRecs
          BY <1>0, <3>2, Zenon DEF BackendTypes
        <5> QED BY <5>1, <5>2 DEF FileRecs
      <4> QED BY <2>1, <4>1, <4>2, Zenon
    <3>4. MyFile(b)'.super = MyFile(b).super
      BY <3>1, <3>3, Zenon DEF MyFile
    <3>5. backend'[b].align # 0
      BY <2>1
    <3> QED BY <1>5, <2>1, <3>1, <3>4, <3>5, Zenon
  <2> QED BY <1>0, <1>2, <1>9, <2>1, DoTruncate, Zenon
<1> QED BY <1>3, <1>4, <1>6, <1>7, <1>8, <1>9, Zenon

\* A run of free pages is in the address space.
LEMMA FreeInside ==
  ASSUME BackendTypes, NEW n \in Nat, NEW p \in FreeRuns(n)
  PROVE  /\ p \in Nat /\ p + n <= VirtualPages /\ Span(p, n) \subseteq DOMAIN vm
         /\ \A a \in Span(p, n) : vm[a] = Free
<1>1. p \in 0..(VirtualPages - n) /\ \A a \in Span(p, n) : vm[a] = Free
  BY Zenon DEF FreeRuns
<1>2. p \in Nat /\ p + n <= VirtualPages
  BY <1>1, BackendAssumption
<1> QED BY <1>1, <1>2, SpansInside, Zenon

\* The reservation takes free pages only.
LEMMA ReserveMapStep ==
  ASSUME BackendInv, CurLive, CurOnly, NEW b \in Backends, ImageInv(b), Same(b), Reserve(b)
  PROVE  MapStep(b)
<1>0. BackendTypes /\ OneBusy /\ FilesInv /\ PlaceInv(b)
  BY Zenon DEF BackendInv
<1>1. cur_s' = cur_s /\ backend[b].at = "reserve" /\ backend[b].align # 0
  BY <1>0, Zenon DEF PlaceInv, Reserve, Fail, Step, IsAt
<1>2. CASE Ends(b, "reserve", "failed") /\ vm' = vm
  <2>1. backend'[b].at = "failed" /\ backend'[b].format = backend[b].format
    BY <1>2, Zenon DEF Ends
  <2>2. ImageInv(b)'
    BY <2>1, Zenon DEF ImageInv, Busy, Placed, Mapped
  <2> QED BY <1>1, <1>2, <2>1, <2>2, NoMapStep, Zenon DEF Placed, Mapped
<1>3. CASE /\ Becomes(b, "reserve", "map", Fields \ {"ptr", "offset"}) /\ file' = file
           /\ backend'[b].ptr \in FreeRuns(Total(b))
           /\ vm' = Put(vm, backend'[b].ptr, Total(b), Reserved(b))
  <2>1. /\ backend'[b].at = "map" /\ backend'[b].format = backend[b].format /\ backend'[b].size = backend[b].size
        /\ backend'[b].align = backend[b].align /\ backend'[b].path = backend[b].path
    BY <1>3, Zenon DEF Becomes, Fields
  <2>2. Total(b)' = Total(b) /\ Total(b) \in Nat
    BY <1>0, <2>1, RecFields, Zenon DEF Total
  <2>3. /\ Span(backend'[b].ptr, Total(b)) \subseteq DOMAIN vm
        /\ \A a \in Span(backend'[b].ptr, Total(b)) : vm[a] = Free
    BY <1>0, <1>3, <2>2, FreeInside, Zenon
  <2>4. Owns(b)
    BY <1>3, <2>3, PutOwns, Zenon
  <2>5. \A a \in Span(backend'[b].ptr, Total(b)) : vm'[a] = Reserved(b)
    BY <1>3, <2>3, PutIs
  <2>6. Exact(b)'
    BY <2>1, <2>2, <2>5, Zenon DEF Exact, Placed, Mapped
  <2>7. ImageInv(b)'
    BY <1>1, <1>3, <2>1, Zenon DEF ImageInv, MyFile, Busy, Placed, Mapped
  <2>8. ~Image(b) /\ ~Image(b)'
    BY <1>1, <2>1, Zenon DEF Image, Placed, Mapped
  <2>9. CurLive' /\ CurOnly'
    BY <1>1, <2>1, <2>8, ServedStays, Zenon
  <2> QED BY <2>4, <2>6, <2>7, <2>9, Zenon DEF MapStep
<1> QED BY <1>0, <1>1, <1>2, <1>3, DoReserve, Zenon

\* A raw file is mapped inside its own reservation, an image over free pages;
\* and a reservation that failed goes whole.
LEMMA MapMapStep ==
  ASSUME BackendInv, CurLive, CurOnly, NEW b \in Backends, ImageInv(b), Exact(b), Same(b), MapArea(b)
  PROVE  MapStep(b)
<1>0. BackendTypes /\ OneBusy /\ FilesInv /\ PlaceInv(b)
  BY Zenon DEF BackendInv
<1>1. /\ backend[b].size \in Nat /\ backend[b].align \in Nat /\ backend[b].ptr \in Nat
      /\ backend[b].offset \in Nat /\ Total(b) \in Nat /\ Total(b) = backend[b].size + backend[b].align
      /\ VirtualPages \in Nat
  BY <1>0, RecFields, BackendAssumption, Zenon
<1>2. ASSUME backend[b].at = "map"
      PROVE  /\ Span(backend[b].ptr, Total(b)) \subseteq DOMAIN vm
             /\ \A a \in Span(backend[b].ptr, Total(b)) : vm[a] = Reserved(b)
             /\ backend[b].offset < backend[b].align /\ backend[b].ptr + Total(b) <= VirtualPages
  BY <1>0, <1>1, <1>2, SpansInside, Zenon DEF PlaceInv, Exact
<1>3. CASE Ends(b, "map", "failed") /\ vm' = Put(vm, backend[b].ptr, Total(b), Free) /\ cur_s' = cur_s
  <2>1. backend[b].at = "map" /\ backend'[b].at = "failed" /\ backend'[b].format = backend[b].format
    BY <1>3, Zenon DEF Ends
  <2>2. Owns(b)
    BY <1>2, <1>3, <2>1, PutOwns, Zenon
  <2>3. Exact(b)' /\ ImageInv(b)'
    BY <2>1, Zenon DEF Exact, ImageInv, Busy, Placed, Mapped
  <2>4. ~Image(b) /\ ~Image(b)'
    BY <2>1, Zenon DEF Image, Placed, Mapped
  <2>5. CurLive' /\ CurOnly'
    BY <1>3, <2>1, <2>4, ServedStays, Zenon
  <2> QED BY <2>2, <2>3, <2>5, Zenon DEF MapStep
<1>4. CASE /\ Becomes(b, "map", "trim", Fields \ {"host"}) /\ file' = file /\ cur_s' = cur_s
           /\ backend[b].format = "raw" /\ backend'[b].host = backend[b].ptr + backend[b].offset
           /\ vm' = Put(vm, backend'[b].host, backend[b].size, Ram(b))
  <2>1. /\ backend[b].at = "map" /\ backend'[b].at = "trim" /\ backend'[b].format = "raw"
        /\ backend'[b].size = backend[b].size /\ backend'[b].align = backend[b].align
        /\ backend'[b].ptr = backend[b].ptr
    BY <1>4, Zenon DEF Becomes, Fields
  <2>2. Total(b)' = Total(b)
    BY <2>1, Zenon DEF Total
  <2> DEFINE h == backend'[b].host
  <2>3. h = backend[b].ptr + backend[b].offset
    BY <1>4, Zenon
  <2> HIDE DEF h
  <2>4. Span(h, backend[b].size) \subseteq Span(backend[b].ptr, Total(b)) /\ h + backend[b].size <= VirtualPages
    BY <1>1, <1>2, <2>1, <2>3 DEF Span
  <2>5. \A a \in DOMAIN vm : vm'[a] = IF a \in Span(h, backend[b].size) THEN Ram(b) ELSE vm[a]
    BY <1>4, PutIs DEF h
  <2>6. Owns(b)
    BY <1>2, <1>4, <2>1, <2>4, PutOwns, Zenon DEF h
  <2>7. \A a \in Span(h, backend[b].size) : vm'[a] = Ram(b)
    BY <1>2, <2>1, <2>4, <2>5, Zenon
  <2>8. \A a \in Span(backend[b].ptr, Total(b)) \ Span(h, backend[b].size) : vm'[a] = Reserved(b)
    BY <1>2, <2>1, <2>5, Zenon
  <2>9. Exact(b)'
    BY <2>1, <2>2, <2>4, <2>7, <2>8, Zenon DEF Exact, Placed, Mapped, h
  <2>10. ImageInv(b)'
    BY <2>1, Zenon DEF ImageInv
  <2>11. ~Image(b) /\ ~Image(b)'
    BY <2>1, Zenon DEF Image, Placed, Mapped
  <2>12. CurLive' /\ CurOnly'
    BY <1>4, <2>1, <2>11, ServedStays, Zenon
  <2> QED BY <2>6, <2>9, <2>10, <2>12, Zenon DEF MapStep
<1>5. CASE /\ Becomes(b, "map", "trim", Fields \ {"host"}) /\ file' = file
           /\ backend[b].format = "pcow" /\ backend'[b].host \in FreeRuns(backend[b].size)
           /\ vm' = Put(vm, backend'[b].host, backend[b].size, Ram(b))
           /\ cur_s' = [addr |-> backend'[b].host, length |-> MyFile(b).super, live |-> TRUE]
  <2>1. /\ backend[b].at = "map" /\ backend'[b].at = "trim" /\ backend'[b].format = "pcow"
        /\ backend'[b].size = backend[b].size /\ backend'[b].align = backend[b].align
    BY <1>5, Zenon DEF Becomes, Fields
  <2>2. /\ backend'[b].host + backend[b].size <= VirtualPages /\ Span(backend'[b].host, backend[b].size) \subseteq DOMAIN vm
        /\ \A a \in Span(backend'[b].host, backend[b].size) : vm[a] = Free
    BY <1>0, <1>1, <1>5, FreeInside, Zenon
  <2>3. Owns(b)
    BY <1>5, <2>2, PutOwns, Zenon
  <2>4. \A a \in Span(backend'[b].host, backend[b].size) : vm'[a] = Ram(b)
    BY <1>5, <2>2, PutIs
  <2>5. Exact(b)'
    BY <2>1, <2>2, <2>4, Zenon DEF Exact, Placed, Mapped
  <2>6. backend[b].size = MyFile(b).super /\ backend[b].size # 0 /\ backend[b].align = 1
    BY <1>5, <2>1, Zenon DEF ImageInv, Busy
  <2>7. ImageInv(b)'
    BY <2>1, <2>6, Zenon DEF ImageInv
  <2>8. Image(b)' /\ Shows(b)'
    BY <1>5, <2>1, <2>6, Zenon DEF Image, Shows, Placed
  <2>9. CurLive'
    BY <2>8, Zenon DEF CurLive, Shows
  <2>10. CurOnly'
    BY <2>1, <2>8, Zenon DEF CurOnly
  <2> QED BY <2>3, <2>5, <2>7, <2>9, <2>10, Zenon DEF MapStep
<1> QED BY <1>0, <1>3, <1>4, <1>5, DoMap, Zenon

\* The surplus that is unmapped is what is left of the reservation, but for the
\* guard page; of an image nothing is surplus.
LEMMA TrimMapStep ==
  ASSUME BackendInv, CurLive, CurOnly, NEW b \in Backends, ImageInv(b), Exact(b), Same(b), Trim(b)
  PROVE  MapStep(b)
<1> DEFINE o == backend[b]
           rest == Total(b) - o.offset
           front == Put(vm, o.ptr, o.offset, Free)
<1>0. BackendTypes /\ OneBusy /\ FilesInv /\ PlaceInv(b)
  BY Zenon DEF BackendInv
<1>1. /\ o.at = "trim" /\ backend'[b].at \in {"prealloc", "mapped"} /\ backend'[b].format = o.format
      /\ backend'[b].size = o.size /\ backend'[b].host = o.host
  BY <1>0, DoTrim, Zenon DEF Becomes, Fields
<1>2. vm' = (IF rest > o.size + 1 THEN Put(front, o.host + o.size + 1, rest - o.size - 1, Free) ELSE front) /\ cur_s' = cur_s
  BY <1>0, DoTrim, Zenon
<1>3. DOMAIN vm' = DOMAIN vm
  BY <1>2, PutIs
<1>4. ASSUME NEW a \in DOMAIN vm, vm'[a] # vm[a]
      PROVE  a \in Span(o.ptr, o.offset) \/ (rest > o.size + 1 /\ a \in Span(o.host + o.size + 1, rest - o.size - 1))
  <2>1. front[a] = IF a \in Span(o.ptr, o.offset) THEN Free ELSE vm[a]
    BY PutIs
  <2>2. a \in DOMAIN front
    BY PutIs
  <2>3. Put(front, o.host + o.size + 1, rest - o.size - 1, Free)[a] = IF a \in Span(o.host + o.size + 1, rest - o.size - 1) THEN Free ELSE front[a]
    BY <2>2, PutIs
  <2> QED BY <1>2, <1>4, <2>1, <2>3, Zenon
<1>5. /\ o.size \in Nat /\ o.align \in Nat /\ o.ptr \in Nat /\ o.offset \in Nat /\ o.host \in Nat
      /\ Total(b) = o.size + o.align /\ VirtualPages \in Nat
  BY <1>0, RecFields, BackendAssumption, Zenon
<1>6. /\ o.align # 0 /\ o.offset < o.align /\ o.ptr + Total(b) <= VirtualPages
      /\ o.format = "raw" => o.host = o.ptr + o.offset
  BY <1>0, <1>1, Zenon DEF PlaceInv
<1>7. o.host + o.size <= VirtualPages /\ \A a \in Span(o.host, o.size) : vm[a] = Ram(b)
  BY <1>1, Zenon DEF Exact, Placed
<1>8. o.format \in {"raw", "pcow"}
  BY <1>0, <1>1, Zenon DEF FilesInv, HasPath, Busy
<1>9. CurLive' /\ CurOnly'
  <2>1. Image(b) <=> o.format = "pcow"
    BY <1>1, Zenon DEF Image, Placed
  <2>2. Image(b)' <=> o.format = "pcow"
    BY <1>1, Zenon DEF Image, Placed, Mapped
  <2> QED BY <1>1, <1>2, <2>1, <2>2, ServedStays, Zenon
<1>10. ImageInv(b)'
  <2>1. o.format = "pcow" => o.size # 0
    BY <1>1, Zenon DEF ImageInv, Busy
  <2> QED BY <1>1, <2>1, Zenon DEF ImageInv
<1>11. CASE o.format = "raw"
  <2>1. \A a \in Span(o.ptr, Total(b)) \ Span(o.host, o.size) : vm[a] = Reserved(b)
    BY <1>1, <1>11, Zenon DEF Exact
  <2>2. ASSUME NEW a \in DOMAIN vm, vm'[a] # vm[a] PROVE a \in Span(o.ptr, Total(b)) \ Span(o.host, o.size)
    <3>1. a \in Span(o.ptr, o.offset) \/ (rest > o.size + 1 /\ a \in Span(o.host + o.size + 1, rest - o.size - 1))
      BY <1>4, <2>2, Zenon
    <3> HIDE DEF o
    <3> QED BY <1>5, <1>6, <1>11, <3>1 DEF Span
  <2>3. Owns(b)
    BY <1>3, <2>1, <2>2, Zenon DEF Owns
  <2>4. Span(o.host, o.size) \subseteq DOMAIN vm
    BY <1>0, <1>5, <1>7, SpansInside, Zenon
  <2>5. \A a \in Span(o.host, o.size) : vm'[a] = Ram(b)
    BY <1>7, <2>2, <2>4, Zenon
  <2>6. /\ o.host + o.size < VirtualPages /\ o.host + o.size \in Span(o.ptr, Total(b)) \ Span(o.host, o.size)
        /\ o.host + o.size \notin Span(o.ptr, o.offset) /\ o.host + o.size \notin Span(o.host + o.size + 1, rest - o.size - 1)
    <3> HIDE DEF o
    <3> QED BY <1>5, <1>6, <1>11 DEF Span
  <2>7. o.host + o.size \in DOMAIN vm
    BY <1>0, <1>5, <2>6 DEF BackendTypes
  <2>8. vm'[o.host + o.size] = Reserved(b)
    BY <1>4, <2>1, <2>6, <2>7, Zenon
  <2>9. Exact(b)'
    BY <1>1, <1>7, <2>5, <2>6, <2>8, Zenon DEF Exact, Placed, Mapped
  <2> QED BY <1>9, <1>10, <2>3, <2>9, Zenon DEF MapStep
<1>12. CASE o.format = "pcow"
  <2>1. o.align = 1
    BY <1>1, <1>12, Zenon DEF ImageInv
  <2>2. ASSUME NEW a \in DOMAIN vm, vm'[a] # vm[a] PROVE FALSE
    <3>1. a \in Span(o.ptr, o.offset) \/ (rest > o.size + 1 /\ a \in Span(o.host + o.size + 1, rest - o.size - 1))
      BY <1>4, <2>2, Zenon
    <3> HIDE DEF o
    <3> QED BY <1>5, <1>6, <2>1, <3>1 DEF Span
  <2>3. Owns(b)
    BY <1>3, <2>2, Zenon DEF Owns
  <2>4. Span(o.host, o.size) \subseteq DOMAIN vm
    BY <1>0, <1>5, <1>7, SpansInside, Zenon
  <2>5. Exact(b)'
    BY <1>1, <1>7, <1>12, <2>2, <2>4, Zenon DEF Exact, Placed, Mapped
  <2> QED BY <1>9, <1>10, <2>3, <2>5, Zenon DEF MapStep
<1> QED BY <1>8, <1>11, <1>12, Zenon

\* A step of a mapped backend that keeps its place.
LEMMA KeepMapStep ==
  ASSUME BackendInv, CurLive, CurOnly, NEW b \in Backends, ImageInv(b), Exact(b), Same(b), vm' = vm, cur_s' = cur_s,
         NEW w \in Mapped, NEW at \in Mapped, Becomes(b, w, at, Fields)
  PROVE  MapStep(b)
<1>1. /\ backend[b].at = w /\ backend'[b].at = at /\ backend'[b].format = backend[b].format
      /\ backend'[b].host = backend[b].host /\ backend'[b].size = backend[b].size
  BY Zenon DEF Becomes, Fields
<1>2. Owns(b)
  BY StayOwns, Zenon
<1>3. Exact(b)'
  BY <1>1, Zenon DEF Exact, Placed, Mapped
<1>4. ImageInv(b)'
  BY <1>1, Zenon DEF ImageInv, Busy, Placed, Mapped
<1>5. (Image(b)' <=> Image(b)) /\ w # "new" /\ at # "new"
  BY <1>1, Zenon DEF Image, Placed, Mapped
<1>6. CurLive' /\ CurOnly'
  BY <1>1, <1>5, ServedStays, Zenon
<1> QED BY <1>2, <1>3, <1>4, <1>6, Zenon DEF MapStep

\* qemu_ram_munmap unmaps b's own pages: if cur_s is where b is, it stands for
\* b, as an image has a page that is nobody else's.
LEMMA UnmapMapStep ==
  ASSUME BackendInv, CurLive, CurOnly, NEW b \in Backends, \A x \in Backends : ImageInv(x) /\ Exact(x), Same(b),
         NEW w \in Mapped, NEW how \in {"failed", "gone"}, Ends(b, w, how), Unmaps(b)
  PROVE  MapStep(b)
<1>0. BackendTypes /\ OneBusy /\ FilesInv /\ PlaceInv(b)
  BY Zenon DEF BackendInv
<1>1. backend[b].at = w /\ backend'[b].at = how /\ backend'[b].format = backend[b].format /\ how # "new"
  BY Zenon DEF Ends
<1>2. Exact(b)' /\ ImageInv(b)'
  BY <1>1, Zenon DEF Exact, ImageInv, Busy, Placed, Mapped
<1>3. ~Image(b)' /\ (Image(b) <=> backend[b].format = "pcow")
  BY <1>1, Zenon DEF Image, Placed, Mapped
<1>4. backend[b].format \in {"raw", "pcow"}
  BY <1>0, <1>1, Zenon DEF FilesInv, HasPath, Busy, Mapped
<1>5. /\ backend[b].size \in Nat /\ backend[b].host \in Nat
      /\ \A a \in Span(backend[b].host, backend[b].size) : vm[a] = Ram(b)
      /\ backend[b].format = "raw" => vm[backend[b].host + backend[b].size] = Reserved(b)
  BY <1>0, <1>1, RecFields, Zenon DEF Exact, Placed
<1>6. CASE /\ backend[b].format = "raw" /\ cur_s' = cur_s
           /\ vm' = Put(vm, backend[b].host, backend[b].size + 1, Free)
  <2>1. ASSUME NEW a \in Span(backend[b].host, backend[b].size + 1) PROVE vm[a] \in {Reserved(b), Ram(b)}
    <3>1. a \in Span(backend[b].host, backend[b].size) \/ a = backend[b].host + backend[b].size
      BY <1>5, <2>1 DEF Span
    <3> QED BY <1>5, <1>6, <3>1, Zenon
  <2>2. Owns(b)
    BY <1>6, <2>1, PutOwns, Zenon
  <2>3. CurLive' /\ CurOnly'
    BY <1>1, <1>3, <1>6, ServedStays, Zenon
  <2> QED BY <1>2, <2>2, <2>3, Zenon DEF MapStep
<1>7. CASE backend[b].format # "raw" /\ cur_s.addr # backend[b].host /\ vm' = vm /\ cur_s' = cur_s
  <2>1. Owns(b)
    BY <1>7, StayOwns, Zenon
  <2>2. CurLive' /\ CurOnly'
    BY <1>1, <1>3, <1>7, ServedStays, Zenon
  <2> QED BY <1>2, <2>1, <2>2, Zenon DEF MapStep
<1>8. CASE /\ backend[b].format # "raw" /\ cur_s.live /\ cur_s.addr = backend[b].host
           /\ vm' = Put(vm, backend[b].host, cur_s.length, Free) /\ cur_s' = [cur_s EXCEPT !.live = FALSE]
  <2>1. backend[b].format = "pcow" /\ Image(b) /\ backend[b].size # 0
    BY <1>1, <1>3, <1>4, <1>8, Zenon DEF ImageInv, Placed
  <2>2. PICK x \in Backends : Image(x) /\ backend[x].host = cur_s.addr /\ backend[x].size = cur_s.length
    BY <1>8, Zenon DEF CurLive
  <2>3. backend[x].size # 0 /\ backend[x].size \in Nat /\ \A a \in Span(backend[x].host, backend[x].size) : vm[a] = Ram(x)
    BY <1>0, <2>2, RecFields, Zenon DEF Image, ImageInv, Exact
  <2>4. backend[b].host \in Span(backend[b].host, backend[b].size) /\ backend[b].host \in Span(backend[x].host, backend[x].size)
    BY <1>5, <1>8, <2>1, <2>2, <2>3 DEF Span
  <2>5. Ram(b) = Ram(x)
    BY <1>5, <2>3, <2>4, Zenon
  <2>6. x = b
    BY <2>5, PagesDiffer, Zenon
  <2>7. Owns(b)
    BY <1>5, <1>8, <2>2, <2>6, PutOwns, Zenon
  <2>8. ~cur_s'.live
    BY <1>0, <1>8, Zenon DEF BackendTypes
  <2>9. CurLive'
    BY <2>8, Zenon DEF CurLive
  <2>10. CurOnly'
    BY <1>1, <1>3, <2>1, Zenon DEF CurOnly
  <2> QED BY <1>2, <2>7, <2>9, <2>10, Zenon DEF MapStep
<1> QED BY <1>6, <1>7, <1>8, Zenon DEF Unmaps

\* The steps of backends keep MapInv.
LEMMA StepMapped ==
  ASSUME MapInv, ImagesUnaligned, NEW b \in Backends, BackendStep(b)
  PROVE  MapInv'
<1>0. /\ BackendInv /\ BackendTypes /\ OneBusy /\ FilesInv /\ CurLive /\ CurOnly /\ ForeignKept
      /\ PlaceInv(b) /\ ImageInv(b) /\ Exact(b)
  BY Zenon DEF MapInv, BackendInv
<1>1. BackendInv' /\ FileChange(b)
  BY <1>0, StepBackend, Zenon
<1>2. Same(b)
  BY <1>0, StepRecords, Zenon DEF RecordsStep
<1>3. foreign' = foreign
  BY <1>0, StepServed, Zenon
<1>4. MapStep(b)
  <2>0. \A x \in Backends : ImageInv(x) /\ Exact(x)
    BY Zenon DEF MapInv
  <2>1. CASE \/ \E o \in Options : SetProperties(b, o)
             \/ MemoryAlloc(b) \/ OpenFile(b) \/ CreateFile(b) \/ SizeFile(b) \/ FileRamAlloc(b)
    BY <1>0, <1>2, <2>1, EarlyMapStep, Zenon
  <2>2. CASE Reserve(b)
    BY <1>0, <1>2, <2>2, ReserveMapStep, Zenon
  <2>3. CASE MapArea(b)
    BY <1>0, <1>2, <2>3, MapMapStep, Zenon
  <2>4. CASE Trim(b)
    BY <1>0, <1>2, <2>4, TrimMapStep, Zenon
  <2>5. CASE Prealloc(b)
    <3>1. CASE Ends(b, "prealloc", "failed") /\ Unmaps(b)
      BY <1>0, <1>2, <2>0, <3>1, UnmapMapStep, Zenon DEF Mapped
    <3>2. CASE Becomes(b, "prealloc", "mapped", Fields) /\ vm' = vm /\ cur_s' = cur_s
      BY <1>0, <1>2, <3>2, KeepMapStep, Zenon DEF Mapped
    <3> QED BY <1>0, <2>5, <3>1, <3>2, DoPrealloc, Zenon
  <2>6. CASE Unparent(b)
    BY <1>0, <1>2, <2>6, DoUnparent, KeepMapStep, Zenon DEF Mapped
  <2>7. CASE Reclaim(b)
    BY <1>0, <1>2, <2>0, <2>7, DoReclaim, UnmapMapStep, Zenon DEF Mapped
  <2> QED BY <2>1, <2>2, <2>3, <2>4, <2>5, <2>6, <2>7, Zenon DEF BackendStep
<1>5. ASSUME NEW x \in Backends PROVE ImageInv(x)' /\ Exact(x)'
  <2>1. CASE x = b
    BY <1>4, <2>1, Zenon DEF MapStep
  <2>2. CASE x # b
    <3>1. x \in Backends \ {b} /\ ImageInv(x) /\ Exact(x) /\ PlaceInv(x) /\ Owns(b)
      BY <1>0, <1>4, <2>2, Zenon DEF MapInv, BackendInv, MapStep
    <3>2. ImageInv(x)'
      BY <1>0, <1>1, <1>2, <3>1, ImageOther, Zenon
    <3>3. Exact(x)'
      BY <1>0, <1>2, <3>1, ExactOther, Zenon
    <3> QED BY <3>2, <3>3, Zenon
  <2> QED BY <2>1, <2>2, Zenon
<1>6. ForeignKept'
  BY <1>0, <1>3, <1>4, ForeignStays, Zenon DEF MapStep
<1> QED BY <1>1, <1>4, <1>5, <1>6, Zenon DEF MapInv, MapStep

\* Other threads, which take free pages, other processes, which make files
\* where none is, and steps that change nothing keep MapInv.
LEMMA OthersMapped ==
  ASSUME MapInv,
         \/ \E p \in DOMAIN vm : OtherThreadMaps(p)
         \/ \E path \in DOMAIN file, size \in OtherSizes : OtherProcessCreates(path, size)
         \/ UNCHANGED backendVars
  PROVE  MapInv'
<1>0. BackendInv /\ BackendTypes /\ FilesInv /\ CurLive /\ CurOnly /\ ForeignKept
  BY Zenon DEF MapInv, BackendInv
<1>1. BackendInv'
  BY <1>0, OthersBackend, Zenon
<1>2. backend' = backend /\ cur_s' = cur_s
  BY Zenon DEF OtherThreadMaps, OtherProcessCreates, backendVars
<1>3. CurLive' /\ CurOnly'
  BY <1>0, <1>2, Zenon DEF CurLive, CurOnly, Image, Shows
<1>4. CASE \E p \in DOMAIN vm : OtherThreadMaps(p)
  <2>1. PICK p \in DOMAIN vm : /\ vm[p] = Free /\ vm' = [vm EXCEPT ![p] = Other] /\ file' = file
                               /\ foreign' = [foreign EXCEPT !.pages = foreign.pages \cup {p}]
    BY <1>4, Zenon DEF OtherThreadMaps
  <2>2. foreign'.pages = foreign.pages \cup {p}
    BY <1>0, <2>1, Zenon DEF BackendTypes
  <2>3. DOMAIN vm' = DOMAIN vm /\ vm'[p] = Other /\ \A a \in DOMAIN vm : vm'[a] = vm[a] \/ vm[a] = Free
    BY <2>1, Zenon
  <2>4. ForeignKept'
    BY <1>0, <2>2, <2>3, PagesDiffer, Zenon DEF ForeignKept
  <2>5. ASSUME NEW x \in Backends PROVE ImageInv(x)' /\ Exact(x)'
    <3>1. ImageInv(x) /\ Exact(x) /\ PlaceInv(x) /\ Total(x)' = Total(x)
      BY <1>2, Zenon DEF MapInv, BackendInv, Total
    <3>2. ImageInv(x)'
      BY <1>2, <2>1, <3>1, Zenon DEF ImageInv, MyFile
    <3>3. /\ backend[x].size \in Nat /\ backend[x].ptr \in Nat /\ backend[x].host \in Nat /\ Total(x) \in Nat
          /\ VirtualPages \in Nat
      BY <1>0, RecFields, BackendAssumption, Zenon
    <3>4. \A a \in DOMAIN vm : vm[a] \in {Reserved(x), Ram(x)} => vm'[a] = vm[a]
      BY <2>3, PagesDiffer, Zenon
    <3>5. backend[x].at \in {"map", "trim"} => Span(backend[x].ptr, Total(x)) \subseteq DOMAIN vm
      BY <1>0, <3>1, <3>3, SpansInside, Zenon DEF PlaceInv
    <3>6. backend[x].at \in Placed => Span(backend[x].host, backend[x].size) \subseteq DOMAIN vm
      BY <1>0, <3>1, <3>3, SpansInside, Zenon DEF Exact
    <3>7. backend[x].at \in Mapped /\ backend[x].format = "raw" => backend[x].host + backend[x].size \in DOMAIN vm
      BY <1>0, <3>1, <3>3 DEF Exact, BackendTypes
    <3>8. Exact(x)'
      BY <1>2, <3>1, <3>4, <3>5, <3>6, <3>7, Zenon DEF Exact
    <3> QED BY <3>2, <3>8, Zenon
  <2> QED BY <1>1, <1>3, <2>4, <2>5, Zenon DEF MapInv
<1>5. ASSUME vm' = vm, foreign'.pages = foreign.pages,
             \A p \in DOMAIN file : file[p].kind # "absent" => file'[p] = file[p]
      PROVE  MapInv'
  <2>1. ForeignKept'
    BY <1>0, <1>5, Zenon DEF ForeignKept
  <2>2. ASSUME NEW x \in Backends PROVE ImageInv(x)' /\ Exact(x)'
    <3>1. ImageInv(x) /\ Exact(x) /\ HasPath(x)
      BY <1>0, Zenon DEF MapInv, FilesInv
    <3>2. Exact(x)'
      BY <1>2, <1>5, <3>1, Zenon DEF Exact, Total
    <3>3. ASSUME backend[x].format = "pcow", backend[x].at \in {"open", "create", "size", "area", "reserve", "map"}
          PROVE  MyFile(x)' = MyFile(x)
      <4>1. backend[x].path \in DOMAIN file /\ MyFile(x).super # 0
        BY <3>1, <3>3, Zenon DEF HasPath, ImageInv, Busy
      <4>2. MyFile(x).kind # "absent"
        BY <1>0, <4>1, Zenon DEF FilesInv, AbsentEmpty, MyFile
      <4> QED BY <1>2, <1>5, <4>1, <4>2, Zenon DEF MyFile
    <3>4. ImageInv(x)'
      BY <1>2, <3>1, <3>3, Zenon DEF ImageInv
    <3> QED BY <3>2, <3>4, Zenon
  <2> QED BY <1>1, <1>3, <2>1, <2>2, Zenon DEF MapInv
<1>6. CASE \E path \in DOMAIN file, size \in OtherSizes : OtherProcessCreates(path, size)
  <2>1. PICK q \in DOMAIN file : file[q].kind = "absent" /\ \E r : file' = [file EXCEPT ![q] = r]
    BY <1>6, Zenon DEF OtherProcessCreates
  <2>2. vm' = vm
    BY <1>6, Zenon DEF OtherProcessCreates
  <2>3. foreign'.pages = foreign.pages
    <3>1. PICK fs : foreign' = [foreign EXCEPT !.files = fs]
      BY <1>6, Zenon DEF OtherProcessCreates
    <3> QED BY <1>0, <3>1, Zenon DEF BackendTypes
  <2>4. \A p \in DOMAIN file : file[p].kind # "absent" => file'[p] = file[p]
    BY <2>1, Zenon
  <2> QED BY <1>5, <2>2, <2>3, <2>4, Zenon
<1>7. CASE UNCHANGED backendVars
  <2>1. vm' = vm /\ foreign' = foreign /\ file' = file
    BY <1>7, Zenon DEF backendVars
  <2> QED BY <1>5, <2>1, Zenon
<1> QED BY <1>4, <1>6, <1>7, Zenon

\* qemu_ram_mmap and qemu_ram_munmap, for any backends and options in which
\* images have the default alignment: memory stays mapped until its own backend
\* unmaps it, raw memory is aligned and has its guard page, cur_s stands for an
\* image that is the only one, and no page of another thread is unmapped or
\* mapped over.
THEOREM MappingsStay == ASSUME ImagesUnaligned PROVE BackendSpec => []MappingsKept
<1>1. BackendInit => MapInv
  <2> SUFFICES ASSUME BackendInit PROVE MapInv
    BY Zenon
  <2>1. BackendInv
    BY InitBackend, Zenon
  <2>2. \A b \in Backends : backend[b].at = "new" /\ backend[b].format = "raw"
    BY Zenon DEF BackendInit, Fresh
  <2>3. ~cur_s.live /\ foreign.pages = {}
    BY Zenon DEF BackendInit
  <2> QED BY <2>1, <2>2, <2>3, Zenon DEF MapInv, CurLive, CurOnly, ForeignKept, ImageInv, Exact, Image, Placed, Mapped
<1>2. MapInv /\ [BackendNext]_backendVars => MapInv'
  BY StepMapped, OthersMapped, NextCases, Zenon
<1>3. ASSUME MapInv PROVE MappingsKept
  <2>1. \A p \in foreign.pages : vm[p] = Other
    BY <1>3, Zenon DEF MapInv, ForeignKept
  <2>2. ASSUME NEW b \in Backends, backend[b].at \in {"prealloc", "mapped", "unparented"}
        PROVE  /\ \A a \in Span(backend[b].host, backend[b].size) : vm[a] = Ram(b)
               /\ backend[b].format = "raw" =>
                    vm[backend[b].host + backend[b].size] = Reserved(b) /\ backend[b].host % backend[b].align = 0
               /\ backend[b].format = "pcow" /\ (\A x \in Backends \ {b} : backend[x].format # "pcow") => Shows(b)
    <3>1. PlaceInv(b) /\ Exact(b) /\ CurOnly
      BY <1>3, Zenon DEF MapInv, BackendInv
    <3> QED BY <2>2, <3>1, Zenon DEF PlaceInv, Exact, CurOnly, Image, Placed, Mapped
  <2> QED BY <2>1, <2>2, Zenon DEF MappingsKept, Shows
<1> QED BY <1>1, <1>2, <1>3, PTL DEF BackendSpec
=============================================================================
