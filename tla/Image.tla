------------------------------- MODULE Image -------------------------------
(***************************************************************************)
(* The pcow image file: the layers of super, meta and data blocks that     *)
(* pcow-img (manager.c, new_super of meta.c) and a mounted session (fmmap  *)
(* of pcow.c, new_block of meta.c) write, and the walk along the supers    *)
(* that finds them again (read_first_super, read_next_super, read_meta).   *)
(*                                                                         *)
(* Positions are counted in blocks.  The file may end behind the last      *)
(* block in use, because blocks are allocated ahead, and a crash may leave *)
(* a meta block there that no super counts.  A block has one content here, *)
(* but is copied by units as in Cow: until the last unit is copied the     *)
(* guest sees the content, of which the file has only a part.  One program *)
(* at a time uses the file, and a session serves one fault at a time (the  *)
(* interleavings of faults are in Cow).  Fields of one cache line reach    *)
(* the file together and in the order of the flushes.                      *)
(***************************************************************************)
EXTENDS Integers, Sequences, FiniteSets, FiniteSetsExt, Functions, TLC

CONSTANTS
  VBlocks,      \* virtual blocks
  MaxPerSeg,    \* max_per_seg
  MaxBlockNum,  \* max_block_num
  MaxPreNum,    \* MAX_PRE_NUM
  NoBase,       \* the empty base_image_name
  Formatted,    \* base images that exist and are formatted
  Raw,          \* files that exist and are not formatted
  Missing,      \* names of no file
  OnBase,       \* the formatted ones that have a base image themselves
  BaseBlocks,   \* the virtual blocks that the formatted ones have
  MaxDepth,     \* bound: calls that fit on the stack
  MaxFile,      \* bound: blocks in the file
  Values,       \* contents of a block
  Unset,        \* no content: the base image shows
  Zeros,        \* the content of a block from fallocate
  Torn          \* a content of which units may be zeros

ASSUME ImageAssumption ==
  /\ {MaxPerSeg, MaxBlockNum, MaxDepth, MaxFile} \subseteq Nat \ {0}
  /\ MaxPreNum \in Nat
  /\ OnBase \subseteq Formatted /\ NoBase \notin Formatted \cup Raw \cup Missing
  /\ VBlocks \subseteq Nat /\ BaseBlocks \subseteq VBlocks
  /\ Cardinality(Values \cup {Unset, Zeros, Torn}) = Cardinality(Values) + 3

VARIABLES
  size,    \* st_size
  blk,     \* the blocks of the file
  tool,    \* what pcow-img or fmmap is doing
  session, \* the mounted session
  ret      \* result of the last operation

vars == <<size, blk, tool, session, ret>>

Positions == 0..(MaxFile - 1)
Bases == {NoBase} \cup Formatted \cup Raw \cup Missing
Unmapped == -1
NoBlock == -1
Zero == [kind |-> "zero"]
Super(n, b) == [kind |-> "super", num |-> n, base |-> b]
Meta(entries) == [kind |-> "meta", entries |-> entries]
Data(x, w) == [kind |-> "data", val |-> x, whole |-> w]
AllOnes == -1                 \* the address in an entry, every bit set

Idle == [pc |-> "idle"]
Off == [pc |-> "off"]

-----------------------------------------------------------------------------
(* Reading the file.                                                       *)

IsSuper(p) == p < size /\ blk[p].kind = "super"
MetaPos(p, n) == p + 1 + (1 + MaxPerSeg) * n
Entries(q) == IF blk[q].kind = "zero" THEN <<>> ELSE blk[q].entries

\* Fault: the blocks of the earlier meta blocks are not counted in.
End_first(p) == p + 2 + Len(Entries(MetaPos(p, blk[p].num)))

(* Behind the last block in use of the layer whose super is at p: where    *)
(* read_next_super looks for the next one.                                 *)
End(p) == MetaPos(p, blk[p].num) + 1 + Len(Entries(MetaPos(p, blk[p].num)))

(* The walk along the supers, from the first one.                          *)
Supers ==
  LET from[p \in 0..MaxFile] == IF IsSuper(p) THEN <<p>> \o from[End(p)] ELSE <<>>
  IN from[0]
Last == Supers[Len(Supers)]

(* Where a layer has blocks for v.                                         *)
BlocksOf(p, v) ==
  UNION {{q + j : j \in {k \in DOMAIN Entries(q) : Entries(q)[k] = v}}
          : q \in {MetaPos(p, n) : n \in 0..blk[p].num}}

(* What fmmap has mapped when it has gone through the first n layers: a    *)
(* block of a later layer, or of a later entry, is mapped over the ones    *)
(* before.                                                                 *)
MapsTo(n, v) ==
  LET supers == Supers
      found == UNION {BlocksOf(supers[i], v) : i \in 1..n}
  IN IF found = {} THEN Unmapped ELSE Max(found)
Mapping(n) == [v \in VBlocks |-> MapsTo(n, v)]

(* What a mapped block shows, whatever the bitmap of its entry says.       *)
Shown[p \in Positions \cup {Unmapped}] ==
  IF p = Unmapped THEN Unset
  ELSE IF blk[p].kind = "zero" THEN Zeros
  ELSE IF blk[p].whole THEN blk[p].val ELSE Torn
Content(n) == [v \in VBlocks |-> Shown[MapsTo(n, v)]]

Init ==
  /\ size = 0
  /\ blk = [p \in Positions |-> Zero]
  /\ tool = Idle
  /\ session = Off
  /\ ret = "none"

-----------------------------------------------------------------------------
(* pcow-img.                                                               *)

Free == tool = Idle /\ session = Off
Return(r) == ret' = r /\ tool' = Idle
Fallocate(p) == size' = Max({size, p})

(* new_image: a base image that is not formatted is reported, no more.  If *)
(* there is no such file, read_first_super may also go down on the failed  *)
(* mapping: the size it tests then is not initialised.                     *)
NewImage(b) ==
  /\ Free
  /\ IF IsSuper(0)
     THEN Return("-1") /\ UNCHANGED size
     ELSE /\ Fallocate(2)
          /\ tool' = [pc |-> "super", at |-> 0, op |-> "create", base |-> b]
          /\ UNCHANGED ret
  /\ UNCHANGED <<blk, session>>

(* snapshot: new_super behind the last block in use.                       *)
Snapshot ==
  /\ Free
  /\ IF ~IsSuper(0)
     THEN Return("-1") /\ UNCHANGED size
     ELSE /\ End(Last) + 2 <= MaxFile
          /\ Fallocate(End(Last) + 2)
          /\ tool' = [pc |-> "super", at |-> End(Last), op |-> "snapshot", base |-> NoBase]
          /\ UNCHANGED ret
  /\ UNCHANGED <<blk, session>>

(* new_super writes the super and then the counter of its first meta       *)
(* block; new_image then writes the name of the base image.                *)
WriteSuper ==
  /\ tool.pc = "super"
  /\ blk' = [blk EXCEPT ![tool.at] = Super(0, NoBase)]
  /\ tool' = [tool EXCEPT !.pc = "meta"]
  /\ UNCHANGED <<size, session, ret>>

WriteMeta ==
  /\ tool.pc = "meta"
  /\ blk' = [blk EXCEPT ![tool.at + 1] = Meta(<<>>)]
  /\ IF tool.op = "create"
     THEN tool' = [tool EXCEPT !.pc = "base"] /\ UNCHANGED ret
     ELSE Return("0")
  /\ UNCHANGED <<size, session>>

WriteBase ==
  /\ tool.pc = "base"
  /\ blk' = [blk EXCEPT ![0].base = tool.base]
  /\ Return("0")
  /\ UNCHANGED <<size, session>>

(* The other outcome for a base image that is not there.                   *)
NewImageFails(b) ==
  /\ Free /\ ~IsSuper(0) /\ b \in Missing
  /\ Return("killed")
  /\ UNCHANGED <<size, blk, session>>

UpdateBase(b) ==
  /\ Free
  /\ IF ~IsSuper(0)
     THEN Return("-1") /\ UNCHANGED blk
     ELSE Return("0") /\ blk' = [blk EXCEPT ![0].base = b]
  /\ UNCHANGED <<size, session>>

Truncate(p) ==
  /\ size' = p
  /\ blk' = [q \in Positions |-> IF q < p THEN blk[q] ELSE Zero]

\* Fault: snapshots are counted from 0.
Rollback_zero(n) ==
  /\ Free
  /\ IF ~IsSuper(0)
     THEN Return("-1") /\ UNCHANGED <<size, blk>>
     ELSE /\ Return("0")
          /\ IF n + 1 \in DOMAIN Supers THEN Truncate(End(Supers[n + 1])) ELSE UNCHANGED <<size, blk>>
  /\ UNCHANGED session

(* rollback_snapshot: cut the file behind the n-th layer.                  *)
Rollback(n) ==
  /\ Free
  /\ IF ~IsSuper(0)
     THEN Return("-1") /\ UNCHANGED <<size, blk>>
     ELSE /\ Return("0")
          /\ IF n \in DOMAIN Supers THEN Truncate(End(Supers[n])) ELSE UNCHANGED <<size, blk>>
  /\ UNCHANGED session

-----------------------------------------------------------------------------
(* fmmap.                                                                  *)

(* The layers of the image are mapped, the last one writable; the          *)
(* allocator thread starts behind the last block in use, and the hash      *)
(* table is empty.                                                         *)
Mount ==
  /\ session' = [pc |-> "on", my |-> Last, table |-> Mapping(Len(Supers)),
                 alloc |-> End(Last), alive |-> TRUE, ht |-> {}, part |-> {},
                 v |-> NoBlock, at |-> Unmapped]
  /\ Return("0")

Fmmap ==
  /\ Free
  /\ IF ~IsSuper(0) THEN Return("-1") /\ UNCHANGED session
     ELSE IF blk[0].base \notin Formatted THEN Mount
     ELSE tool' = [pc |-> "fmmap", depth |-> 1] /\ UNCHANGED <<session, ret>>
  /\ UNCHANGED <<size, blk>>

(* do_base_fmmap of a base image that has a base image itself reads the    *)
(* same file again, and so calls itself until the stack is exhausted.      *)
DoBaseFmmap ==
  /\ tool.pc = "fmmap"
  /\ IF blk[0].base \notin OnBase THEN Mount
     ELSE IF tool.depth < MaxDepth
          THEN tool' = [tool EXCEPT !.depth = @ + 1] /\ UNCHANGED <<session, ret>>
          ELSE Return("killed") /\ UNCHANGED session
  /\ UNCHANGED <<size, blk>>

-----------------------------------------------------------------------------
(* The mounted session.                                                    *)

Active == MetaPos(session.my, blk[session.my].num)
Counter == Len(Entries(Active))
Allocated == blk[session.my].num * MaxPerSeg + Counter
Own(v) == session.table[v] > session.my
Here == End(session.my)

(* One round of new_block_allocator.                                       *)
PreAllocate ==
  /\ session.pc # "off" /\ session.alive
  /\ session.alloc - Here + 1 <= MaxPreNum
  /\ IF Allocated + (session.alloc - Here) + 1 > MaxBlockNum
     THEN session' = [session EXCEPT !.alive = FALSE] /\ UNCHANGED size
     ELSE /\ session.alloc < MaxFile
          /\ Fallocate(session.alloc + 1)
          /\ session' = [session EXCEPT !.alloc = @ + 1]
  /\ UNCHANGED <<blk, tool, ret>>

(* A block that some layer, or the base image, shows read-only.            *)
ReadOnly(v) == session.table[v] # Unmapped \/ (v \in BaseBlocks /\ blk[0].base \in Formatted)

(* What the guest reads: of a block copied in part, the units copied from  *)
(* the new block and the others from the layer below.                      *)
View(v) == IF v \in session.part THEN blk[session.table[v]].val ELSE Shown[session.table[v]]

(* A store changes one unit: it does not mend the others.                  *)
Over(old, x) == IF old = Torn THEN Torn ELSE x

(* The guest stores to a unit that is writable: at any time, and when the  *)
(* handler of the store returns.                                           *)
WriteInPlace(v, x) ==
  /\ \/ session.pc = "on" /\ Own(v)
     \/ session.pc = "store" /\ v = session.v
  /\ LET p == session.table[v]
     IN blk' = [blk EXCEPT ![p] = Data(Over(View(v), x), Shown[p] = Zeros \/ blk[p].whole)]
  /\ session' = [session EXCEPT !.pc = "on", !.v = NoBlock, !.at = Unmapped]
  /\ UNCHANGED <<size, tool, ret>>

(* An access to a block that the layer does not have calls new_block,      *)
(* which ends the process (Crash) when the layer is full.                  *)
NewBlock(v) == session.pc = "on" /\ ~Own(v) /\ Allocated + 1 <= MaxBlockNum

\* Fault: the block handed out is the last one allocated ahead.
Append_last(v) ==
  /\ NewBlock(v) /\ Counter < MaxPerSeg /\ Here < session.alloc
  /\ blk' = [blk EXCEPT ![Active] = Meta(Append(Entries(Active), v))]
  /\ session' = [session EXCEPT !.pc = "new", !.v = v, !.at = session.alloc - 1]
  /\ UNCHANGED <<size, tool, ret>>

(* new_block with room in the active meta block: the entry is counted, and *)
(* nothing is in the new block yet.                                        *)
AppendEntry(v) ==
  /\ NewBlock(v) /\ Counter < MaxPerSeg /\ Here < session.alloc
  /\ blk' = [blk EXCEPT ![Active] = Meta(Append(Entries(Active), v))]
  /\ session' = [session EXCEPT !.pc = "new", !.v = v, !.at = Here]
  /\ UNCHANGED <<size, tool, ret>>

(* new_block with a full meta block: new_meta takes the next block and     *)
(* clears its counter, ...                                                 *)
NewMeta(v) ==
  /\ NewBlock(v) /\ Counter = MaxPerSeg /\ Here < session.alloc
  /\ blk' = [blk EXCEPT ![Here] = Meta(<<>>)]
  /\ session' = [session EXCEPT !.pc = "entry", !.v = v]
  /\ UNCHANGED <<size, tool, ret>>

(* ... the entry for the data block behind it is written and counted, ...  *)
WriteEntry ==
  /\ session.pc = "entry" /\ Here + 1 < session.alloc
  /\ blk' = [blk EXCEPT ![Here] = Meta(<<session.v>>)]
  /\ session' = [session EXCEPT !.pc = "switch", !.at = Here + 1]
  /\ UNCHANGED <<size, tool, ret>>

\* Fault: the super is not told of the new meta block.
SwitchMeta_uncounted ==
  /\ session.pc = "switch"
  /\ session' = [session EXCEPT !.pc = "new"]
  /\ UNCHANGED <<size, blk, tool, ret>>

(* ... and only then does the super count the new meta block.              *)
SwitchMeta ==
  /\ session.pc = "switch"
  /\ blk' = [blk EXCEPT ![session.my].num = @ + 1]
  /\ session' = [session EXCEPT !.pc = "new"]
  /\ UNCHANGED <<size, tool, ret>>

(* uf_monitor maps the new block where no layer has one.                   *)
MonitorMap ==
  /\ session.pc = "new" /\ ~ReadOnly(session.v)
  /\ session' = [session EXCEPT !.table[session.v] = session.at,
                                !.pc = "on", !.v = NoBlock, !.at = Unmapped]
  /\ UNCHANGED <<size, blk, tool, ret>>

(* insert_ht notes the block and the entry to keep its bitmap in: an entry *)
(* of the first meta block, because the number of the meta block, computed *)
(* with the operators in the wrong order and truncated to int, is 0 for    *)
(* blocks of 64 KB and more.                                               *)
InsertHt ==
  /\ session.pc = "new" /\ ReadOnly(session.v)
  /\ session' = [session EXCEPT !.pc = "copy",
       !.ht = @ \cup {[v |-> session.v, at |-> session.at, ent |-> Counter]}]
  /\ UNCHANGED <<size, blk, tool, ret>>

(* A store to another unit of a block copied in part.  A block that is     *)
(* recent in its bucket leaves the hash table and is copied whole, of      *)
(* another one the unit is copied (search_ht).                             *)
FaultAgain(v, recent) ==
  /\ session.pc = "on" /\ v \in session.part
  /\ session' = [session EXCEPT !.v = v, !.at = session.table[v],
       !.pc = IF recent THEN "whole" ELSE "copy",
       !.ht = IF recent THEN {e \in @ : e.v # v} ELSE @]
  /\ UNCHANGED <<size, blk, tool, ret>>

(* memcpy of a unit, which may be the last one, or of all of them, ...     *)
CopyBlock(w) ==
  /\ \/ session.pc = "copy" /\ (w => session.v \in session.part)
     \/ session.pc = "whole" /\ w
  /\ blk' = [blk EXCEPT ![session.at] = Data(View(session.v), w)]
  /\ session' = [session EXCEPT !.pc = "remap"]
  /\ UNCHANGED <<size, tool, ret>>

(* ... and mremap of what was copied over the layer below.                 *)
Remap ==
  /\ session.pc = "remap"
  /\ session' = [session EXCEPT !.pc = "store", !.table[session.v] = session.at,
       !.part = IF blk[session.at].whole THEN @ \ {session.v} ELSE @ \cup {session.v}]
  /\ UNCHANGED <<size, blk, tool, ret>>

(* fmunmap calls final_cow, ...                                            *)
Fmunmap ==
  /\ session.pc = "on"
  /\ session' = [session EXCEPT !.pc = "final"]
  /\ UNCHANGED <<size, blk, tool, ret>>

(* ... which completes the blocks of the hash table one by one ...         *)
FinalCopy(v) ==
  /\ session.pc = "final"
  /\ \E e \in session.ht :
       /\ e.v = v
       /\ blk' = [blk EXCEPT ![e.at].whole = TRUE]
  /\ session' = [session EXCEPT !.pc = "finalEntry", !.v = v]
  /\ UNCHANGED <<size, tool, ret>>

(* ... and sets every bit of the address in the entry noted for each.      *)
FinalEntry ==
  /\ session.pc = "finalEntry"
  /\ \E e \in session.ht :
       /\ e.v = session.v
       /\ blk' = [blk EXCEPT ![MetaPos(session.my, 0)].entries[e.ent] = AllOnes]
       /\ session' = [session EXCEPT !.pc = "final", !.v = NoBlock, !.ht = @ \ {e}, !.part = @ \ {e.v}]
  /\ UNCHANGED <<size, tool, ret>>

(* Then the guest's memory is unmapped and the threads are cancelled.      *)
Unmap ==
  /\ session.pc = "final" /\ session.ht = {}
  /\ session' = Off
  /\ UNCHANGED <<size, blk, tool, ret>>

(* The program that uses the file dies at any moment, or exits.            *)
Crash ==
  /\ ~Free
  /\ tool' = Idle /\ session' = Off /\ ret' = "none"
  /\ UNCHANGED <<size, blk>>

-----------------------------------------------------------------------------
PcowImg ==
  \/ \E b \in Bases : NewImage(b) \/ NewImageFails(b) \/ UpdateBase(b)
  \/ Snapshot \/ WriteSuper \/ WriteMeta \/ WriteBase
  \/ \E n \in 0..(MaxFile \div 2 + 1) : Rollback(n)

Guest ==
  \/ \E v \in VBlocks, x \in Values : WriteInPlace(v, x)
  \/ \E v \in VBlocks : AppendEntry(v) \/ NewMeta(v)
  \/ WriteEntry \/ SwitchMeta \/ MonitorMap \/ InsertHt
  \/ \E v \in VBlocks, recent \in BOOLEAN : FaultAgain(v, recent)
  \/ \E w \in BOOLEAN : CopyBlock(w)
  \/ Remap

FinalCow == FinalEntry \/ \E v \in VBlocks : FinalCopy(v)

Next == PcowImg \/ Fmmap \/ DoBaseFmmap \/ PreAllocate \/ Guest \/ Fmunmap \/ FinalCow \/ Unmap \/ Crash

Spec == Init /\ [][Next]_vars

-----------------------------------------------------------------------------
(* Behind the last block in use there is nothing but zeros, except for a   *)
(* meta block that a crash kept from being counted: so no stale super is   *)
(* ever taken for a layer, and no stale counter for a new meta block's     *)
(* (read_next_super, new_super).                                           *)
TailClean ==
  LET e == IF IsSuper(0) THEN End(Last) ELSE 0
  IN \A p \in Positions : p >= e => blk[p] = Zero \/ (p = e /\ blk[p].kind = "meta")

(* While the guest runs, every block it sees is the one that the next walk *)
(* along the file finds, through every switch of meta blocks; only the     *)
(* block new_block has counted last is ahead in the file until it is       *)
(* mapped.  So a crash shows another disk in that block and in the ones    *)
(* copied in part, and nowhere else.                                       *)
Closing == session.pc \in {"final", "finalEntry"}
Counted == IF session.pc \in {"new", "copy", "remap"} THEN {session.v} ELSE {}
TableMatchesFile ==
  session.pc # "off" /\ ~Closing =>
    LET file == Mapping(Len(Supers))
    IN \A v \in VBlocks : file[v] = IF v \in Counted THEN session.at ELSE session.table[v]

(* The image implements Store: writes, snapshots, rollbacks, crashes and   *)
(* the unmapping change the disk and its snapshots as promised there.      *)
Formats == IsSuper(0)
Disk ==
  CASE ~Formats -> Content(0)
    [] Formats /\ session.pc = "off" -> Content(Len(Supers))
    [] Formats /\ Closing ->
         LET file == Content(Len(Supers))
         IN [v \in VBlocks |-> IF \E e \in session.ht : e.v = v THEN View(v) ELSE file[v]]
    [] Formats /\ session.pc # "off" /\ ~Closing -> [v \in VBlocks |-> View(v)]
store == INSTANCE Store WITH
  exists <- Formats,
  disk <- Disk,
  frozen <- [i \in 1..(Len(Supers) - 1) |-> Content(i)],
  base <- IF Formats THEN blk[0].base ELSE NoBase,
  fresh <- IF session.pc = "off" THEN {}
           ELSE {e.v : e \in session.ht} \cup session.part \cup Counted,
  closing <- Closing
ImplementsStore == store!Spec

(* rollback_snapshot(n) gives the disk the content it had when layer n was *)
(* its last one, whatever was written and allocated ahead since then.      *)
RollbackRestores ==
  [][\A n \in DOMAIN Supers : Rollback(n) => Content(Len(Supers))' = Content(n)]_vars
=============================================================================
