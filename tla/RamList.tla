------------------------------ MODULE RamList -------------------------------
(***************************************************************************)
(* ram_list of exec.c: the RCU list of RAM blocks with its cache of the    *)
(* block used last, the space of RAM addresses, and the dirty bitmaps over *)
(* that space.  Blocks are added, resized and freed by the holder of the   *)
(* iothread lock ("main"); other threads look blocks up, mark pages dirty  *)
(* and take dirty marks away, inside RCU critical sections.  Lengths and   *)
(* addresses are in pages, so HOST_PAGE_ALIGN has been applied.            *)
(***************************************************************************)
EXTENDS Naturals, Sequences, FiniteSets

CONSTANTS
  MaxBlocks,        \* bound: blocks are numbered 1..MaxBlocks, 0 is NULL
  Kinds,            \* the blocks there may be: used_length, max_length, RAM_RESIZEABLE
  RAM_ADDR_MAX,     \* end of the space of RAM addresses
  BITS_PER_LONG,    \* pages in a word of a bitmap
  DIRTY_MEMORY_BLOCK_SIZE, \* pages in a bitmap
  DirtyClients,     \* DIRTY_MEMORY_VGA, ...
  Threads,          \* threads other than main
  MaxOps,           \* bound: lookups, stores and reads of dirty pages
  MaxChanges        \* bound: blocks resized or freed

\* What the code takes for granted of these: a block has some pages and fits the
\* space of RAM addresses, and a bitmap consists of whole words.
RamParameters ==
  /\ MaxBlocks \in Nat /\ RAM_ADDR_MAX \in Nat
  /\ BITS_PER_LONG \in Nat \ {0} /\ DIRTY_MEMORY_BLOCK_SIZE \in Nat \ {0}
  /\ DIRTY_MEMORY_BLOCK_SIZE % BITS_PER_LONG = 0
  /\ Kinds \subseteq Nat \X Nat \X BOOLEAN
  /\ \A kind \in Kinds : kind[1] <= kind[2] /\ 0 < kind[2] /\ kind[2] <= RAM_ADDR_MAX
ASSUME RamAssumption == RamParameters

VARIABLES
  rblock,   \* struct RAMBlock: offset, max_length, used_length, flags, and in which state
  succ,     \* succ[b] is the successor of b; succ[0] the head of the list
  mru_block, \* ram_list.mru_block
  dirty,    \* ram_list.dirty_memory: per client, the number of its array
  arrays,   \* every array of bitmaps so far, with the numbers of its bitmaps
  bitmaps,  \* every bitmap so far, with the pages marked in it
  main,     \* what the holder of the iothread lock does
  thr,      \* what the other threads do
  grace,    \* callbacks of call_rcu, with the threads each waits for
  freed,    \* what has been reclaimed
  ops,      \* operations that threads have begun
  changes,  \* blocks that main has resized or freed
  owed      \* per client, the pages marked and not taken since

ramVars == <<rblock, succ, mru_block, dirty, arrays, bitmaps, main, thr, grace, freed, owed, ops, changes>>

RamBlocks == 1..MaxBlocks
Block(b) == <<"block", b>>
Array(g) == <<"array", g>>
Listed == {b \in RamBlocks : rblock[b].state = "listed"}

\* RAMBLOCK_FOREACH goes over the blocks s: each is the successor of the one
\* before it, the first that of the head, and the last has none.
At(s, i) == IF i = 0 THEN 0 ELSE s[i]
IsWalk(s) == succ[At(s, Len(s))] = 0 /\ \A i \in 1..Len(s) : s[i] = succ[At(s, i - 1)]
Order == CHOOSE s \in UNION {[1..n -> RamBlocks] : n \in 0..MaxBlocks} : IsWalk(s)

Min2(a, b) == IF a < b THEN a ELSE b
Max2(a, b) == IF a > b THEN a ELSE b
RoundUp(n, k) == ((n + k - 1) \div k) * k
End(b) == rblock[b].offset + rblock[b].max_length
Pages(b, length) == rblock[b].offset..(rblock[b].offset + length - 1)
Covers(b, addr) == addr \in Pages(b, rblock[b].max_length)

\* A thread: its place, its block, the pages it goes over, through which array
\* of which client.
ThrIdle == [at |-> "idle", cur |-> 0, addr |-> 0, upto |-> 0, arr |-> <<>>, client |-> {}]

MainIdle == [at |-> "idle", b |-> 0, old |-> 0, new |-> 0, todo |-> {}]

RamInit ==
  /\ rblock = [b \in RamBlocks |->
                 [offset |-> 0, max_length |-> 0, used_length |-> 0, resizeable |-> FALSE, state |-> "unused"]]
  /\ succ = [b \in 0..MaxBlocks |-> 0]
  /\ mru_block = 0
  /\ dirty = [c \in DirtyClients |-> 0]
  /\ arrays = <<>> /\ bitmaps = <<>>
  /\ main = MainIdle
  /\ thr = [t \in Threads |-> ThrIdle]
  /\ grace = {} /\ freed = {}
  /\ owed = [c \in DirtyClients |-> {}]
  /\ ops = 0 /\ changes = 0

-----------------------------------------------------------------------------
(* Space of RAM addresses and dirty bitmaps                                *)

last_ram_page ==
  LET ends == {0} \cup {End(b) : b \in Listed}
  IN CHOOSE last \in ends : \A e \in ends : e <= last

\* Fault: blocks need not start at a word of the bitmaps, and a gap is
\* measured from the end of the block.
find_ram_offset_unaligned(size) ==
  LET ends == {0} \cup {End(b) : b \in Listed}
      fits == {e \in ends : \A b \in Listed : rblock[b].offset >= e => rblock[b].offset - e >= size - 1}
  IN IF Order = <<>> THEN 0 ELSE CHOOSE e \in fits : \A f \in fits : e <= f

\* Where a block of the given size goes: into the smallest gap behind a block
\* that holds it, the first such gap in the order of the list; RAM_ADDR_MAX
\* when there is none.
find_ram_offset(size) ==
  LET candidate(b) == RoundUp(End(b), BITS_PER_LONG)
      following(b) == {RAM_ADDR_MAX} \cup {rblock[n].offset : n \in {m \in Listed : rblock[m].offset >= candidate(b)}}
      gap(b) == (CHOOSE n \in following(b) : \A m \in following(b) : n <= m) - candidate(b)
      fits == {i \in 1..Len(Order) : gap(Order[i]) >= size}
      best == {i \in fits : \A j \in fits : IF i <= j THEN gap(Order[i]) <= gap(Order[j])
                                                        ELSE gap(Order[i]) < gap(Order[j])}
  IN IF Order = <<>> THEN 0
     ELSE IF fits = {} THEN RAM_ADDR_MAX
     ELSE candidate(Order[CHOOSE i \in best : TRUE])

BitmapCount(pages) == (pages + DIRTY_MEMORY_BLOCK_SIZE - 1) \div DIRTY_MEMORY_BLOCK_SIZE

\* Whether the array a thread has loaded reaches a page, and the bitmap then.
Reaches(g, page) == g # 0 /\ page \div DIRTY_MEMORY_BLOCK_SIZE < Len(arrays[g])
BitmapOf(g, page) == arrays[g][page \div DIRTY_MEMORY_BLOCK_SIZE + 1]
Marked(c) ==
  {p \in 0..(RAM_ADDR_MAX - 1) : Reaches(dirty[c], p) /\ p \in bitmaps[BitmapOf(dirty[c], p)]}

\* bitmap_set_atomic and bitmap_test_and_clear_atomic, through the arrays a thread has loaded.
WithMarks(arr, pages) ==
  [m \in DOMAIN bitmaps |-> bitmaps[m] \cup
     {p \in pages : \E c \in DirtyClients : Reaches(arr[c], p) /\ BitmapOf(arr[c], p) = m}]
WithoutMarks(arr, clients, pages) ==
  [m \in DOMAIN bitmaps |-> bitmaps[m] \
     {p \in pages : \E c \in clients : Reaches(arr[c], p) /\ BitmapOf(arr[c], p) = m}]

Reading == {t \in Threads : thr[t].at # "idle"}

\* The callback runs as soon as the threads have left that are in a critical
\* section now.  It only frees, so a later one could do no more harm.
call_rcu(what) ==
  IF Reading = {}
  THEN freed' = freed \cup what /\ UNCHANGED grace
  ELSE grace' = grace \cup {[what |-> w, wait |-> Reading] : w \in what} /\ UNCHANGED freed

-----------------------------------------------------------------------------
(* Main: qemu_ram_alloc*, qemu_ram_resize, qemu_ram_free                   *)

MainAt(where) == main.at = where
MainGoes(where) == main' = [main EXCEPT !.at = where]

(* qemu_ram_alloc_internal, up to the call of last_ram_page.               *)
RamAlloc(b, kind) ==
  /\ MainAt("idle") /\ rblock[b].state = "unused" /\ \A a \in 1..(b - 1) : rblock[a].state # "unused"
  /\ rblock' = [rblock EXCEPT ![b] = [offset |-> 0, used_length |-> kind[1], max_length |-> kind[2],
                                      resizeable |-> kind[3], state |-> "new"]]
  /\ main' = [main EXCEPT !.at = "offset", !.b = b, !.old = last_ram_page]
  /\ UNCHANGED <<succ, mru_block, dirty, arrays, bitmaps, thr, grace, freed, owed, ops, changes>>

(* ram_block_add takes an offset, or finds no gap and aborts; without      *)
(* memory from phys_mem_alloc the block is freed before it is listed.      *)
RamOffset ==
  LET b == main.b
      offset == find_ram_offset(rblock[b].max_length)
      new == Max2(main.old, offset + rblock[b].max_length)
  IN /\ MainAt("offset")
     /\ \/ /\ offset = RAM_ADDR_MAX
           /\ MainGoes("aborted") /\ UNCHANGED rblock
        \/ /\ offset < RAM_ADDR_MAX
           /\ main' = MainIdle /\ rblock' = [rblock EXCEPT ![b].state = "failed"]
        \/ /\ offset < RAM_ADDR_MAX
           /\ rblock' = [rblock EXCEPT ![b].offset = offset]
           /\ main' = [main EXCEPT !.at = "extend", !.new = new,
                                   !.todo = IF BitmapCount(new) > BitmapCount(main.old) THEN DirtyClients ELSE {}]
     /\ UNCHANGED <<succ, mru_block, dirty, arrays, bitmaps, thr, grace, freed, owed, ops, changes>>

\* Fault: the bitmaps are copied, not only the pointers to them.
ExtendDirty_deep(c) ==
  LET old == BitmapCount(main.old)
      kept == IF dirty[c] = 0 THEN <<>> ELSE SubSeq(arrays[dirty[c]], 1, old)
      all == Len(bitmaps)
      fresh == [i \in 1..(BitmapCount(main.new) - old) |-> {}]
  IN /\ MainAt("extend") /\ c \in main.todo
     /\ bitmaps' = bitmaps \o [i \in DOMAIN kept |-> bitmaps[kept[i]]] \o fresh
     /\ arrays' = Append(arrays, [i \in 1..BitmapCount(main.new) |-> all + i])
     /\ dirty' = [dirty EXCEPT ![c] = Len(arrays')]
     /\ call_rcu({Array(g) : g \in {dirty[c]} \ {0}})
     /\ main' = [main EXCEPT !.todo = @ \ {c}]
     /\ UNCHANGED <<rblock, succ, mru_block, thr, owed, ops, changes>>

(* One round of dirty_memory_extend: the old bitmaps, and new ones behind  *)
(* them, in a new array; the old array is freed after a grace period.      *)
ExtendDirty(c) ==
  LET old == BitmapCount(main.old)
      kept == IF dirty[c] = 0 THEN <<>> ELSE SubSeq(arrays[dirty[c]], 1, old)
      fresh == [i \in 1..(BitmapCount(main.new) - old) |-> Len(bitmaps) + i]
  IN /\ MainAt("extend") /\ c \in main.todo
     /\ bitmaps' = bitmaps \o [i \in DOMAIN fresh |-> {}]
     /\ arrays' = Append(arrays, kept \o fresh)
     /\ dirty' = [dirty EXCEPT ![c] = Len(arrays')]
     /\ call_rcu({Array(g) : g \in {dirty[c]} \ {0}})
     /\ main' = [main EXCEPT !.todo = @ \ {c}]
     /\ UNCHANGED <<rblock, succ, mru_block, thr, owed, ops, changes>>

(* The new block goes before the first smaller one: one store publishes it.*)
RamInsert ==
  LET b == main.b
      smaller(i) == rblock[Order[i]].max_length < rblock[b].max_length
      first == CHOOSE i \in 1..(Len(Order) + 1) :
                 (i <= Len(Order) => smaller(i)) /\ \A j \in 1..(i - 1) : ~smaller(j)
      prev == At(Order, first - 1)
  IN /\ MainAt("extend") /\ main.todo = {}
     /\ succ' = [succ EXCEPT ![b] = succ[prev], ![prev] = b]
     /\ rblock' = [rblock EXCEPT ![b].state = "listed"]
     /\ MainGoes("added")
     /\ UNCHANGED <<mru_block, dirty, arrays, bitmaps, thr, grace, freed, owed, ops, changes>>

RamForget ==
  /\ MainAt("added")
  /\ mru_block' = 0
  /\ MainGoes("mark")
  /\ UNCHANGED <<rblock, succ, dirty, arrays, bitmaps, thr, grace, freed, owed, ops, changes>>

(* cpu_physical_memory_set_dirty_range at the end of ram_block_add and of  *)
(* qemu_ram_resize.                                                        *)
RamMarkUsed ==
  LET pages == Pages(main.b, rblock[main.b].used_length)
  IN /\ main.at \in {"mark", "resized"}
     /\ bitmaps' = WithMarks(dirty, pages)
     /\ owed' = [c \in DirtyClients |-> owed[c] \cup pages]
     /\ main' = MainIdle
     /\ UNCHANGED <<rblock, succ, mru_block, dirty, arrays, thr, grace, freed, ops, changes>>

BeginChange == MainAt("idle") /\ changes < MaxChanges /\ changes' = changes + 1

(* qemu_ram_resize, up to its call of set_dirty_range; other sizes and     *)
(* blocks are refused.                                                     *)
RamResize(b, newsize) ==
  /\ BeginChange /\ b \in Listed
  /\ newsize # rblock[b].used_length /\ rblock[b].resizeable
  /\ bitmaps' = WithoutMarks(dirty, DirtyClients, Pages(b, rblock[b].used_length))
  /\ owed' = [c \in DirtyClients |-> owed[c] \ (Pages(b, rblock[b].used_length) \ Pages(b, newsize))]
  /\ rblock' = [rblock EXCEPT ![b].used_length = newsize]
  /\ main' = [main EXCEPT !.at = "resized", !.b = b]
  /\ UNCHANGED <<succ, mru_block, dirty, arrays, thr, grace, freed, ops>>

\* A thread works on an address of a region that it, or the view it is in, has
\* a reference to: that block is not freed before it leaves its critical section.
Held == {b \in Listed : \E t \in Threads : thr[t].at # "idle" /\ Covers(b, thr[t].addr)}

(* qemu_ram_free: the block is unlinked, then forgotten, then reclaimed.   *)
(* QLIST_REMOVE_RCU leaves its successor for the threads that are at it.   *)
RamFree(b) ==
  LET prev == CHOOSE p \in {0} \cup Listed : succ[p] = b
  IN /\ BeginChange /\ b \in Listed \ Held
     /\ succ' = [succ EXCEPT ![prev] = succ[b]]
     /\ rblock' = [rblock EXCEPT ![b].state = "removed"]
     /\ owed' = [c \in DirtyClients |-> owed[c] \ Pages(b, rblock[b].max_length)]
     /\ main' = [main EXCEPT !.at = "removed", !.b = b]
     /\ UNCHANGED <<mru_block, dirty, arrays, bitmaps, thr, grace, freed, ops>>

\* mru_block becomes b.
Forget(b) ==
  /\ MainAt("removed")
  /\ mru_block' = b
  /\ MainGoes("reclaim")
  /\ UNCHANGED <<rblock, succ, dirty, arrays, bitmaps, thr, grace, freed, owed, ops, changes>>

\* Fault: a block used last is not forgotten.
RamFreeForget_not == Forget(mru_block)

RamFreeForget == Forget(0)

RamReclaimLater ==
  /\ MainAt("reclaim")
  /\ call_rcu({Block(main.b)})
  /\ main' = MainIdle
  /\ UNCHANGED <<rblock, succ, mru_block, dirty, arrays, bitmaps, thr, owed, ops, changes>>

-----------------------------------------------------------------------------
(* Other threads                                                           *)

ThrAt(t, where) == thr[t].at = where
Goes(t, where) == thr' = [thr EXCEPT ![t].at = where]
RcuUnlock(t) ==
  /\ grace' = {[k EXCEPT !.wait = @ \ {t}] : k \in {h \in grace : h.wait # {t}}}
  /\ freed' = freed \cup {k.what : k \in {h \in grace : h.wait = {t}}}
  /\ thr' = [thr EXCEPT ![t] = ThrIdle]

BeginOp(t) == ThrAt(t, "idle") /\ ops < MaxOps /\ ops' = ops + 1

(* qemu_get_ram_block(addr): mru_block is loaded.                          *)
RamLookup(t, addr) ==
  /\ BeginOp(t)
  /\ thr' = [thr EXCEPT ![t] = [@ EXCEPT !.at = IF mru_block = 0 THEN "head" ELSE "mru", !.cur = mru_block, !.addr = addr]]
  /\ UNCHANGED <<rblock, succ, mru_block, dirty, arrays, bitmaps, main, grace, freed, owed, changes>>

TestMru(t) ==
  /\ ThrAt(t, "mru")
  /\ Goes(t, IF Covers(thr[t].cur, thr[t].addr) THEN "use" ELSE "head")
  /\ UNCHANGED <<rblock, succ, mru_block, dirty, arrays, bitmaps, main, grace, freed, owed, ops, changes>>

(* RAMBLOCK_FOREACH from the head of the list; "Bad ram offset" at its end.*)
WalkHead(t) ==
  /\ ThrAt(t, "head")
  /\ thr' = [thr EXCEPT ![t].at = IF succ[0] = 0 THEN "badoffset" ELSE "walk", ![t].cur = succ[0]]
  /\ UNCHANGED <<rblock, succ, mru_block, dirty, arrays, bitmaps, main, grace, freed, owed, ops, changes>>

Walk(t) ==
  LET b == thr[t].cur
  IN /\ ThrAt(t, "walk")
     /\ IF Covers(b, thr[t].addr) THEN Goes(t, "found")
        ELSE thr' = [thr EXCEPT ![t].at = IF succ[b] = 0 THEN "badoffset" ELSE "walk", ![t].cur = succ[b]]
     /\ UNCHANGED <<rblock, succ, mru_block, dirty, arrays, bitmaps, main, grace, freed, owed, ops, changes>>

(* qemu_get_ram_block writes mru_block; qemu_ram_block_from_host does not. *)
Found(t) ==
  /\ ThrAt(t, "found")
  /\ mru_block' \in {mru_block, thr[t].cur}
  /\ Goes(t, "use")
  /\ UNCHANGED <<rblock, succ, dirty, arrays, bitmaps, main, grace, freed, owed, ops, changes>>

(* The caller uses the block and leaves its critical section.              *)
UseBlock(t) ==
  /\ ThrAt(t, "use")
  /\ RcuUnlock(t)
  /\ UNCHANGED <<rblock, succ, mru_block, dirty, arrays, bitmaps, main, owed, ops, changes>>

\* A region is in use from the time ram_block_add has returned.
Mapped(b) == b \in Listed /\ ~(main.b = b /\ main.at \in {"added", "mark"})

(* A store to a page of a region: invalidate_and_set_dirty loads the array *)
(* of every client, then marks the page.                                   *)
Store(t, b, page) ==
  /\ BeginOp(t) /\ Mapped(b)
  /\ thr' = [thr EXCEPT ![t] = [@ EXCEPT !.at = "load", !.cur = b, !.addr = rblock[b].offset + page]]
  /\ UNCHANGED <<rblock, succ, mru_block, dirty, arrays, bitmaps, main, grace, freed, owed, changes>>

LoadArrays(t) ==
  /\ thr[t].at \in {"load", "loadClear"}
  /\ thr' = [thr EXCEPT ![t].at = IF @ = "load" THEN "set" ELSE "clear", ![t].arr = dirty]
  /\ UNCHANGED <<rblock, succ, mru_block, dirty, arrays, bitmaps, main, grace, freed, owed, ops, changes>>

MarkPage(t) ==
  /\ ThrAt(t, "set")
  /\ bitmaps' = WithMarks(thr[t].arr, {thr[t].addr})
  /\ owed' = [c \in DirtyClients |-> owed[c] \cup {thr[t].addr}]
  /\ RcuUnlock(t)
  /\ UNCHANGED <<rblock, succ, mru_block, dirty, arrays, main, ops, changes>>

(* cpu_physical_memory_test_and_clear_dirty of part of a block, or         *)
(* cpu_physical_memory_snapshot_and_clear_dirty, which takes whole words.  *)
TestAndClear(t, b, start, length, client, align) ==
  /\ BeginOp(t) /\ Mapped(b)
  /\ start + length <= rblock[b].used_length
  /\ thr' = [thr EXCEPT ![t] = [@ EXCEPT !.at = "loadClear", !.cur = b, !.client = {client},
                                 !.addr = ((rblock[b].offset + start) \div align) * align,
                                 !.upto = RoundUp(rblock[b].offset + start + length, align)]]
  /\ UNCHANGED <<rblock, succ, mru_block, dirty, arrays, bitmaps, main, grace, freed, owed, changes>>

(* A round of their loop: the pages within one bitmap.                     *)
ClearPages(t) ==
  LET num == Min2(thr[t].upto - thr[t].addr,
                  DIRTY_MEMORY_BLOCK_SIZE - (thr[t].addr % DIRTY_MEMORY_BLOCK_SIZE))
      pages == thr[t].addr..(thr[t].addr + num - 1)
  IN /\ ThrAt(t, "clear")
     /\ bitmaps' = WithoutMarks(thr[t].arr, thr[t].client, pages)
     /\ owed' = [c \in DirtyClients |-> IF c \in thr[t].client THEN owed[c] \ pages ELSE owed[c]]
     /\ IF thr[t].addr + num = thr[t].upto
        THEN RcuUnlock(t)
        ELSE thr' = [thr EXCEPT ![t].addr = @ + num] /\ UNCHANGED <<grace, freed>>
     /\ UNCHANGED <<rblock, succ, mru_block, dirty, arrays, main, ops, changes>>

-----------------------------------------------------------------------------
MainSteps ==
  \/ \E b \in RamBlocks, kind \in Kinds : RamAlloc(b, kind)
  \/ RamOffset
  \/ \E c \in DirtyClients : ExtendDirty(c)
  \/ RamInsert
  \/ RamForget
  \/ RamMarkUsed
  \/ \E b \in Listed : \E newsize \in 1..rblock[b].max_length : RamResize(b, newsize)
  \/ \E b \in Listed : RamFree(b)
  \/ RamFreeForget
  \/ RamReclaimLater

ThreadSteps(t) ==
  \/ \E b \in Listed : \E addr \in {rblock[b].offset, End(b) - 1} : RamLookup(t, addr)
  \/ TestMru(t)
  \/ WalkHead(t)
  \/ Walk(t)
  \/ Found(t)
  \/ UseBlock(t)
  \/ \E b \in Listed : \E page \in 0..(rblock[b].used_length - 1) : Store(t, b, page)
  \/ LoadArrays(t)
  \/ MarkPage(t)
  \/ \E b \in Listed, c \in DirtyClients, align \in {1, BITS_PER_LONG} :
       \E start \in 0..(rblock[b].used_length - 1) : TestAndClear(t, b, start, rblock[b].used_length - start, c, align)
  \/ ClearPages(t)

\* abort() ends the process.
Running == main.at # "aborted" /\ \A t \in Threads : thr[t].at # "badoffset"

RamNext ==
  /\ Running
  /\ \/ MainSteps
     \/ \E t \in Threads : ThreadSteps(t)

RamSpec == RamInit /\ [][RamNext]_ramVars

-----------------------------------------------------------------------------
(* The blocks of the list do not overlap, each starts at a word of the     *)
(* bitmaps, so that a snapshot of one takes no marks of another, and the   *)
(* arrays of every client reach all their pages, whatever blocks have come *)
(* and gone.                                                               *)
BlocksApart ==
  \A b \in Listed :
    /\ rblock[b].offset % BITS_PER_LONG = 0 /\ End(b) <= RAM_ADDR_MAX
    /\ \A a \in Listed \ {b} : End(a) <= rblock[b].offset \/ End(b) <= rblock[a].offset
    /\ \A c \in DirtyClients : Reaches(dirty[c], End(b) - 1)

(* A mark set through an array that dirty_memory_extend has replaced since *)
(* is not lost: what clients have been told of pages of listed blocks is   *)
(* there until they take it, but for a resize that is about to mark all.   *)
DirtyKept ==
  \A b \in Listed, c \in DirtyClients :
    \/ main.at = "resized" /\ main.b = b
    \/ Pages(b, rblock[b].max_length) \cap owed[c] \subseteq Marked(c)

(* The arrays a thread works with have not been freed and reach its pages. *)
ArraysLive ==
  \A t \in Threads : \A c \in DirtyClients :
    thr[t].at \in {"set", "clear"} =>
      Array(thr[t].arr[c]) \notin freed /\ Reaches(thr[t].arr[c], Max2(thr[t].addr, thr[t].upto - 1))

(* The walk of qemu_get_ram_block does not miss the block of an address in *)
(* use, however the list changes around it: no "Bad ram offset".           *)
LookupFinds == \A t \in Threads : thr[t].at # "badoffset"

(* exec.c, qemu_get_ram_block: "It is safe to write mru_block outside the  *)
(* iothread lock": no thread reads a block that was reclaimed, or takes a  *)
(* block for that of its address that is not listed.                       *)
MruSafe ==
  \A t \in Threads :
    /\ thr[t].at \in {"mru", "walk", "found", "use"} => Block(thr[t].cur) \notin freed
    /\ thr[t].at = "use" => thr[t].cur \in Listed

(* A mark set through an array that dirty_memory_extend has replaced is not *)
(* lost, and arrays are freed only when no thread uses them (call_rcu).    *)
DirtySafe == DirtyKept /\ ArraysLive

(* qemu_get_ram_block, which takes no lock, finds the block of an address  *)
(* in use, and reads and gives no block that is gone (mru_block).          *)
LookupSafe == LookupFinds /\ MruSafe
=============================================================================
