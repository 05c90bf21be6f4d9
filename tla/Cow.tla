-------------------------------- MODULE Cow --------------------------------
(***************************************************************************)
(* Guest memory on a mounted pcow image: the SIGSEGV handler that copies   *)
(* blocks of the read-only layers on write (cow_handler of pcow.c, cow.c   *)
(* with FINEGRAINED_COW), the userfaultfd monitor that allocates blocks of *)
(* no layer (uf_monitor), and final_cow at fmunmap.                        *)
(*                                                                         *)
(* A block consists of units of COW_UNIT bytes.  The first write to a unit *)
(* copies the unit alone into a new block; a later write to another unit   *)
(* of a block that is still near the head of its hash bucket copies the    *)
(* whole block.  The content of a unit is the version last stored to it.   *)
(* new_block is one step here (PreAlloc has its inside), which appends the *)
(* entry of the new block: entry k of the layer belongs to its block k.    *)
(***************************************************************************)
EXTENDS Integers, Sequences, FiniteSets, FiniteSetsExt, Functions

CONSTANTS
  Threads,        \* guest threads
  NumBlocks,      \* blocks of the mapping: fmmap_length / block_size
  UnitsPerBlock,  \* block_size / COW_UNIT
  Missing,        \* blocks no layer has: anonymous memory under userfaultfd
  Touches,        \* the blocks each thread stores to
  MaxBlockNum,    \* s->max_block_num
  MaxPerSeg,      \* s->max_per_seg
  BlockSize,      \* s->block_size and the span of an int, to the same scale
  IntSpan,
  MaxThreadNum,   \* MAX_THREAD_NUM: current lists, and locks on blocks
  BucketNum,      \* BUCKET_NUM
  MaxConcurrent,  \* MAX_CONCURRENT
  RankThreshold,  \* RECENT_RANK_THRESHOLD
  MaxStores       \* bound: stores in a behaviour

ASSUME CowAssumption ==
  /\ NumBlocks \in Nat \ {0} /\ UnitsPerBlock \in Nat \ {0}
  /\ Missing \subseteq 0..(NumBlocks - 1)
  /\ Touches \in [Threads -> SUBSET (0..(NumBlocks - 1))]
  /\ {MaxBlockNum, MaxPerSeg, BlockSize, IntSpan, MaxThreadNum, BucketNum,
      MaxConcurrent, RankThreshold} \subseteq Nat \ {0}
  /\ MaxStores \in Nat

VARIABLES
  maps,     \* what each unit of the guest's memory is mapped to
  data,     \* content of the data blocks of the layer
  entries,  \* the entries of the meta blocks: address and CoW bitmap
  last,     \* history: what was last stored to each unit
  lists,    \* cow_l: the current lists, dummy head included
  ht,       \* cow_ht: the buckets of the hash table
  holes,    \* units of map_addr that mremap has moved away, by block
  pc,       \* where each thread is
  tgt,      \* the address each thread stores to
  cow,      \* the Cow_entry each thread works with
  buf,      \* full copy: the unit being copied and what memcpy loaded of it
  dangling, \* threads whose Cow_l_entry another thread has freed
  monitor,  \* the userfaultfd monitor: where it is, the block it serves
  stores,   \* stores begun, up to MaxStores
  process   \* "running", or how it ended

memVars == <<maps, data, entries, last>>
cowVars == <<lists, ht, holes>>
threadVars == <<pc, tgt, cow, buf, dangling>>
vars == <<memVars, cowVars, threadVars, monitor, stores, process>>

Blocks == 0..(NumBlocks - 1)
Units == 0..(UnitsPerBlock - 1)
DataBlocks == 1..MaxBlockNum
Absent == -1                  \* not mapped: userfaultfd reports the access
ReadOnly == 0                 \* mapped read-only to a block of another layer
NoThread == "none"
AllOnes == -1                 \* address field with every bit of ADDR_MASK set
Zero == <<>>                  \* content of a block from fallocate

(* What the read-only layers hold, and what is stored: unit and version.   *)
Original(b, u) == IF b \in Missing THEN Zero ELSE <<b, u, 0>>
Stored(b, u) == <<b, u, IF last[b][u] = Zero THEN 1 ELSE last[b][u][3] + 1>>

(* An address: block, unit, and 0 for the first byte of the unit.  Only in *)
(* the last block do the bytes of a unit differ (see Ignored).             *)
Addresses(t) == {a \in Touches[t] \X Units \X {0, 1} :
                   a[3] = 1 => a[1] = NumBlocks - 1 /\ a[2] = 0}
Voff(a) == 2 * (UnitsPerBlock * a[1] + a[2]) + a[3]

View(b, u) == IF maps[b][u] \in DataBlocks THEN data[maps[b][u]][u] ELSE Original(b, u)

\* Fault: the loop over the entries misses the first.
Remapped_off(b, u) ==
  LET mine == {k \in DOMAIN entries \ {1} : entries[k].addr = b}
  IN IF mine = {} THEN Original(b, u) ELSE data[Max(mine)][u]

(* What the next fmmap maps a unit to: do_writable_fmmap maps the entries  *)
(* in order, each over whatever is there, whatever their bitmaps say.      *)
Remapped(b, u) ==
  LET mine == {k \in DOMAIN entries : entries[k].addr = b}
  IN IF mine = {} THEN Original(b, u) ELSE data[Max(mine)][u]

ListNum(a) == (UnitsPerBlock * a[1] + a[2]) % MaxThreadNum
LockNum(b) == b % MaxThreadNum
BucketOf(b) == b % BucketNum

Copying == {"entry", "copy", "remap", "bits", "read", "write", "remapAll", "clear"}

(* cow_lock is held from insert_list to the end of the handler; l_lock and *)
(* ht_lock all through insert_list, hence while it waits for new_block.    *)
CowLockFree(n) == \A t \in Threads : pc[t] \in Copying \cup {"insert"} => LockNum(tgt[t][1]) # n
ListLockFree(n) == \A t \in Threads : pc[t] = "entry" => ListNum(tgt[t]) # n
HtLockFree(n) == \A t \in Threads : pc[t] = "entry" => BucketOf(tgt[t][1]) # n

(* The range test of in_list and insert_list, from the entry after head.   *)
Covers(node, a) == node.b = a[1] /\ (node.whole \/ node.u = a[2])
InCurrentList(a) == \E i \in 2..Len(lists[ListNum(a)]) : Covers(lists[ListNum(a)][i], a)
-----------------------------------------------------------------------------
(* new_block, as far as the handlers see it: they get the next block.      *)
NewBlock(b) == entries' = Append(entries, [addr |-> b, bits |-> {}])
OutOfRange == Len(entries) + 1 > MaxBlockNum
Exit == process' = "exited"

(* insert_ht finds the meta block and the entry to keep the bitmap in: the *)
(* meta block from active_meta_off by an expression without parentheses,   *)
(* truncated to int; the entry from the counter as it is by then.          *)
EntryFound ==
  LET n == Len(entries)
      metaN == (((n - 1) \div MaxPerSeg) * BlockSize * BlockSize) % IntSpan
  IN metaN * MaxPerSeg + ((n - 1) % MaxPerSeg) + 1

-----------------------------------------------------------------------------
Init ==
  /\ maps = [b \in Blocks |-> [u \in Units |-> IF b \in Missing THEN Absent ELSE ReadOnly]]
  /\ data = [k \in DataBlocks |-> [u \in Units |-> Zero]]
  /\ entries = <<>>
  /\ last = [b \in Blocks |-> [u \in Units |-> Original(b, u)]]
  /\ lists = [n \in 0..(MaxThreadNum - 1) |-> <<[b |-> 0, u |-> 0, whole |-> FALSE, owner |-> NoThread]>>]
  /\ ht = [n \in 0..(BucketNum - 1) |-> <<>>]
  /\ holes = [k \in DataBlocks |-> {}]
  /\ pc = [t \in Threads |-> "idle"]
  /\ tgt = [t \in Threads |-> <<0, 0, 0>>]
  /\ cow = [t \in Threads |-> [b |-> 0, blk |-> 0, ent |-> 0]]
  /\ buf = [t \in Threads |-> <<0, Zero>>]
  /\ dangling = {}
  /\ monitor = [pc |-> "poll", b |-> 0, blk |-> 0]
  /\ stores = 0
  /\ process = "running"

-----------------------------------------------------------------------------
(* The guest.                                                              *)

Goto(t, from, to) == pc[t] = from /\ pc' = [pc EXCEPT ![t] = to]

Begin(t, a) ==
  /\ stores < MaxStores
  /\ Goto(t, "idle", "store")
  /\ tgt' = [tgt EXCEPT ![t] = a]
  /\ stores' = stores + 1
  /\ UNCHANGED <<memVars, cowVars, cow, buf, dangling, monitor, process>>

(* The store instruction, executed again when a handler returns.           *)
Commit(t) ==
  LET b == tgt[t][1]
      u == tgt[t][2]
  IN /\ maps[b][u] \in DataBlocks
     /\ Goto(t, "store", "idle")
     /\ data' = [data EXCEPT ![maps[b][u]][u] = Stored(b, u)]
     /\ last' = [last EXCEPT ![b][u] = Stored(b, u)]
     /\ UNCHANGED <<maps, entries, cowVars, tgt, cow, buf, dangling, monitor, stores, process>>

TouchAbsent(t) ==
  /\ maps[tgt[t][1]][tgt[t][2]] = Absent
  /\ Goto(t, "store", "uffd")
  /\ UNCHANGED <<memVars, cowVars, tgt, cow, buf, dangling, monitor, stores, process>>

-----------------------------------------------------------------------------
(* cow_handler.                                                            *)

Faults(t) == pc[t] = "store" /\ maps[tgt[t][1]][tgt[t][2]] = ReadOnly

(* The handler's range check: si_addr - addr > global_length - block_size. *)
Ignored(a) == Voff(a) > 2 * UnitsPerBlock * (NumBlocks - 1)

(* The handler returns at once, and the store faults again.                *)
Refault(t) ==
  /\ Faults(t) /\ Ignored(tgt[t])
  /\ UNCHANGED vars

Fault(t) ==
  /\ Faults(t) /\ ~Ignored(tgt[t])
  /\ Goto(t, "store", "inList")
  /\ UNCHANGED <<memVars, cowVars, tgt, cow, buf, dangling, monitor, stores, process>>

InList(t) ==
  /\ ListLockFree(ListNum(tgt[t]))
  /\ Goto(t, "inList", IF InCurrentList(tgt[t]) THEN "store" ELSE "lock")
  /\ UNCHANGED <<memVars, cowVars, tgt, cow, buf, dangling, monitor, stores, process>>

\* Fault: cow_lock is not taken.
LockBlock_none(t) ==
  /\ Goto(t, "lock", "insert")
  /\ UNCHANGED <<memVars, cowVars, tgt, cow, buf, dangling, monitor, stores, process>>

LockBlock(t) ==
  /\ CowLockFree(LockNum(tgt[t][1]))
  /\ Goto(t, "lock", "insert")
  /\ UNCHANGED <<memVars, cowVars, tgt, cow, buf, dangling, monitor, stores, process>>

(* The second check, under the lock of the block.                          *)
AlreadyListed(t) ==
  /\ ListLockFree(ListNum(tgt[t])) /\ InCurrentList(tgt[t])
  /\ Goto(t, "insert", "store")
  /\ UNCHANGED <<memVars, cowVars, tgt, cow, buf, dangling, monitor, stores, process>>

\* Fault: one node more than MAX_CONCURRENT allows.
InsertNode_late(t, whole) ==
  LET n == ListNum(tgt[t])
      longer == Append(lists[n], [b |-> tgt[t][1], u |-> tgt[t][2], whole |-> whole, owner |-> t])
      full == Len(longer) - 1 > MaxConcurrent
  IN /\ lists' = [lists EXCEPT ![n] = IF full THEN Tail(longer) ELSE longer]
     /\ dangling' = IF full THEN dangling \cup ({Head(longer).owner} \ {NoThread}) ELSE dangling

(* Append a node to the current list; when the list is too long the dummy  *)
(* head is freed and the first node becomes the dummy, examined no more.   *)
InsertNode(t, whole) ==
  LET n == ListNum(tgt[t])
      longer == Append(lists[n], [b |-> tgt[t][1], u |-> tgt[t][2], whole |-> whole, owner |-> t])
      full == Len(longer) - 1 >= MaxConcurrent
  IN /\ lists' = [lists EXCEPT ![n] = IF full THEN Tail(longer) ELSE longer]
     /\ dangling' = IF full THEN dangling \cup ({Head(longer).owner} \ {NoThread}) ELSE dangling

(* search_ht: the rank of a block in its bucket, counted from 1.           *)
Bucket(t) == ht[BucketOf(tgt[t][1])]

Ranks(t) == {i \in DOMAIN Bucket(t) : Bucket(t)[i].b = tgt[t][1]}

CanInsert(t) ==
  /\ pc[t] = "insert"
  /\ ListLockFree(ListNum(tgt[t])) /\ HtLockFree(BucketOf(tgt[t][1]))
  /\ ~InCurrentList(tgt[t])

(* A bucket without its entry i.                                           *)
Unlink(bucket, i) == SubSeq(bucket, 1, i - 1) \o SubSeq(bucket, i + 1, Len(bucket))

(* The block is known and recent: it is to be copied whole, and its entry  *)
(* leaves the hash table.                                                  *)
InsertListWhole(t) ==
  /\ CanInsert(t) /\ Ranks(t) # {} /\ Min(Ranks(t)) < RankThreshold
  /\ Goto(t, "insert", "read")
  /\ InsertNode(t, TRUE)
  /\ cow' = [cow EXCEPT ![t] = Bucket(t)[Min(Ranks(t))]]
  /\ buf' = [buf EXCEPT ![t] = <<0, Zero>>]
  /\ ht' = [ht EXCEPT ![BucketOf(tgt[t][1])] = Unlink(@, Min(Ranks(t)))]
  /\ UNCHANGED <<memVars, holes, tgt, monitor, stores, process>>

\* Fault: the entry leaves the hash table whatever its rank.
InsertListUnit_delete(t) ==
  /\ CanInsert(t) /\ Ranks(t) # {} /\ Min(Ranks(t)) >= RankThreshold
  /\ Goto(t, "insert", "copy")
  /\ InsertNode(t, FALSE)
  /\ cow' = [cow EXCEPT ![t] = Bucket(t)[Min(Ranks(t))]]
  /\ ht' = [ht EXCEPT ![BucketOf(tgt[t][1])] = Unlink(@, Min(Ranks(t)))]
  /\ UNCHANGED <<memVars, holes, tgt, buf, monitor, stores, process>>

(* The block is known: its unit is to be copied.                           *)
InsertListUnit(t) ==
  /\ CanInsert(t) /\ Ranks(t) # {} /\ Min(Ranks(t)) >= RankThreshold
  /\ Goto(t, "insert", "copy")
  /\ InsertNode(t, FALSE)
  /\ cow' = [cow EXCEPT ![t] = Bucket(t)[Min(Ranks(t))]]
  /\ UNCHANGED <<memVars, ht, holes, tgt, buf, monitor, stores, process>>

(* The block is not known: insert_ht calls new_block ...                   *)
InsertListNew(t) ==
  /\ CanInsert(t) /\ Ranks(t) = {}
  /\ IF OutOfRange
     THEN Exit /\ UNCHANGED <<entries, lists, pc, cow, dangling>>
     ELSE /\ Goto(t, "insert", "entry")
          /\ InsertNode(t, FALSE)
          /\ NewBlock(tgt[t][1])
          /\ cow' = [cow EXCEPT ![t] = [b |-> tgt[t][1], blk |-> Len(entries) + 1, ent |-> 0]]
          /\ UNCHANGED process
  /\ UNCHANGED <<maps, data, last, ht, holes, tgt, buf, monitor, stores>>

\* Fault: the block, too, is looked for when new_block has returned.
InsertHt_block(t) ==
  /\ Goto(t, "entry", "copy")
  /\ cow' = [cow EXCEPT ![t].ent = EntryFound, ![t].blk = Len(entries)]
  /\ ht' = [ht EXCEPT ![BucketOf(tgt[t][1])] = <<cow'[t]>> \o @]
  /\ UNCHANGED <<memVars, lists, holes, tgt, buf, dangling, monitor, stores, process>>

(* ... and then looks for the entry that new_block has made.               *)
InsertHt(t) ==
  /\ Goto(t, "entry", "copy")
  /\ cow' = [cow EXCEPT ![t].ent = EntryFound]
  /\ ht' = [ht EXCEPT ![BucketOf(tgt[t][1])] = <<cow'[t]>> \o @]
  /\ UNCHANGED <<memVars, lists, holes, tgt, buf, dangling, monitor, stores, process>>

(* From here on the handler reads its Cow_l_entry without l_lock.          *)
UsesNode(t, p) == pc[t] = p /\ t \notin dangling
UseFreedNode(t) ==
  /\ pc[t] \in Copying \ {"entry"} /\ t \in dangling
  /\ process' = "corrupt"
  /\ UNCHANGED <<memVars, cowVars, threadVars, monitor, stores>>

(* Copy one unit, through the part of map_addr that mremap then moves.     *)
CopyUnit(t) ==
  /\ UsesNode(t, "copy")
  /\ IF tgt[t][2] \in holes[cow[t].blk]
     THEN process' = "killed" /\ UNCHANGED <<data, pc>>
     ELSE /\ data' = [data EXCEPT ![cow[t].blk][tgt[t][2]] = View(tgt[t][1], tgt[t][2])]
          /\ Goto(t, "copy", "remap")
          /\ UNCHANGED process
  /\ UNCHANGED <<maps, entries, last, cowVars, tgt, cow, buf, dangling, monitor, stores>>

\* Fault: mremap fails and nobody looks at its result.
RemapUnit_lost(t) ==
  /\ UsesNode(t, "remap") /\ Goto(t, "remap", "bits")
  /\ UNCHANGED <<memVars, cowVars, tgt, cow, buf, dangling, monitor, stores, process>>

RemapUnit(t) ==
  /\ UsesNode(t, "remap") /\ Goto(t, "remap", "bits")
  /\ maps' = [maps EXCEPT ![tgt[t][1]][tgt[t][2]] = cow[t].blk]
  /\ holes' = [holes EXCEPT ![cow[t].blk] = @ \cup {tgt[t][2]}]
  /\ UNCHANGED <<data, entries, last, lists, ht, tgt, cow, buf, dangling, monitor, stores, process>>

(* The handler ends: its node stays in the list, but it is done with it.   *)
Release(t) == lists' = [n \in DOMAIN lists |->
                [i \in DOMAIN lists[n] |->
                   IF lists[n][i].owner = t THEN [lists[n][i] EXCEPT !.owner = NoThread] ELSE lists[n][i]]]

SetBit(t) ==
  /\ UsesNode(t, "bits") /\ Goto(t, "bits", "store")
  /\ entries' = [entries EXCEPT ![cow[t].ent].bits = @ \cup {tgt[t][2]}]
  /\ Release(t)
  /\ UNCHANGED <<maps, data, last, ht, holes, tgt, cow, buf, dangling, monitor, stores, process>>

\* Fault: what memcpy loads comes from the layer below.
CopyRead_original(t) ==
  /\ UsesNode(t, "read") /\ Goto(t, "read", "write")
  /\ buf' = [buf EXCEPT ![t] = <<@[1], Original(tgt[t][1], @[1])>>]
  /\ UNCHANGED <<memVars, cowVars, tgt, cow, dangling, monitor, stores, process>>

(* Copy the whole block through map_addr2.  The units copied before are    *)
(* both source and destination.                                            *)
CopyRead(t) ==
  /\ UsesNode(t, "read") /\ Goto(t, "read", "write")
  /\ buf' = [buf EXCEPT ![t] = <<@[1], View(tgt[t][1], @[1])>>]
  /\ UNCHANGED <<memVars, cowVars, tgt, cow, dangling, monitor, stores, process>>

\* Fault: the destination of memcpy stays at the first unit.
CopyWrite_first(t) ==
  /\ UsesNode(t, "write")
  /\ Goto(t, "write", IF buf[t][1] + 1 \in Units THEN "read" ELSE "remapAll")
  /\ data' = [data EXCEPT ![cow[t].blk][0] = buf[t][2]]
  /\ buf' = [buf EXCEPT ![t] = <<@[1] + 1, Zero>>]
  /\ UNCHANGED <<maps, entries, last, cowVars, tgt, cow, dangling, monitor, stores, process>>

CopyWrite(t) ==
  /\ UsesNode(t, "write")
  /\ Goto(t, "write", IF buf[t][1] + 1 \in Units THEN "read" ELSE "remapAll")
  /\ data' = [data EXCEPT ![cow[t].blk][buf[t][1]] = buf[t][2]]
  /\ buf' = [buf EXCEPT ![t] = <<@[1] + 1, Zero>>]
  /\ UNCHANGED <<maps, entries, last, cowVars, tgt, cow, dangling, monitor, stores, process>>

RemapBlock(t) ==
  /\ UsesNode(t, "remapAll") /\ Goto(t, "remapAll", "clear")
  /\ maps' = [maps EXCEPT ![tgt[t][1]] = [u \in Units |-> cow[t].blk]]
  /\ buf' = [buf EXCEPT ![t] = <<0, Zero>>]
  /\ UNCHANGED <<data, entries, last, cowVars, tgt, cow, dangling, monitor, stores, process>>

ClearBits(t) ==
  /\ UsesNode(t, "clear") /\ Goto(t, "clear", "store")
  /\ entries' = [entries EXCEPT ![cow[t].ent].bits = {}]
  /\ Release(t)
  /\ UNCHANGED <<maps, data, last, ht, holes, tgt, cow, buf, dangling, monitor, stores, process>>

-----------------------------------------------------------------------------
(* uf_monitor.                                                             *)

MonitorRead(t) ==
  /\ monitor.pc = "poll" /\ pc[t] = "uffd"
  /\ monitor' = [pc |-> "new", b |-> tgt[t][1], blk |-> 0]
  /\ UNCHANGED <<memVars, cowVars, threadVars, stores, process>>

MonitorNewBlock ==
  /\ monitor.pc = "new"
  /\ IF OutOfRange
     THEN Exit /\ UNCHANGED <<entries, monitor>>
     ELSE /\ NewBlock(monitor.b)
          /\ monitor' = [monitor EXCEPT !.pc = "map", !.blk = Len(entries) + 1]
          /\ UNCHANGED process
  /\ UNCHANGED <<maps, data, last, cowVars, threadVars, stores>>

MonitorMap ==
  /\ monitor.pc = "map"
  /\ maps' = [maps EXCEPT ![monitor.b] = [u \in Units |-> monitor.blk]]
  /\ monitor' = [monitor EXCEPT !.pc = "wake"]
  /\ UNCHANGED <<data, entries, last, cowVars, threadVars, stores, process>>

\* Fault: only the access that was read from the descriptor is woken.
MonitorWake_one ==
  /\ monitor.pc = "wake"
  /\ \E w \in Threads :
       /\ pc[w] = "uffd" /\ tgt[w][1] = monitor.b
       /\ pc' = [pc EXCEPT ![w] = "store"]
  /\ monitor' = [pc |-> "poll", b |-> 0, blk |-> 0]
  /\ UNCHANGED <<memVars, cowVars, tgt, cow, buf, dangling, stores, process>>

(* UFFDIO_WAKE lets every access to the block go on; their events go.      *)
MonitorWake ==
  /\ monitor.pc = "wake"
  /\ pc' = [t \in Threads |-> IF pc[t] = "uffd" /\ tgt[t][1] = monitor.b THEN "store" ELSE pc[t]]
  /\ monitor' = [pc |-> "poll", b |-> 0, blk |-> 0]
  /\ UNCHANGED <<memVars, cowVars, tgt, cow, buf, dangling, stores, process>>

-----------------------------------------------------------------------------
(* fmunmap: final_cow completes the blocks that are still in the hash      *)
(* table, and sets the bits of ADDR_MASK in their entries.                 *)
Uncompleted == UNION {Range(ht[n]) : n \in DOMAIN ht}

Fmunmap ==
  /\ \A t \in Threads : pc[t] = "idle"
  /\ data' = [k \in DataBlocks |->
       IF \E e \in Uncompleted : e.blk = k
       THEN [u \in Units |-> View((CHOOSE e \in Uncompleted : e.blk = k).b, u)]
       ELSE data[k]]
  /\ entries' = [k \in DOMAIN entries |->
       IF \E e \in Uncompleted : e.ent = k THEN [entries[k] EXCEPT !.addr = AllOnes] ELSE entries[k]]
  /\ process' = "unmapped"
  /\ UNCHANGED <<maps, last, cowVars, threadVars, monitor, stores>>

-----------------------------------------------------------------------------
Handler(t) ==
  \/ Fault(t) \/ Refault(t) \/ InList(t) \/ LockBlock(t) \/ AlreadyListed(t)
  \/ InsertListWhole(t) \/ InsertListUnit(t) \/ InsertListNew(t) \/ InsertHt(t)
  \/ CopyUnit(t) \/ RemapUnit(t) \/ SetBit(t)
  \/ CopyRead(t) \/ CopyWrite(t) \/ RemapBlock(t) \/ ClearBits(t)
  \/ UseFreedNode(t)

Guest(t) == process = "running" /\ (Commit(t) \/ TouchAbsent(t) \/ Handler(t))

Monitor ==
  /\ process = "running"
  /\ \/ \E t \in Threads : MonitorRead(t)
     \/ MonitorNewBlock \/ MonitorMap \/ MonitorWake

Ended == process # "running" /\ UNCHANGED vars

Next ==
  \/ \E t \in Threads : Guest(t)
  \/ \E t \in Threads : process = "running" /\ \E a \in Addresses(t) : Begin(t, a)
  \/ Monitor
  \/ process = "running" /\ Fmunmap
  \/ Ended

Spec == Init /\ [][Next]_vars

-----------------------------------------------------------------------------
(* Types; a list is never empty and holds less than MAX_CONCURRENT nodes.  *)
Contents == {Zero} \cup (Blocks \X Units \X (0..MaxStores))
CowEntries == [b : Blocks, blk : 0..MaxBlockNum, ent : 0..MaxBlockNum]

TypeOK ==
  /\ maps \in [Blocks -> [Units -> {Absent, ReadOnly} \cup DataBlocks]]
  /\ data \in [DataBlocks -> [Units -> Contents]]
  /\ Len(entries) <= MaxBlockNum
  /\ \A k \in DOMAIN entries : entries[k] \in [addr : Blocks \cup {AllOnes}, bits : SUBSET Units]
  /\ last \in [Blocks -> [Units -> Contents]]
  /\ \A n \in 0..(MaxThreadNum - 1) :
       /\ Len(lists[n]) \in 1..MaxConcurrent
       /\ \A i \in DOMAIN lists[n] :
            lists[n][i] \in [b : Blocks, u : Units, whole : BOOLEAN, owner : Threads \cup {NoThread}]
  /\ \A n \in 0..(BucketNum - 1) : \A i \in DOMAIN ht[n] : ht[n][i] \in CowEntries
  /\ holes \in [DataBlocks -> SUBSET Units]
  /\ pc \in [Threads -> {"idle", "store", "uffd", "inList", "lock", "insert"} \cup Copying]
  /\ \A t \in Threads : tgt[t] \in Blocks \X Units \X {0, 1} /\ cow[t] \in CowEntries
  /\ \A t \in Threads : buf[t] \in (0..UnitsPerBlock) \X Contents
  /\ dangling \subseteq Threads
  /\ monitor \in [pc : {"poll", "new", "map", "wake"}, b : Blocks, blk : 0..MaxBlockNum]
  /\ stores \in 0..MaxStores
  /\ process \in {"running", "exited", "corrupt", "killed", "unmapped"}

(* No two threads store to one block of a read-only layer: a condition on  *)
(* the guest under which the next three properties hold (without it they   *)
(* do not).                                                                *)
Private == \A t, w \in Threads : t # w => Touches[t] \cap Touches[w] \subseteq Missing

(* The guest reads what was last stored: neither handler, wherever it is,  *)
(* takes a store back or shows anything else (cow_handler, uf_monitor).    *)
GuestCoherent == \A b \in Blocks, u \in Units : View(b, u) = last[b][u]

(* After a crash at any moment the next fmmap (do_writable_fmmap) shows    *)
(* every store that was made.                                              *)
StoresDurable ==
  process = "running" =>
    \A b \in Blocks, u \in Units : last[b][u] # Original(b, u) => Remapped(b, u) = last[b][u]

(* No block of the guest gets two entries in the meta blocks: insert_ht    *)
(* calls new_block once for a block (cow.c:111-119, search_ht).            *)
OneEntryPerBlock ==
  \A j, k \in DOMAIN entries : entries[j].addr = entries[k].addr /\ entries[j].addr # AllOnes => j = k

(* insert_list frees a node that its handler still reads only after as     *)
(* many later insertions in that list as the list may hold, all of them    *)
(* for blocks of other locks: the handler holds cow_lock (pcow.c:124).     *)
FreedByOthers ==
  \A t \in dangling :
    LET list == lists[ListNum(tgt[t])]
    IN Len(list) = MaxConcurrent /\ \A i \in DOMAIN list : LockNum(list[i].b) # LockNum(tgt[t][1])

(* A block that is copied in part only is in the hash table, where         *)
(* final_cow finds it, or a handler is at work on it (cow.c:34).           *)
UncompletedListed ==
  \A b \in Blocks :
    (\E u \in Units : maps[b][u] = ReadOnly) /\ (\E u \in Units : maps[b][u] \in DataBlocks) =>
      \/ \E e \in Uncompleted : e.b = b
      \/ \E t \in Threads : pc[t] \in Copying /\ tgt[t][1] = b

(* Whatever the interleaving, a unit shows the original or a store to that *)
(* very unit, now and after a crash, or zeros if the crash came before the *)
(* unit was copied.                                                        *)
NothingForeign ==
  \A b \in Blocks, u \in Units :
    /\ View(b, u) = Original(b, u) \/ (View(b, u) # Zero /\ View(b, u)[1] = b /\ View(b, u)[2] = u)
    /\ Remapped(b, u) = Zero \/ (Remapped(b, u)[1] = b /\ Remapped(b, u)[2] = u)

(* After a crash the units of a block that were never written still show   *)
(* the read-only layers.                                                   *)
OriginalsDurable ==
  process = "running" =>
    \A b \in Blocks, u \in Units : last[b][u] = Original(b, u) => Remapped(b, u) = last[b][u]

(* After fmunmap the next fmmap shows the guest what it left.              *)
UnmapKeeps ==
  process = "unmapped" => \A b \in Blocks, u \in Units : Remapped(b, u) = last[b][u]

(* A store that faults is eventually made, unless the layer is full.       *)
StoreCompletes == \A t \in Threads : pc[t] = "store" ~> pc[t] = "idle" \/ process # "running"
=============================================================================
