------------------------------ MODULE PreAlloc ------------------------------
(***************************************************************************)
(* The block allocator of a pcow image (meta.c, built with PRE_ALLOC and   *)
(* FINEGRAINED_COW as config.h defines them).                              *)
(*                                                                         *)
(* A pre-allocator thread fallocates data blocks ahead of demand and puts  *)
(* them into the ring nbs; every fault handler that needs a block calls    *)
(* new_block, which takes the oldest block out of the ring and appends an  *)
(* entry for it to the active meta block, or to a new meta block when the  *)
(* active one is full.  No block address is recorded in the meta block:    *)
(* the next fmmap computes the address from the position of the entry, so  *)
(* the order of the ring and the order of the entries have to agree.       *)
(*                                                                         *)
(* The two sides share active_meta, active_meta_num, active_meta_off and   *)
(* active_meta->counter without a common lock.  The build is unoptimised   *)
(* (patch_to_qemu.sh configures --enable-debug), so each load and store is *)
(* a step, in program order.  Offsets are counted in blocks.               *)
(***************************************************************************)
EXTENDS Integers, FiniteSets

CONSTANTS
  Callers,      \* threads that call new_block: SIGSEGV handlers, uf_monitor
  VBlocks,      \* virtual block numbers (fault_off / block_size)
  NoBlock,      \* an entry never written
  OldEntry,     \* an entry written before this fmmap
  MyOff,        \* s->my_off: position of the super block of this layer
  MaxPerSeg,    \* s->max_per_seg: data blocks per meta block
  MaxBlockNum,  \* s->max_block_num: data blocks per layer
  MaxPreNum,    \* MAX_PRE_NUM: slots of nbs
  FreedReads,   \* what a load of ->counter from a freed struct Meta can yield
  MaxCalls      \* bound: calls of new_block in a behaviour

ASSUME SizeAssumption ==
  /\ MyOff \in Nat
  /\ MaxPerSeg \in Nat \ {0}
  /\ MaxBlockNum \in Nat \ {0}
  /\ MaxPreNum \in Nat \ {0}
  /\ MaxCalls \in Nat

(* free leaves ->counter as it was, and the chunk is next used for the     *)
(* struct Meta that read_meta fills: both are counters of a meta block.    *)
ASSUME FreedAssumption == FreedReads \subseteq 0..MaxPerSeg

(* "nobody" stands for the absence of a holder of nb_lock2.                *)
ASSUME CallerAssumption == "nobody" \notin Callers

ASSUME EntryAssumption == NoBlock \notin VBlocks /\ OldEntry \notin VBlocks /\ NoBlock # OldEntry

VARIABLES
  activeMeta,    \* s->active_meta, as the number of the meta block it is of
  activeMetaNum, \* s->active_meta_num
  activeMetaOff, \* s->active_meta_off
  counter,       \* ->counter of the struct Meta of each meta block
  freed,         \* struct Metas passed to free
  metaOff,       \* where in the file each meta block is
  btm,           \* pm_btm of each meta block, by meta block and index
  pmCounter,     \* pm_top->counter of each meta block
  superNum,      \* pm_super->active_meta_num
  nbs,           \* the ring of pre-allocated blocks
  nbCount,       \* nb_count
  nbAvailable,   \* nb_available
  allocOff,      \* s->alloc_off
  apc,           \* where the allocator thread is
  aOff,          \* active_meta_off as it loaded it
  aPtr,          \* active_meta as it loaded it
  aPre,          \* its prealloc_n
  aNum,          \* active_meta_num as it loaded it
  lock2,         \* holder of nb_lock2
  pc,            \* where each caller is in new_block
  arg,           \* the virtual block each caller asks a block for
  nb,            \* my_nb->block_off of each caller
  handed,        \* history: the blocks returned, with what they are for
  calls,         \* calls made, up to MaxCalls
  process        \* "running", or "exited" once a thread has called exit

dramVars == <<activeMeta, activeMetaNum, activeMetaOff, counter, freed>>
pmVars == <<metaOff, btm, pmCounter, superNum>>
ringVars == <<nbs, nbCount, nbAvailable>>
allocatorVars == <<allocOff, apc, aOff, aPtr, aPre, aNum>>
callerVars == <<lock2, pc, arg, nb, handed, calls>>
vars == <<dramVars, pmVars, ringVars, allocatorVars, callerVars, process>>

Segs == 0..MaxBlockNum
Idle == "idle"
Nobody == "nobody"

\* Fault: data blocks counted from the meta block instead of from after it.
DataPos_noMeta(n, j) == MyOff + 1 + (1 + MaxPerSeg) * n + j

(* Where meta block n of this layer is, and where the data block of entry  *)
(* j of meta block n is, for whoever reads the file.                       *)
MetaPos(n) == MyOff + 1 + n * (MaxPerSeg + 1)
DataPos(n, j) == MyOff + 2 + (1 + MaxPerSeg) * n + j

-----------------------------------------------------------------------------
(* fmmap: the layer may already hold blocks, and the block after a full    *)
(* meta segment may be a meta block that a crash cut off from the super    *)
(* block.  The ring is empty.                                              *)
InitLayer(n, c, cut) ==
  /\ n * MaxPerSeg + c <= MaxBlockNum
  /\ n > 0 => c > 0
  /\ cut = 1 => c = MaxPerSeg
  /\ activeMeta = n
  /\ activeMetaNum = n
  /\ activeMetaOff = MetaPos(n)
  /\ superNum = n
  /\ counter = [s \in Segs |-> IF s = n THEN c ELSE 0]
  /\ pmCounter = [s \in Segs |-> CASE s < n -> MaxPerSeg
                                    [] s = n -> c
                                    [] s = n + 1 -> cut
                                    [] OTHER -> 0]
  /\ btm = [s \in Segs |-> [j \in 0..(MaxPerSeg - 1) |->
              IF j < pmCounter[s] THEN OldEntry ELSE NoBlock]]
  /\ allocOff = MetaPos(n) + 1 + c

Init ==
  /\ \E n \in Segs, c \in 0..MaxPerSeg, cut \in {0, 1} : InitLayer(n, c, cut)
  /\ freed = {}
  /\ metaOff = [s \in Segs |-> MetaPos(s)]
  /\ nbs = [i \in 0..(MaxPreNum - 1) |-> 0]
  /\ nbCount = 0
  /\ nbAvailable = 0
  /\ apc = "readOff"
  /\ aOff = 0
  /\ aPtr = 0
  /\ aPre = 0
  /\ aNum = 0
  /\ lock2 = Nobody
  /\ pc = [t \in Callers |-> Idle]
  /\ arg = [t \in Callers |-> NoBlock]
  /\ nb = [t \in Callers |-> 0]
  /\ handed = {}
  /\ calls = 0
  /\ process = "running"

-----------------------------------------------------------------------------
(* new_block_allocator.  Each turn of its loop computes how many blocks    *)
(* are allocated ahead, sleeps if the ring would overflow, ends the thread *)
(* if the layer would, and otherwise allocates one block.                  *)

AllocatorReadOff ==
  /\ apc = "readOff"
  /\ aOff' = activeMetaOff
  /\ apc' = "readPtr"
  /\ UNCHANGED <<allocOff, aPtr, aPre, aNum>>

AllocatorReadPtr ==
  /\ apc = "readPtr"
  /\ aPtr' = activeMeta
  /\ apc' = "readCounter"
  /\ UNCHANGED <<allocOff, aOff, aPre, aNum>>

(* The struct Meta may have been freed since its address was loaded.       *)
LoadedCounters(s) == IF s \in freed THEN FreedReads ELSE {counter[s]}

\* Faults: room for one block too many, or for one too few.
AllocatorReadCounter_over ==
  /\ apc = "readCounter"
  /\ \E c \in LoadedCounters(aPtr) :
       /\ aPre' = allocOff - (aOff + 1 + c)
       /\ apc' = IF aPre' > MaxPreNum THEN "readOff" ELSE "readNum"
  /\ UNCHANGED <<allocOff, aOff, aPtr, aNum>>

AllocatorReadCounter_under ==
  /\ apc = "readCounter"
  /\ \E c \in LoadedCounters(aPtr) :
       /\ aPre' = allocOff - (aOff + 1 + c)
       /\ apc' = IF aPre' + 2 > MaxPreNum THEN "readOff" ELSE "readNum"
  /\ UNCHANGED <<allocOff, aOff, aPtr, aNum>>

AllocatorReadCounter ==
  /\ apc = "readCounter"
  /\ \E c \in LoadedCounters(aPtr) :
       /\ aPre' = allocOff - (aOff + 1 + c)
       /\ apc' = IF aPre' + 1 > MaxPreNum THEN "readOff" ELSE "readNum"
  /\ UNCHANGED <<allocOff, aOff, aPtr, aNum>>

AllocatorReadNum ==
  /\ apc = "readNum"
  /\ aNum' = activeMetaNum
  /\ apc' = "readPtr2"
  /\ UNCHANGED <<allocOff, aOff, aPtr, aPre>>

AllocatorReadPtr2 ==
  /\ apc = "readPtr2"
  /\ aPtr' = activeMeta
  /\ apc' = "readCounter2"
  /\ UNCHANGED <<allocOff, aOff, aPre, aNum>>

(* pthread_exit when the blocks allocated ahead fill the layer.            *)
AllocatorCheckRange ==
  /\ apc = "readCounter2"
  /\ \E c \in LoadedCounters(aPtr) :
       apc' = IF aNum * MaxPerSeg + c + aPre + 1 > MaxBlockNum
              THEN "exited" ELSE "put"
  /\ UNCHANGED <<allocOff, aOff, aPtr, aPre, aNum>>

(* The slot is written before nb_lock is taken.                            *)
AllocatorPut ==
  /\ apc = "put"
  /\ nbs' = [nbs EXCEPT ![nbCount % MaxPreNum] = allocOff]
  /\ apc' = "publish"
  /\ UNCHANGED <<nbCount, nbAvailable, allocOff, aOff, aPtr, aPre, aNum>>

AllocatorPublish ==
  /\ apc = "publish"
  /\ nbCount' = nbCount + 1
  /\ nbAvailable' = nbAvailable + 1
  /\ apc' = "advance"
  /\ UNCHANGED <<nbs, allocOff, aOff, aPtr, aPre, aNum>>

(* The result of fallocate is looked at last: failure ends the process.    *)
AllocatorAdvance ==
  /\ apc = "advance"
  /\ allocOff' = allocOff + 1
  /\ apc' = "readOff"
  /\ process' \in {"running", "exited"}
  /\ UNCHANGED <<aOff, aPtr, aPre, aNum>>

AllocatorStep ==
  \/ /\ \/ AllocatorReadOff
        \/ AllocatorReadPtr
        \/ AllocatorReadCounter
        \/ AllocatorReadNum
        \/ AllocatorReadPtr2
        \/ AllocatorCheckRange
     /\ UNCHANGED <<ringVars, process>>
  \/ /\ AllocatorPut \/ AllocatorPublish
     /\ UNCHANGED process
  \/ /\ AllocatorAdvance
     /\ UNCHANGED ringVars

-----------------------------------------------------------------------------
(* new_block, called by thread t for virtual block v.                      *)

Goto(t, from, to) ==
  /\ pc[t] = from
  /\ pc' = [pc EXCEPT ![t] = to]

Call(t, v) ==
  /\ calls < MaxCalls
  /\ Goto(t, Idle, "lock")
  /\ arg' = [arg EXCEPT ![t] = v]
  /\ calls' = calls + 1
  /\ UNCHANGED <<dramVars, pmVars, ringVars, lock2, nb, handed, process>>

(* Under nb_lock2; exit(-1) when the layer is full.                        *)
NewBlock(t) ==
  /\ lock2 = Nobody
  /\ lock2' = t
  /\ Goto(t, "lock", IF counter[activeMeta] < MaxPerSeg THEN "take" ELSE "takeMeta")
  /\ process' = IF activeMetaNum * MaxPerSeg + counter[activeMeta] + 1 > MaxBlockNum
                THEN "exited" ELSE process
  /\ UNCHANGED <<dramVars, pmVars, ringVars, arg, nb, handed, calls>>

(* The oldest block in the ring; new_block spins until there is one.       *)
OldestSlot == (nbCount - nbAvailable) % MaxPreNum

\* Fault: the block taken stays in the ring.
TakeBlock_keep ==
  /\ nbAvailable > 0
  /\ UNCHANGED ringVars

TakeBlock ==
  /\ nbAvailable > 0
  /\ nbAvailable' = nbAvailable - 1
  /\ UNCHANGED <<nbs, nbCount>>

(* new_meta: the block becomes the next meta block, with an empty counter. *)
NewMeta(t) ==
  LET m == activeMetaNum + 1 IN
  /\ Goto(t, "takeMeta", "takeFirst")
  /\ TakeBlock
  /\ metaOff' = [metaOff EXCEPT ![m] = nbs[OldestSlot]]
  /\ pmCounter' = [pmCounter EXCEPT ![m] = 0]
  /\ counter' = [counter EXCEPT ![m] = 0]
  /\ UNCHANGED <<activeMeta, activeMetaNum, activeMetaOff, freed, btm, superNum,
                 lock2, arg, nb, handed, calls, process>>

TakeData(t) ==
  /\ \/ Goto(t, "take", "append")
     \/ Goto(t, "takeFirst", "appendFirst")
  /\ TakeBlock
  /\ nb' = [nb EXCEPT ![t] = nbs[OldestSlot]]
  /\ UNCHANGED <<dramVars, pmVars, lock2, arg, handed, calls, process>>

(* The entry goes to the active meta block, or to the new one, which is    *)
(* still private; it is flushed before the counter that covers it.         *)
Target(t) ==
  IF pc[t] \in {"append", "count"} THEN activeMeta ELSE activeMetaNum + 1

AppendEntry(t) ==
  /\ \/ Goto(t, "append", "count")
     \/ Goto(t, "appendFirst", "countFirst")
  /\ btm' = [btm EXCEPT ![Target(t)][counter[Target(t)]] = arg[t]]
  /\ UNCHANGED <<dramVars, metaOff, pmCounter, superNum,
                 ringVars, lock2, arg, nb, handed, calls, process>>

CountEntry(t) ==
  /\ \/ Goto(t, "count", "return")
     \/ Goto(t, "countFirst", "freeOld")
  /\ counter' = [counter EXCEPT ![Target(t)] = @ + 1]
  /\ pmCounter' = [pmCounter EXCEPT ![Target(t)] = @ + 1]
  /\ UNCHANGED <<activeMeta, activeMetaNum, activeMetaOff, freed, metaOff, btm, superNum,
                 ringVars, lock2, arg, nb, handed, calls, process>>

(* The new meta block becomes the active one, field by field.              *)
FreeOldMeta(t) ==
  /\ Goto(t, "freeOld", "swap")
  /\ freed' = freed \cup {activeMeta}
  /\ UNCHANGED <<activeMeta, activeMetaNum, activeMetaOff, counter,
                 pmVars, ringVars, lock2, arg, nb, handed, calls, process>>

SwapMeta(t) ==
  /\ Goto(t, "swap", "bumpNum")
  /\ activeMeta' = activeMetaNum + 1
  /\ UNCHANGED <<activeMetaNum, activeMetaOff, counter, freed,
                 pmVars, ringVars, lock2, arg, nb, handed, calls, process>>

BumpMetaNum(t) ==
  /\ Goto(t, "bumpNum", "moveOff")
  /\ activeMetaNum' = activeMetaNum + 1
  /\ UNCHANGED <<activeMeta, activeMetaOff, counter, freed,
                 pmVars, ringVars, lock2, arg, nb, handed, calls, process>>

MoveMetaOff(t) ==
  /\ Goto(t, "moveOff", "super")
  /\ activeMetaOff' = MetaPos(activeMetaNum)
  /\ UNCHANGED <<activeMeta, activeMetaNum, counter, freed,
                 pmVars, ringVars, lock2, arg, nb, handed, calls, process>>

UpdateSuper(t) ==
  /\ Goto(t, "super", "return")
  /\ superNum' = activeMetaNum
  /\ UNCHANGED <<dramVars, metaOff, btm, pmCounter,
                 ringVars, lock2, arg, nb, handed, calls, process>>

Return(t) ==
  /\ Goto(t, "return", Idle)
  /\ lock2' = Nobody
  /\ handed' = handed \cup {[off |-> nb[t], vblock |-> arg[t]]}
  /\ UNCHANGED <<dramVars, pmVars, ringVars, arg, nb, calls, process>>

CallerStep(t) ==
  \/ NewBlock(t)
  \/ NewMeta(t)
  \/ TakeData(t)
  \/ AppendEntry(t)
  \/ CountEntry(t)
  \/ FreeOldMeta(t)
  \/ SwapMeta(t)
  \/ BumpMetaNum(t)
  \/ MoveMetaOff(t)
  \/ UpdateSuper(t)
  \/ Return(t)

-----------------------------------------------------------------------------
Allocate ==
  /\ process = "running"
  /\ AllocatorStep
  /\ UNCHANGED <<dramVars, pmVars, callerVars>>

Serve(t) ==
  /\ process = "running"
  /\ CallerStep(t)
  /\ UNCHANGED allocatorVars

Request(t, v) ==
  /\ process = "running"
  /\ Call(t, v)
  /\ UNCHANGED allocatorVars

Next ==
  \/ Allocate
  \/ \E t \in Callers : Serve(t)
  \/ \E t \in Callers, v \in VBlocks : Request(t, v)

Spec == Init /\ [][Next]_vars

(* Threads get processor time: the allocator's loop goes on turning, and a *)
(* caller inside new_block, which nothing but the ring and nb_lock2 makes  *)
(* wait, goes on running.  Nothing makes a guest cause another fault.      *)
FairSpec ==
  /\ Spec
  /\ WF_vars(Allocate)
  /\ \A t \in Callers : WF_vars(Serve(t))

-----------------------------------------------------------------------------
SuperTypeOK ==
  /\ activeMeta \in Segs
  /\ activeMetaNum \in Segs
  /\ activeMetaOff \in Nat
  /\ counter \in [Segs -> 0..MaxPerSeg]
  /\ freed \subseteq Segs

FileTypeOK ==
  /\ superNum \in Segs
  /\ pmCounter \in [Segs -> 0..MaxPerSeg]
  /\ metaOff \in [Segs -> Nat]
  /\ btm \in [Segs -> [0..(MaxPerSeg - 1) -> VBlocks \cup {NoBlock, OldEntry}]]

RingTypeOK ==
  /\ nbs \in [0..(MaxPreNum - 1) -> Nat]
  /\ nbCount \in Nat
  /\ nbAvailable \in 0..MaxPreNum

AllocatorTypeOK ==
  /\ allocOff \in Nat
  /\ apc \in {"readOff", "readPtr", "readCounter", "readNum", "readPtr2",
              "readCounter2", "put", "publish", "advance", "exited"}
  /\ aOff \in Nat
  /\ aPtr \in Segs
  /\ aPre \in Int
  /\ aNum \in Segs

CallerTypeOK ==
  /\ lock2 \in Callers \cup {Nobody}
  /\ pc \in [Callers -> {Idle, "lock", "take", "takeMeta", "takeFirst", "append",
                         "appendFirst", "count", "countFirst", "freeOld", "swap",
                         "bumpNum", "moveOff", "super", "return"}]
  /\ arg \in [Callers -> VBlocks \cup {NoBlock}]
  /\ nb \in [Callers -> Nat]
  /\ handed \subseteq [off : Nat, vblock : VBlocks]
  /\ calls \in 0..MaxCalls
  /\ process \in {"running", "exited"}

TypeOK ==
  /\ SuperTypeOK
  /\ FileTypeOK
  /\ RingTypeOK
  /\ AllocatorTypeOK
  /\ CallerTypeOK

(* No pre-allocated block is lost: each block between the oldest one and   *)
(* nb_count is still in its slot of nbs, though new_block_allocator writes *)
(* slots without nb_lock and takes the room in the ring from counters that *)
(* new_block is changing.                                                  *)
EndOff == IF apc = "advance" THEN allocOff + 1 ELSE allocOff

RingIntact ==
  \A k \in 1..nbAvailable : nbs[(nbCount - k) % MaxPreNum] = EndOff - k

(* The unsigned difference alloc_off - cur_off that new_block_allocator    *)
(* divides never wraps round, whatever mix of old and new fields it read.  *)
NoWrap == aPre >= 0

(* A meta block is where read_meta and an entry's data block is where      *)
(* do_writable_fmmap will look for it: every block new_block returned is   *)
(* found again by an fmmap that reads the file now, after a crash too.     *)
RemapFinds ==
  \A h \in handed :
    \E n \in 0..superNum :
      /\ metaOff[n] = MetaPos(n)
      /\ \E j \in 0..(MaxPerSeg - 1) :
           /\ j < pmCounter[n]
           /\ DataPos(n, j) = h.off
           /\ btm[n][j] = h.vblock

(* An fmmap never maps a block by an entry that was not written: entries   *)
(* reach the file before the counter that covers them, and a meta block    *)
(* before the super block that counts it.                                  *)
CountedAreWritten ==
  \A n \in 0..superNum : \A j \in 0..(MaxPerSeg - 1) :
    j < pmCounter[n] => btm[n][j] # NoBlock

(* The segments before the last one are full, which the arithmetic of      *)
(* to_alloc_num and of read_meta relies on; the last one is not empty.     *)
SegmentsFull ==
  /\ \A n \in Segs : n < superNum => pmCounter[n] = MaxPerSeg
  /\ superNum > 0 => pmCounter[superNum] > 0

(* new_block never returns a block it has returned before, and never one   *)
(* that is a meta block.                                                   *)
NeverHandedTwice ==
  [][\A t \in Callers : nb'[t] # nb[t] =>
       /\ \A h \in handed : h.off # nb'[t]
       /\ \A n \in 0..activeMetaNum : metaOff[n] # nb'[t]]_vars

(* As long as the allocator thread runs, every call of new_block returns,  *)
(* or the process ends: the allocator, which sleeps when it believes the   *)
(* ring is full, never goes on sleeping while a caller spins on an empty   *)
(* one.                                                                    *)
CallReturns ==
  \A t \in Callers :
    pc[t] = "lock" ~> (pc[t] = Idle \/ process = "exited" \/ apc = "exited")

(* The allocator thread gives up, with "error: out of range", only when    *)
(* the layer has all the blocks it may have.                               *)
ExitMeansFull ==
  apc = "exited" =>
    \A n \in Segs : \A j \in 0..(MaxPerSeg - 1) :
      n * MaxPerSeg + j + 1 = MaxBlockNum => EndOff > DataPos(n, j)
=============================================================================
