-------------------------- MODULE PreAllocProofs ---------------------------
(***************************************************************************)
(* Proofs about the block allocator, for every size of the ring, of the    *)
(* meta blocks and of the layer, and any number of callers.                *)
(*                                                                         *)
(* The inductive invariant IndInv says, for each place the holder of       *)
(* nb_lock2 can be at (Phase), how the fields of struct Super, the meta    *)
(* blocks and the next block to leave the ring are related (Position,      *)
(* FrontAt, Counters, Entries), and that whatever mix of fields the        *)
(* allocator has read, it believes at least as many blocks to be ahead as  *)
(* there are in the ring (AllocatorSees). Lemmas on the layout of a layer  *)
(* and on types come first, then one lemma for each step of new_block and  *)
(* one for the allocator thread; the theorems are at the end.              *)
(***************************************************************************)
EXTENDS PreAlloc, TLAPS

(* Where the holder of nb_lock2 is.                                        *)
Phase == IF lock2 = Nobody THEN "none" ELSE pc[lock2]

(* The next block to leave the ring.                                       *)
Front == EndOff - nbAvailable

\* Places of new_block: with the meta block that is there, or with a new one.
SamePhases == {"take", "append", "count"}
FirstPhases == {"appendFirst", "countFirst", "freeOld", "swap", "bumpNum", "moveOff", "super"}
NewMetaPhases == {"takeMeta", "takeFirst"} \cup FirstPhases
SwitchPhases == {"bumpNum", "moveOff", "super"}

\* The holder of nb_lock2 is the caller inside new_block.
Locking ==
  /\ \A t \in Callers : pc[t] \notin {Idle, "lock"} <=> lock2 = t
  /\ \A t \in Callers : pc[t] # Idle => arg[t] \in VBlocks

(* The fields of struct Super against the super block in the file.         *)
Position ==
  /\ Phase \notin SwitchPhases => activeMeta = superNum
  /\ Phase \in SwitchPhases => activeMeta = superNum + 1
  /\ Phase \notin {"moveOff", "super"} => activeMetaNum = superNum
  /\ Phase \in {"moveOff", "super"} => activeMetaNum = superNum + 1
  /\ Phase # "super" => activeMetaOff = MetaPos(superNum)
  /\ Phase = "super" => activeMetaOff = MetaPos(superNum + 1)

\* Which block leaves the ring next, and which one the holder has taken.
FrontAt ==
  /\ Phase \in {"none", "take", "takeMeta", "return"} =>
       Front = MetaPos(superNum) + 1 + counter[superNum]
  /\ Phase \in {"append", "count"} =>
       /\ nb[lock2] = MetaPos(superNum) + 1 + counter[superNum]
       /\ Front = nb[lock2] + 1
  /\ Phase = "takeFirst" => Front = MetaPos(superNum + 1) + 1
  /\ Phase \in FirstPhases =>
       /\ nb[lock2] = MetaPos(superNum + 1) + 1
       /\ Front = nb[lock2] + 1
  /\ Phase = "return" =>
       /\ counter[superNum] > 0
       /\ nb[lock2] = MetaPos(superNum) + counter[superNum]

\* How many entries the meta blocks have.
Counters ==
  /\ pmCounter[superNum] = counter[superNum]
  /\ Phase \in SamePhases => counter[superNum] < MaxPerSeg
  /\ Phase \in NewMetaPhases =>
       /\ counter[superNum] = MaxPerSeg
       /\ process = "running" => superNum < MaxBlockNum
  /\ Phase \in {"takeFirst", "appendFirst", "countFirst"} /\ process = "running" =>
       counter[superNum + 1] = 0 /\ pmCounter[superNum + 1] = 0
  /\ Phase \in {"freeOld", "swap"} \cup SwitchPhases /\ process = "running" =>
       counter[superNum + 1] = 1 /\ pmCounter[superNum + 1] = 1

(* The meta blocks in the file, the one being added included.              *)
Entries ==
  /\ \A n \in 0..superNum : metaOff[n] = MetaPos(n)
  /\ Phase \in {"takeFirst"} \cup FirstPhases /\ process = "running" =>
       metaOff[superNum + 1] = MetaPos(superNum + 1)
  /\ Phase = "count" => btm[superNum][counter[superNum]] = arg[lock2]
  /\ Phase \in FirstPhases \ {"appendFirst"} /\ process = "running" =>
       btm[superNum + 1][0] = arg[lock2]
  /\ Phase = "return" => btm[superNum][counter[superNum] - 1] = arg[lock2]

\* Structs Meta that were freed are those of earlier meta blocks.
FreedAt ==
  /\ \A s \in freed :
       \/ s < superNum
       \/ s = superNum /\ Phase \in {"swap"} \cup SwitchPhases
  /\ Phase \in {"swap"} \cup SwitchPhases => superNum \in freed

\* Blocks handed out have left the ring.
HandedBelow == \A h \in handed : h.off < Front

\* What the allocator has read so far does not overestimate the room in the
\* ring.
AllocatorSees ==
  /\ apc \in {"readPtr", "readCounter"} => aOff <= activeMetaOff
  /\ apc = "readCounter" =>
       /\ aPtr = activeMeta \/ aPtr \in freed
       /\ aOff <= MetaPos(aPtr)
  /\ apc \in {"readNum", "readPtr2", "readCounter2", "put", "publish"} =>
       nbAvailable <= aPre /\ aPre < MaxPreNum
  /\ apc = "publish" => nbs[nbCount % MaxPreNum] = allocOff
  /\ aPre >= 0

\* The inductive invariant.
IndInv ==
  /\ TypeOK
  /\ Locking
  /\ Position
  /\ FrontAt
  /\ Counters
  /\ Entries
  /\ FreedAt
  /\ HandedBelow
  /\ AllocatorSees
  /\ RingIntact
  /\ CountedAreWritten
  /\ SegmentsFull
  /\ RemapFinds

(* Meta block n + 1 follows the MaxPerSeg data blocks of meta block n.     *)
LEMMA LayoutNext ==
  ASSUME NEW n \in Nat
  PROVE  /\ MetaPos(n) \in Nat
         /\ MetaPos(n + 1) = MetaPos(n) + MaxPerSeg + 1
         /\ \A j \in Nat : DataPos(n, j) = MetaPos(n) + 1 + j
BY SizeAssumption DEF MetaPos, DataPos

\* A meta block comes after all blocks of the one before.
LEMMA LayoutGrows ==
  \A n \in Nat : \A m \in Nat :
    n < m
  => MetaPos(n) + MaxPerSeg + 1 <= MetaPos(m)
<1>ProductGrows.
  ASSUME NEW n \in Nat, NEW m \in Nat, NEW k \in Nat, n < m
  PROVE  n * k + k <= m * k
  <2> USE <1>ProductGrows
  <2>1. m = n + 1 + (m - n - 1) /\ m - n - 1 \in Nat
    OBVIOUS
  <2>2. \A d \in Nat : (n + 1 + d) * k = n * k + k + d * k
    OBVIOUS
  <2>3. \A d \in Nat : d * k >= 0
    OBVIOUS
  <2> QED
    BY <2>1, <2>2, <2>3
<1> SUFFICES ASSUME NEW n \in Nat, NEW m \in Nat, n < m
             PROVE  MetaPos(n) + MaxPerSeg + 1 <= MetaPos(m)
  BY Zenon
<1>1. n * (MaxPerSeg + 1) + (MaxPerSeg + 1) <= m * (MaxPerSeg + 1)
  BY <1>ProductGrows, SizeAssumption
<1>2. n * (MaxPerSeg + 1) \in Nat /\ m * (MaxPerSeg + 1) \in Nat
  BY SizeAssumption
<1> QED
  BY <1>1, <1>2, SizeAssumption DEF MetaPos

\* A remainder is a slot of the ring.
LEMMA SlotInRing ==
  ASSUME NEW N \in Nat \ {0}, NEW a \in Int
  PROVE  a % N \in 0..(N - 1)
OBVIOUS

-----------------------------------------------------------------------------
(* Steps of the holder of nb_lock2.                                        *)
LEMMA PhaseOf ==
  ASSUME TypeOK, Locking, NEW t \in Callers, pc[t] \notin {Idle, "lock"}
  PROVE  lock2 = t /\ lock2 # Nobody /\ Phase = pc[t]
BY CallerAssumption, Zenon DEF Locking, Phase, Nobody

\* The holder of nb_lock2 takes a step within new_block.
LEMMA PhaseNext ==
  ASSUME TypeOK, Locking, NEW t \in Callers, lock2' = lock2, arg' = arg,
         pc[t] \notin {Idle, "lock"}, pc'[t] \notin {Idle, "lock"},
         \A u \in Callers \ {t} : pc'[u] = pc[u]
  PROVE  lock2 = t /\ Phase = pc[t] /\ Phase' = pc'[t] /\ Locking'
<1>1. lock2 = t /\ Phase = pc[t]
  BY PhaseOf, Zenon
<1>2. Phase' = pc'[t]
  BY <1>1, CallerAssumption, Zenon DEF Phase, Nobody
<1>3. Locking'
  BY <1>1, Zenon DEF Locking, Idle
<1> QED
  BY <1>1, <1>2, <1>3, Zenon

(* The block that leaves the ring is the one at its front.                 *)
LEMMA TakesFront ==
  ASSUME TypeOK, RingIntact, nbAvailable > 0
  PROVE  nbs[OldestSlot] = Front
BY DEF TypeOK, RingTypeOK, AllocatorTypeOK, RingIntact, OldestSlot, Front, EndOff

\* The steps of the allocator keep the types.
LEMMA AllocateType == IndInv /\ Allocate => TypeOK'
<1> SUFFICES ASSUME IndInv, Allocate PROVE TypeOK'
  BY Zenon
<1>0. /\ SuperTypeOK /\ FileTypeOK /\ RingTypeOK /\ AllocatorTypeOK /\ CallerTypeOK
      /\ AllocatorStep
  BY Zenon DEF IndInv, TypeOK, Allocate
<1>1. SuperTypeOK'
  BY <1>0, Zenon DEF Allocate, SuperTypeOK, dramVars
<1>2. FileTypeOK'
  BY <1>0, Zenon DEF Allocate, FileTypeOK, pmVars
<1>3. CallerTypeOK'
  <2>1. process' \in {"running", "exited"}
    BY <1>0, Zenon DEF AllocatorStep, AllocatorAdvance, CallerTypeOK
  <2> QED
    BY <1>0, <2>1, Zenon DEF Allocate, CallerTypeOK, callerVars
<1>4. RingTypeOK' /\ AllocatorTypeOK'
  <2>1. CASE AllocatorReadOff /\ UNCHANGED <<ringVars, process>>
    BY <1>0, <2>1, Zenon DEF AllocatorReadOff, AllocatorTypeOK, RingTypeOK, SuperTypeOK, ringVars
  <2>2. CASE AllocatorReadPtr /\ UNCHANGED <<ringVars, process>>
    BY <1>0, <2>2, Zenon DEF AllocatorReadPtr, AllocatorTypeOK, RingTypeOK, SuperTypeOK, ringVars
  <2>3. CASE AllocatorReadCounter /\ UNCHANGED <<ringVars, process>>
    <3>1. PICK c \in LoadedCounters(aPtr) :
            /\ aPre' = allocOff - (aOff + 1 + c)
            /\ apc' = IF aPre' + 1 > MaxPreNum THEN "readOff" ELSE "readNum"
      BY <2>3, Zenon DEF AllocatorReadCounter
    <3>2. c \in Nat
      BY <1>0, FreedAssumption, SizeAssumption DEF LoadedCounters, SuperTypeOK, AllocatorTypeOK
    <3> QED
      BY <1>0, <2>3, <3>1, <3>2 DEF AllocatorReadCounter, AllocatorTypeOK, RingTypeOK, ringVars
  <2>4. CASE AllocatorReadNum /\ UNCHANGED <<ringVars, process>>
    BY <1>0, <2>4, Zenon DEF AllocatorReadNum, AllocatorTypeOK, RingTypeOK, SuperTypeOK, ringVars
  <2>5. CASE AllocatorReadPtr2 /\ UNCHANGED <<ringVars, process>>
    BY <1>0, <2>5, Zenon DEF AllocatorReadPtr2, AllocatorTypeOK, RingTypeOK, SuperTypeOK, ringVars
  <2>6. CASE AllocatorCheckRange /\ UNCHANGED <<ringVars, process>>
    BY <1>0, <2>6, Zenon DEF AllocatorCheckRange, AllocatorTypeOK, RingTypeOK, ringVars
  <2>7. CASE AllocatorPut /\ UNCHANGED process
    BY <1>0, <2>7, Zenon DEF AllocatorPut, AllocatorTypeOK, RingTypeOK
  <2>8. CASE AllocatorPublish /\ UNCHANGED process
    <3>1. nbAvailable < MaxPreNum
      BY <1>0, <2>8, SizeAssumption
      DEF IndInv, AllocatorSees, AllocatorPublish, RingTypeOK, AllocatorTypeOK
    <3> QED
      BY <1>0, <2>8, <3>1, SizeAssumption DEF AllocatorPublish, AllocatorTypeOK, RingTypeOK
  <2>9. CASE AllocatorAdvance /\ UNCHANGED ringVars
    BY <1>0, <2>9 DEF AllocatorAdvance, AllocatorTypeOK, RingTypeOK, ringVars
  <2> QED
    BY <1>0, <2>1, <2>2, <2>3, <2>4, <2>5, <2>6, <2>7, <2>8, <2>9, Zenon DEF AllocatorStep
<1> QED
  BY <1>1, <1>2, <1>3, <1>4, Zenon DEF TypeOK

(* The number of the next meta block is in range wherever it is used.      *)
LEMMA NextMetaInRange ==
  ASSUME IndInv, process = "running", NEW t \in Callers,
         pc[t] \in NewMetaPhases \ {"moveOff", "super"}
  PROVE  activeMetaNum + 1 \in Segs /\ activeMetaNum = superNum
<1>1. lock2 = t /\ Phase = pc[t]
  BY PhaseOf, Zenon DEF IndInv, NewMetaPhases, FirstPhases, Idle
<1>2. activeMetaNum = superNum
  BY <1>1, Zenon DEF IndInv, Position, NewMetaPhases, FirstPhases
<1>3. superNum < MaxBlockNum
  BY <1>1, Zenon DEF IndInv, Counters
<1>4. superNum \in 0..MaxBlockNum
  BY Zenon DEF IndInv, TypeOK, FileTypeOK, Segs
<1> QED
  BY <1>2, <1>3, <1>4, SizeAssumption DEF Segs

\* The steps of new_block keep the types.
LEMMA ServeType == \A t \in Callers : IndInv /\ Serve(t) => TypeOK'
<1> SUFFICES ASSUME NEW t \in Callers, IndInv, Serve(t) PROVE TypeOK'
  BY Zenon
<1>0. /\ TypeOK /\ SuperTypeOK /\ FileTypeOK /\ RingTypeOK /\ AllocatorTypeOK /\ CallerTypeOK
      /\ Locking /\ process = "running" /\ CallerStep(t)
  BY Zenon DEF IndInv, TypeOK, Serve
<1>a. AllocatorTypeOK'
  BY <1>0, Zenon DEF Serve, AllocatorTypeOK, allocatorVars
<1>b. SUFFICES SuperTypeOK' /\ FileTypeOK' /\ RingTypeOK' /\ CallerTypeOK'
  BY <1>a, Zenon DEF TypeOK
<1> USE DEF dramVars, pmVars, ringVars, Goto
<1>1. CASE NewBlock(t)
  <2>1. CallerTypeOK'
    BY <1>0, <1>1, Zenon DEF NewBlock, CallerTypeOK
  <2> QED
    BY <1>0, <1>1, <2>1, Zenon DEF NewBlock, SuperTypeOK, FileTypeOK, RingTypeOK
<1>2. CASE NewMeta(t)
  <2>1. activeMetaNum + 1 \in Segs
    BY <1>0, <1>2, NextMetaInRange, Zenon DEF NewMeta, NewMetaPhases
  <2>2. nbs[OldestSlot] \in Nat
    BY <1>0, SlotInRing, SizeAssumption DEF OldestSlot, RingTypeOK
  <2>3. RingTypeOK'
    BY <1>0, <1>2, SizeAssumption DEF NewMeta, TakeBlock, RingTypeOK
  <2>4. CallerTypeOK'
    BY <1>0, <1>2, Zenon DEF NewMeta, CallerTypeOK
  <2>5. SuperTypeOK'
    BY <1>0, <1>2, <2>1, SizeAssumption DEF NewMeta, SuperTypeOK
  <2>6. FileTypeOK'
    BY <1>0, <1>2, <2>1, <2>2, SizeAssumption DEF NewMeta, FileTypeOK
  <2> QED
    BY <2>3, <2>4, <2>5, <2>6, Zenon
<1>3. CASE TakeData(t)
  <2>1. nbs[OldestSlot] \in Nat
    BY <1>0, SlotInRing, SizeAssumption DEF OldestSlot, RingTypeOK
  <2>2. RingTypeOK'
    BY <1>0, <1>3, SizeAssumption DEF TakeData, TakeBlock, RingTypeOK
  <2>3. CallerTypeOK'
    BY <1>0, <1>3, <2>1, Zenon DEF TakeData, CallerTypeOK
  <2> QED
    BY <1>0, <1>3, <2>2, <2>3, Zenon DEF TakeData, SuperTypeOK, FileTypeOK
<1>4. CASE AppendEntry(t)
  <2>1. arg[t] \in VBlocks
    BY <1>0, <1>4, Zenon DEF AppendEntry, Locking, Idle
  <2>2. FileTypeOK'
    BY <1>0, <1>4, <2>1, Zenon DEF AppendEntry, FileTypeOK
  <2>3. CallerTypeOK'
    BY <1>0, <1>4, Zenon DEF AppendEntry, CallerTypeOK
  <2> QED
    BY <1>0, <1>4, <2>2, <2>3, Zenon DEF AppendEntry, SuperTypeOK, RingTypeOK
<1>5. CASE CountEntry(t)
  <2>1. /\ Target(t) \in Segs
        /\ counter[Target(t)] < MaxPerSeg /\ pmCounter[Target(t)] < MaxPerSeg
    <3>1. CASE pc[t] = "count"
      <4>1. lock2 = t /\ Phase = "count"
        BY <1>0, <3>1, PhaseOf, Zenon DEF Idle
      <4>2. Target(t) = superNum
        BY <3>1, <4>1, Zenon DEF Target, IndInv, Position, SwitchPhases
      <4> QED
        BY <1>0, <4>1, <4>2, Zenon DEF IndInv, Counters, SamePhases, FileTypeOK
    <3>2. CASE pc[t] = "countFirst"
      <4>1. lock2 = t /\ Phase = "countFirst"
        BY <1>0, <3>2, PhaseOf, Zenon DEF Idle
      <4>2. Target(t) = superNum + 1
        BY <3>2, <4>1, Zenon DEF Target, IndInv, Position
      <4> QED
        BY <1>0, <3>2, <4>1, <4>2, SizeAssumption, NextMetaInRange
        DEF IndInv, Counters, NewMetaPhases, FirstPhases
    <3> QED
      BY <1>5, <3>1, <3>2, Zenon DEF CountEntry
  <2>a. /\ counter[Target(t)] + 1 \in 0..MaxPerSeg
        /\ pmCounter[Target(t)] + 1 \in 0..MaxPerSeg
    BY <1>0, <2>1, SizeAssumption, SMTT(30) DEF SuperTypeOK, FileTypeOK
  <2>2. SuperTypeOK'
    BY <1>0, <1>5, <2>a, Zenon DEF CountEntry, SuperTypeOK
  <2>3. FileTypeOK'
    BY <1>0, <1>5, <2>a, Zenon DEF CountEntry, FileTypeOK
  <2>4. CallerTypeOK'
    BY <1>0, <1>5, Zenon DEF CountEntry, CallerTypeOK
  <2> QED
    BY <1>0, <1>5, <2>2, <2>3, <2>4, Zenon DEF CountEntry, RingTypeOK
<1>6. CASE FreeOldMeta(t)
  <2>1. CallerTypeOK'
    BY <1>0, <1>6, Zenon DEF FreeOldMeta, CallerTypeOK
  <2> QED
    BY <1>0, <1>6, <2>1, Zenon DEF FreeOldMeta, SuperTypeOK, FileTypeOK, RingTypeOK
<1>7. CASE SwapMeta(t)
  <2>1. activeMetaNum + 1 \in Segs
    BY <1>0, <1>7, NextMetaInRange, Zenon DEF SwapMeta, NewMetaPhases, FirstPhases
  <2>2. CallerTypeOK'
    BY <1>0, <1>7, Zenon DEF SwapMeta, CallerTypeOK
  <2> QED
    BY <1>0, <1>7, <2>1, <2>2, Zenon DEF SwapMeta, SuperTypeOK, FileTypeOK, RingTypeOK
<1>8. CASE BumpMetaNum(t)
  <2>1. activeMetaNum + 1 \in Segs
    BY <1>0, <1>8, NextMetaInRange, Zenon DEF BumpMetaNum, NewMetaPhases, FirstPhases
  <2>2. CallerTypeOK'
    BY <1>0, <1>8, Zenon DEF BumpMetaNum, CallerTypeOK
  <2> QED
    BY <1>0, <1>8, <2>1, <2>2, Zenon DEF BumpMetaNum, SuperTypeOK, FileTypeOK, RingTypeOK
<1>9. CASE MoveMetaOff(t)
  <2>1. activeMetaNum \in Nat
    BY <1>0, SizeAssumption DEF SuperTypeOK, Segs
  <2>2. MetaPos(activeMetaNum) \in Nat
    BY <2>1, LayoutNext, Zenon
  <2>3. CallerTypeOK'
    BY <1>0, <1>9, Zenon DEF MoveMetaOff, CallerTypeOK
  <2> QED
    BY <1>0, <1>9, <2>2, <2>3, Zenon DEF MoveMetaOff, SuperTypeOK, FileTypeOK, RingTypeOK
<1>10. CASE UpdateSuper(t)
  <2>1. CallerTypeOK'
    BY <1>0, <1>10, Zenon DEF UpdateSuper, CallerTypeOK
  <2> QED
    BY <1>0, <1>10, <2>1, Zenon DEF UpdateSuper, SuperTypeOK, FileTypeOK, RingTypeOK
<1>11. CASE Return(t)
  <2>1. arg[t] \in VBlocks
    BY <1>0, <1>11, Zenon DEF Return, Locking, Idle
  <2>2. CallerTypeOK'
    BY <1>0, <1>11, <2>1 DEF Return, CallerTypeOK
  <2> QED
    BY <1>0, <1>11, <2>2, Zenon DEF Return, SuperTypeOK, FileTypeOK, RingTypeOK
<1> QED
  BY <1>0, <1>1, <1>2, <1>3, <1>4, <1>5, <1>6, <1>7, <1>8, <1>9, <1>10, <1>11, Zenon DEF CallerStep

\* A request keeps the types.
LEMMA RequestType ==
  \A t \in Callers, v \in VBlocks : IndInv /\ Request(t, v) => TypeOK'
<1> SUFFICES ASSUME NEW t \in Callers, NEW v \in VBlocks, IndInv, Request(t, v)
             PROVE  TypeOK'
  BY Zenon
<1>1. CallerTypeOK'
  BY SizeAssumption DEF IndInv, TypeOK, CallerTypeOK, Request, Call, Goto
<1> QED
  BY <1>1, Zenon DEF IndInv, TypeOK, SuperTypeOK, FileTypeOK, RingTypeOK, AllocatorTypeOK,
              Request, Call, dramVars, pmVars, ringVars, allocatorVars

-----------------------------------------------------------------------------
(* What a step of a caller leaves to the allocator and in the ring.        *)
LEMMA RingKept ==
  ASSUME IndInv, UNCHANGED <<nbs, nbCount, allocatorVars>>,
         nbAvailable' \in Nat, nbAvailable' <= nbAvailable
  PROVE  RingIntact' /\ EndOff' = EndOff
<1>1. EndOff' = EndOff
  BY Zenon DEF EndOff, allocatorVars
<1>2. \A k \in 1..nbAvailable' : k \in 1..nbAvailable
  BY DEF IndInv, TypeOK, RingTypeOK
<1> QED
  BY <1>1, <1>2, Zenon DEF IndInv, RingIntact

\* Callers only take from the ring and move on: what the allocator has read
\* stays safe.
LEMMA AllocatorUnharmed ==
  ASSUME IndInv, UNCHANGED <<nbs, nbCount, allocatorVars>>,
         nbAvailable' \in Nat, nbAvailable' <= nbAvailable,
         activeMetaOff' \in Nat, activeMetaOff <= activeMetaOff',
         freed \subseteq freed', activeMeta' = activeMeta \/ activeMeta \in freed'
  PROVE  AllocatorSees'
BY DEF IndInv, TypeOK, RingTypeOK, AllocatorTypeOK, SuperTypeOK, AllocatorSees, allocatorVars

(* The claims about the file hold as long as the file and the blocks       *)
(* returned are the same.                                                  *)
LEMMA FileKept ==
  ASSUME IndInv, UNCHANGED <<pmVars, handed>>
  PROVE  CountedAreWritten' /\ SegmentsFull' /\ RemapFinds'
BY Zenon DEF IndInv, CountedAreWritten, SegmentsFull, RemapFinds, pmVars

\* new_block takes nb_lock2.
LEMMA NewBlockStep ==
  \A t \in Callers :
    IndInv /\ NewBlock(t) /\ UNCHANGED allocatorVars /\ process = "running" /\ TypeOK'
  => IndInv'
(* A layer that has room for one more data block has room for its meta     *)
(* block.                                                                  *)
<1>RoomForMeta.
  ASSUME NEW n \in Nat, n * MaxPerSeg + MaxPerSeg + 1 <= MaxBlockNum
  PROVE  n < MaxBlockNum
  <2> USE <1>RoomForMeta
  <2>1. n * MaxPerSeg >= n
    BY SizeAssumption
  <2>2. n * MaxPerSeg \in Nat
    BY SizeAssumption
  <2> QED
    BY <2>1, <2>2, SizeAssumption
<1> SUFFICES ASSUME IndInv, NEW t \in Callers, NewBlock(t), UNCHANGED allocatorVars, process = "running", TypeOK'
             PROVE  IndInv'
  BY Zenon
<1> USE DEF NewBlock, Goto, dramVars, pmVars, ringVars
<1>0. /\ TypeOK /\ Locking /\ lock2 = Nobody /\ pc[t] = "lock" /\ lock2' = t
      /\ UNCHANGED <<nbs, nbCount, nbAvailable, pmVars, handed>>
  BY Zenon DEF IndInv
<1>1. Phase = "none"
  BY <1>0, Zenon DEF Phase
<1>2. pc'[t] = (IF counter[activeMeta] < MaxPerSeg THEN "take" ELSE "takeMeta")
  BY <1>0, Zenon DEF TypeOK, CallerTypeOK
<1>3. Phase' = (IF counter[activeMeta] < MaxPerSeg THEN "take" ELSE "takeMeta")
  BY <1>0, <1>2, CallerAssumption, Zenon DEF Phase, Nobody
<1>4. Locking'
  <2>1. \A u \in Callers : u # t => pc'[u] = pc[u]
    BY <1>0, Zenon DEF TypeOK, CallerTypeOK
  <2>2. \A u \in Callers : pc[u] \in {Idle, "lock"}
    BY <1>0, CallerAssumption, Zenon DEF Locking, Nobody
  <2>3. pc'[t] \notin {Idle, "lock"}
    BY <1>2 DEF Idle
  <2> QED
    BY <1>0, <2>1, <2>2, <2>3, Zenon DEF Locking, Idle
<1>5. nbAvailable' \in Nat /\ nbAvailable' <= nbAvailable
  BY <1>0 DEF TypeOK, RingTypeOK
<1>6. RingIntact' /\ EndOff' = EndOff
  BY <1>0, <1>5, RingKept, Zenon
<1>7. AllocatorSees'
  <2>1. activeMetaOff' \in Nat /\ activeMetaOff <= activeMetaOff'
    BY <1>0 DEF TypeOK, SuperTypeOK
  <2> QED
    BY <1>0, <1>5, <2>1, AllocatorUnharmed, Zenon
<1>8. CountedAreWritten' /\ SegmentsFull' /\ RemapFinds'
  BY <1>0, FileKept, Zenon
<1>9. activeMeta = superNum /\ activeMetaNum = superNum /\ counter[superNum] \in 0..MaxPerSeg
  BY <1>0, <1>1, Zenon DEF IndInv, Position, SwitchPhases, TypeOK, SuperTypeOK, FileTypeOK
<1>10. Position'
  BY <1>1, <1>3, <1>9, Zenon DEF IndInv, Position, SwitchPhases
<1>11. FrontAt'
  BY <1>1, <1>3, <1>6, <1>9, Zenon DEF IndInv, FrontAt, Front, FirstPhases
<1>12. Counters'
  <2>1. counter[activeMeta] >= MaxPerSeg /\ process' = "running" => superNum < MaxBlockNum
    <3> SUFFICES ASSUME counter[activeMeta] >= MaxPerSeg, process' = "running"
                 PROVE  superNum < MaxBlockNum
      BY Zenon
    <3>1. superNum \in Nat /\ counter[superNum] = MaxPerSeg
      BY <1>0, <1>9, SizeAssumption DEF TypeOK, FileTypeOK, Segs
    <3>2. ~(superNum * MaxPerSeg + MaxPerSeg + 1 > MaxBlockNum)
      BY <1>9, <3>1, Zenon
    <3>3. superNum * MaxPerSeg \in Nat
      BY <3>1, SizeAssumption
    <3> QED
      BY <3>1, <3>2, <3>3, <1>RoomForMeta, SizeAssumption
  <2>2. pmCounter'[superNum'] = counter'[superNum']
    BY Zenon DEF IndInv, Counters
  <2>3. counter[superNum] < MaxPerSeg \/ counter[superNum] = MaxPerSeg
    BY <1>9, SizeAssumption
  <2> QED
    BY <1>3, <1>9, <2>1, <2>2, <2>3, SizeAssumption
    DEF Counters, SamePhases, NewMetaPhases, FirstPhases, SwitchPhases
<1>13. Entries'
  BY <1>1, <1>3, Zenon DEF IndInv, Entries, FirstPhases
<1>14. FreedAt'
  BY <1>1, <1>3, Zenon DEF IndInv, FreedAt, SwitchPhases
<1>15. HandedBelow'
  BY <1>6, Zenon DEF IndInv, HandedBelow, Front
<1> QED
  BY <1>4, <1>6, <1>7, <1>8, <1>10, <1>11, <1>12, <1>13, <1>14, <1>15, Zenon DEF IndInv

\* new_block takes a block for a new meta block.
LEMMA NewMetaStep ==
  ASSUME IndInv, NEW t \in Callers, NewMeta(t), UNCHANGED allocatorVars,
         process = "running", TypeOK'
  PROVE  IndInv'
<1> USE DEF NewMeta, TakeBlock
<1>0. /\ TypeOK /\ Locking /\ Goto(t, "takeMeta", "takeFirst") /\ nbAvailable > 0 /\ RingIntact
      /\ UNCHANGED <<nbs, nbCount, activeMeta, activeMetaNum, activeMetaOff, freed,
                     btm, superNum, lock2, arg, nb, handed, process>>
      /\ nbAvailable' = nbAvailable - 1
  BY Zenon DEF IndInv
<1>1. lock2 = t /\ Phase = "takeMeta" /\ Phase' = "takeFirst" /\ Locking'
  <2>1. /\ pc[t] = "takeMeta" /\ pc'[t] = "takeFirst"
        /\ \A u \in Callers \ {t} : pc'[u] = pc[u]
    BY <1>0, Zenon DEF Goto, TypeOK, CallerTypeOK
  <2> QED
    BY <1>0, <2>1, PhaseNext, Zenon DEF Idle
<1>2. Phase' = "takeFirst" /\ Locking'
  BY <1>1, Zenon
<1>3. nbAvailable' \in Nat /\ nbAvailable' <= nbAvailable
  BY <1>0 DEF TypeOK, RingTypeOK
<1>4. RingIntact' /\ EndOff' = EndOff
  BY <1>0, <1>3, RingKept, Zenon
<1>5. Front' = Front + 1 /\ Front \in Int
  <2>1. EndOff \in Int /\ nbAvailable \in Int
    BY <1>0 DEF EndOff, TypeOK, RingTypeOK, AllocatorTypeOK
  <2> QED
    BY <1>0, <1>4, <2>1 DEF Front
<1>6. AllocatorSees'
  <2>1. activeMetaOff' \in Nat /\ activeMetaOff <= activeMetaOff'
    BY <1>0 DEF TypeOK, SuperTypeOK
  <2> QED
    BY <1>0, <1>3, <2>1, AllocatorUnharmed, Zenon
<1>7. /\ activeMetaNum = superNum /\ superNum \in Nat /\ superNum + 1 \in Segs
      /\ counter[superNum] = MaxPerSeg
  <2>1. activeMetaNum + 1 \in Segs /\ activeMetaNum = superNum
    BY <1>0, NextMetaInRange, Zenon DEF NewMetaPhases, Goto
  <2>2. counter[superNum] = MaxPerSeg /\ superNum \in Nat
    BY <1>0, <1>1, SizeAssumption DEF IndInv, Counters, NewMetaPhases, TypeOK, FileTypeOK, Segs
  <2> QED
    BY <2>1, <2>2, Zenon
<1>8. MetaPos(superNum + 1) = MetaPos(superNum) + 1 + MaxPerSeg /\ MetaPos(superNum) \in Nat
  <2>1. MetaPos(superNum + 1) = MetaPos(superNum) + MaxPerSeg + 1 /\ MetaPos(superNum) \in Nat
    BY <1>7, LayoutNext, Zenon
  <2> QED
    BY <2>1, SizeAssumption
<1>9. nbs[OldestSlot] = MetaPos(superNum + 1)
  BY <1>0, <1>1, <1>7, <1>8, TakesFront, Zenon DEF IndInv, FrontAt
<1>10. /\ \A n \in Segs : n # superNum + 1 => /\ metaOff'[n] = metaOff[n]
                                              /\ pmCounter'[n] = pmCounter[n]
                                              /\ counter'[n] = counter[n]
       /\ metaOff'[superNum + 1] = MetaPos(superNum + 1)
       /\ pmCounter'[superNum + 1] = 0
       /\ counter'[superNum + 1] = 0
  BY <1>0, <1>7, <1>9, Zenon DEF TypeOK, FileTypeOK, SuperTypeOK
<1>11. superNum \in Segs /\ superNum # superNum + 1
  BY <1>0, <1>7 DEF TypeOK, FileTypeOK
<1>12. \A n \in 0..superNum : n \in Segs /\ n # superNum + 1
  BY <1>7, SizeAssumption DEF Segs
<1>13. Position'
  BY <1>0, <1>1, <1>2, Zenon DEF IndInv, Position, SwitchPhases
<1>14. FrontAt'
  BY <1>0, <1>1, <1>2, <1>5, <1>7, <1>8, Zenon DEF IndInv, FrontAt, FirstPhases
<1>15. Counters'
  BY Zenon, <1>0, <1>1, <1>2, <1>7, <1>10, <1>11
  DEF IndInv, Counters, SamePhases, NewMetaPhases, FirstPhases, SwitchPhases
<1>16. Entries'
  BY <1>0, <1>1, <1>2, <1>10, <1>12, Zenon DEF IndInv, Entries, FirstPhases
<1>17. FreedAt'
  BY <1>0, <1>1, <1>2, Zenon DEF IndInv, FreedAt, SwitchPhases
<1>18. HandedBelow'
  BY <1>0, <1>5 DEF IndInv, HandedBelow, TypeOK, CallerTypeOK
<1>19. CountedAreWritten'
  <2>1. CountedAreWritten
    BY Zenon DEF IndInv
  <2>2. superNum' = superNum /\ btm' = btm /\ \A n \in 0..superNum : pmCounter'[n] = pmCounter[n]
    BY <1>0, <1>10, <1>12, Zenon
  <2> HIDE DEF NewMeta, TakeBlock
  <2> QED
    BY <2>1, <2>2, Zenon DEF CountedAreWritten
<1>20. SegmentsFull'
  <2>1. \A n \in Segs : n < superNum => n # superNum + 1
    BY <1>7, SizeAssumption DEF Segs
  <2> QED
    BY <1>0, <1>10, <1>11, <2>1, Zenon DEF IndInv, SegmentsFull
<1>21. RemapFinds'
  <2>1. RemapFinds
    BY Zenon DEF IndInv
  <2>2. /\ superNum' = superNum /\ btm' = btm /\ handed' = handed
        /\ \A n \in 0..superNum : pmCounter'[n] = pmCounter[n] /\ metaOff'[n] = metaOff[n]
    BY <1>0, <1>10, <1>12, Zenon
  <2> HIDE DEF NewMeta, TakeBlock
  <2> QED
    BY <2>1, <2>2, SMTT(30) DEF RemapFinds
<1> QED
  BY Zenon, <1>2, <1>4, <1>6, <1>13, <1>14, <1>15, <1>16, <1>17, <1>18, <1>19, <1>20, <1>21
  DEF IndInv

\* new_block takes the data block.
LEMMA TakeDataStep ==
  ASSUME IndInv, NEW t \in Callers, TakeData(t), UNCHANGED allocatorVars,
         process = "running", TypeOK'
  PROVE  IndInv'
<1> USE DEF TakeData, TakeBlock, dramVars, pmVars
<1>0. /\ TypeOK /\ Locking /\ nbAvailable > 0 /\ RingIntact
      /\ UNCHANGED <<nbs, nbCount, dramVars, pmVars, lock2, arg, handed, process>>
      /\ nbAvailable' = nbAvailable - 1
  BY Zenon DEF IndInv
<1>1. /\ lock2 = t
      /\ \/ Phase = "take" /\ Phase' = "append" /\ Locking'
         \/ Phase = "takeFirst" /\ Phase' = "appendFirst" /\ Locking'
  <2>1. CASE Goto(t, "take", "append")
    <3>1. /\ pc[t] = "take" /\ pc'[t] = "append"
          /\ \A u \in Callers \ {t} : pc'[u] = pc[u]
      BY <1>0, <2>1, Zenon DEF Goto, TypeOK, CallerTypeOK
    <3> QED
      BY <1>0, <3>1, PhaseNext, Zenon DEF Idle
  <2>2. CASE Goto(t, "takeFirst", "appendFirst")
    <3>1. /\ pc[t] = "takeFirst" /\ pc'[t] = "appendFirst"
          /\ \A u \in Callers \ {t} : pc'[u] = pc[u]
      BY <1>0, <2>2, Zenon DEF Goto, TypeOK, CallerTypeOK
    <3> QED
      BY <1>0, <3>1, PhaseNext, Zenon DEF Idle
  <2> QED
    BY <1>0, <2>1, <2>2, Zenon
<1>2. nb'[t] = Front
  BY <1>0, TakesFront, Zenon DEF TypeOK, CallerTypeOK
<1>3. nbAvailable' \in Nat /\ nbAvailable' <= nbAvailable
  BY <1>0 DEF TypeOK, RingTypeOK
<1>4. RingIntact' /\ EndOff' = EndOff
  BY <1>0, <1>3, RingKept, Zenon
<1>5. Front' = Front + 1 /\ Front \in Int
  <2>1. EndOff \in Int /\ nbAvailable \in Int
    BY <1>0 DEF EndOff, TypeOK, RingTypeOK, AllocatorTypeOK
  <2> QED
    BY <1>0, <1>4, <2>1 DEF Front
<1>6. AllocatorSees'
  <2>1. activeMetaOff' \in Nat /\ activeMetaOff <= activeMetaOff'
    BY <1>0 DEF TypeOK, SuperTypeOK
  <2> QED
    BY <1>0, <1>3, <2>1, AllocatorUnharmed, Zenon
<1>7. CountedAreWritten' /\ SegmentsFull' /\ RemapFinds'
  BY <1>0, FileKept, Zenon
<1>8. Position'
  BY <1>0, <1>1, Zenon DEF IndInv, Position, SwitchPhases
<1>9. FrontAt'
  BY <1>0, <1>1, <1>2, <1>5, Zenon DEF IndInv, FrontAt, FirstPhases
<1>10. Counters'
  BY Zenon, <1>0, <1>1
  DEF IndInv, Counters, SamePhases, NewMetaPhases, FirstPhases, SwitchPhases
<1>11. Entries'
  BY <1>0, <1>1, Zenon DEF IndInv, Entries, FirstPhases
<1>12. FreedAt'
  BY <1>0, <1>1, Zenon DEF IndInv, FreedAt, SwitchPhases
<1>13. HandedBelow'
  BY <1>0, <1>5 DEF IndInv, HandedBelow, TypeOK, CallerTypeOK
<1> QED
  BY <1>1, <1>4, <1>6, <1>7, <1>8, <1>9, <1>10, <1>11, <1>12, <1>13, Zenon DEF IndInv

\* new_block writes the entry of the block.
LEMMA AppendEntryStep ==
  ASSUME IndInv, NEW t \in Callers, AppendEntry(t), UNCHANGED allocatorVars,
         process = "running", TypeOK'
  PROVE  IndInv'
<1> USE DEF AppendEntry, dramVars, ringVars
<1>0. /\ TypeOK /\ Locking
      /\ UNCHANGED <<nbs, nbCount, nbAvailable, activeMeta, activeMetaNum, activeMetaOff,
                     counter, freed, metaOff, pmCounter, superNum, lock2, arg, nb, handed,
                     process>>
  BY Zenon DEF IndInv
<1>1. /\ lock2 = t /\ Locking'
      /\ \/ pc[t] = "append" /\ Phase = "append" /\ Phase' = "count"
         \/ pc[t] = "appendFirst" /\ Phase = "appendFirst" /\ Phase' = "countFirst"
  <2>1. CASE Goto(t, "append", "count")
    <3>1. /\ pc[t] = "append" /\ pc'[t] = "count"
          /\ \A u \in Callers \ {t} : pc'[u] = pc[u]
      BY <1>0, <2>1, Zenon DEF Goto, TypeOK, CallerTypeOK
    <3> QED
      BY <1>0, <3>1, PhaseNext, Zenon DEF Idle
  <2>2. CASE Goto(t, "appendFirst", "countFirst")
    <3>1. /\ pc[t] = "appendFirst" /\ pc'[t] = "countFirst"
          /\ \A u \in Callers \ {t} : pc'[u] = pc[u]
      BY <1>0, <2>2, Zenon DEF Goto, TypeOK, CallerTypeOK
    <3> QED
      BY <1>0, <3>1, PhaseNext, Zenon DEF Idle
  <2> QED
    BY <2>1, <2>2, Zenon
<1>2. nbAvailable' \in Nat /\ nbAvailable' <= nbAvailable
  BY <1>0 DEF TypeOK, RingTypeOK
<1>3. RingIntact' /\ EndOff' = EndOff
  BY <1>0, <1>2, RingKept, Zenon
<1>4. AllocatorSees'
  <2>1. activeMetaOff' \in Nat /\ activeMetaOff <= activeMetaOff'
    BY <1>0 DEF TypeOK, SuperTypeOK
  <2> QED
    BY <1>0, <1>2, <2>1, AllocatorUnharmed, Zenon
<1>5. /\ superNum \in Segs /\ activeMeta = superNum /\ activeMetaNum = superNum
      /\ superNum \in Nat /\ superNum # superNum + 1
      /\ Phase = "appendFirst" => superNum + 1 \in Segs
  <2>1. superNum \in Segs
    BY <1>0, Zenon DEF TypeOK, FileTypeOK
  <2>2. superNum \in Nat /\ superNum # superNum + 1
    <3> HIDE DEF AppendEntry
    <3> QED
      BY <2>1, SMTT(30) DEF Segs
  <2>3. activeMeta = superNum /\ activeMetaNum = superNum
    <3>1. Position
      BY Zenon DEF IndInv
    <3> QED
      BY <1>1, <3>1, Zenon DEF Position, SwitchPhases
  <2>4. Phase = "appendFirst" => superNum + 1 \in Segs
    BY <1>1, <2>3, NextMetaInRange, Zenon DEF NewMetaPhases, FirstPhases
  <2> QED
    BY <2>1, <2>2, <2>3, <2>4, Zenon
<1>6. /\ Phase = "append" =>
           /\ btm'[superNum][counter[superNum]] = arg[t]
           /\ counter[superNum] = pmCounter[superNum]
           /\ \A n \in Segs, j \in 0..(MaxPerSeg - 1) :
                n # superNum \/ j # counter[superNum] => btm'[n][j] = btm[n][j]
      /\ Phase = "appendFirst" =>
           /\ btm'[superNum + 1][0] = arg[t]
           /\ \A n \in Segs, j \in 0..(MaxPerSeg - 1) :
                n # superNum + 1 => btm'[n][j] = btm[n][j]
  <2>1. CASE Phase = "append"
    <3>1. btm' = [btm EXCEPT ![superNum][counter[superNum]] = arg[t]]
      BY <1>1, <1>5, <2>1, Zenon DEF Target
    <3>2. counter[superNum] = pmCounter[superNum] /\ counter[superNum] \in 0..(MaxPerSeg - 1)
      BY <1>0, <1>5, <2>1, SizeAssumption
      DEF IndInv, Counters, SamePhases, TypeOK, SuperTypeOK
    <3>3. /\ btm'[superNum] = [btm[superNum] EXCEPT ![counter[superNum]] = arg[t]]
          /\ \A n \in Segs : n # superNum => btm'[n] = btm[n]
      BY <1>0, <1>5, <3>1, Zenon DEF TypeOK, FileTypeOK
    <3>4. btm[superNum] \in [0..(MaxPerSeg - 1) -> VBlocks \cup {NoBlock, OldEntry}]
      BY <1>0, <1>5, Zenon DEF TypeOK, FileTypeOK
    <3> HIDE DEF AppendEntry
    <3>5. btm'[superNum][counter[superNum]] = arg[t]
      BY <3>2, <3>3, <3>4, Zenon
    <3>6. \A j \in 0..(MaxPerSeg - 1) : j # counter[superNum] =>
            btm'[superNum][j] = btm[superNum][j]
      BY <3>2, <3>3, <3>4, Zenon
    <3>7. \A n \in Segs, j \in 0..(MaxPerSeg - 1) :
            n # superNum \/ j # counter[superNum] => btm'[n][j] = btm[n][j]
      <4> TAKE n \in Segs, j \in 0..(MaxPerSeg - 1)
      <4>1. CASE n = superNum
        BY <4>1, <3>6, Zenon
      <4>2. CASE n # superNum
        <5>1. btm'[n] = btm[n]
          BY <4>2, <3>3, Zenon
        <5> QED
          BY <5>1, Zenon
      <4> QED
        BY <4>1, <4>2, Zenon
    <3>8. Phase # "appendFirst"
      BY <2>1, Zenon
    <3> QED
      BY <3>2, <3>5, <3>7, <3>8, Zenon
  <2>2. CASE Phase = "appendFirst"
    <3>1. counter[superNum + 1] = 0 /\ 0 \in 0..(MaxPerSeg - 1)
      BY <2>2, SizeAssumption DEF IndInv, Counters
    <3>2. btm' = [btm EXCEPT ![superNum + 1][0] = arg[t]]
      BY <1>1, <1>5, <2>2, <3>1, Zenon DEF Target
    <3>3. /\ btm'[superNum + 1] = [btm[superNum + 1] EXCEPT ![0] = arg[t]]
          /\ \A n \in Segs : n # superNum + 1 => btm'[n] = btm[n]
      BY <1>0, <1>5, <2>2, <3>2, Zenon DEF TypeOK, FileTypeOK
    <3>4. btm[superNum + 1] \in [0..(MaxPerSeg - 1) -> VBlocks \cup {NoBlock, OldEntry}]
      BY <1>0, <1>5, <2>2, Zenon DEF TypeOK, FileTypeOK
    <3> HIDE DEF AppendEntry
    <3>5. btm'[superNum + 1][0] = arg[t]
      <4>1. DOMAIN btm[superNum + 1] = 0..(MaxPerSeg - 1)
        BY <3>4, Zenon
      <4>2. 0 \in DOMAIN btm[superNum + 1]
        BY <3>1, <4>1, Zenon
      <4> QED
        BY <3>3, <4>2, Zenon
    <3> QED
      BY <2>2, <3>1, <3>3, <3>5, Zenon
  <2> QED
    BY <1>1, <2>1, <2>2, Zenon
<1>7. \A n \in 0..superNum, j \in 0..(MaxPerSeg - 1) :
        j < pmCounter[n] => btm'[n][j] = btm[n][j]
  <2>1. \A n \in 0..superNum : n \in Segs /\ n # superNum + 1
    BY <1>5, SizeAssumption DEF Segs
  <2>2. pmCounter[superNum] \in Nat /\ \A j \in 0..(MaxPerSeg - 1) :
          j < pmCounter[superNum] => j # pmCounter[superNum]
    BY <1>0, <1>5, SizeAssumption DEF TypeOK, FileTypeOK
  <2> QED
    BY <1>1, <1>6, <2>1, <2>2, Zenon
<1>8. Position'
  BY <1>0, <1>1, Zenon DEF IndInv, Position, SwitchPhases
<1>9. FrontAt'
  BY <1>0, <1>1, <1>3, Zenon DEF IndInv, FrontAt, Front, FirstPhases
<1>10. Counters'
  BY Zenon, <1>0, <1>1
  DEF IndInv, Counters, SamePhases, NewMetaPhases, FirstPhases, SwitchPhases
<1>11. Entries'
  BY <1>0, <1>1, <1>6, Zenon DEF IndInv, Entries, FirstPhases
<1>12. FreedAt'
  BY <1>0, <1>1, Zenon DEF IndInv, FreedAt, SwitchPhases
<1>13. HandedBelow'
  BY <1>0, <1>3, Zenon DEF IndInv, HandedBelow, Front
<1>14. CountedAreWritten'
  BY <1>0, <1>7, Zenon DEF IndInv, CountedAreWritten
<1>15. SegmentsFull'
  BY <1>0, Zenon DEF IndInv, SegmentsFull
<1>16. RemapFinds'
  BY <1>0, <1>7 DEF IndInv, RemapFinds
<1> QED
  BY Zenon, <1>1, <1>3, <1>4, <1>8, <1>9, <1>10, <1>11, <1>12, <1>13, <1>14, <1>15, <1>16
  DEF IndInv

\* new_block counts the entry.
LEMMA CountEntryStep ==
  ASSUME IndInv, NEW t \in Callers, CountEntry(t), UNCHANGED allocatorVars,
         process = "running", TypeOK'
  PROVE  IndInv'
<1> USE DEF CountEntry, ringVars
<1>0. /\ TypeOK /\ Locking
      /\ UNCHANGED <<nbs, nbCount, nbAvailable, activeMeta, activeMetaNum, activeMetaOff,
                     freed, metaOff, btm, superNum, lock2, arg, nb, handed, process>>
  BY Zenon DEF IndInv
<1>1. /\ lock2 = t /\ Locking'
      /\ \/ pc[t] = "count" /\ Phase = "count" /\ Phase' = "return"
         \/ pc[t] = "countFirst" /\ Phase = "countFirst" /\ Phase' = "freeOld"
  <2>1. CASE Goto(t, "count", "return")
    <3>1. /\ pc[t] = "count" /\ pc'[t] = "return"
          /\ \A u \in Callers \ {t} : pc'[u] = pc[u]
      BY <1>0, <2>1, Zenon DEF Goto, TypeOK, CallerTypeOK
    <3> QED
      BY <1>0, <3>1, PhaseNext, Zenon DEF Idle
  <2>2. CASE Goto(t, "countFirst", "freeOld")
    <3>1. /\ pc[t] = "countFirst" /\ pc'[t] = "freeOld"
          /\ \A u \in Callers \ {t} : pc'[u] = pc[u]
      BY <1>0, <2>2, Zenon DEF Goto, TypeOK, CallerTypeOK
    <3> QED
      BY <1>0, <3>1, PhaseNext, Zenon DEF Idle
  <2> QED
    BY <2>1, <2>2, Zenon
<1>2. nbAvailable' \in Nat /\ nbAvailable' <= nbAvailable
  BY <1>0 DEF TypeOK, RingTypeOK
<1>3. RingIntact' /\ EndOff' = EndOff
  BY <1>0, <1>2, RingKept, Zenon
<1>4. AllocatorSees'
  <2>1. activeMetaOff' \in Nat /\ activeMetaOff <= activeMetaOff'
    BY <1>0 DEF TypeOK, SuperTypeOK
  <2> QED
    BY <1>0, <1>2, <2>1, AllocatorUnharmed, Zenon
<1>5. /\ superNum \in Segs /\ activeMeta = superNum /\ activeMetaNum = superNum
      /\ superNum \in Nat /\ superNum # superNum + 1
  BY <1>0, <1>1 DEF IndInv, Position, SwitchPhases, TypeOK, FileTypeOK, Segs
<1>6. \A n \in 0..superNum : n \in Segs /\ n # superNum + 1
  BY <1>5, SizeAssumption DEF Segs
<1>7. Position'
  BY <1>0, <1>1, Zenon DEF IndInv, Position, SwitchPhases
<1>8. FreedAt'
  BY <1>0, <1>1, Zenon DEF IndInv, FreedAt, SwitchPhases
<1>9. HandedBelow'
  BY <1>0, <1>3, Zenon DEF IndInv, HandedBelow, Front
<1>10. CASE Phase = "count"
  <2>1. Target(t) = superNum /\ Phase' = "return"
    BY <1>1, <1>5, <1>10, Zenon DEF Target
  <2>2. /\ counter[superNum] \in 0..(MaxPerSeg - 1) /\ pmCounter[superNum] = counter[superNum]
        /\ btm[superNum][counter[superNum]] = arg[t]
        /\ nb[t] = MetaPos(superNum) + 1 + counter[superNum]
        /\ Front = nb[t] + 1
    <3>1. Counters /\ Entries /\ FrontAt
      BY Zenon DEF IndInv
    <3>2. counter[superNum] \in 0..MaxPerSeg
      BY <1>0, <1>5, Zenon DEF TypeOK, SuperTypeOK
    <3>3. counter[superNum] < MaxPerSeg /\ pmCounter[superNum] = counter[superNum]
      BY <1>10, <3>1, Zenon DEF Counters, SamePhases
    <3> HIDE DEF CountEntry
    <3>4. counter[superNum] \in 0..(MaxPerSeg - 1)
      BY <3>2, <3>3, SizeAssumption, SMTT(30)
    <3>5. btm[superNum][counter[superNum]] = arg[t]
      BY <1>1, <1>10, <3>1, Zenon DEF Entries
    <3>6. nb[t] = MetaPos(superNum) + 1 + counter[superNum] /\ Front = nb[t] + 1
      BY <1>1, <1>10, <3>1, Zenon DEF FrontAt
    <3> QED
      BY <3>3, <3>4, <3>5, <3>6, Zenon
  <2>a. counter[superNum] \in Nat
    <3>1. counter[superNum] \in 0..(MaxPerSeg - 1)
      BY <2>2, Zenon
    <3> HIDE DEF CountEntry
    <3> QED
      BY <3>1, SMTT(30)
  <2>b. counter'[superNum] = counter[superNum] + 1
    BY <1>0, <1>5, <2>1, Zenon DEF TypeOK, SuperTypeOK
  <2>c. pmCounter'[superNum] = counter[superNum] + 1
    <3>1. pmCounter[superNum] = counter[superNum]
      BY <2>2, Zenon
    <3>2. pmCounter'[superNum] = pmCounter[superNum] + 1
      BY <1>0, <1>5, <2>1, Zenon DEF TypeOK, FileTypeOK
    <3> QED
      BY <3>1, <3>2, Zenon
  <2>3. \A n \in Segs : n # superNum => pmCounter'[n] = pmCounter[n]
    BY <1>0, <1>5, <2>1, Zenon DEF TypeOK, FileTypeOK
  <2>4. MetaPos(superNum) \in Nat
    BY <1>5, LayoutNext, Zenon
  <2> HIDE DEF CountEntry
  <2>5. FrontAt'
    <3>1. Front' = Front /\ nb' = nb /\ lock2' = t /\ superNum' = superNum
      BY <1>0, <1>1, <1>3, Zenon DEF Front
    <3>2. Front = MetaPos(superNum) + 1 + (counter[superNum] + 1)
      BY <2>2, <2>a, <2>4, SMTT(30)
    <3>3. nb[t] = MetaPos(superNum) + (counter[superNum] + 1) /\ counter[superNum] + 1 > 0
      BY <2>2, <2>a, <2>4, SMTT(30)
    <3> QED
      BY <2>1, <2>b, <3>1, <3>2, <3>3, Zenon DEF FrontAt, FirstPhases
  <2>6. Counters'
    BY <1>0, <2>1, <2>b, <2>c, Zenon DEF Counters, SamePhases, NewMetaPhases, FirstPhases, SwitchPhases
  <2>7. Entries'
    <3>1. counter'[superNum] - 1 = counter[superNum]
      BY <2>a, <2>b
    <3> QED
      BY <1>0, <1>1, <2>1, <2>2, <3>1, Zenon DEF IndInv, Entries, FirstPhases
  <2>8. CountedAreWritten'
    <3> SUFFICES ASSUME NEW n \in 0..superNum, NEW j \in 0..(MaxPerSeg - 1), j < pmCounter'[n]
                 PROVE  btm[n][j] # NoBlock
      BY <1>0, Zenon DEF CountedAreWritten
    <3>1. CASE n = superNum /\ j = counter[superNum]
      <4>1. arg[t] \in VBlocks
        BY <1>0, <1>1, Zenon DEF Locking, Idle
      <4> QED
        BY <2>2, <3>1, <4>1, EntryAssumption, Zenon
    <3>2. CASE n = superNum /\ j # counter[superNum]
      <4>1. pmCounter[superNum] = counter[superNum]
        BY <2>2, Zenon
      <4>2. j < pmCounter[n]
        BY <2>a, <2>c, <3>2, <4>1
      <4> QED
        BY <4>2, Zenon DEF IndInv, CountedAreWritten
    <3>3. CASE n # superNum
      <4>1. j < pmCounter[n]
        BY <1>6, <2>3, <3>3, Zenon
      <4> QED
        BY <4>1, Zenon DEF IndInv, CountedAreWritten
    <3> QED
      BY <3>1, <3>2, <3>3, Zenon
  <2>9. SegmentsFull'
    <3>1. superNum > 0 => pmCounter'[superNum] > 0
      BY <2>a, <2>c
    <3>2. \A n \in Segs : n < superNum => n # superNum
      BY <1>5, SizeAssumption DEF Segs
    <3> QED
      BY <1>0, <2>3, <3>1, <3>2, Zenon DEF IndInv, SegmentsFull
  <2>10. RemapFinds'
    <3>1. \A n \in 0..superNum, j \in 0..(MaxPerSeg - 1) :
            j < pmCounter[n] => j < pmCounter'[n]
      <4>1. pmCounter[superNum] = counter[superNum]
        BY <2>2, Zenon
      <4>2. \A n \in 0..superNum : n # superNum => pmCounter'[n] = pmCounter[n]
        BY <1>6, <2>3, Zenon
      <4> QED
        BY <2>a, <2>c, <4>1, <4>2
    <3> QED
      BY <1>0, <3>1, Zenon DEF IndInv, RemapFinds
  <2> QED
    BY <1>1, <1>3, <1>4, <1>7, <1>8, <1>9, <2>5, <2>6, <2>7, <2>8, <2>9, <2>10, Zenon DEF IndInv
<1>11. CASE Phase = "countFirst"
  <2>1. Target(t) = superNum + 1 /\ Phase' = "freeOld" /\ superNum + 1 \in Segs
    BY <1>0, <1>1, <1>5, <1>11, NextMetaInRange, Zenon DEF Target, NewMetaPhases, FirstPhases
  <2>2. counter[superNum + 1] = 0 /\ pmCounter[superNum + 1] = 0
    BY <1>11, Zenon DEF IndInv, Counters
  <2>3. /\ counter'[superNum + 1] = 1 /\ pmCounter'[superNum + 1] = 1
        /\ \A n \in Segs : n # superNum + 1 =>
             pmCounter'[n] = pmCounter[n] /\ counter'[n] = counter[n]
    <3> DEFINE m == superNum + 1
    <3>1. m \in Segs /\ counter[m] = 0 /\ pmCounter[m] = 0 /\ Target(t) = m
      BY <2>1, <2>2, Zenon
    <3> HIDE DEF m
    <3>2. counter'[m] = 1 /\ \A n \in Segs : n # m => counter'[n] = counter[n]
      BY <1>0, <3>1 DEF TypeOK, SuperTypeOK
    <3>3. pmCounter'[m] = 1 /\ \A n \in Segs : n # m => pmCounter'[n] = pmCounter[n]
      BY <1>0, <3>1 DEF TypeOK, FileTypeOK
    <3> QED
      BY <3>2, <3>3, Zenon DEF m
  <2> HIDE DEF CountEntry
  <2>4. FrontAt'
    BY <1>0, <1>1, <1>3, <1>11, <2>1, Zenon DEF IndInv, FrontAt, Front, FirstPhases
  <2>5. Counters'
    BY Zenon, <1>0, <1>5, <1>11, <2>1, <2>3
    DEF IndInv, Counters, SamePhases, NewMetaPhases, FirstPhases, SwitchPhases
  <2>6. Entries'
    BY <1>0, <1>1, <1>11, <2>1, Zenon DEF IndInv, Entries, FirstPhases
  <2>7. CountedAreWritten'
    BY <1>0, <1>6, <2>3, Zenon DEF IndInv, CountedAreWritten
  <2>8. SegmentsFull'
    <3>1. \A n \in Segs : n < superNum => n # superNum + 1
      BY <1>5, SizeAssumption DEF Segs
    <3> QED
      BY <1>0, <1>5, <2>3, <3>1, Zenon DEF IndInv, SegmentsFull
  <2>9. RemapFinds'
    BY <1>0, <1>6, <2>3 DEF IndInv, RemapFinds
  <2> QED
    BY <1>1, <1>3, <1>4, <1>7, <1>8, <1>9, <2>4, <2>5, <2>6, <2>7, <2>8, <2>9, Zenon DEF IndInv
<1> QED
  BY <1>1, <1>10, <1>11, Zenon

\* new_block frees the struct Meta of the full meta block.
LEMMA FreeOldMetaStep ==
  ASSUME IndInv, NEW t \in Callers, FreeOldMeta(t), UNCHANGED allocatorVars,
         process = "running", TypeOK'
  PROVE  IndInv'
<1> USE DEF FreeOldMeta, dramVars, pmVars, ringVars
<1>0. /\ TypeOK /\ Locking /\ Goto(t, "freeOld", "swap")
      /\ UNCHANGED <<nbs, nbCount, nbAvailable, activeMeta, activeMetaNum, activeMetaOff, counter,
                     pmVars, lock2, arg, nb, handed, process>>
  BY Zenon DEF IndInv
<1>1. lock2 = t /\ pc[t] = "freeOld" /\ Phase = "freeOld" /\ Phase' = "swap" /\ Locking'
  <2>1. /\ pc[t] = "freeOld" /\ pc'[t] = "swap"
        /\ \A u \in Callers \ {t} : pc'[u] = pc[u]
    BY <1>0, Zenon DEF Goto, TypeOK, CallerTypeOK
  <2> QED
    BY <1>0, <2>1, PhaseNext, Zenon DEF Idle
<1>2. nbAvailable' \in Nat /\ nbAvailable' <= nbAvailable
  BY <1>0 DEF TypeOK, RingTypeOK
<1>3. RingIntact' /\ EndOff' = EndOff
  BY <1>0, <1>2, RingKept, Zenon
<1>4. AllocatorSees'
  <2>1. activeMetaOff' \in Nat /\ activeMetaOff <= activeMetaOff'
    BY <1>0 DEF TypeOK, SuperTypeOK
  <2> QED
    BY <1>0, <1>2, <2>1, AllocatorUnharmed, Zenon
<1>5. CountedAreWritten' /\ SegmentsFull' /\ RemapFinds'
  BY <1>0, FileKept, Zenon
<1>6. activeMeta = superNum
  BY <1>1, Zenon DEF IndInv, Position, SwitchPhases
<1>7. Position'
  BY <1>0, <1>1, Zenon DEF IndInv, Position, SwitchPhases
<1>8. FrontAt'
  BY <1>0, <1>1, <1>3, Zenon DEF IndInv, FrontAt, Front, FirstPhases
<1>9. Counters'
  BY Zenon, <1>0, <1>1
  DEF IndInv, Counters, SamePhases, NewMetaPhases, FirstPhases, SwitchPhases
<1>10. Entries'
  BY <1>0, <1>1, Zenon DEF IndInv, Entries, FirstPhases
<1>11. FreedAt'
  BY <1>0, <1>1, <1>6, Zenon DEF IndInv, FreedAt, SwitchPhases
<1>12. HandedBelow'
  BY <1>0, <1>3, Zenon DEF IndInv, HandedBelow, Front
<1> QED
  BY <1>1, <1>3, <1>4, <1>5, <1>7, <1>8, <1>9, <1>10, <1>11, <1>12, Zenon DEF IndInv

\* new_block switches struct Super to the new struct Meta.
LEMMA SwapMetaStep ==
  ASSUME IndInv, NEW t \in Callers, SwapMeta(t), UNCHANGED allocatorVars,
         process = "running", TypeOK'
  PROVE  IndInv'
<1> USE DEF SwapMeta, dramVars, pmVars, ringVars
<1>0. /\ TypeOK /\ Locking /\ Goto(t, "swap", "bumpNum")
      /\ UNCHANGED <<nbs, nbCount, nbAvailable, activeMetaNum, activeMetaOff, counter, freed,
                     pmVars, lock2, arg, nb, handed, process>>
  BY Zenon DEF IndInv
<1>1. lock2 = t /\ pc[t] = "swap" /\ Phase = "swap" /\ Phase' = "bumpNum" /\ Locking'
  <2>1. /\ pc[t] = "swap" /\ pc'[t] = "bumpNum"
        /\ \A u \in Callers \ {t} : pc'[u] = pc[u]
    BY <1>0, Zenon DEF Goto, TypeOK, CallerTypeOK
  <2> QED
    BY <1>0, <2>1, PhaseNext, Zenon DEF Idle
<1>2. nbAvailable' \in Nat /\ nbAvailable' <= nbAvailable
  BY <1>0 DEF TypeOK, RingTypeOK
<1>3. RingIntact' /\ EndOff' = EndOff
  BY <1>0, <1>2, RingKept, Zenon
<1>4. AllocatorSees'
  <2>1. activeMetaOff' \in Nat /\ activeMetaOff <= activeMetaOff'
    BY <1>0 DEF TypeOK, SuperTypeOK
  <2>2. activeMeta \in freed'
    BY <1>0, <1>1, Zenon DEF IndInv, Position, FreedAt, SwitchPhases
  <2> QED
    BY <1>0, <1>2, <2>1, <2>2, AllocatorUnharmed, Zenon
<1>5. CountedAreWritten' /\ SegmentsFull' /\ RemapFinds'
  BY <1>0, FileKept, Zenon
<1>6. activeMetaNum = superNum
  BY <1>1, Zenon DEF IndInv, Position
<1>7. Position'
  BY <1>0, <1>1, <1>6, Zenon DEF IndInv, Position, SwitchPhases
<1>8. FrontAt'
  BY <1>0, <1>1, <1>3, Zenon DEF IndInv, FrontAt, Front, FirstPhases
<1>9. Counters'
  BY Zenon, <1>0, <1>1
  DEF IndInv, Counters, SamePhases, NewMetaPhases, FirstPhases, SwitchPhases
<1>10. Entries'
  BY <1>0, <1>1, Zenon DEF IndInv, Entries, FirstPhases
<1>11. FreedAt'
  BY <1>0, <1>1, Zenon DEF IndInv, FreedAt, SwitchPhases
<1>12. HandedBelow'
  BY <1>0, <1>3, Zenon DEF IndInv, HandedBelow, Front
<1> QED
  BY <1>1, <1>3, <1>4, <1>5, <1>7, <1>8, <1>9, <1>10, <1>11, <1>12, Zenon DEF IndInv

\* new_block counts the new meta block.
LEMMA BumpMetaNumStep ==
  ASSUME IndInv, NEW t \in Callers, BumpMetaNum(t), UNCHANGED allocatorVars,
         process = "running", TypeOK'
  PROVE  IndInv'
<1> USE DEF BumpMetaNum, dramVars, pmVars, ringVars
<1>0. /\ TypeOK /\ Locking /\ Goto(t, "bumpNum", "moveOff")
      /\ UNCHANGED <<nbs, nbCount, nbAvailable, activeMeta, activeMetaOff, counter, freed,
                     pmVars, lock2, arg, nb, handed, process>>
  BY Zenon DEF IndInv
<1>1. lock2 = t /\ pc[t] = "bumpNum" /\ Phase = "bumpNum" /\ Phase' = "moveOff" /\ Locking'
  <2>1. /\ pc[t] = "bumpNum" /\ pc'[t] = "moveOff"
        /\ \A u \in Callers \ {t} : pc'[u] = pc[u]
    BY <1>0, Zenon DEF Goto, TypeOK, CallerTypeOK
  <2> QED
    BY <1>0, <2>1, PhaseNext, Zenon DEF Idle
<1>2. nbAvailable' \in Nat /\ nbAvailable' <= nbAvailable
  BY <1>0 DEF TypeOK, RingTypeOK
<1>3. RingIntact' /\ EndOff' = EndOff
  BY <1>0, <1>2, RingKept, Zenon
<1>4. AllocatorSees'
  <2>1. activeMetaOff' \in Nat /\ activeMetaOff <= activeMetaOff'
    BY <1>0 DEF TypeOK, SuperTypeOK
  <2> QED
    BY <1>0, <1>2, <2>1, AllocatorUnharmed, Zenon
<1>5. CountedAreWritten' /\ SegmentsFull' /\ RemapFinds'
  BY <1>0, FileKept, Zenon
<1>6. activeMetaNum = superNum
  BY <1>1, Zenon DEF IndInv, Position
<1>7. Position'
  BY <1>0, <1>1, <1>6, Zenon DEF IndInv, Position, SwitchPhases
<1>8. FrontAt'
  BY <1>0, <1>1, <1>3, Zenon DEF IndInv, FrontAt, Front, FirstPhases
<1>9. Counters'
  BY Zenon, <1>0, <1>1
  DEF IndInv, Counters, SamePhases, NewMetaPhases, FirstPhases, SwitchPhases
<1>10. Entries'
  BY <1>0, <1>1, Zenon DEF IndInv, Entries, FirstPhases
<1>11. FreedAt'
  BY <1>0, <1>1, Zenon DEF IndInv, FreedAt, SwitchPhases
<1>12. HandedBelow'
  BY <1>0, <1>3, Zenon DEF IndInv, HandedBelow, Front
<1> QED
  BY <1>1, <1>3, <1>4, <1>5, <1>7, <1>8, <1>9, <1>10, <1>11, <1>12, Zenon DEF IndInv

\* new_block moves the offset of the active meta block.
LEMMA MoveMetaOffStep ==
  ASSUME IndInv, NEW t \in Callers, MoveMetaOff(t), UNCHANGED allocatorVars,
         process = "running", TypeOK'
  PROVE  IndInv'
<1> USE DEF MoveMetaOff, dramVars, pmVars, ringVars
<1>0. /\ TypeOK /\ Locking /\ Goto(t, "moveOff", "super")
      /\ UNCHANGED <<nbs, nbCount, nbAvailable, activeMeta, activeMetaNum, counter, freed,
                     pmVars, lock2, arg, nb, handed, process>>
  BY Zenon DEF IndInv
<1>1. lock2 = t /\ pc[t] = "moveOff" /\ Phase = "moveOff" /\ Phase' = "super" /\ Locking'
  <2>1. /\ pc[t] = "moveOff" /\ pc'[t] = "super"
        /\ \A u \in Callers \ {t} : pc'[u] = pc[u]
    BY <1>0, Zenon DEF Goto, TypeOK, CallerTypeOK
  <2> QED
    BY <1>0, <2>1, PhaseNext, Zenon DEF Idle
<1>2. nbAvailable' \in Nat /\ nbAvailable' <= nbAvailable
  BY <1>0 DEF TypeOK, RingTypeOK
<1>3. RingIntact' /\ EndOff' = EndOff
  BY <1>0, <1>2, RingKept, Zenon
<1>4. AllocatorSees'
  <2>1. activeMetaNum = superNum + 1 /\ activeMetaOff = MetaPos(superNum) /\ superNum \in Nat
    BY <1>0, <1>1, SizeAssumption DEF IndInv, Position, TypeOK, FileTypeOK, Segs
  <2>2. activeMetaOff' = MetaPos(superNum) + MaxPerSeg + 1 /\ MetaPos(superNum) \in Nat
    BY <2>1, LayoutNext, Zenon
  <2>3. activeMetaOff' \in Nat /\ activeMetaOff <= activeMetaOff'
    BY <2>1, <2>2, SizeAssumption
  <2> QED
    BY <1>0, <1>2, <2>3, AllocatorUnharmed, Zenon
<1>5. CountedAreWritten' /\ SegmentsFull' /\ RemapFinds'
  BY <1>0, FileKept, Zenon
<1>6. activeMetaNum = superNum + 1
  BY <1>1, Zenon DEF IndInv, Position
<1>7. Position'
  BY <1>0, <1>1, <1>6, Zenon DEF IndInv, Position, SwitchPhases
<1>8. FrontAt'
  BY <1>0, <1>1, <1>3, Zenon DEF IndInv, FrontAt, Front, FirstPhases
<1>9. Counters'
  BY Zenon, <1>0, <1>1
  DEF IndInv, Counters, SamePhases, NewMetaPhases, FirstPhases, SwitchPhases
<1>10. Entries'
  BY <1>0, <1>1, Zenon DEF IndInv, Entries, FirstPhases
<1>11. FreedAt'
  BY <1>0, <1>1, Zenon DEF IndInv, FreedAt, SwitchPhases
<1>12. HandedBelow'
  BY <1>0, <1>3, Zenon DEF IndInv, HandedBelow, Front
<1> QED
  BY <1>1, <1>3, <1>4, <1>5, <1>7, <1>8, <1>9, <1>10, <1>11, <1>12, Zenon DEF IndInv

\* new_block writes the super block.
LEMMA UpdateSuperStep ==
  ASSUME IndInv, NEW t \in Callers, UpdateSuper(t), UNCHANGED allocatorVars,
         process = "running", TypeOK'
  PROVE  IndInv'
<1> USE DEF UpdateSuper, dramVars, ringVars
<1>0. /\ TypeOK /\ Locking /\ Goto(t, "super", "return") /\ superNum' = activeMetaNum
      /\ UNCHANGED <<nbs, nbCount, nbAvailable, dramVars, metaOff, btm, pmCounter,
                     lock2, arg, nb, handed, process>>
  BY Zenon DEF IndInv
<1>1. lock2 = t /\ pc[t] = "super" /\ Phase = "super" /\ Phase' = "return" /\ Locking'
  <2>1. /\ pc[t] = "super" /\ pc'[t] = "return"
        /\ \A u \in Callers \ {t} : pc'[u] = pc[u]
    BY <1>0, Zenon DEF Goto, TypeOK, CallerTypeOK
  <2> QED
    BY <1>0, <2>1, PhaseNext, Zenon DEF Idle
<1>2. nbAvailable' \in Nat /\ nbAvailable' <= nbAvailable
  BY <1>0 DEF TypeOK, RingTypeOK
<1>3. RingIntact' /\ EndOff' = EndOff
  BY <1>0, <1>2, RingKept, Zenon
<1>4. AllocatorSees'
  <2>1. activeMetaOff' \in Nat /\ activeMetaOff <= activeMetaOff'
    BY <1>0 DEF TypeOK, SuperTypeOK
  <2> QED
    BY <1>0, <1>2, <2>1, AllocatorUnharmed, Zenon
<1>5. /\ activeMeta = superNum + 1 /\ activeMetaNum = superNum + 1
      /\ activeMetaOff = MetaPos(superNum + 1) /\ superNum \in Nat /\ superNum' = superNum + 1
      /\ MetaPos(superNum + 1) \in Nat
  <2>1. /\ activeMeta = superNum + 1 /\ activeMetaNum = superNum + 1
        /\ activeMetaOff = MetaPos(superNum + 1) /\ superNum \in Nat
    BY <1>0, <1>1, SizeAssumption DEF IndInv, Position, SwitchPhases, TypeOK, FileTypeOK, Segs
  <2>2. MetaPos(superNum + 1) \in Nat
    BY <2>1, LayoutNext
  <2> QED
    BY <1>0, <2>1, <2>2, Zenon
<1>6. /\ counter[superNum + 1] = 1 /\ pmCounter[superNum + 1] = 1
      /\ btm[superNum + 1][0] = arg[t] /\ arg[t] \in VBlocks
      /\ metaOff[superNum + 1] = MetaPos(superNum + 1)
      /\ nb[t] = MetaPos(superNum + 1) + 1
      /\ Front = nb[t] + 1
      /\ pmCounter[superNum] = MaxPerSeg
  BY Zenon, <1>0, <1>1
  DEF IndInv, Counters, Entries, FrontAt, FirstPhases, NewMetaPhases, SwitchPhases, Locking, Idle
<1> HIDE DEF UpdateSuper
<1>7. Position'
  BY <1>0, <1>1, <1>5, Zenon DEF Position, SwitchPhases
<1>8. FrontAt'
  BY <1>0, <1>1, <1>3, <1>5, <1>6 DEF FrontAt, Front, FirstPhases
<1>9. Counters'
  BY <1>0, <1>1, <1>5, <1>6, Zenon DEF Counters, SamePhases, NewMetaPhases, FirstPhases, SwitchPhases
<1>10. \A n \in 0..(superNum + 1) : n \in 0..superNum \/ n = superNum + 1
  BY <1>5
<1>11. Entries'
  BY <1>0, <1>1, <1>5, <1>6, <1>10 DEF IndInv, Entries, FirstPhases
<1>12. FreedAt'
  <2>1. \A s \in freed : s < superNum + 1
    BY <1>0, <1>5, SizeAssumption DEF IndInv, FreedAt, TypeOK, SuperTypeOK, Segs
  <2> QED
    BY <1>0, <1>1, <1>5, <2>1, Zenon DEF FreedAt, SwitchPhases
<1>13. HandedBelow'
  BY <1>0, <1>3, Zenon DEF IndInv, HandedBelow, Front
<1>14. CountedAreWritten'
  <2> SUFFICES ASSUME NEW n \in 0..(superNum + 1), NEW j \in 0..(MaxPerSeg - 1),
                      j < pmCounter[n]
               PROVE  btm[n][j] # NoBlock
    BY <1>0, <1>5, Zenon DEF CountedAreWritten
  <2>1. CASE n \in 0..superNum
    BY <2>1, Zenon DEF IndInv, CountedAreWritten
  <2>2. CASE n = superNum + 1
    <3>1. j = 0
      BY <1>6, <2>2, SizeAssumption
    <3> QED
      BY <1>6, <2>2, <3>1, EntryAssumption, Zenon
  <2> QED
    BY <1>10, <2>1, <2>2, Zenon
<1>15. SegmentsFull'
  <2>1. \A n \in Segs : n < superNum + 1 => n < superNum \/ n = superNum
    BY <1>5, SizeAssumption DEF Segs
  <2> QED
    BY <1>0, <1>5, <1>6, <2>1 DEF IndInv, SegmentsFull
<1>16. RemapFinds'
  <2>1. \A n \in 0..superNum : n \in 0..(superNum + 1)
    BY <1>5
  <2> QED
    BY <1>0, <1>5, <2>1, Zenon DEF IndInv, RemapFinds
<1> QED
  BY <1>1, <1>3, <1>4, <1>7, <1>8, <1>9, <1>11, <1>12, <1>13, <1>14, <1>15, <1>16, Zenon DEF IndInv

\* new_block returns the block.
LEMMA ReturnStep ==
  ASSUME IndInv, NEW t \in Callers, Return(t), UNCHANGED allocatorVars,
         process = "running", TypeOK'
  PROVE  IndInv'
<1> USE DEF Return, dramVars, pmVars, ringVars
<1>0. /\ TypeOK /\ Locking /\ pc[t] = "return" /\ lock2' = Nobody
      /\ handed' = handed \cup {[off |-> nb[t], vblock |-> arg[t]]}
      /\ UNCHANGED <<nbs, nbCount, nbAvailable, dramVars, pmVars, arg, nb, process>>
  BY Zenon DEF IndInv, Goto
<1>1. lock2 = t /\ Phase = "return"
  BY <1>0, PhaseOf, Zenon DEF Idle
<1>a. Phase' = "none"
  BY <1>0, Zenon DEF Phase
<1>b. Locking'
  <2>1. pc'[t] = Idle /\ \A u \in Callers : u # t => pc'[u] = pc[u]
    BY <1>0, Zenon DEF Goto, TypeOK, CallerTypeOK
  <2> QED
    BY <1>0, <1>1, <2>1, CallerAssumption, Zenon DEF Locking, Nobody
<1> HIDE DEF Return
<1>2. nbAvailable' \in Nat /\ nbAvailable' <= nbAvailable
  BY <1>0 DEF TypeOK, RingTypeOK
<1>3. RingIntact' /\ EndOff' = EndOff
  BY <1>0, <1>2, RingKept, Zenon
<1>4. AllocatorSees'
  <2>1. activeMetaOff' \in Nat /\ activeMetaOff <= activeMetaOff'
    BY <1>0 DEF TypeOK, SuperTypeOK
  <2> QED
    BY <1>0, <1>2, <2>1, AllocatorUnharmed, Zenon
<1>5. /\ superNum \in Segs /\ superNum \in Nat /\ MetaPos(superNum) \in Nat
      /\ counter[superNum] \in 1..MaxPerSeg /\ pmCounter[superNum] = counter[superNum]
      /\ nb[t] = MetaPos(superNum) + counter[superNum]
      /\ btm[superNum][counter[superNum] - 1] = arg[t]
      /\ metaOff[superNum] = MetaPos(superNum)
      /\ Front = MetaPos(superNum) + 1 + counter[superNum]
  <2>1. superNum \in Segs /\ superNum \in Nat
    BY <1>0, SMTT(30) DEF TypeOK, FileTypeOK, Segs
  <2>2. MetaPos(superNum) \in Nat /\ superNum \in 0..superNum
    BY <2>1, LayoutNext
  <2>3. counter[superNum] \in 0..MaxPerSeg
    BY <1>0, <2>1, Zenon DEF TypeOK, SuperTypeOK
  <2>4. Counters /\ Entries /\ FrontAt
    BY <1>0, Zenon DEF IndInv
  <2>5. counter[superNum] \in 1..MaxPerSeg /\ pmCounter[superNum] = counter[superNum]
    <3>1. pmCounter[superNum] = counter[superNum] /\ counter[superNum] > 0
      BY <1>1, <2>4, Zenon DEF Counters, FrontAt
    <3> QED
      BY <2>3, <3>1, SizeAssumption, SMTT(30)
  <2>6. metaOff[superNum] = MetaPos(superNum)
    <3>1. \A n \in 0..superNum : metaOff[n] = MetaPos(n)
      BY <2>4, Zenon DEF Entries
    <3> QED
      BY <2>2, <3>1, Zenon
  <2>7. btm[superNum][counter[superNum] - 1] = arg[t]
    BY <1>1, <2>4, Zenon DEF Entries
  <2>8. /\ nb[t] = MetaPos(superNum) + counter[superNum]
        /\ Front = MetaPos(superNum) + 1 + counter[superNum]
    BY <1>1, <2>4, Zenon DEF FrontAt
  <2> QED
    BY <2>1, <2>2, <2>5, <2>6, <2>7, <2>8, Zenon
<1>6. Position'
  BY <1>0, <1>1, <1>a, Zenon DEF IndInv, Position, SwitchPhases
<1>7. FrontAt'
  BY <1>0, <1>3, <1>a, <1>5, Zenon DEF FrontAt, Front, FirstPhases
<1>8. Counters'
  BY <1>0, <1>a, <1>5, Zenon DEF Counters, SamePhases, NewMetaPhases, FirstPhases, SwitchPhases
<1>9. Entries'
  BY <1>0, <1>a, Zenon DEF IndInv, Entries, FirstPhases
<1>10. FreedAt'
  BY <1>0, <1>1, <1>a, Zenon DEF IndInv, FreedAt, SwitchPhases
<1>11. HandedBelow'
  <2>1. nb[t] < Front
    BY <1>5, SizeAssumption
  <2>2. Front' = Front
    BY <1>0, <1>3, Zenon DEF Front
  <2> QED
    BY <1>0, <2>1, <2>2 DEF IndInv, HandedBelow
<1>12. CountedAreWritten' /\ SegmentsFull'
  BY <1>0, Zenon DEF IndInv, CountedAreWritten, SegmentsFull
<1>13. RemapFinds'
  <2>1. /\ superNum \in 0..superNum /\ counter[superNum] - 1 \in 0..(MaxPerSeg - 1)
        /\ counter[superNum] - 1 < pmCounter[superNum]
        /\ DataPos(superNum, counter[superNum] - 1) = nb[t]
    <3>1. counter[superNum] - 1 \in Nat
      BY <1>5, SizeAssumption
    <3>2. DataPos(superNum, counter[superNum] - 1) = MetaPos(superNum) + 1 + (counter[superNum] - 1)
      BY <1>5, <3>1, LayoutNext, Zenon
    <3> QED
      BY <1>5, <3>1, <3>2, SizeAssumption
  <2> SUFFICES ASSUME NEW h \in handed'
               PROVE  \E n \in 0..superNum :
                        /\ metaOff[n] = MetaPos(n)
                        /\ \E j \in 0..(MaxPerSeg - 1) :
                             /\ j < pmCounter[n]
                             /\ DataPos(n, j) = h.off
                             /\ btm[n][j] = h.vblock
    BY <1>0 DEF RemapFinds
  <2>2. CASE h \in handed
    BY <2>2, Zenon DEF IndInv, RemapFinds
  <2>3. CASE h = [off |-> nb[t], vblock |-> arg[t]]
    BY <1>5, <2>1, <2>3, Zenon
  <2> QED
    BY <1>0, <2>2, <2>3, Zenon
<1> QED
  BY <1>b, <1>3, <1>4, <1>6, <1>7, <1>8, <1>9, <1>10, <1>11, <1>12, <1>13, Zenon DEF IndInv

\* A thread calls new_block.
LEMMA RequestStep ==
  ASSUME IndInv, NEW t \in Callers, NEW v \in VBlocks, Request(t, v), TypeOK'
  PROVE  IndInv'
<1> USE DEF Request, Call, dramVars, pmVars, ringVars
<1>0. /\ TypeOK /\ Locking /\ Goto(t, Idle, "lock") /\ arg' = [arg EXCEPT ![t] = v]
      /\ UNCHANGED <<nbs, nbCount, nbAvailable, dramVars, pmVars, allocatorVars,
                     lock2, nb, handed, process>>
  BY Zenon DEF IndInv
<1>1. /\ pc[t] = Idle /\ pc'[t] = "lock" /\ arg'[t] = v
      /\ \A u \in Callers \ {t} : pc'[u] = pc[u] /\ arg'[u] = arg[u]
  BY <1>0, Zenon DEF Goto, TypeOK, CallerTypeOK
<1>2. lock2 # t /\ Locking'
  BY <1>0, <1>1, Zenon DEF Locking, Idle
<1>3. Phase' = Phase /\ (Phase # "none" => arg'[lock2] = arg[lock2])
  BY <1>0, <1>1, <1>2, Zenon DEF Phase, TypeOK, CallerTypeOK
<1>4. nbAvailable' \in Nat /\ nbAvailable' <= nbAvailable
  BY <1>0 DEF TypeOK, RingTypeOK
<1>5. RingIntact' /\ EndOff' = EndOff
  BY <1>0, <1>4, RingKept, Zenon
<1>6. AllocatorSees'
  <2>1. activeMetaOff' \in Nat /\ activeMetaOff <= activeMetaOff'
    BY <1>0 DEF TypeOK, SuperTypeOK
  <2> QED
    BY <1>0, <1>4, <2>1, AllocatorUnharmed, Zenon
<1>7. CountedAreWritten' /\ SegmentsFull' /\ RemapFinds'
  BY <1>0, FileKept, Zenon
<1>8. Position' /\ FreedAt'
  BY <1>0, <1>3, Zenon DEF IndInv, Position, FreedAt
<1>9. FrontAt' /\ HandedBelow'
  BY <1>0, <1>3, <1>5, Zenon DEF IndInv, FrontAt, HandedBelow, Front
<1>10. Counters'
  BY <1>0, <1>3, Zenon DEF IndInv, Counters
<1>11. Entries'
  BY <1>0, <1>3, Zenon DEF IndInv, Entries, FirstPhases
<1> QED
  BY <1>2, <1>5, <1>6, <1>7, <1>8, <1>9, <1>10, <1>11, Zenon DEF IndInv

\* Every step of new_block_allocator keeps the invariant.
LEMMA AllocateStep ==
    IndInv /\ Allocate /\ TypeOK'
  => IndInv'
(* Arithmetic of the ring and of the layout of a layer.                    *)
(* Two of MaxPreNum successive numbers never share a slot of nbs.          *)
<1>SlotsDiffer.
  ASSUME NEW N \in Nat \ {0}, NEW a \in Int, NEW d \in Int, 0 < d, d < N
  PROVE  a % N # (a - d) % N
  <2> USE <1>SlotsDiffer
  <2> SUFFICES ASSUME a % N = (a - d) % N PROVE FALSE
    BY Zenon
  <2> DEFINE q == a \div N  r == (a - d) \div N
  <2>1. q \in Int /\ r \in Int
    OBVIOUS
  <2>2. a = N * q + (a % N)
    OBVIOUS
  <2>3. a - d = N * r + ((a - d) % N)
    OBVIOUS
  <2>4. d = N * q - N * r
    BY <2>2, <2>3
  <2> HIDE DEF q, r
  <2>5. d = N * (q - r)
    BY <2>4, <2>1
  <2>6. CASE q - r <= 0
    BY <2>5, <2>6, <2>1
  <2>7. CASE q - r >= 1
    BY <2>5, <2>7, <2>1
  <2> QED
    BY <2>6, <2>7, <2>1
(* Steps of the allocator.                                                 *)
(* Every counter the allocator can load, from the active struct Meta or    *)
(* from a freed one, counts blocks that have left the ring.                *)
<1>LoadedBelowFront.
  ASSUME IndInv, process = "running", apc = "readCounter", NEW c \in LoadedCounters(aPtr)
  PROVE  c \in Nat /\ aOff + 1 + c <= Front
  <2> USE <1>LoadedBelowFront
  <2>0. /\ TypeOK /\ superNum \in Nat /\ aPtr \in Nat /\ aOff \in Nat /\ aOff <= MetaPos(aPtr)
        /\ aPtr \in Segs /\ superNum \in Segs
    BY DEF IndInv, TypeOK, AllocatorTypeOK, FileTypeOK, AllocatorSees, Segs
  <2>1. /\ MetaPos(superNum) \in Nat /\ MetaPos(aPtr) \in Nat
        /\ MetaPos(superNum + 1) = MetaPos(superNum) + MaxPerSeg + 1
    BY <2>0, LayoutNext, Zenon
  <2>2. counter[superNum] \in 0..MaxPerSeg /\ counter[aPtr] \in 0..MaxPerSeg
    BY <2>0, Zenon DEF TypeOK, SuperTypeOK
  <2>3. Front \in Int /\ Front >= MetaPos(superNum) + 1 + counter[superNum]
    <3>1. Front \in Int /\ EndOff \in Int
      BY <2>0 DEF Front, EndOff, TypeOK, RingTypeOK, AllocatorTypeOK
    <3>2. Phase \in {"none", "take", "takeMeta", "return", "append", "count", "takeFirst"} \cup FirstPhases
      <4>1. CASE lock2 = Nobody
        BY <4>1, Zenon DEF Phase
      <4>2. CASE lock2 \in Callers
        <5>1. pc[lock2] \notin {Idle, "lock"}
          BY <4>2, Zenon DEF IndInv, Locking
        <5> QED
          BY Zenon, <2>0, <4>2, <5>1, CallerAssumption
          DEF Phase, Nobody, FirstPhases, TypeOK, CallerTypeOK
      <4> QED
        BY <2>0, <4>1, <4>2, Zenon DEF TypeOK, CallerTypeOK
    <3> QED
      BY <2>1, <2>2, <3>1, <3>2, SizeAssumption DEF IndInv, FrontAt
  <2>4. Phase \in {"swap"} \cup SwitchPhases =>
          /\ counter[superNum] = MaxPerSeg
          /\ process = "running" => counter[superNum + 1] = 1
          /\ Front = MetaPos(superNum + 1) + 2
    BY <2>1, SizeAssumption
    DEF IndInv, Counters, FrontAt, SwitchPhases, FirstPhases, NewMetaPhases
  <2>5. CASE aPtr \in freed
    <3>1. c \in 0..MaxPerSeg
      BY <2>5, FreedAssumption, Zenon DEF LoadedCounters
    <3>2. CASE aPtr < superNum
      <4>1. MetaPos(aPtr) + MaxPerSeg + 1 <= MetaPos(superNum)
        BY <2>0, <3>2, LayoutGrows, Zenon
      <4> QED
        BY <2>0, <2>1, <2>2, <2>3, <3>1, <4>1, SizeAssumption
    <3>3. CASE aPtr = superNum /\ Phase \in {"swap"} \cup SwitchPhases
      BY <2>0, <2>1, <2>2, <2>3, <2>4, <3>1, <3>3, SizeAssumption
    <3> QED
      BY <2>5, <3>2, <3>3, Zenon DEF IndInv, FreedAt
  <2>6. CASE aPtr \notin freed
    <3>1. c = counter[aPtr] /\ aPtr = activeMeta
      BY <2>6, Zenon DEF LoadedCounters, IndInv, AllocatorSees
    <3>2. CASE aPtr = superNum
      BY <2>0, <2>1, <2>2, <2>3, <3>1, <3>2, SizeAssumption
    <3>3. CASE aPtr = superNum + 1 /\ Phase \in SwitchPhases
      BY <2>0, <2>1, <2>2, <2>3, <2>4, <3>1, <3>3, SizeAssumption
    <3> QED
      BY <3>1, <3>2, <3>3, Zenon DEF IndInv, Position
  <2> QED
    BY <2>5, <2>6, Zenon
<1> SUFFICES ASSUME IndInv, Allocate, TypeOK'
             PROVE  IndInv'
  BY Zenon
<1>0. /\ TypeOK /\ AllocatorStep /\ process = "running"
      /\ UNCHANGED <<dramVars, pmVars, callerVars>>
  BY Zenon DEF IndInv, Allocate
<1> USE DEF dramVars, pmVars, callerVars, ringVars
<1>1. Phase' = Phase /\ Locking' /\ Position' /\ FreedAt'
  BY <1>0, Zenon DEF IndInv, Phase, Locking, Position, FreedAt
<1>2. Counters' /\ Entries'
  BY <1>0, <1>1, Zenon DEF IndInv, Counters, Entries
<1>3. CountedAreWritten' /\ SegmentsFull' /\ RemapFinds'
  BY <1>0, FileKept, Zenon
<1>4. /\ nbCount \in Nat /\ nbAvailable \in 0..MaxPreNum /\ nbAvailable \in Nat
      /\ allocOff \in Nat /\ aOff \in Nat /\ aPre \in Int /\ aPre >= 0 /\ activeMetaOff \in Nat
  BY <1>0, SizeAssumption
  DEF TypeOK, RingTypeOK, AllocatorTypeOK, SuperTypeOK, IndInv, AllocatorSees
<1>5. SUFFICES Front' = Front /\ AllocatorSees' /\ RingIntact'
  <2>1. FrontAt' /\ HandedBelow'
    BY <1>0, <1>1, <1>5, Zenon DEF IndInv, FrontAt, HandedBelow
  <2> QED
    BY <1>1, <1>2, <1>3, <1>5, <2>1, Zenon DEF IndInv
<1>6. ASSUME UNCHANGED ringVars, EndOff' = EndOff
      PROVE  Front' = Front /\ RingIntact'
  BY <1>6, Zenon DEF Front, RingIntact, IndInv
<1>7. CASE AllocatorReadOff /\ UNCHANGED <<ringVars, process>>
  <2>1. EndOff' = EndOff
    BY <1>7, Zenon DEF AllocatorReadOff, EndOff
  <2>2. AllocatorSees'
    BY <1>0, <1>4, <1>7 DEF AllocatorReadOff, AllocatorSees
  <2> QED
    BY <1>6, <1>7, <2>1, <2>2, Zenon
<1>8. CASE AllocatorReadPtr /\ UNCHANGED <<ringVars, process>>
  <2>1. EndOff' = EndOff
    BY <1>8, Zenon DEF AllocatorReadPtr, EndOff
  <2>2. activeMetaOff <= MetaPos(activeMeta)
    <3>1. superNum \in Nat
      BY <1>0 DEF TypeOK, FileTypeOK, Segs
    <3>2. MetaPos(superNum) \in Nat /\ MetaPos(superNum + 1) = MetaPos(superNum) + MaxPerSeg + 1
      BY <3>1, LayoutNext, Zenon
    <3>3. \/ activeMeta = superNum /\ activeMetaOff = MetaPos(superNum)
          \/ activeMeta = superNum + 1 /\ activeMetaOff \in {MetaPos(superNum), MetaPos(superNum + 1)}
      BY Zenon DEF IndInv, Position, SwitchPhases
    <3> QED
      BY <3>2, <3>3, SizeAssumption
  <2>3. aOff <= activeMetaOff
    BY <1>8, Zenon DEF AllocatorReadPtr, IndInv, AllocatorSees
  <2>4. MetaPos(activeMeta) \in Nat
    BY <1>0, LayoutNext DEF TypeOK, SuperTypeOK, Segs
  <2>5. AllocatorSees'
    BY <1>0, <1>4, <1>8, <2>2, <2>3, <2>4 DEF AllocatorReadPtr, AllocatorSees
  <2> QED
    BY <1>6, <1>8, <2>1, <2>5, Zenon
<1>9. CASE AllocatorReadCounter /\ UNCHANGED <<ringVars, process>>
  <2>1. PICK c \in LoadedCounters(aPtr) :
          /\ aPre' = allocOff - (aOff + 1 + c)
          /\ apc' = IF aPre' + 1 > MaxPreNum THEN "readOff" ELSE "readNum"
    BY <1>9, Zenon DEF AllocatorReadCounter
  <2>2. c \in Nat /\ aOff + 1 + c <= Front
    BY <1>0, <1>9, <1>LoadedBelowFront, Zenon DEF AllocatorReadCounter
  <2>3. EndOff = allocOff /\ EndOff' = EndOff
    BY <1>9, <2>1, Zenon DEF AllocatorReadCounter, EndOff
  <2>4. Front = allocOff - nbAvailable
    BY <2>3, Zenon DEF Front
  <2>5. aPre' \in Int /\ nbAvailable <= aPre' /\ aPre' >= 0
    BY <1>4, <2>1, <2>2, <2>4
  <2>6. apc' = "readNum" => aPre' < MaxPreNum
    BY <2>1, <2>5, SizeAssumption
  <2>7. AllocatorSees'
    BY <1>9, <2>1, <2>5, <2>6, Zenon DEF AllocatorSees
  <2> QED
    BY <1>6, <1>9, <2>3, <2>7, Zenon
<1>10. CASE /\ AllocatorReadNum \/ AllocatorReadPtr2 \/ AllocatorCheckRange
            /\ UNCHANGED <<ringVars, process>>
  <2>1. /\ apc \in {"readNum", "readPtr2", "readCounter2"}
        /\ apc' \in {"readPtr2", "readCounter2", "put", "exited"}
        /\ UNCHANGED <<allocOff, aPre>>
    BY <1>10, Zenon DEF AllocatorReadNum, AllocatorReadPtr2, AllocatorCheckRange
  <2>2. EndOff' = EndOff
    BY <2>1, Zenon DEF EndOff
  <2>3. AllocatorSees'
    BY <1>10, <2>1, Zenon DEF IndInv, AllocatorSees
  <2> QED
    BY <1>6, <1>10, <2>2, <2>3, Zenon
<1>11. CASE AllocatorPut /\ UNCHANGED process
  <2> USE DEF AllocatorPut
  <2>1. nbAvailable < MaxPreNum /\ nbAvailable <= aPre /\ aPre < MaxPreNum
    BY <1>4, <1>11, SizeAssumption DEF IndInv, AllocatorSees
  <2>2. EndOff' = EndOff /\ Front' = Front
    BY <1>11, Zenon DEF EndOff, Front
  <2>3. nbCount % MaxPreNum \in 0..(MaxPreNum - 1)
    BY <1>4, SlotInRing, SizeAssumption
  <2>4. /\ nbs'[nbCount % MaxPreNum] = allocOff
        /\ \A i \in 0..(MaxPreNum - 1) : i # nbCount % MaxPreNum => nbs'[i] = nbs[i]
    BY <1>0, <1>11, <2>3, Zenon DEF TypeOK, RingTypeOK
  <2>5. AllocatorSees'
    BY <1>4, <1>11, <2>1, <2>4, Zenon DEF AllocatorSees
  <2>6. RingIntact'
    <3> SUFFICES ASSUME NEW k \in 1..nbAvailable
                 PROVE  nbs'[(nbCount - k) % MaxPreNum] = EndOff - k
      BY <1>11, <2>2, Zenon DEF RingIntact
    <3>1. k \in Int /\ 0 < k /\ k < MaxPreNum /\ nbCount \in Int /\ nbCount - k \in Int
      BY <1>4, <2>1, SizeAssumption
    <3>2. nbCount % MaxPreNum # (nbCount - k) % MaxPreNum
      BY <3>1, <1>SlotsDiffer, SizeAssumption, Zenon
    <3>3. (nbCount - k) % MaxPreNum \in 0..(MaxPreNum - 1)
      BY <3>1, SlotInRing, SizeAssumption, Zenon
    <3>4. nbs[(nbCount - k) % MaxPreNum] = EndOff - k
      BY Zenon DEF IndInv, RingIntact
    <3> QED
      BY <2>4, <3>2, <3>3, <3>4, Zenon
  <2> QED
    BY <2>2, <2>5, <2>6, Zenon
<1>12. CASE AllocatorPublish /\ UNCHANGED process
  <2> USE DEF AllocatorPublish
  <2>1. /\ EndOff = allocOff /\ EndOff' = allocOff + 1
        /\ nbs[nbCount % MaxPreNum] = allocOff
    BY <1>12, Zenon DEF EndOff, IndInv, AllocatorSees
  <2>2. Front' = Front
    BY <1>4, <1>12, <2>1 DEF Front
  <2>3. AllocatorSees'
    BY <1>4, <1>12, Zenon DEF AllocatorSees
  <2>4. RingIntact'
    <3>0. /\ nbs' = nbs /\ nbCount' = nbCount + 1 /\ nbAvailable' = nbAvailable + 1
          /\ EndOff' = allocOff + 1
      BY <1>12, <2>1, Zenon
    <3> HIDE DEF AllocatorPublish
    <3> SUFFICES ASSUME NEW k \in 1..(nbAvailable + 1)
                 PROVE  nbs[((nbCount + 1) - k) % MaxPreNum] = (allocOff + 1) - k
      BY <3>0, Zenon DEF RingIntact
    <3>1. CASE k = 1
      <4>1. /\ ((nbCount + 1) - k) % MaxPreNum = nbCount % MaxPreNum
            /\ (allocOff + 1) - k = allocOff
        BY <1>4, <3>1, SizeAssumption
      <4> QED
        BY <2>1, <4>1, Zenon
    <3>2. CASE k # 1
      <4>1. /\ k - 1 \in 1..nbAvailable
            /\ ((nbCount + 1) - k) % MaxPreNum = (nbCount - (k - 1)) % MaxPreNum
            /\ (allocOff + 1) - k = allocOff - (k - 1)
        BY <1>4, <3>2, SizeAssumption
      <4>2. nbs[(nbCount - (k - 1)) % MaxPreNum] = allocOff - (k - 1)
        BY <2>1, <4>1, Zenon DEF IndInv, RingIntact
      <4> QED
        BY <4>1, <4>2, Zenon
    <3> QED
      BY <3>1, <3>2, Zenon
  <2> QED
    BY <2>2, <2>3, <2>4, Zenon
<1>13. CASE AllocatorAdvance /\ UNCHANGED ringVars
  <2>1. EndOff' = EndOff
    BY <1>13, Zenon DEF AllocatorAdvance, EndOff
  <2>2. AllocatorSees'
    BY <1>4, <1>13, Zenon DEF AllocatorAdvance, AllocatorSees
  <2> QED
    BY <1>6, <1>13, <2>1, <2>2, Zenon
<1> QED
  BY <1>0, <1>7, <1>8, <1>9, <1>10, <1>11, <1>12, <1>13, Zenon DEF AllocatorStep

-----------------------------------------------------------------------------
\* The invariant holds once the layer has been opened.
LEMMA InitInv ==
  Init => IndInv
(* Type correctness.                                                       *)
<1>InitType.
  Init => TypeOK
  <2> SUFFICES ASSUME Init PROVE TypeOK
    BY Zenon
  <2>1. PICK n \in Segs, c \in 0..MaxPerSeg, cut \in {0, 1} : InitLayer(n, c, cut)
    BY Zenon DEF Init
  <2>2. MetaPos(n) \in Nat
    BY LayoutNext, SizeAssumption DEF Segs
  <2>3. pmCounter \in [Segs -> 0..MaxPerSeg]
    BY <2>1, SizeAssumption, SMTT(30) DEF InitLayer, Segs
  <2>4. btm \in [Segs -> [0..(MaxPerSeg - 1) -> VBlocks \cup {NoBlock, OldEntry}]]
    BY <2>1, <2>3, Zenon DEF InitLayer
  <2>5. metaOff \in [Segs -> Nat]
    <3>1. \A s \in Segs : MetaPos(s) \in Nat
      BY LayoutNext DEF Segs
    <3> QED
      BY <3>1, Zenon DEF Init
  <2>6. /\ activeMeta \in Segs /\ activeMetaNum \in Segs /\ activeMetaOff \in Nat
        /\ superNum \in Segs /\ counter \in [Segs -> 0..MaxPerSeg] /\ allocOff \in Nat
    BY <2>1, <2>2, SizeAssumption DEF InitLayer
  <2> QED
    BY <2>3, <2>4, <2>5, <2>6, SizeAssumption, SMTT(30) DEF Init, TypeOK, SuperTypeOK, FileTypeOK, RingTypeOK,
       AllocatorTypeOK, CallerTypeOK, Segs, Idle, Nobody
<1> SUFFICES ASSUME Init PROVE IndInv
  BY Zenon
<1>1. PICK n \in Segs, c \in 0..MaxPerSeg, cut \in {0, 1} : InitLayer(n, c, cut)
  BY Zenon DEF Init
<1>2. TypeOK
  BY <1>InitType, Zenon
<1>3. Phase = "none"
  BY Zenon DEF Init, Phase
<1>4. /\ n \in Nat /\ MetaPos(n) \in Nat /\ superNum = n /\ activeMeta = n
      /\ activeMetaNum = n /\ activeMetaOff = MetaPos(n) /\ allocOff = MetaPos(n) + 1 + c
      /\ counter[n] = c /\ pmCounter[n] = c /\ c \in Nat
      /\ \A s \in Segs : s < n => pmCounter[s] = MaxPerSeg
  <2>1. n \in Nat /\ c \in Nat
    BY SizeAssumption DEF Segs
  <2>2. MetaPos(n) \in Nat
    BY <2>1, LayoutNext, Zenon
  <2>3. /\ superNum = n /\ activeMeta = n /\ activeMetaNum = n
        /\ activeMetaOff = MetaPos(n) /\ allocOff = MetaPos(n) + 1 + c
    BY <1>1, Zenon DEF InitLayer
  <2>4. counter[n] = c
    BY <1>1, Zenon DEF InitLayer
  <2>5. pmCounter[n] = c /\ \A s \in Segs : s < n => pmCounter[s] = MaxPerSeg
    BY <1>1, <2>1 DEF InitLayer
  <2> QED
    BY <2>1, <2>2, <2>3, <2>4, <2>5, Zenon
<1>5. Locking
  BY CallerAssumption, Zenon DEF Init, Locking, Nobody, Idle
<1>6. Position
  BY <1>3, <1>4, Zenon DEF Position, SwitchPhases
<1>7. EndOff = allocOff /\ Front = MetaPos(n) + 1 + c
  BY <1>4 DEF Init, EndOff, Front
<1>8. FrontAt
  BY <1>3, <1>4, <1>7, Zenon DEF FrontAt, FirstPhases
<1>9. Counters
  BY <1>3, <1>4, Zenon DEF Counters, SamePhases, NewMetaPhases, FirstPhases, SwitchPhases
<1>10. Entries
  <2>1. \A m \in 0..n : m \in Segs
    BY <1>4, SizeAssumption DEF Segs
  <2> QED
    BY <1>3, <1>4, <2>1, Zenon DEF Entries, FirstPhases, Init
<1>11. FreedAt /\ HandedBelow
  BY <1>3, Zenon DEF FreedAt, HandedBelow, Init, SwitchPhases
<1>12. AllocatorSees
  BY DEF Init, AllocatorSees
<1>13. RingIntact
  BY DEF Init, RingIntact
<1>14. CountedAreWritten
  <2>1. \A m \in 0..n : m \in Segs
    BY <1>4, SizeAssumption DEF Segs
  <2>2. \A s \in Segs : \A j \in 0..(MaxPerSeg - 1) : j < pmCounter[s] => btm[s][j] = OldEntry
    BY <1>1, Zenon DEF InitLayer
  <2> QED
    BY <1>4, <2>1, <2>2, EntryAssumption, Zenon DEF CountedAreWritten
<1>15. SegmentsFull
  BY <1>1, <1>4, Zenon DEF InitLayer, SegmentsFull
<1>16. RemapFinds
  BY Zenon DEF Init, RemapFinds
<1> QED
  BY <1>2, <1>5, <1>6, <1>8, <1>9, <1>10, <1>11, <1>12, <1>13, <1>14, <1>15, <1>16, Zenon DEF IndInv

\* Every step keeps the invariant.
LEMMA NextInv == IndInv /\ [Next]_vars => IndInv'
<1> SUFFICES ASSUME IndInv, [Next]_vars PROVE IndInv'
  BY Zenon
<1>1. CASE Allocate
  BY <1>1, AllocateType, AllocateStep, Zenon
<1>2. ASSUME NEW t \in Callers, Serve(t) PROVE IndInv'
  <2>1. TypeOK'
    BY <1>2, ServeType, Zenon
  <2>2. CallerStep(t) /\ UNCHANGED allocatorVars /\ process = "running"
    BY <1>2, Zenon DEF Serve
  <2>3. CASE NewBlock(t) BY <2>1, <2>2, <2>3, NewBlockStep, Zenon
  <2>4. CASE NewMeta(t) BY <2>1, <2>2, <2>4, NewMetaStep, Zenon
  <2>5. CASE TakeData(t) BY <2>1, <2>2, <2>5, TakeDataStep, Zenon
  <2>6. CASE AppendEntry(t) BY <2>1, <2>2, <2>6, AppendEntryStep, Zenon
  <2>7. CASE CountEntry(t) BY <2>1, <2>2, <2>7, CountEntryStep, Zenon
  <2>8. CASE FreeOldMeta(t) BY <2>1, <2>2, <2>8, FreeOldMetaStep, Zenon
  <2>9. CASE SwapMeta(t) BY <2>1, <2>2, <2>9, SwapMetaStep, Zenon
  <2>10. CASE BumpMetaNum(t) BY <2>1, <2>2, <2>10, BumpMetaNumStep, Zenon
  <2>11. CASE MoveMetaOff(t) BY <2>1, <2>2, <2>11, MoveMetaOffStep, Zenon
  <2>12. CASE UpdateSuper(t) BY <2>1, <2>2, <2>12, UpdateSuperStep, Zenon
  <2>13. CASE Return(t) BY <2>1, <2>2, <2>13, ReturnStep, Zenon
  <2> QED
    BY Zenon, <2>2, <2>3, <2>4, <2>5, <2>6, <2>7, <2>8, <2>9, <2>10, <2>11, <2>12, <2>13
    DEF CallerStep
<1>3. ASSUME NEW t \in Callers, NEW v \in VBlocks, Request(t, v) PROVE IndInv'
  BY <1>3, RequestType, RequestStep, Zenon
<1>4. CASE UNCHANGED vars
  <2> USE DEF vars, dramVars, pmVars, ringVars, allocatorVars, callerVars
  <2>1. TypeOK'
    BY <1>4, Zenon DEF IndInv, TypeOK, SuperTypeOK, FileTypeOK, RingTypeOK, AllocatorTypeOK, CallerTypeOK
  <2>2. Phase' = Phase /\ EndOff' = EndOff /\ Front' = Front
    BY <1>4, Zenon DEF Phase, Front, EndOff
  <2>3. Locking' /\ Position' /\ FrontAt' /\ Counters'
    <3>1. Locking /\ Position /\ FrontAt /\ Counters
      BY Zenon DEF IndInv
    <3>2. Locking' /\ Position'
      BY <1>4, <2>2, <3>1, Zenon DEF Locking, Position
    <3>3. FrontAt'
      BY <1>4, <2>2, <3>1, Zenon DEF FrontAt
    <3>4. Counters'
      BY <1>4, <2>2, <3>1, Zenon DEF Counters
    <3> QED
      BY <3>2, <3>3, <3>4, Zenon
  <2>4. Entries' /\ FreedAt' /\ HandedBelow' /\ AllocatorSees' /\ RingIntact'
    BY <1>4, <2>2 DEF IndInv, Entries, FreedAt, HandedBelow, AllocatorSees, RingIntact
  <2>5. CountedAreWritten' /\ SegmentsFull' /\ RemapFinds'
    BY <1>4, FileKept, Zenon
  <2> QED
    BY <2>1, <2>3, <2>4, <2>5, Zenon DEF IndInv
<1> QED
  BY <1>1, <1>2, <1>3, <1>4, Zenon DEF Next

\* Hence it always holds.
LEMMA AlwaysInv == Spec => []IndInv
BY InitInv, NextInv, PTL DEF Spec

(* Type correctness of the allocator, in particular: the ring never holds  *)
(* more than MAX_PRE_NUM blocks and no counter exceeds max_per_seg.        *)
THEOREM TypeCorrect == Spec => []TypeOK
<1>1. IndInv => TypeOK
  BY Zenon DEF IndInv
<1> QED
  BY <1>1, AlwaysInv, PTL

(* No pre-allocated block is overwritten in nbs before new_block took it.  *)
THEOREM RingCorrect == Spec => []RingIntact
<1>1. IndInv => RingIntact
  BY Zenon DEF IndInv
<1> QED
  BY <1>1, AlwaysInv, PTL

(* alloc_off - cur_off never wraps round in new_block_allocator.           *)
THEOREM NoWrapCorrect == Spec => []NoWrap
<1>1. IndInv => NoWrap
  BY Zenon DEF IndInv, AllocatorSees, NoWrap
<1> QED
  BY <1>1, AlwaysInv, PTL

(* At every moment, hence after a crash at any moment, the file leads the  *)
(* next fmmap to every block that new_block has returned, and to none by   *)
(* an entry that was never written.                                        *)
THEOREM RemapCorrect == Spec => [](RemapFinds /\ CountedAreWritten /\ SegmentsFull)
<1>1. IndInv => RemapFinds /\ CountedAreWritten /\ SegmentsFull
  BY Zenon DEF IndInv
<1> QED
  BY <1>1, AlwaysInv, PTL

(* Bounds of an interval of naturals.                                      *)
LEMMA UpTo == ASSUME NEW m \in Nat, NEW k \in 0..m PROVE k \in Nat /\ (k = m \/ k < m)
  OBVIOUS

(* new_block hands out no block twice and no meta block.                   *)
THEOREM HandedOnce == Spec => NeverHandedTwice
<1> DEFINE Fresh == \A t \in Callers : nb'[t] # nb[t] =>
                      /\ \A h \in handed : h.off # nb'[t]
                      /\ \A n \in 0..activeMetaNum : metaOff[n] # nb'[t]
<1>1. IndInv /\ [Next]_vars => [Fresh]_vars
  <2> SUFFICES ASSUME IndInv, Next, NEW t \in Callers, nb'[t] # nb[t]
               PROVE  /\ \A h \in handed : h.off # nb'[t]
                      /\ \A n \in 0..activeMetaNum : metaOff[n] # nb'[t]
    BY Zenon
  <2>1. \E u \in Callers : TakeData(u)
    <3>1. nb' # nb
      BY Zenon
    <3> QED
      BY <3>1, Zenon DEF Next, Allocate, Serve, Request, CallerStep, Call, NewBlock, NewMeta,
         AppendEntry, CountEntry, FreeOldMeta, SwapMeta, BumpMetaNum, MoveMetaOff,
         UpdateSuper, Return, callerVars
  <2>2. PICK u \in Callers : TakeData(u)
    BY <2>1, Zenon
  <2>3. TypeOK /\ RingIntact /\ Locking /\ nbAvailable > 0
    BY <2>2, Zenon DEF IndInv, TakeData, TakeBlock
  <2>4. nb' = [nb EXCEPT ![u] = Front]
    BY <2>2, <2>3, TakesFront, Zenon DEF TakeData
  <2>5. t = u /\ nb'[t] = Front
    BY <2>3, <2>4, Zenon DEF TypeOK, CallerTypeOK
  <2>6. Front \in Int
    BY <2>3 DEF Front, EndOff, TypeOK, RingTypeOK, AllocatorTypeOK
  <2>7. \A h \in handed : h.off \in Nat /\ h.off < Front
    BY <2>3, Zenon DEF IndInv, HandedBelow, TypeOK, CallerTypeOK
  <2>8. pc[u] \in {"take", "takeFirst"}
    BY <2>2, Zenon DEF TakeData, Goto
  <2>9. Phase = pc[u]
    BY <2>3, <2>8, PhaseOf, Zenon DEF Idle
  <2>10. superNum \in Nat /\ activeMetaNum = superNum /\ counter[superNum] \in 0..MaxPerSeg
    <3>1. Position /\ TypeOK
      BY <2>3, Zenon DEF IndInv
    <3>2. superNum \in Segs /\ superNum \in Nat
      BY <3>1, SMTT(30) DEF TypeOK, FileTypeOK, Segs
    <3>3. activeMetaNum = superNum
      BY <2>8, <2>9, <3>1, Zenon DEF Position
    <3>4. counter[superNum] \in 0..MaxPerSeg
      BY <3>1, <3>2, Zenon DEF TypeOK, SuperTypeOK
    <3> QED
      BY <3>2, <3>3, <3>4, Zenon
  <2>11. /\ MetaPos(superNum) \in Nat
         /\ MetaPos(superNum + 1) = MetaPos(superNum) + MaxPerSeg + 1
    BY <2>10, LayoutNext, Zenon
  <2>12. MetaPos(superNum) < Front
    <3>1. \/ Front = MetaPos(superNum) + 1 + counter[superNum]
          \/ Front = MetaPos(superNum + 1) + 1
      BY <2>3, <2>8, <2>9, Zenon DEF IndInv, FrontAt
    <3> QED
      BY <2>10, <2>11, <3>1, SizeAssumption, SMTT(30)
  <2>13. ASSUME NEW n \in 0..activeMetaNum PROVE metaOff[n] # Front
    <3>0. n \in 0..superNum /\ n \in Nat /\ (n = superNum \/ n < superNum)
      <4>1. superNum \in Nat /\ activeMetaNum = superNum
        BY <2>10, Zenon
      <4>2. n \in 0..superNum
        BY <2>13, <4>1, Zenon
      <4> QED
        BY <4>1, <4>2, UpTo, Zenon
    <3>1. metaOff[n] = MetaPos(n) /\ MetaPos(n) \in Nat
      <4>1. metaOff[n] = MetaPos(n)
        BY <3>0, Zenon DEF IndInv, Entries
      <4>2. MetaPos(n) \in Nat
        BY <3>0, LayoutNext, Zenon
      <4> QED
        BY <4>1, <4>2, Zenon
    <3>2. CASE n = superNum
      BY <2>6, <2>11, <2>12, <3>1, <3>2
    <3>3. CASE n < superNum
      <4>1. MetaPos(n) + MaxPerSeg + 1 <= MetaPos(superNum)
        BY <2>10, <3>0, <3>3, LayoutGrows, Zenon
      <4> QED
        BY <2>6, <2>11, <2>12, <3>1, <4>1, SizeAssumption
    <3> QED
      BY <3>0, <3>2, <3>3, Zenon
  <2> QED
    BY <2>5, <2>6, <2>7, <2>13
<1> QED
  BY <1>1, AlwaysInv, PTL DEF Spec, NeverHandedTwice
=============================================================================
