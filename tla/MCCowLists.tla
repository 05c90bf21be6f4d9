----------------------------- MODULE MCCowLists -----------------------------
(***************************************************************************)
(* Two more instances of Cow, of which a behaviour has one.  In both the   *)
(* current lists have room for one node beside their head, and overflow.   *)
(* In the first all threads store to all blocks, the last one included, of *)
(* a layer that fills up.  In the second, Evict, the threads store to      *)
(* different blocks, but share the lists, the bucket and, two of the       *)
(* blocks, a lock.                                                         *)
(***************************************************************************)
EXTENDS Cow, TLC

VARIABLES using,  \* the instance that this behaviour has; the other stays as it is
          eMaps, eData, eEntries, eLast, eLists, eHt, eHoles, ePc, eTgt, eCow, eBuf,
          eDangling, eMonitor, eStores, eProcess

evictVars == <<eMaps, eData, eEntries, eLast, eLists, eHt, eHoles, ePc, eTgt, eCow, eBuf,
               eDangling, eMonitor, eStores, eProcess>>

Evict == INSTANCE Cow WITH
  Threads <- {"a", "b"}, NumBlocks <- 5, UnitsPerBlock <- 2, Missing <- {4},
  Touches <- ("a" :> {0}) @@ ("b" :> {1, 2, 3}), MaxBlockNum <- 4, MaxPerSeg <- 4,
  BlockSize <- 4, IntSpan <- 16, MaxThreadNum <- 2, BucketNum <- 1,
  MaxConcurrent <- 2, RankThreshold <- 2, MaxStores <- 4,
  maps <- eMaps, data <- eData, entries <- eEntries, last <- eLast, lists <- eLists,
  ht <- eHt, holes <- eHoles, pc <- ePc, tgt <- eTgt, cow <- eCow, buf <- eBuf,
  dangling <- eDangling, monitor <- eMonitor, stores <- eStores, process <- eProcess

All == [t \in {"a", "b"} |-> {0, 1, 2}]

ListsInit == using \in {"shared", "evict"} /\ Init /\ Evict!Init

ListsNext ==
  /\ UNCHANGED using
  /\ \/ using = "shared" /\ Next /\ UNCHANGED evictVars
     \/ using = "evict" /\ Evict!Next /\ UNCHANGED vars

ListsSpec == ListsInit /\ [][ListsNext]_<<vars, evictVars, using>>

(* The types of the state of cow_handler with lists that overflow: no list *)
(* grows past MAX_CONCURRENT (insert_list).                                *)
ListsBounded == Evict!TypeOK

(* With lists that overflow: a node is freed in use only after as many     *)
(* faults on blocks of other locks as the list may hold (insert_list).     *)
EvictedByOthers == Evict!FreedByOthers

(* With lists that overflow and threads that store to different blocks,    *)
(* until a handler meets a freed node (the process is then lost): a unit   *)
(* shows the value stored last, and no store is lost by a crash            *)
(* (insert_list, cow_handler).                                             *)
EvictionKeeps == Evict!GuestCoherent /\ Evict!StoresDurable
=============================================================================
