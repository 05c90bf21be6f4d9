----------------------------- MODULE MCCowApart -----------------------------
(***************************************************************************)
(* Two instances of Cow with fairness, of which a behaviour has one: that  *)
(* of MCCow, where the threads store to different blocks of the read-only  *)
(* layers, and Meet, where they store to the units of one such block, find *)
(* each other in the current lists and wait for each other's copies.       *)
(***************************************************************************)
EXTENDS MCCow

VARIABLES using,  \* the instance that this behaviour has; the other stays as it is
          mMaps, mData, mEntries, mLast, mLists, mHt, mHoles, mPc, mTgt, mCow, mBuf,
          mDangling, mMonitor, mStores, mProcess

meetVars == <<mMaps, mData, mEntries, mLast, mLists, mHt, mHoles, mPc, mTgt, mCow, mBuf,
              mDangling, mMonitor, mStores, mProcess>>
allVars == <<vars, meetVars, using>>

Meet == INSTANCE Cow WITH
  Touches <- Shared,
  maps <- mMaps, data <- mData, entries <- mEntries, last <- mLast, lists <- mLists,
  ht <- mHt, holes <- mHoles, pc <- mPc, tgt <- mTgt, cow <- mCow, buf <- mBuf,
  dangling <- mDangling, monitor <- mMonitor, stores <- mStores, process <- mProcess

InApart(A) == using = "apart" /\ A /\ UNCHANGED <<meetVars, using>>
InMeet(A) == using = "meet" /\ A /\ UNCHANGED <<vars, using>>

BothInit == using \in {"apart", "meet"} /\ Init /\ Meet!Init
BothNext ==
  /\ UNCHANGED using
  /\ \/ using = "apart" /\ Next /\ UNCHANGED meetVars
     \/ using = "meet" /\ Meet!Next /\ UNCHANGED vars

(* Every thread and the monitor go on running.                             *)
BothSpec ==
  /\ BothInit /\ [][BothNext]_allVars
  /\ \A t \in Threads : WF_allVars(InApart(Guest(t))) /\ WF_allVars(InMeet(Meet!Guest(t)))
  /\ WF_allVars(InApart(Monitor)) /\ WF_allVars(InMeet(Meet!Monitor))

(* A store that faults is eventually made, unless the layer is full, also  *)
(* when another handler is at work on its unit or its block (in_list and   *)
(* the locks of cow_handler).                                              *)
StoresComplete == StoreCompletes /\ Meet!StoreCompletes
=============================================================================
