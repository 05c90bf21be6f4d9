------------------------------- MODULE Store -------------------------------
(***************************************************************************)
(* What a pcow image promises to its users: a virtual disk over a base     *)
(* image, with snapshots to roll back to.  Snapshot n is the content the   *)
(* disk had when the n-th snapshot was taken; rolling back to it drops the *)
(* later ones and makes it the content of the disk again.                  *)
(*                                                                         *)
(* The promise has limits.  A block that a layer below shows is copied     *)
(* when it is first written, and is fresh until the copy is complete.  A   *)
(* crash may tear the fresh blocks, and unmapping the disk may take back   *)
(* as many blocks as are fresh then; no other block ever changes by        *)
(* itself, and no snapshot does.                                           *)
(***************************************************************************)
EXTENDS Naturals, Sequences

CONSTANTS
  VBlocks,   \* virtual blocks
  Values,    \* contents of a block
  Unset,     \* a block that was never written: the base image shows
  Zeros,     \* a block that is all zeros, whatever the base image has
  Torn,      \* a block of which units may be zeros
  Bases,     \* names of base images
  NoBase     \* the empty name

VARIABLES
  exists,  \* the image is formatted
  disk,    \* content of the disk
  frozen,  \* contents of the snapshots, oldest first
  base,    \* name of the base image
  fresh,   \* blocks of which a copy was begun and not completed
  closing  \* the disk is being unmapped

storeVars == <<exists, disk, frozen, base, fresh, closing>>

Empty == [v \in VBlocks |-> Unset]
Below(v) == IF frozen = <<>> THEN Unset ELSE frozen[Len(frozen)][v]

Init ==
  /\ exists = FALSE /\ disk = Empty /\ frozen = <<>> /\ base = NoBase
  /\ fresh = {} /\ closing = FALSE

Create ==
  /\ ~exists /\ exists' = TRUE
  /\ UNCHANGED <<disk, frozen, base, fresh, closing>>

(* A store to a torn block does not mend its other units.                  *)
Write(v, x) ==
  /\ exists /\ ~closing
  /\ disk' = [disk EXCEPT ![v] = IF @ = Torn THEN Torn ELSE x]
  /\ UNCHANGED <<exists, frozen, base, fresh, closing>>

(* The first access to a block: it is fresh until it is copied, or, if     *)
(* there is nothing to copy, until it is there with zeros in it.           *)
Begin(v) ==
  /\ exists /\ ~closing /\ fresh' = fresh \cup {v}
  /\ UNCHANGED <<exists, disk, frozen, base, closing>>

Complete(v) ==
  /\ ~closing /\ v \in fresh /\ fresh' = fresh \ {v}
  /\ disk' = [disk EXCEPT ![v] = IF @ = Unset THEN Zeros ELSE @]
  /\ UNCHANGED <<exists, frozen, base, closing>>

(* Unmapping: with each block that was fresh one block at most goes back   *)
(* to what the layer below has.                                            *)
Close ==
  /\ exists /\ ~closing /\ closing' = TRUE
  /\ UNCHANGED <<exists, disk, frozen, base, fresh>>

Release(v, back) ==
  /\ closing /\ v \in fresh /\ fresh' = fresh \ {v}
  /\ disk' = [w \in VBlocks |-> IF w \in back THEN Below(w) ELSE disk[w]]
  /\ UNCHANGED <<exists, frozen, base, closing>>

Closed ==
  /\ closing /\ fresh = {} /\ closing' = FALSE
  /\ UNCHANGED <<exists, disk, frozen, base, fresh>>

(* A crash changes fresh blocks only.                                      *)
Crash ==
  /\ fresh' = {} /\ closing' = FALSE
  /\ \E lost \in SUBSET fresh : \E now \in [lost -> {"torn", "zeros", "below"}] :
       disk' = [v \in VBlocks |->
                  CASE v \notin lost -> disk[v]
                    [] v \in lost /\ now[v] = "torn" -> Torn
                    [] v \in lost /\ now[v] = "zeros" -> Zeros
                    [] v \in lost /\ now[v] = "below" -> Below(v)]
  /\ UNCHANGED <<exists, frozen, base>>

Snapshot ==
  /\ exists /\ fresh = {} /\ ~closing
  /\ frozen' = Append(frozen, disk)
  /\ UNCHANGED <<exists, disk, base, fresh, closing>>

Rollback(n) ==
  /\ exists /\ fresh = {} /\ ~closing /\ n \in DOMAIN frozen
  /\ disk' = frozen[n]
  /\ frozen' = SubSeq(frozen, 1, n - 1)
  /\ UNCHANGED <<exists, base, fresh, closing>>

Rebase(b) ==
  /\ exists /\ fresh = {} /\ ~closing
  /\ base' = b
  /\ UNCHANGED <<exists, disk, frozen, fresh, closing>>

Next ==
  \/ Crash \/ Create \/ Close \/ Closed
  \/ \E v \in VBlocks : Begin(v) \/ Complete(v)
  \/ \E v \in VBlocks, back \in {{}} \cup {{w} : w \in VBlocks} : Release(v, back)
  \/ \E v \in VBlocks, x \in Values : Write(v, x)
  \/ \E b \in Bases : Rebase(b)
  \/ Snapshot
  \/ \E n \in DOMAIN frozen : Rollback(n)

Spec == Init /\ [][Next]_storeVars
=============================================================================
