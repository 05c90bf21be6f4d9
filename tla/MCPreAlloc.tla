----------------------------- MODULE MCPreAlloc -----------------------------
(* Small instances of the block allocator for TLC.                         *)
EXTENDS PreAlloc

MCFreedReads == 0..MaxPerSeg
=============================================================================
