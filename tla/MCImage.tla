------------------------------ MODULE MCImage ------------------------------
(***************************************************************************)
(* An instance of Image: two virtual blocks, one data block per meta block,*)
(* a file of eight blocks, base images of every kind.                      *)
(***************************************************************************)
EXTENDS Image
=============================================================================
