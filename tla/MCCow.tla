------------------------------- MODULE MCCow -------------------------------
(***************************************************************************)
(* Instances of Cow: two threads, blocks of two units.  Blocks 0 and 1 are *)
(* blocks of the read-only layers, block 2 is of no layer.                 *)
(***************************************************************************)
EXTENDS Cow, TLC

Apart == ("a" :> {0, 2}) @@ ("b" :> {1, 2})
Shared == ("a" :> {0}) @@ ("b" :> {0})
Alone == ("a" :> {0, 1})

\* The threads of the run cow_apart meet on the block of no layer only.
ASSUME ApartIsPrivate == Touches = Apart => Private
=============================================================================
