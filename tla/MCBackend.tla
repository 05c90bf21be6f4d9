------------------------------ MODULE MCBackend -----------------------------
(***************************************************************************)
(* Backend with one backend, on a raw file or on an image of one page.     *)
(***************************************************************************)
EXTENDS Backend

OneFile(size, super) ==
  [kind |-> "file", size |-> size, super |-> super, data |-> TRUE, by |-> "before"]
mcFiles == {[f |-> OneFile(1, 0), i |-> OneFile(5, 1)]}
Default(path, format, size) ==
  [path |-> path, format |-> format, size |-> size, align |-> 0, discard |-> FALSE, prealloc |-> FALSE]
mcOptions == {Default("f", "raw", 1), Default("i", "pcow", 0)}
=============================================================================
