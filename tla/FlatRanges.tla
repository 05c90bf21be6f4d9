----------------------------- MODULE FlatRanges -----------------------------
(***************************************************************************)
(* How memory.c turns a tree of memory regions into the flat list of       *)
(* ranges an address space is made of, and what that list should say.      *)
(* R is the table of regions; a range is [start, size, mr, off, ro, romd,  *)
(* log].                                                                   *)
(***************************************************************************)
EXTENDS Integers, Sequences, SequencesExt

CONSTANT AddrEnd    \* int128_2_64(): the end of every address space

NoRegion == "NULL"
VGA == "vga"
MIGRATION == "migration"

Finish(r) == r.start + r.size

\* addrrange_contains and addrrange_intersects
InRange(r, a) == r.start <= a /\ a < Finish(r)
Meet(r, s) == InRange(r, s.start) \/ InRange(s, r.start)

Overlap(r, s) ==
  LET start == IF r.start > s.start THEN r.start ELSE s.start
      end == IF Finish(r) < Finish(s) THEN Finish(r) ELSE Finish(s)
  IN [start |-> start, size |-> end - start]

\* memory_region_get_dirty_log_mask
LogMask(R, mr, global) ==
  R[mr].log \union (IF global /\ R[mr].ram THEN {MIGRATION} ELSE {})

\* The loop that puts what is left of a region into the gaps of the view:
\* fr is the part still to be put, i the range it is compared with.
RECURSIVE FillGaps(_, _, _)
FillGaps(view, i, fr) ==
  LET Rest(n) == [fr EXCEPT !.start = @ + n, !.off = @ + n, !.size = @ - n]
  IN  IF fr.size = 0 THEN view
      ELSE IF i > Len(view) THEN Append(view, fr)
      ELSE IF fr.start >= Finish(view[i]) THEN FillGaps(view, i + 1, fr)
      ELSE IF fr.start < view[i].start
           THEN LET now == Min({fr.size, view[i].start - fr.start})
                IN FillGaps(InsertAt(view, i, [fr EXCEPT !.size = now]), i + 1, Rest(now))
           ELSE FillGaps(view, i + 1, Rest(Min({Finish(fr), Finish(view[i])}) - fr.start))

RECURSIVE render_memory_region(_, _, _, _, _, _, _)
render_memory_region(R, global, view, mr, base, clip, ro) ==
  LET r == R[mr]
      at == base + r.addr
      tmp == [start |-> at, size |-> r.size]
      now == Overlap(tmp, clip)
      readonly == ro \/ r.readonly
      Sub(v, s) == render_memory_region(R, global, v, s, at, now, readonly)
      rendered == FoldLeft(Sub, view, r.subregions)
  IN  IF ~r.enabled \/ ~Meet(tmp, clip) THEN view
      ELSE IF r.alias # NoRegion
      THEN render_memory_region(R, global, view, r.alias,
             at - R[r.alias].addr - r.alias_offset, now, readonly)
      ELSE IF ~r.terminates THEN rendered
      ELSE FillGaps(rendered, 1,
             [start |-> now.start, size |-> now.size, mr |-> mr, off |-> now.start - at,
              ro |-> readonly, romd |-> r.romd_mode, log |-> LogMask(R, mr, global)])

can_merge(r, s) ==
  /\ Finish(r) = s.start
  /\ r.mr = s.mr
  /\ r.off + r.size = s.off
  /\ r.log = s.log
  /\ r.romd = s.romd
  /\ r.ro = s.ro

flatview_simplify(view) ==
  LET Join(v, fr) == IF v # <<>> /\ can_merge(Last(v), fr)
                     THEN Append(Front(v), [Last(v) EXCEPT !.size = @ + fr.size])
                     ELSE Append(v, fr)
  IN FoldLeft(Join, <<>>, view)

\* The region whose rendering an address space with root mr uses.
RECURSIVE get_flatview_root(_, _)
get_flatview_root(R, mr) ==
  LET r == R[mr]
      enabled == SelectSeq(r.subregions, LAMBDA c : R[c].enabled)
      Whole(c) == R[c].addr = 0 /\ r.size >= R[c].size
  IN  IF ~r.enabled THEN NoRegion
      ELSE IF r.alias # NoRegion
      THEN IF r.alias_offset = 0 /\ r.size >= R[r.alias].size
           THEN get_flatview_root(R, r.alias) ELSE mr
      ELSE IF r.terminates THEN mr
      ELSE IF enabled = <<>> THEN NoRegion
      ELSE IF Len(enabled) = 1 /\ Whole(enabled[1])
           THEN get_flatview_root(R, enabled[1]) ELSE mr

AddressSpaceRange == [start |-> 0, size |-> AddrEnd]

generate_memory_topology(R, global, mr) ==
  IF mr = NoRegion THEN <<>>
  ELSE flatview_simplify(
         render_memory_region(R, global, <<>>, mr, 0, AddressSpaceRange, FALSE))

-----------------------------------------------------------------------------
(* What a tree of regions means, address by address: the first region in   *)
(* priority order that reaches the address, nobody if none does.           *)

Nobody == [mr |-> NoRegion]

\* What the tree under mr, put at base, has at address a.
RECURSIVE Resolve(_, _, _, _, _, _)
Resolve(R, global, mr, base, a, ro) ==
  LET r == R[mr]
      at == base + r.addr
      readonly == ro \/ r.readonly
      Below(s) == Resolve(R, global, s, at, a, readonly)
      hits == SelectSeq(r.subregions, LAMBDA s : Below(s) # Nobody)
  IN  IF ~r.enabled \/ ~InRange([start |-> at, size |-> r.size], a) THEN Nobody
      ELSE IF r.alias # NoRegion
      THEN Resolve(R, global, r.alias, at - R[r.alias].addr - r.alias_offset, a, readonly)
      ELSE IF hits # <<>> THEN Below(hits[1])
      ELSE IF ~r.terminates THEN Nobody
      ELSE [mr |-> mr, off |-> a - at, ro |-> readonly, romd |-> r.romd_mode,
            log |-> LogMask(R, mr, global)]

\* What a list of ranges has at address a.
Holds(view, a) ==
  LET at == {i \in 1..Len(view) : InRange(view[i], a)}
  IN  IF at = {} THEN Nobody
      ELSE LET fr == view[Min(at)]
           IN [mr |-> fr.mr, off |-> fr.off + (a - fr.start), ro |-> fr.ro,
               romd |-> fr.romd, log |-> fr.log]

\* get_flatview_root skips from mr to another region without a loss: all of them
\* lie at address 0 and those skipped are read-write. Skipping drops whatever
\* else they say.
RECURSIVE SkipsExactly(_, _, _)
SkipsExactly(R, mr, to) ==
  LET r == R[mr]
      enabled == SelectSeq(r.subregions, LAMBDA c : R[c].enabled)
  IN  /\ r.addr = 0
      /\ \/ mr = to
         \/ ~r.readonly
            /\ SkipsExactly(R, IF r.alias # NoRegion THEN r.alias ELSE enabled[1], to)
=============================================================================
