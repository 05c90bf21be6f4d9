------------------------------ MODULE PhysMap -------------------------------
(***************************************************************************)
(* The dispatch of exec.c as operators: a radix tree over page numbers     *)
(* whose leaves name sections, with a table per page that holds several.   *)
(* d = [top, nodes, sections, subs]: phys_map, map.nodes, map.sections and *)
(* sub_section of the sections that are subpages.  Sections and nodes are  *)
(* numbered from 1.                                                        *)
(***************************************************************************)
EXTENDS Integers, Sequences, SequencesExt

CONSTANTS
  TARGET_PAGE_SIZE,
  P_L2_BITS,
  P_L2_LEVELS,
  SkipLimit         \* 1 << 3 in phys_page_compact

P_L2_SIZE == 2 ^ P_L2_BITS
AddressSpan == TARGET_PAGE_SIZE * 2 ^ (P_L2_BITS * P_L2_LEVELS)
PHYS_MAP_NODE_NIL == 0
PHYS_SECTION_UNASSIGNED == 1

Page(a) == a \div TARGET_PAGE_SIZE
PageBase(a) == Page(a) * TARGET_PAGE_SIZE

\* phys_map_node_alloc
NewNode(leaf) ==
  [i \in 0..(P_L2_SIZE - 1) |->
     IF leaf THEN [skip |-> 0, ptr |-> PHYS_SECTION_UNASSIGNED]
     ELSE [skip |-> 1, ptr |-> PHYS_MAP_NODE_NIL]]

\* phys_page_set_level on the entry lp, and its loop over the entries of node p
\* from i on: s = [nodes, index, nb].
RECURSIVE SetLevel(_, _, _, _)
RECURSIVE SetEntries(_, _, _, _, _)

SetLevel(s, lp, leaf, level) ==
  LET fresh == lp.skip # 0 /\ lp.ptr = PHYS_MAP_NODE_NIL
      p == IF fresh THEN Len(s.nodes) + 1 ELSE lp.ptr
      start == [s EXCEPT !.nodes = IF fresh THEN Append(@, NewNode(level = 0)) ELSE @]
      i == (s.index \div (P_L2_SIZE ^ level)) % P_L2_SIZE
  IN [state |-> SetEntries(start, p, i, leaf, level), lp |-> [lp EXCEPT !.ptr = p]]

SetEntries(s, p, i, leaf, level) ==
  LET step == P_L2_SIZE ^ level
      below == SetLevel(s, s.nodes[p][i], leaf, level - 1)
  IN  IF s.nb = 0 \/ i = P_L2_SIZE THEN s
      ELSE IF s.index % step = 0 /\ s.nb >= step
      THEN SetEntries([nodes |-> [s.nodes EXCEPT ![p][i] = [skip |-> 0, ptr |-> leaf]],
                       index |-> s.index + step, nb |-> s.nb - step], p, i + 1, leaf, level)
      ELSE SetEntries([below.state EXCEPT !.nodes[p][i] = below.lp], p, i + 1, leaf, level)

phys_page_set(d, index, nb, leaf) ==
  LET s == SetLevel([nodes |-> d.nodes, index |-> index, nb |-> nb], d.top, leaf, P_L2_LEVELS - 1)
  IN [d EXCEPT !.nodes = s.state.nodes, !.top = s.lp]

\* phys_page_compact: s = [nodes, lp]
RECURSIVE Compacted(_, _)
Compacted(nodes, lp) ==
  LET Child(ns, i) ==
        LET e == ns[lp.ptr][i] IN
        IF e.ptr = PHYS_MAP_NODE_NIL \/ e.skip = 0 THEN ns
        ELSE LET c == Compacted(ns, e) IN [c.nodes EXCEPT ![lp.ptr][i] = c.lp]
      after == FoldLeft(Child, nodes, [i \in 1..P_L2_SIZE |-> i - 1])
      valid == {i \in 0..(P_L2_SIZE - 1) : after[lp.ptr][i].ptr # PHYS_MAP_NODE_NIL}
      only == after[lp.ptr][CHOOSE i \in valid : TRUE]
  IN  IF lp.ptr = PHYS_MAP_NODE_NIL THEN [nodes |-> nodes, lp |-> lp]
      ELSE IF Cardinality(valid) # 1 \/ lp.skip + only.skip >= SkipLimit
      THEN [nodes |-> after, lp |-> lp]
      ELSE [nodes |-> after,
            lp |-> [ptr |-> only.ptr, skip |-> IF only.skip = 0 THEN 0 ELSE lp.skip + only.skip]]

address_space_dispatch_compact(d) ==
  IF d.top.skip = 0 THEN d
  ELSE LET c == Compacted(d.nodes, d.top) IN [d EXCEPT !.nodes = c.nodes, !.top = c.lp]

\* A section that spans the whole space has its size in the upper half, 0 in the lower.
section_covers_addr(sec, a) ==
  LET lo == sec.size % AddressSpan
  IN sec.size >= AddressSpan \/ (sec.start <= a /\ a < sec.start + lo)

RECURSIVE Descend(_, _, _, _)
Descend(d, lp, i, index) ==
  IF lp.skip = 0 \/ i - lp.skip < 0 THEN lp.ptr
  ELSE IF lp.ptr = PHYS_MAP_NODE_NIL THEN PHYS_SECTION_UNASSIGNED
  ELSE Descend(d, d.nodes[lp.ptr][(index \div (P_L2_SIZE ^ (i - lp.skip))) % P_L2_SIZE],
               i - lp.skip, index)

\* The mistake of trusting the leaf without looking whether its section covers
\* the address.
phys_page_find_trusting(d, a) == Descend(d, d.top, P_L2_LEVELS, Page(a))

phys_page_find(d, a) ==
  LET n == Descend(d, d.top, P_L2_LEVELS, Page(a))
  IN IF section_covers_addr(d.sections[n], a) THEN n ELSE PHYS_SECTION_UNASSIGNED

-----------------------------------------------------------------------------
Section(mr, start, size, off, sub) ==
  [mr |-> mr, start |-> start, size |-> size, off |-> off, subpage |-> sub]
dummy_section(mr) == Section(mr, 0, AddressSpan, 0, FALSE)

address_space_dispatch_new ==
  [top |-> [skip |-> 1, ptr |-> PHYS_MAP_NODE_NIL], nodes |-> <<>>,
   sections |-> <<dummy_section("unassigned"), dummy_section("notdirty"),
                  dummy_section("rom"), dummy_section("watch")>>,
   subs |-> <<>>]

phys_section_add(d, sec) == [d EXCEPT !.sections = Append(@, sec)]

register_subpage(d, sec) ==
  LET base == PageBase(sec.start)
      existing == phys_page_find(d, base)
      page == Len(d.sections) + 1
      empty == [i \in 0..(TARGET_PAGE_SIZE - 1) |-> PHYS_SECTION_UNASSIGNED]
      paged == IF d.sections[existing].subpage THEN d
               ELSE phys_page_set(
                      [phys_section_add(d, Section("subpage", base, TARGET_PAGE_SIZE, 0, TRUE))
                         EXCEPT !.subs = (page :> empty) @@ @],
                      Page(base), 1, page)
      in == IF d.sections[existing].subpage THEN existing ELSE page
      n == Len(paged.sections) + 1
      start == sec.start - base
  IN [phys_section_add(paged, sec) EXCEPT
        !.subs[in] = [i \in DOMAIN @ |-> IF i \in start..(start + sec.size - 1) THEN n ELSE @[i]]]

register_multipage(d, sec) ==
  phys_page_set(phys_section_add(d, sec), Page(sec.start), sec.size \div TARGET_PAGE_SIZE,
                Len(d.sections) + 1)

\* flatview_add_to_dispatch: a head up to the next page, whole pages, a tail
RECURSIVE AddPieces(_, _)
AddPieces(d, sec) ==
  LET inPage == sec.start % TARGET_PAGE_SIZE
      gap == TARGET_PAGE_SIZE - inPage
      size == IF inPage # 0 THEN Min({gap, sec.size})
              ELSE IF sec.size < TARGET_PAGE_SIZE THEN sec.size
              ELSE PageBase(sec.size)
      now == [sec EXCEPT !.size = size]
      rest == [sec EXCEPT !.start = @ + size, !.off = @ + size, !.size = @ - size]
      done == IF inPage # 0 \/ sec.size < TARGET_PAGE_SIZE THEN register_subpage(d, now)
              ELSE register_multipage(d, now)
  IN IF sec.size = 0 THEN d ELSE AddPieces(done, rest)

flatview_add_to_dispatch(d, sec) == AddPieces(d, sec)

-----------------------------------------------------------------------------
\* address_space_lookup_region before subpages are resolved: the section it
\* finds and leaves in mru_section
lookup_region(d, mru, a) ==
  IF mru = 0 \/ mru = PHYS_SECTION_UNASSIGNED \/ ~section_covers_addr(d.sections[mru], a)
  THEN phys_page_find(d, a) ELSE mru

resolve_subpage(d, n, a) ==
  IF d.sections[n].subpage THEN d.subs[n][a % TARGET_PAGE_SIZE] ELSE n

\* address_space_translate_internal: what is at a, and how much of a wish for
\* len bytes it may be asked for; rams are the regions memory_region_is_ram holds of
translate_internal(d, mru, a, len, rams) ==
  LET sec == d.sections[resolve_subpage(d, lookup_region(d, mru, a), a)]
      in == a - sec.start
  IN [mr |-> sec.mr, xlat |-> in + sec.off,
      plen |-> IF sec.mr \in rams THEN Min({sec.size - in, len}) ELSE len]
=============================================================================
