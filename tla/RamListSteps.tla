--------------------------- MODULE RamListSteps ----------------------------
(***************************************************************************)
(* The steps of the thread that changes the list of RAM blocks keep the    *)
(* invariant: ram_block_add up to the insertion (find_ram_offset and       *)
(* QLIST_INSERT included), the marking of the new block, qemu_ram_resize,  *)
(* the resets of mru_block and the calls of call_rcu. The proofs about     *)
(* insertion and offsets need that sets of numbers have least elements and *)
(* that a walk along the list can be counted; NatFacts states both.        *)
(***************************************************************************)
EXTENDS RamListInv

\* The fields of what the main thread is doing.
LEMMA MainFields ==
  ASSUME MainTypeOK
  PROVE  /\ main.at \in MainPlaces /\ main.b \in 0..MaxBlocks /\ main.old \in Nat /\ main.new \in Nat
         /\ main.todo \in SUBSET DirtyClients
BY Zenon DEF MainTypeOK

\* The main thread goes on.
LEMMA MainMoves ==
  ASSUME MainTypeOK, NEW w \in MainPlaces, MainGoes(w)
  PROVE  MainBecomes(w, main.b, main.old, main.new, main.todo)
<1>1. PICK x \in MainStates : x = main
  BY Zenon DEF MainTypeOK, MainStates
<1>2. PICK r : r = [x EXCEPT !.at = w]
  BY Zenon
<1>3. r \in MainStates /\ r.at = w /\ r.b = x.b /\ r.old = x.old /\ r.new = x.new /\ r.todo = x.todo
  BY <1>2, Zenon DEF MainStates
<1>4. main' = r
  BY <1>1, <1>2, Zenon DEF MainGoes
<1> QED BY <1>1, <1>3, <1>4, Zenon DEF MainBecomes, MainTypeOK, MainStates

\* The main thread is done.
LEMMA MainEnds ==
  ASSUME MaxBlocks \in Nat, main' = MainIdle
  PROVE  MainBecomes("idle", 0, 0, 0, {})
BY DEF MainBecomes, MainTypeOK, MainIdle, MainPlaces

\* The main thread begins to work on a block.
LEMMA MainTakes ==
  ASSUME MainTypeOK, NEW w \in MainPlaces, NEW b \in 0..MaxBlocks,
         main' = [main EXCEPT !.at = w, !.b = b]
  PROVE  MainBecomes(w, b, main.old, main.new, main.todo)
<1>1. PICK x \in MainStates : x = main
  BY Zenon DEF MainTypeOK, MainStates
<1>2. PICK r : r = [x EXCEPT !.at = w, !.b = b]
  BY Zenon
<1>3. r \in MainStates /\ r.at = w /\ r.b = b /\ r.old = x.old /\ r.new = x.new /\ r.todo = x.todo
  BY <1>2, Zenon DEF MainStates
<1>4. main' = r
  BY <1>1, <1>2, Zenon
<1> QED BY <1>1, <1>3, <1>4, Zenon DEF MainBecomes, MainTypeOK, MainStates

-----------------------------------------------------------------------------
(* Steps of main that leave the list and the arrays alone.                 *)
\* A block that is or was in the list stays at its place.
Fixed(x) == rblock'[x].offset = rblock[x].offset /\ rblock'[x].max_length = rblock[x].max_length
Stays(x) == Fixed(x) /\ rblock'[x].state = rblock[x].state
Settled == {x \in RamBlocks : rblock[x].state \in {"listed", "removed"}}

\* A block that keeps its fields keeps its addresses.
LEMMA FixedCovers ==
  ASSUME NEW x, Fixed(x)
  PROVE  End(x)' = End(x) /\ \A a : Covers(x, a)' <=> Covers(x, a)
BY Zenon DEF Fixed, End, Covers, Pages

\* The list is as it was.
LEMMA QuietList ==
  ASSUME Listed' = Listed, succ' = succ, ListInv
  PROVE  ListInv'
BY Zenon DEF ListInv, ListOf

\* A step that keeps list, arrays and readers keeps the invariants about
\* readers.
LEMMA QuietThreads ==
  ASSUME UNCHANGED <<thr, succ, dirty, arrays, grace, freed>>, Listed' = Listed, \A x \in Settled : Stays(x),
         WorkInv, GraceInv, WalkInv, MruInv', \A w \in freed \cup Pending : Dead(w)'
  PROVE  WorkInv' /\ GraceInv' /\ WalkInv'
<1>1. \A x \in Listed : x \in Settled /\ Fixed(x) /\ End(x)' = End(x) /\ \A a : Covers(x, a)' <=> Covers(x, a)
  BY FixedCovers, Zenon DEF Listed, Settled, Stays
<1>2. ASSUME NEW t \in Threads PROVE Works(thr[t].at, thr[t].cur, thr[t].addr, thr[t].upto, thr[t].arr)'
  <2>1. \A w, b, a, e, arr : Works(w, b, a, e, arr) => Works(w, b, a, e, arr)'
    BY <1>1 DEF Works, HasBitmaps
  <2> QED BY <2>1, Zenon DEF WorkInv
<1>3. \A u, x : Kept(u, x)' <=> Kept(u, x)
  BY Zenon DEF Kept
<1>4. GraceInv'
  BY <1>3, Zenon DEF GraceInv, Holds, Reading, Pending
<1>5. \A u, a : \A n \in RamBlocks : Passes(u, n, a) => Passes(u, n, a)'
  BY <1>3, FixedCovers, Zenon DEF Passes, Settled, Stays
<1>6. \A u, x, b, a, S : Path(u, x, b, a, S) => Path(u, x, b, a, S)'
  BY <1>5, Zenon DEF Path
<1>7. \A u, w, b, a : Looks(u, w, b, a) => Looks(u, w, b, a)'
  BY <1>1, <1>5, <1>6, SMTT(30) DEF Looks
<1>8. WalkInv'
  BY <1>7, Zenon DEF WalkInv, LookupFinds
<1>9. WorkInv'
  BY <1>2, Zenon DEF WorkInv
<1> QED BY <1>4, <1>8, <1>9, Zenon

\* A step that keeps list, arrays and bitmaps loses no mark.
LEMMA QuietMarks ==
  ASSUME UNCHANGED <<dirty, arrays, bitmaps, owed>>, Listed' = Listed, \A x \in Settled : Stays(x),
         main.at # "resized", main'.at # "resized", OwedInv, DirtyKept
  PROVE  OwedInv' /\ DirtyKept'
<1>1. \A x \in Listed : Fixed(x) /\ \A a : Covers(x, a)' <=> Covers(x, a)
  BY FixedCovers, Zenon DEF Listed, Settled, Stays
<1>2. \A c : Marked(c)' = Marked(c)
  BY Zenon DEF Marked, Reaches, BitmapOf
<1>3. OwedInv'
  BY <1>1, Zenon DEF OwedInv
<1>4. \A x \in Listed : Pages(x, rblock[x].max_length)' = Pages(x, rblock[x].max_length)
  BY <1>1, Zenon DEF Fixed, Pages
<1>5. DirtyKept'
  BY <1>2, <1>4, Zenon DEF DirtyKept
<1> QED BY <1>3, <1>5, Zenon

\* A step that keeps list and arrays keeps the invariant of the arrays.
LEMMA QuietArrays ==
  ASSUME UNCHANGED <<dirty, arrays>>, Len(bitmaps') = Len(bitmaps), Listed' = Listed, \A x \in Settled : Stays(x), ArrayInv,
         main'.at = "extend" => \A c \in DirtyClients \ main'.todo : BitmapCount(main'.new) <= ArrLen(c)
  PROVE  ArrayInv'
<1>1. \A x \in Listed : End(x)' = End(x)
  BY FixedCovers, Zenon DEF Listed, Settled, Stays
<1>2. \A c : ArrLen(c)' = ArrLen(c)
  BY Zenon DEF ArrLen
<1> QED BY <1>1, <1>2 DEF ArrayInv

\* While main is at no block that comes or goes, the blocks that are placed
\* are those of the list.
LEMMA QuietSpace ==
  ASSUME Listed' = Listed, \A x \in Settled : Stays(x), SpaceInv, main'.at \notin {"extend", "removed"},
         main'.at = "offset" =>
           /\ \A b \in Listed : End(b) <= main'.old
           /\ main'.old = 0 \/ \E b \in Listed : main'.old = End(b)
  PROVE  SpaceInv'
<1>1. \A x \in Listed : Fixed(x) /\ End(x)' = End(x)
  BY FixedCovers, Zenon DEF Listed, Settled, Stays
<1>2. Placed' = Listed /\ Listed \subseteq Placed
  BY Zenon DEF Placed
<1> QED BY <1>1, <1>2 DEF SpaceInv, Apart, Fixed

\* A change of one block.
LEMMA BlockUpdate ==
  ASSUME BlockTypeOK, NEW b \in RamBlocks, UNCHANGED <<succ, mru_block>>,
         NEW r \in [offset : Nat, max_length : Nat, used_length : Nat, resizeable : BOOLEAN, state : BlockStates],
         rblock' = [rblock EXCEPT ![b] = r], r.used_length <= r.max_length, r.state # "unused" => r.max_length \in 1..RAM_ADDR_MAX
  PROVE  BlockTypeOK' /\ rblock'[b] = r /\ \A x \in RamBlocks \ {b} : rblock'[x] = rblock[x]
<1>1. /\ rblock' \in [RamBlocks -> [offset : Nat, max_length : Nat, used_length : Nat, resizeable : BOOLEAN, state : BlockStates]]
      /\ rblock'[b] = r /\ \A x \in RamBlocks \ {b} : rblock'[x] = rblock[x]
  BY Zenon DEF BlockTypeOK
<1>2. ASSUME NEW x \in RamBlocks
      PROVE  /\ rblock'[x].used_length <= rblock'[x].max_length
             /\ rblock'[x].state # "unused" => rblock'[x].max_length \in 1..RAM_ADDR_MAX
  BY <1>1, Zenon DEF BlockTypeOK
<1> QED BY <1>1, <1>2, Zenon DEF BlockTypeOK

\* A step of main that changes neither the list, nor the arrays, nor marks.
LEMMA QuietStep ==
  ASSUME RamInv, UNCHANGED <<succ, dirty, arrays, bitmaps, thr, grace, freed, owed>>,
         Listed' = Listed, \A x \in Settled : Stays(x),
         BlockTypeOK', MainTypeOK', MainBlock', SpaceInv', MruInv', main.at # "resized", main'.at # "resized",
         main'.at = "extend" => \A c \in DirtyClients \ main'.todo : BitmapCount(main'.new) <= ArrLen(c),
         main'.at \in {"removed", "reclaim"} => main.at \in {"removed", "reclaim"} /\ main'.b = main.b
  PROVE  RamInv'
<1>1. ListInv'
  BY QuietList, Zenon DEF RamInv
<1>2. ArrayInv'
  BY QuietArrays, Zenon DEF RamInv
<1>3. OwedInv' /\ DirtyKept'
  BY QuietMarks, Zenon DEF RamInv
<1>4. \A w : Dead(w) => Dead(w)'
  BY Zenon DEF Dead, Settled, Stays
<1>5. \A w \in freed \cup Pending : Dead(w)'
  BY <1>4, Zenon DEF RamInv, GraceInv
<1>6. WorkInv' /\ GraceInv' /\ WalkInv'
  BY <1>5, QuietThreads, Zenon DEF RamInv
<1>7. RamTypeOK'
  BY Zenon DEF RamInv, RamTypeOK, ThrTypeOK, DirtyTypeOK
<1> QED BY <1>1, <1>2, <1>3, <1>6, <1>7, Zenon DEF RamInv

\* qemu_ram_alloc and its kinds begin with a new block.
LEMMA AllocNext ==
  \A b \in RamBlocks : \A kind \in Kinds :
    NatFacts /\ RamParameters /\ RamInv /\ RamAlloc(b, kind)
  => RamInv'
<1>MainAllocates.
  ASSUME MainTypeOK, NEW w \in MainPlaces, NEW b \in 0..MaxBlocks, NEW o \in Nat,
         main' = [main EXCEPT !.at = w, !.b = b, !.old = o]
  PROVE  MainBecomes(w, b, o, main.new, main.todo)
  <2> USE <1>MainAllocates
  <2>1. PICK x \in MainStates : x = main
    BY Zenon DEF MainTypeOK, MainStates
  <2>2. PICK r : r = [x EXCEPT !.at = w, !.b = b, !.old = o]
    BY Zenon
  <2>3. r \in MainStates /\ r.at = w /\ r.b = b /\ r.old = o /\ r.new = x.new /\ r.todo = x.todo
    BY <2>2, Zenon DEF MainStates
  <2>4. main' = r
    BY <2>1, <2>2, Zenon
  <2> QED BY <2>1, <2>3, <2>4, Zenon DEF MainBecomes, MainTypeOK, MainStates
\* last_ram_page is the end of the last block.
<1>LastPage.
    NatFacts /\ RamParameters /\ BlockTypeOK /\ SpaceInv
  => /\ last_ram_page \in Nat
     /\ \A b \in Listed : End(b) <= last_ram_page
     /\ last_ram_page = 0 \/ \E b \in Listed : last_ram_page = End(b)
  <2>GreatestNat.
    ASSUME NatFacts, NEW S \in SUBSET Nat, S # {}, NEW top \in Nat, \A m \in S : m <= top
    PROVE  \E n \in S : \A m \in S : m <= n
    <3> USE <2>GreatestNat
    <3> DEFINE T == {k \in Nat : \E m \in S : k = top - m}
    <3>1. PICK k \in T : \A j \in T : k <= j
      <4>1. \A m \in S : top - m \in T
        OBVIOUS
      <4>2. T \in SUBSET Nat /\ T # {}
        BY <4>1, Zenon
      <4> HIDE DEF T
      <4> QED BY <4>2, LeastNat, Zenon
    <3>2. PICK n \in S : k = top - n
      BY Zenon
    <3>3. \A m \in S : top - m \in T
      OBVIOUS
    <3>4. \A m \in S : k <= top - m
      BY <3>1, <3>3, Zenon
    <3> QED BY <3>2, <3>4
  <2> SUFFICES ASSUME NatFacts, RamParameters, BlockTypeOK, SpaceInv
               PROVE  /\ last_ram_page \in Nat
                      /\ \A b \in Listed : End(b) <= last_ram_page
                      /\ last_ram_page = 0 \/ \E b \in Listed : last_ram_page = End(b)
    BY Zenon
  <2> DEFINE ends == {0} \cup {End(b) : b \in Listed}
  <2>1. ends \in SUBSET Nat /\ ends # {}
    BY ListedBlocks, BlockFields DEF RamParameters
  <2>2. \A m \in ends : m <= RAM_ADDR_MAX
    BY DEF SpaceInv, Placed, RamParameters
  <2>3. \E n \in ends : \A m \in ends : m <= n
    <3> HIDE DEF ends
    <3> QED BY <2>1, <2>2, <2>GreatestNat, Zenon DEF RamParameters
  <2>4. last_ram_page = CHOOSE n \in ends : \A m \in ends : m <= n
    BY Zenon DEF last_ram_page
  <2>5. last_ram_page \in ends /\ \A m \in ends : m <= last_ram_page
    <3> HIDE DEF ends
    <3> QED BY <2>3, <2>4, Zenon
  <2> QED BY <2>1, <2>5, Zenon
<1> SUFFICES ASSUME NatFacts, RamParameters, RamInv, NEW b \in RamBlocks, NEW kind \in Kinds, RamAlloc(b, kind)
             PROVE  RamInv'
  BY Zenon
<1>1. BlockTypeOK /\ MainTypeOK /\ SpaceInv /\ WalkInv /\ MaxBlocks \in Nat
  BY Zenon DEF RamInv, RamTypeOK, RamParameters
<1>2. /\ main.at = "idle" /\ rblock[b].state = "unused"
      /\ UNCHANGED <<succ, mru_block, dirty, arrays, bitmaps, thr, grace, freed, owed>>
      /\ main' = [main EXCEPT !.at = "offset", !.b = b, !.old = last_ram_page]
  BY Zenon DEF RamAlloc, MainAt
<1>3. PICK r : r = [offset |-> 0, used_length |-> kind[1], max_length |-> kind[2], resizeable |-> kind[3], state |-> "new"]
  BY Zenon
<1>4. kind[1] \in Nat /\ kind[2] \in Nat /\ kind[3] \in BOOLEAN /\ kind[1] <= kind[2] /\ 0 < kind[2] /\ kind[2] <= RAM_ADDR_MAX
  BY Zenon DEF RamParameters
<1>5. /\ r \in [offset : Nat, max_length : Nat, used_length : Nat, resizeable : BOOLEAN, state : BlockStates]
      /\ r.used_length <= r.max_length /\ r.max_length \in 1..RAM_ADDR_MAX /\ r.state = "new"
  BY <1>3, <1>4 DEF BlockStates, RamParameters
<1>6. BlockTypeOK' /\ rblock'[b] = r /\ \A x \in RamBlocks \ {b} : rblock'[x] = rblock[x]
  <2>1. rblock' = [rblock EXCEPT ![b] = r]
    BY <1>3, Zenon DEF RamAlloc
  <2> QED BY <1>1, <1>2, <1>5, <2>1, BlockUpdate, Zenon
<1>7. /\ last_ram_page \in Nat /\ \A a \in Listed : End(a) <= last_ram_page
      /\ last_ram_page = 0 \/ \E a \in Listed : last_ram_page = End(a)
  BY <1>1, <1>LastPage, Zenon
<1>8. MainBecomes("offset", b, last_ram_page, main.new, main.todo)
  <2>1. b \in 0..MaxBlocks /\ "offset" \in MainPlaces
    BY <1>1 DEF RamBlocks, MainPlaces
  <2> QED BY <1>1, <1>2, <1>7, <2>1, <1>MainAllocates, Zenon
<1>9. MainTypeOK' /\ main'.at = "offset" /\ main'.b = b /\ main'.old = last_ram_page
  BY <1>8, Zenon DEF MainBecomes
<1>10. Listed' = Listed /\ \A x \in Settled : Stays(x)
  BY <1>2, <1>5, <1>6, Zenon DEF Listed, Settled, Stays, Fixed
<1>11. MainBlock'
  BY <1>5, <1>6, <1>9, Zenon DEF MainBlock
<1>12. SpaceInv'
  BY <1>1, <1>7, <1>9, <1>10, QuietSpace, Zenon
<1>13. MruInv'
  BY <1>1, <1>2, <1>10, Zenon DEF WalkInv, MruInv
<1> QED BY <1>2, <1>6, <1>9, <1>10, <1>11, <1>12, <1>13, QuietStep, Zenon

\* find_ram_offset finds a gap that is large enough, or aborts.
LEMMA OffsetNext ==
    NatFacts /\ RamParameters /\ RamInv /\ RamOffset
  => RamInv'
<1>MainExtends.
  ASSUME MainTypeOK, NEW w \in MainPlaces, NEW n \in Nat, NEW c \in SUBSET DirtyClients,
         main' = [main EXCEPT !.at = w, !.new = n, !.todo = c]
  PROVE  MainBecomes(w, main.b, main.old, n, c)
  <2> USE <1>MainExtends
  <2>1. PICK x \in MainStates : x = main
    BY Zenon DEF MainTypeOK, MainStates
  <2>2. PICK r : r = [x EXCEPT !.at = w, !.new = n, !.todo = c]
    BY Zenon
  <2>3. r \in MainStates /\ r.at = w /\ r.b = x.b /\ r.old = x.old /\ r.new = n /\ r.todo = c
    BY <2>2, Zenon DEF MainStates
  <2>4. main' = r
    BY <2>1, <2>2, Zenon
  <2> QED BY <2>1, <2>3, <2>4, Zenon DEF MainBecomes, MainTypeOK, MainStates
\* find_ram_offset finds a place for the block, or none.
<1>OffsetFound.
  \A size \in Nat \ {0} :
    NatFacts /\ RamParameters /\ BlockTypeOK /\ ListInv /\ SpaceInv /\ size <= RAM_ADDR_MAX
  => \/ find_ram_offset(size) = RAM_ADDR_MAX
     \/ /\ find_ram_offset(size) \in Nat /\ find_ram_offset(size) % BITS_PER_LONG = 0
        /\ find_ram_offset(size) + size <= RAM_ADDR_MAX
        /\ \A m \in Listed : find_ram_offset(size) + size <= rblock[m].offset \/ End(m) <= find_ram_offset(size)
  \* Of the numbers in F one has the least g, and is the first of those.
  <2>FirstLeast.
    ASSUME NatFacts, NEW F \in SUBSET Nat, F # {}, NEW g, \A i \in F : g[i] \in Nat
    PROVE  \E i \in F : \A j \in F : IF i <= j THEN g[i] <= g[j] ELSE g[i] < g[j]
    <3> USE <2>FirstLeast
    <3> DEFINE G == {g[i] : i \in F}
    <3>1. PICK m \in G : \A n \in G : m <= n
      <4>1. G \in SUBSET Nat /\ G # {}
        BY Zenon
      <4> HIDE DEF G
      <4> QED BY <4>1, LeastNat, Zenon
    <3> DEFINE I == {i \in F : g[i] = m}
    <3>2. PICK i \in I : \A j \in I : i <= j
      <4>1. I \in SUBSET Nat /\ I # {}
        BY Zenon
      <4> HIDE DEF I
      <4> QED BY <4>1, LeastNat, Zenon
    <3>3. i \in F /\ g[i] = m /\ i \in Nat /\ m \in Nat
      BY Zenon
    <3>4. ASSUME NEW j \in F PROVE IF i <= j THEN g[i] <= g[j] ELSE g[i] < g[j]
      <4>1. m <= g[j] /\ g[j] \in Nat /\ j \in Nat
        BY <3>1, Zenon
      <4>2. g[j] = m => i <= j
        BY <3>2, Zenon
      <4> QED BY <3>3, <4>1, <4>2
    <3> QED BY <3>3, <3>4, Zenon
  \* A gap that find_ram_offset takes holds the block and is free.
  <2>GapIsFree.
    ASSUME RamParameters, BlockTypeOK, SpaceInv, NEW b \in Listed, NEW size \in Nat \ {0}, NEW off, NEW next, NEW F,
           off = RoundUp(End(b), BITS_PER_LONG),
           F = {RAM_ADDR_MAX} \cup {rblock[n].offset : n \in {m \in Listed : rblock[m].offset >= off}}, next \in F,
           \A m \in F : next <= m
    PROVE  /\ next - off \in Int
           /\ next - off >= size =>
                /\ off \in Nat /\ off % BITS_PER_LONG = 0 /\ off + size <= RAM_ADDR_MAX
                /\ \A m \in Listed : off + size <= rblock[m].offset \/ End(m) <= off
    <3> USE <2>GapIsFree
    <3>1. /\ MaxBlocks \in Nat /\ BITS_PER_LONG \in Nat \ {0} /\ RAM_ADDR_MAX \in Nat
      BY Zenon DEF RamParameters
    <3>2. \A m \in Listed : rblock[m].offset \in Nat /\ End(m) \in Nat /\ rblock[m].offset <= End(m)
      BY <3>1, ListedBlocks, BlockFields
    <3>3. /\ off \in Nat /\ off % BITS_PER_LONG = 0 /\ End(b) <= off
          /\ \A m \in Nat : m % BITS_PER_LONG = 0 /\ End(b) <= m => off <= m
      BY <3>1, <3>2, RoundUpIs, Zenon
    <3>4. F \in SUBSET Nat /\ RAM_ADDR_MAX \in F
      BY <3>1, <3>2, Zenon
    <3>6. next \in Nat /\ next <= RAM_ADDR_MAX /\ next - off \in Int
      BY <3>3, <3>4
    <3>7. ASSUME next - off >= size, NEW m \in Listed PROVE off + size <= rblock[m].offset \/ End(m) <= off
      <4>1. CASE rblock[m].offset >= off
        <5>1. rblock[m].offset \in F
          BY <4>1, Zenon
        <5> QED BY <5>1, <3>2, <3>3, <3>6, <3>7, SMTT(30)
      <4>2. CASE rblock[m].offset < off /\ m # b
        <5>1. rblock[m].offset % BITS_PER_LONG = 0 /\ Apart(m, b)
          BY <4>2, Zenon DEF SpaceInv, Placed
        <5>2. ~(End(b) <= rblock[m].offset)
          BY <5>1, <4>2, <3>2, <3>3
        <5>3. End(m) <= rblock[b].offset
          BY <5>1, <5>2, Zenon DEF Apart
        <5> QED BY <5>3, <3>2, <3>3
      <4>3. CASE m = b
        BY <4>3, <3>3, Zenon
      <4> QED BY <4>1, <4>2, <4>3, <3>2, <3>3, SMTT(30)
    <3>8. next - off >= size => off + size <= RAM_ADDR_MAX
      BY <3>1, <3>3, <3>6
    <3> QED BY <3>3, <3>6, <3>7, <3>8, Zenon
  <2> SUFFICES ASSUME NatFacts, RamParameters, BlockTypeOK, ListInv, SpaceInv, NEW size \in Nat \ {0},
                      size <= RAM_ADDR_MAX
               PROVE  \/ find_ram_offset(size) = RAM_ADDR_MAX
                      \/ /\ find_ram_offset(size) \in Nat /\ find_ram_offset(size) % BITS_PER_LONG = 0
                         /\ find_ram_offset(size) + size <= RAM_ADDR_MAX
                         /\ \A m \in Listed : find_ram_offset(size) + size <= rblock[m].offset \/ End(m) <= find_ram_offset(size)
    BY Zenon
  <2> DEFINE candidate(b) == RoundUp(End(b), BITS_PER_LONG)
             following(b) == {RAM_ADDR_MAX} \cup {rblock[n].offset : n \in {m \in Listed : rblock[m].offset >= candidate(b)}}
             gap(b) == (CHOOSE n \in following(b) : \A m \in following(b) : n <= m) - candidate(b)
             fits == {i \in 1..Len(Order) : gap(Order[i]) >= size}
             best == {i \in fits : \A j \in fits : IF i <= j THEN gap(Order[i]) <= gap(Order[j])
                                                          ELSE gap(Order[i]) < gap(Order[j])}
  <2>1. find_ram_offset(size) = IF Order = <<>> THEN 0
                                ELSE IF fits = {} THEN RAM_ADDR_MAX
                                ELSE candidate(Order[CHOOSE i \in best : TRUE])
    BY Zenon DEF find_ram_offset
  <2>0. MaxBlocks \in Nat /\ RAM_ADDR_MAX \in Nat /\ BITS_PER_LONG \in Nat \ {0}
    BY Zenon DEF RamParameters
  <2>2. /\ Len(Order) \in 0..MaxBlocks /\ Order \in [1..Len(Order) -> RamBlocks]
        /\ \A b \in RamBlocks : b \in Listed <=> \E i \in 1..Len(Order) : Order[i] = b
    BY <2>0, OrderIs, Zenon DEF ListOf
  <2>3. CASE Order = <<>>
    <3>1. Listed = {}
      <4>1. Len(Order) = 0
        BY <2>3, Zenon
      <4>2. \A i : i \notin 1..0
        OBVIOUS
      <4> QED BY <2>2, <4>1, <4>2, Zenon DEF Listed
    <3>2. find_ram_offset(size) = 0
      BY <2>1, <2>3, Zenon
    <3>3. 0 % BITS_PER_LONG = 0 /\ 0 + size <= RAM_ADDR_MAX
      BY <2>0, SMTT(30)
    <3> QED BY <3>1, <3>2, <3>3
  <2>4. CASE Order # <<>> /\ fits = {}
    BY <2>1, <2>4, Zenon
  <2>5. CASE Order # <<>> /\ fits # {}
    <3>1. \A i \in 1..Len(Order) : Order[i] \in Listed
      BY <2>2, Zenon
    <3>2. ASSUME NEW b \in Listed
          PROVE  /\ gap(b) \in Int
                 /\ gap(b) >= size =>
                      /\ candidate(b) \in Nat /\ candidate(b) % BITS_PER_LONG = 0 /\ candidate(b) + size <= RAM_ADDR_MAX
                      /\ \A m \in Listed : candidate(b) + size <= rblock[m].offset \/ End(m) <= candidate(b)
      <4>1. PICK off : off = candidate(b)
        BY Zenon
      <4>2. PICK F : F = following(b)
        BY Zenon
      <4>3. F = {RAM_ADDR_MAX} \cup {rblock[n].offset : n \in {m \in Listed : rblock[m].offset >= off}}
        BY <4>1, <4>2, Zenon
      <4>4. PICK next : next = CHOOSE n \in F : \A m \in F : n <= m
        BY Zenon
      <4>5. gap(b) = next - off
        BY <4>1, <4>2, <4>4, Zenon
      <4> HIDE DEF gap, following
      <4>6. off = RoundUp(End(b), BITS_PER_LONG)
        BY <4>1, Zenon
      <4> HIDE DEF candidate
      <4>7. /\ next - off \in Int
            /\ next - off >= size =>
                 /\ off \in Nat /\ off % BITS_PER_LONG = 0 /\ off + size <= RAM_ADDR_MAX
                 /\ \A m \in Listed : off + size <= rblock[m].offset \/ End(m) <= off
        <5>1. \A m \in Listed : rblock[m].offset \in Nat
          BY <2>0, ListedBlocks, BlockFields, Zenon
        <5>2. F \in SUBSET Nat /\ F # {}
          BY <2>0, <4>3, <5>1, Zenon
        <5>3. \E n \in F : \A m \in F : n <= m
          BY <5>2, LeastNat, Zenon
        <5>4. next \in F /\ \A m \in F : next <= m
          BY <4>4, <5>3, Zenon
        <5> QED BY <4>3, <4>6, <5>4, <2>GapIsFree, ZenonT(60)
      <4> QED BY <4>1, <4>5, <4>7, Zenon
    <3>3. \A i \in fits : i \in 1..Len(Order) /\ i \in Nat /\ gap(Order[i]) >= size /\ gap(Order[i]) \in Int
      <4> HIDE DEF gap
      <4> QED BY <2>2, <3>1, <3>2
    <3>4. \E i \in best : TRUE
      <4> DEFINE g == [i \in fits |-> gap(Order[i])]
      <4> HIDE DEF gap
      <4>1. \A i \in fits : g[i] = gap(Order[i])
        BY Zenon
      <4>2. \A i \in fits : g[i] \in Nat
        BY <4>1, <3>3
      <4>3. fits \in SUBSET Nat
        BY <3>3, Zenon
      <4> HIDE DEF g, fits
      <4>4. \E i \in fits : \A j \in fits : IF i <= j THEN g[i] <= g[j] ELSE g[i] < g[j]
        BY <2>5, <4>2, <4>3, <2>FirstLeast, Zenon
      <4> QED BY <4>1, <4>4, Zenon
    <3>5. PICK i : i = CHOOSE j \in best : TRUE
      BY Zenon
    <3>6. i \in fits
      <4>1. i \in best
        <5> HIDE DEF best
        <5> QED BY <3>4, <3>5, Zenon
      <4> HIDE DEF fits
      <4> QED BY <4>1, Zenon
    <3>7. find_ram_offset(size) = candidate(Order[i])
      <4> HIDE DEF best, fits, candidate
      <4> QED BY <2>1, <2>5, <3>5, Zenon
    <3>8. PICK b \in Listed : b = Order[i] /\ gap(b) >= size
      <4> HIDE DEF gap
      <4> QED BY <3>1, <3>3, <3>6, Zenon
    <3>9. find_ram_offset(size) = candidate(b)
      BY <3>7, <3>8, Zenon
    <3> HIDE DEF gap, candidate, fits, best, following
    <3> QED BY <3>2, <3>8, <3>9, Zenon
  <2> QED BY <2>3, <2>4, <2>5, Zenon
<1> SUFFICES ASSUME NatFacts, RamParameters, RamInv, RamOffset
             PROVE  RamInv'
  BY Zenon
<1>1. /\ BlockTypeOK /\ MainTypeOK /\ ListInv /\ MainBlock /\ SpaceInv /\ ArrayInv /\ MruInv
      /\ dirty \in [DirtyClients -> Nat] /\ arrays \in Seq(Seq(Nat))
  BY Zenon DEF RamInv, RamTypeOK, WalkInv, DirtyTypeOK
<1>p. MaxBlocks \in Nat /\ RAM_ADDR_MAX \in Nat /\ DIRTY_MEMORY_BLOCK_SIZE \in Nat \ {0} /\ BITS_PER_LONG \in Nat \ {0}
  BY Zenon DEF RamParameters
<1>2. /\ main.at = "offset" /\ main.b \in RamBlocks /\ rblock[main.b].state = "new"
      /\ UNCHANGED <<succ, mru_block, dirty, arrays, bitmaps, thr, grace, freed, owed>>
  BY <1>1, Zenon DEF RamOffset, MainAt, MainBlock
<1>3. PICK b \in RamBlocks : b = main.b
  BY <1>2, Zenon
<1>4. PICK size : size = rblock[b].max_length
  BY Zenon
<1>5. size \in Nat \ {0} /\ size <= RAM_ADDR_MAX
  BY <1>1, <1>p, <1>2, <1>3, <1>4, BlockFields, SMTT(30)
<1>6. PICK off : off = find_ram_offset(size)
  BY Zenon
<1>7. PICK r : r = rblock[b]
  BY Zenon
<1>8. /\ r \in [offset : Nat, max_length : Nat, used_length : Nat, resizeable : BOOLEAN, state : BlockStates]
      /\ r.used_length <= r.max_length /\ r.max_length \in 1..RAM_ADDR_MAX /\ r.state = "new" /\ r.max_length = size
  BY <1>1, <1>2, <1>3, <1>4, <1>5, <1>7, <1>p, Zenon DEF BlockTypeOK
<1>9. main.old \in Nat /\ (\A x \in Listed : End(x) <= main.old) /\ (main.old = 0 \/ \E x \in Listed : main.old = End(x))
  BY <1>1, <1>2, MainFields, Zenon DEF SpaceInv
<1>10. CASE off = RAM_ADDR_MAX /\ MainGoes("aborted") /\ UNCHANGED rblock
  <2>1. MainBecomes("aborted", main.b, main.old, main.new, main.todo)
    BY <1>1, <1>10, MainMoves, Zenon DEF MainPlaces
  <2>2. MainTypeOK' /\ main'.at = "aborted"
    BY <2>1, Zenon DEF MainBecomes
  <2>3. Listed' = Listed /\ \A x \in Settled : Stays(x)
    BY <1>10, Zenon DEF Listed, Settled, Stays, Fixed
  <2>4. MainBlock'
    BY <2>2, Zenon DEF MainBlock
  <2>5. SpaceInv'
    BY <1>1, <2>2, <2>3, QuietSpace, Zenon
  <2>6. MruInv' /\ BlockTypeOK'
    BY <1>1, <1>2, <1>10, <2>3, Zenon DEF MruInv, BlockTypeOK
  <2> QED BY <1>2, <2>2, <2>3, <2>4, <2>5, <2>6, QuietStep, Zenon
<1>11. CASE main' = MainIdle /\ rblock' = [rblock EXCEPT ![b].state = "failed"]
  <2>1. MainTypeOK' /\ main'.at = "idle"
    BY <1>11, <1>p, MainEnds, Zenon DEF MainBecomes
  <2>2. PICK q : q = [r EXCEPT !.state = "failed"]
    BY Zenon
  <2>3. /\ q \in [offset : Nat, max_length : Nat, used_length : Nat, resizeable : BOOLEAN, state : BlockStates]
        /\ q.used_length <= q.max_length /\ q.max_length \in 1..RAM_ADDR_MAX /\ q.state = "failed"
    BY <1>8, <2>2, Zenon DEF BlockStates
  <2>4. rblock' = [rblock EXCEPT ![b] = q]
    BY <1>11, <1>7, <2>2, Zenon
  <2>5. BlockTypeOK' /\ rblock'[b] = q /\ \A x \in RamBlocks \ {b} : rblock'[x] = rblock[x]
    BY <1>1, <1>2, <2>3, <2>4, BlockUpdate, Zenon
  <2>6. Listed' = Listed /\ \A x \in Settled : Stays(x)
    BY <1>2, <1>3, <2>3, <2>5 DEF Listed, Settled, Stays, Fixed
  <2>7. MainBlock'
    BY <2>1, Zenon DEF MainBlock
  <2>8. SpaceInv'
    BY <1>1, <2>1, <2>6, QuietSpace, Zenon
  <2>9. MruInv'
    BY <1>1, <1>2, <2>6, Zenon DEF MruInv
  <2> QED BY <1>2, <2>1, <2>5, <2>6, <2>7, <2>8, <2>9, QuietStep, SMTT(30)
<1>12. ASSUME off < RAM_ADDR_MAX, rblock' = [rblock EXCEPT ![b].offset = off], NEW new, new = Max2(main.old, off + size),
              main' = [main EXCEPT !.at = "extend", !.new = new,
                                   !.todo = IF BitmapCount(new) > BitmapCount(main.old) THEN DirtyClients ELSE {}]
       PROVE  RamInv'
  <2>1. /\ off \in Nat /\ off % BITS_PER_LONG = 0 /\ off + size <= RAM_ADDR_MAX
        /\ \A m \in Listed : off + size <= rblock[m].offset \/ End(m) <= off
    BY <1>1, <1>p, <1>5, <1>6, <1>12, <1>OffsetFound, SMTT(30)
  <2>2. new \in Nat
    BY <1>5, <1>9, <1>12, <2>1, SMTT(30) DEF Max2
  <2>3. PICK todo \in SUBSET DirtyClients : todo = IF BitmapCount(new) > BitmapCount(main.old) THEN DirtyClients ELSE {}
    BY ZenonT(60)
  <2>4. MainBecomes("extend", b, main.old, new, todo)
    BY <1>1, <1>3, <1>12, <2>2, <2>3, <1>MainExtends, Zenon DEF MainPlaces
  <2>5. MainTypeOK' /\ main'.at = "extend" /\ main'.b = b /\ main'.old = main.old /\ main'.new = new /\ main'.todo = todo
    BY <2>4, Zenon DEF MainBecomes
  <2>6. PICK q : q = [r EXCEPT !.offset = off]
    BY Zenon
  <2>7. /\ q \in [offset : Nat, max_length : Nat, used_length : Nat, resizeable : BOOLEAN, state : BlockStates]
        /\ q.used_length <= q.max_length /\ q.max_length \in 1..RAM_ADDR_MAX /\ q.state = "new" /\ q.offset = off /\ q.max_length = size
    BY <1>8, <2>1, <2>6, Zenon
  <2>8. rblock' = [rblock EXCEPT ![b] = q]
    BY <1>12, <1>7, <2>6, Zenon
  <2>9. BlockTypeOK' /\ rblock'[b] = q /\ \A x \in RamBlocks \ {b} : rblock'[x] = rblock[x]
    BY <1>1, <1>2, <2>7, <2>8, BlockUpdate, ZenonT(60)
  <2>10. Listed' = Listed /\ \A x \in Settled : Stays(x)
    BY <1>2, <1>3, <2>7, <2>9 DEF Listed, Settled, Stays, Fixed
  <2>11. MainBlock'
    BY <2>5, <2>7, <2>9, Zenon DEF MainBlock
  <2>12. \A x \in Listed : Fixed(x) /\ End(x)' = End(x) /\ x # b
    BY <1>2, <1>3, <2>10, FixedCovers, Zenon DEF Listed, Settled, Stays
  <2>13. End(b)' = off + size /\ rblock'[b].offset = off
    BY <2>7, <2>9, Zenon DEF End
  <2>14. SpaceInv'
    <3>1. Placed' = Listed \cup {b} /\ Placed = Listed
      BY <1>2, <2>5, <2>10, Zenon DEF Placed
    <3>2. \A x \in Listed : rblock[x].offset % BITS_PER_LONG = 0 /\ End(x) <= RAM_ADDR_MAX
      BY <1>1, <3>1, Zenon DEF SpaceInv
    <3>3. \A x \in Placed' : rblock'[x].offset % BITS_PER_LONG = 0 /\ End(x)' <= RAM_ADDR_MAX
      BY <2>1, <2>12, <2>13, <3>1, <3>2, Zenon DEF Fixed
    <3>4. \A x, y \in Listed : x # y => Apart(x, y)'
      BY <1>1, <2>12, <3>1, Zenon DEF SpaceInv, Apart, Fixed
    <3>5. \A x \in Listed : Apart(x, b)' /\ Apart(b, x)'
      BY <2>1, <2>12, <2>13, Zenon DEF Apart, Fixed
    <3>6. \A x, y \in Placed' : x # y => Apart(x, y)'
      BY <3>1, <3>4, <3>5, Zenon
    <3>7. \A x \in Listed' : End(x)' <= main'.old
      BY <1>9, <2>5, <2>10, <2>12, Zenon
    <3>8. main'.old = 0 \/ \E x \in Listed' : main'.old = End(x)'
      BY <1>9, <2>5, <2>10, <2>12, Zenon
    <3>9. main'.new = Max2(main'.old, End(main.b)')
      BY <1>3, <1>12, <2>5, <2>13, Zenon
    <3>10. End(main.b)' = End(b)'
      BY <2>5, Zenon DEF End
    <3> QED BY <2>5, <2>13, <1>12, <3>3, <3>6, <3>7, <3>8, <3>10, SMTT(30) DEF SpaceInv
  <2>15. MruInv'
    BY <1>1, <1>2, <2>5, <2>10, Zenon DEF MruInv
  <2>16. ASSUME NEW c \in DirtyClients \ todo PROVE BitmapCount(new) <= ArrLen(c)
    <3>1. BitmapCount(new) <= BitmapCount(main.old)
      <4>1. BitmapCount(new) \in Nat /\ BitmapCount(main.old) \in Nat
        BY <1>9, <1>p, <2>2, BitmapCountIs, Zenon
      <4> QED BY <2>3, <2>16, <4>1
    <3>2. CASE main.old = 0
      <4>1. BitmapCount(main.old) <= 0 /\ BitmapCount(main.old) \in Nat /\ BitmapCount(new) \in Nat
        BY <1>p, <3>2, <2>2, BitmapCountIs, SMTT(30)
      <4>2. ArrLen(c) \in Nat
        <5>1. dirty[c] \in Nat /\ dirty[c] <= Len(arrays)
          BY <1>1, Zenon DEF ArrayInv
        <5> QED BY <1>1, <5>1 DEF ArrLen
      <4> QED BY <3>1, <4>1, <4>2
    <3>3. CASE \E x \in Listed : main.old = End(x)
      <4>1. PICK x \in Listed : main.old = End(x)
        BY <3>3, Zenon
      <4>2. BitmapCount(main.old) <= ArrLen(c)
        BY <1>1, <4>1, Zenon DEF ArrayInv
      <4>3. ArrLen(c) \in Nat
        <5>1. dirty[c] \in Nat /\ dirty[c] <= Len(arrays)
          BY <1>1, Zenon DEF ArrayInv
        <5> QED BY <1>1, <5>1, SMTT(30) DEF ArrLen
      <4>4. BitmapCount(new) \in Nat /\ BitmapCount(main.old) \in Nat
        BY <1>9, <1>p, <2>2, BitmapCountIs, Zenon
      <4> QED BY <3>1, <4>2, <4>3, <4>4, SMTT(30)
    <3> QED BY <1>9, <3>2, <3>3, Zenon
  <2>17. \A c \in DirtyClients \ main'.todo : BitmapCount(main'.new) <= ArrLen(c)
    BY <2>5, <2>16, Zenon
  <2> QED BY <1>2, <2>5, <2>9, <2>10, <2>11, <2>14, <2>15, <2>17, QuietStep, Zenon
<1> QED BY <1>3, <1>4, <1>6, <1>10, <1>11, <1>12, ZenonT(60) DEF RamOffset

\* mru_block is reset after the list has changed.
LEMMA ForgetNext ==
  ASSUME RamParameters, RamInv, RamForget \/ RamFreeForget
  PROVE  RamInv'
<1>1. BlockTypeOK /\ MainTypeOK /\ MainBlock /\ SpaceInv /\ MaxBlocks \in Nat
  BY Zenon DEF RamInv, RamTypeOK, RamParameters
<1>2. PICK w \in MainPlaces :
        /\ (main.at = "added" /\ w = "mark") \/ (main.at = "removed" /\ w = "reclaim")
        /\ MainGoes(w)
  <2>1. CASE RamForget
    <3>1. main.at = "added" /\ MainGoes("mark") /\ "mark" \in MainPlaces
      BY <2>1, Zenon DEF RamForget, MainAt, MainPlaces
    <3> QED BY <3>1, Zenon
  <2>2. CASE RamFreeForget
    <3>1. main.at = "removed" /\ MainGoes("reclaim") /\ "reclaim" \in MainPlaces
      BY <2>2, Zenon DEF RamFreeForget, Forget, MainAt, MainPlaces
    <3> QED BY <3>1, Zenon
  <2> QED BY <2>1, <2>2, Zenon
<1>3. mru_block' = 0 /\ UNCHANGED <<rblock, succ, dirty, arrays, bitmaps, thr, grace, freed, owed>>
  BY Zenon DEF RamForget, RamFreeForget, Forget
<1>4. MainTypeOK' /\ main'.at = w /\ main'.b = main.b
  BY <1>1, <1>2, MainMoves, Zenon DEF MainBecomes
<1>5. Listed' = Listed /\ \A x \in Settled : Stays(x)
  BY <1>3, Zenon DEF Listed, Settled, Stays, Fixed
<1>6. MainBlock'
  BY <1>1, <1>2, <1>3, <1>4, <1>5, Zenon DEF MainBlock
<1>7. SpaceInv'
  BY <1>1, <1>2, <1>4, <1>5, QuietSpace, Zenon
<1>8. MruInv' /\ BlockTypeOK'
  BY <1>1, <1>3 DEF MruInv, BlockTypeOK
<1> QED BY <1>2, <1>3, <1>4, <1>5, <1>6, <1>7, <1>8, QuietStep, Zenon

\* The rest of the invariant after a step that changes marks.
LEMMA MarkingStep ==
  ASSUME RamInv, UNCHANGED <<succ, dirty, arrays, thr, grace, freed, mru_block>>,
         Listed' = Listed, \A x \in Settled : Stays(x),
         BlockTypeOK', MainTypeOK', MainBlock', main'.at \in {"idle", "resized"}, main.at \notin {"removed", "reclaim"},
         bitmaps' \in Seq(SUBSET Nat), Len(bitmaps') = Len(bitmaps), owed' \in [DirtyClients -> SUBSET Nat],
         OwedInv' /\ DirtyKept'
  PROVE  RamInv'
<1>1. ListInv'
  BY QuietList, Zenon DEF RamInv
<1>2. ArrayInv'
  BY QuietArrays, Zenon DEF RamInv
<1>3. SpaceInv'
  BY QuietSpace, Zenon DEF RamInv
<1>4. \A w : Dead(w) => Dead(w)'
  BY Zenon DEF Dead, Settled, Stays
<1>5. \A w \in freed \cup Pending : Dead(w)'
  BY <1>4, Zenon DEF RamInv, GraceInv
<1>6. MruInv'
  BY Zenon DEF RamInv, WalkInv, MruInv
<1>7. WorkInv' /\ GraceInv' /\ WalkInv'
  BY <1>5, <1>6, QuietThreads, Zenon DEF RamInv
<1>8. RamTypeOK'
  BY Zenon DEF RamInv, RamTypeOK, ThrTypeOK, DirtyTypeOK
<1> QED BY <1>1, <1>2, <1>3, <1>7, <1>8, Zenon DEF RamInv

\* A page of a listed block is below RAM_ADDR_MAX, and the arrays reach it.
LEMMA ListedPage ==
  ASSUME RamParameters, RamTypeOK, SpaceInv, ArrayInv, NEW b \in Listed, NEW p, Covers(b, p), NEW c \in DirtyClients
  PROVE  p \in Nat /\ p < RAM_ADDR_MAX /\ Reaches(dirty[c], p)
<1>1. /\ BlockTypeOK /\ MaxBlocks \in Nat /\ RAM_ADDR_MAX \in Nat /\ DIRTY_MEMORY_BLOCK_SIZE \in Nat \ {0}
      /\ dirty \in [DirtyClients -> Nat] /\ arrays \in Seq(Seq(Nat))
  BY Zenon DEF RamTypeOK, RamParameters, DirtyTypeOK
<1>2. PICK n \in Nat : n = End(b)
  BY <1>1, ListedBlocks, BlockFields, Zenon
<1>3. p \in Nat /\ p < n
  BY <1>1, <1>2, ListedBlocks, BlockFields, Zenon
<1>4. n <= RAM_ADDR_MAX
  BY <1>2, Zenon DEF SpaceInv, Placed
<1>5. p \div DIRTY_MEMORY_BLOCK_SIZE \in Nat /\ p \div DIRTY_MEMORY_BLOCK_SIZE < BitmapCount(n) /\ BitmapCount(n) \in Nat
  BY <1>1, <1>3, BitmapCountIs, Zenon
<1>6. BitmapCount(n) <= ArrLen(c) /\ dirty[c] \in Nat /\ dirty[c] <= Len(arrays)
  BY <1>1, <1>2, Zenon DEF ArrayInv
<1>7. dirty[c] # 0
  BY <1>5, <1>6 DEF ArrLen
<1>8. Len(arrays[dirty[c]]) \in Nat
  BY <1>1, <1>6, <1>7
<1>9. p \div DIRTY_MEMORY_BLOCK_SIZE < Len(arrays[dirty[c]])
  BY <1>5, <1>6, <1>7, <1>8 DEF ArrLen
<1> QED BY <1>1, <1>3, <1>4, <1>7, <1>9, SMTT(30) DEF Reaches

\* The pages of a new or a resized block are marked.
LEMMA MarkUsedNext ==
  ASSUME RamParameters, RamInv, RamMarkUsed
  PROVE  RamInv'
<1>1. /\ BlockTypeOK /\ MainTypeOK /\ DirtyTypeOK /\ MainBlock /\ SpaceInv /\ ArrayInv /\ OwedInv /\ DirtyKept /\ RamTypeOK /\ MaxBlocks \in Nat
  BY Zenon DEF RamInv, RamTypeOK, RamParameters
<1>2. /\ main.at \in {"mark", "resized"} /\ main' = MainIdle
      /\ UNCHANGED <<rblock, succ, mru_block, dirty, arrays, thr, grace, freed>>
  BY Zenon DEF RamMarkUsed
<1>3. PICK pages : pages = Pages(main.b, rblock[main.b].used_length)
  BY Zenon
<1>4. bitmaps' = WithMarks(dirty, pages) /\ owed' = [c \in DirtyClients |-> owed[c] \cup pages]
  BY <1>3, Zenon DEF RamMarkUsed
<1>5. main.b \in Listed
  BY <1>1, <1>2, Zenon DEF MainBlock
<1>6. \A p \in pages : p \in Nat /\ Covers(main.b, p)
  <2>1. /\ rblock[main.b].offset \in Nat /\ rblock[main.b].max_length \in Nat /\ rblock[main.b].used_length \in Nat
        /\ rblock[main.b].used_length <= rblock[main.b].max_length
    BY <1>1, <1>5, ListedBlocks, BlockFields, Zenon
  <2> QED BY <1>3, <2>1 DEF Pages, Covers
<1>7. pages \in SUBSET Nat
  BY <1>6, Zenon
<1>8. bitmaps' \in Seq(SUBSET Nat) /\ Len(bitmaps') = Len(bitmaps)
  BY <1>1, <1>4, <1>7, MarksType, Zenon DEF DirtyTypeOK
<1>9. owed' \in [DirtyClients -> SUBSET Nat]
  BY <1>1, <1>4, <1>7, Zenon DEF DirtyTypeOK
<1>10. MainTypeOK' /\ main'.at = "idle"
  BY <1>1, <1>2, MainEnds, Zenon DEF MainBecomes
<1>11. Listed' = Listed /\ \A x \in Settled : Stays(x)
  BY <1>2, Zenon DEF Listed, Settled, Stays, Fixed
<1>12. ASSUME NEW c \in DirtyClients, NEW p \in owed'[c]
       PROVE  /\ p \in pages \/ (p \in owed[c] /\ p \notin pages)
              /\ p \in pages => p \in Marked(c)'
              /\ p \in Marked(c) => p \in Marked(c)'
  <2>1. p \in owed[c] \/ p \in pages
    BY <1>4, Zenon
  <2>2. p \in Nat
    BY <1>1, <1>6, <2>1, Zenon DEF DirtyTypeOK
  <2>3. p \in pages => p < RAM_ADDR_MAX /\ Reaches(dirty[c], p)
    BY <1>1, <1>5, <1>6, ListedPage, Zenon
  <2>4. p \in Marked(c) => p \in Marked(c)'
    BY <1>1, <1>2, <1>4, <2>2, MarksAdd, Zenon
  <2>5. p \in pages => p \in Marked(c)'
    BY <1>1, <1>2, <1>4, <2>2, <2>3, MarksAdd, Zenon
  <2> QED BY <2>1, <2>4, <2>5, Zenon
<1>13. OwedInv'
  <2>1. ASSUME NEW c \in DirtyClients, NEW p \in owed'[c] PROVE \E b \in Listed : Covers(b, p)
    BY <1>1, <1>5, <1>6, <1>12, Zenon DEF OwedInv
  <2> QED BY <1>2, <1>10, <1>11, <2>1, Zenon DEF OwedInv, Covers, Pages
<1>14. DirtyKept'
  <2>1. ASSUME NEW b \in Listed, NEW c \in DirtyClients, NEW p \in owed'[c], p \in Pages(b, rblock[b].max_length)
        PROVE  p \in Marked(c)'
    <3>1. CASE p \in pages
      BY <1>12, <3>1, Zenon
    <3>2. CASE p \notin pages
      <4>1. p \in owed[c]
        BY <1>12, <3>2, Zenon
      <4>2. p \in Marked(c)
        <5>1. CASE ~(main.at = "resized" /\ main.b = b)
          BY <1>1, <2>1, <4>1, <5>1, Zenon DEF DirtyKept
        <5>2. CASE main.at = "resized" /\ main.b = b
          BY <1>1, <1>3, <2>1, <3>2, <4>1, <5>2, Zenon DEF OwedInv, Covers
        <5> QED BY <5>1, <5>2, Zenon
      <4> QED BY <1>12, <4>2, Zenon
    <3> QED BY <3>1, <3>2, Zenon
  <2>2. \A b \in Listed : Pages(b, rblock[b].max_length)' = Pages(b, rblock[b].max_length)
    BY <1>2, Zenon DEF Pages
  <2> QED BY <1>11, <2>1, <2>2, Zenon DEF DirtyKept
<1>15. MainBlock' /\ BlockTypeOK'
  BY <1>1, <1>2, <1>10, Zenon DEF MainBlock, BlockTypeOK
<1> QED BY <1>2, <1>8, <1>9, <1>10, <1>11, <1>13, <1>14, <1>15, MarkingStep, Zenon

\* qemu_ram_resize clears the old range and sets the new length.
LEMMA ResizeNext ==
  ASSUME RamParameters, RamInv, NEW b \in Listed, NEW newsize \in 1..rblock[b].max_length, RamResize(b, newsize)
  PROVE  RamInv'
<1>1. /\ BlockTypeOK /\ MainTypeOK /\ DirtyTypeOK /\ SpaceInv /\ ArrayInv /\ OwedInv /\ DirtyKept /\ RamTypeOK /\ MaxBlocks \in Nat
  BY Zenon DEF RamInv, RamTypeOK, RamParameters
<1>2. /\ main.at = "idle" /\ UNCHANGED <<succ, mru_block, dirty, arrays, thr, grace, freed>>
  BY Zenon DEF RamResize, BeginChange, MainAt
<1>3. PICK pages : pages = Pages(b, rblock[b].used_length)
  BY Zenon
<1>4. /\ bitmaps' = WithoutMarks(dirty, DirtyClients, pages)
      /\ owed' = [c \in DirtyClients |-> owed[c] \ (pages \ Pages(b, newsize))]
  BY <1>3, Zenon DEF RamResize
<1>5. /\ b \in RamBlocks /\ rblock[b].state = "listed"
      /\ rblock[b].offset \in Nat /\ rblock[b].max_length \in Nat /\ rblock[b].used_length \in Nat
      /\ rblock[b].used_length <= rblock[b].max_length
  BY <1>1, ListedBlocks, BlockFields, Zenon
<1>6. \A p \in pages : p \in Nat /\ Covers(b, p)
  BY <1>3, <1>5 DEF Pages, Covers
<1>7. pages \in SUBSET Nat
  BY <1>6, Zenon
<1>8. bitmaps' \in Seq(SUBSET Nat) /\ Len(bitmaps') = Len(bitmaps)
  BY <1>1, <1>4, <1>7, MarksType, Zenon DEF DirtyTypeOK
<1>9. owed' \in [DirtyClients -> SUBSET Nat]
  BY <1>1, <1>4, Zenon DEF DirtyTypeOK
<1>10. MainTypeOK' /\ main'.at = "resized" /\ main'.b = b
  <2>1. main' = [main EXCEPT !.at = "resized", !.b = b] /\ "resized" \in MainPlaces /\ b \in 0..MaxBlocks
    BY <1>5 DEF RamResize, MainPlaces, RamBlocks
  <2> QED BY <1>1, <2>1, MainTakes, ZenonT(60) DEF MainBecomes
<1>11. PICK r : r = [rblock[b] EXCEPT !.used_length = newsize]
  BY Zenon
<1>12. /\ r \in [offset : Nat, max_length : Nat, used_length : Nat, resizeable : BOOLEAN, state : BlockStates]
       /\ r.used_length = newsize /\ r.max_length = rblock[b].max_length /\ r.offset = rblock[b].offset /\ r.state = "listed"
       /\ r.used_length <= r.max_length /\ r.max_length \in 1..RAM_ADDR_MAX
  <2>1. PICK x \in [offset : Nat, max_length : Nat, used_length : Nat, resizeable : BOOLEAN, state : BlockStates] : x = rblock[b]
    BY <1>1, <1>5, Zenon DEF BlockTypeOK
  <2>2. r = [x EXCEPT !.used_length = newsize] /\ newsize \in Nat /\ newsize <= x.max_length
    BY <2>1, <1>11, <1>5
  <2>3. /\ r \in [offset : Nat, max_length : Nat, used_length : Nat, resizeable : BOOLEAN, state : BlockStates]
        /\ r.used_length = newsize /\ r.max_length = x.max_length /\ r.offset = x.offset /\ r.state = x.state
    BY <2>2, Zenon
  <2>4. x.max_length \in 1..RAM_ADDR_MAX
    BY <2>1, <1>1, <1>5, Zenon DEF BlockTypeOK
  <2> QED BY <2>1, <2>2, <2>3, <2>4, <1>5, Zenon
<1>13. BlockTypeOK' /\ rblock'[b] = r /\ \A x \in RamBlocks \ {b} : rblock'[x] = rblock[x]
  <2>1. rblock' = [rblock EXCEPT ![b] = r]
    BY <1>11, Zenon DEF RamResize
  <2> QED BY <1>1, <1>2, <1>5, <1>12, <2>1, BlockUpdate, ZenonT(60)
<1>14. Listed' = Listed /\ \A x \in RamBlocks : Stays(x)
  BY <1>5, <1>12, <1>13, Zenon DEF Listed, Stays, Fixed
<1>15. \A x \in Listed : \A a : Covers(x, a)' <=> Covers(x, a)
  BY <1>14, FixedCovers, Zenon DEF Stays, Listed
<1>16. ASSUME NEW c \in DirtyClients, NEW p \in owed[c], p \notin pages PROVE p \in Marked(c) => p \in Marked(c)'
  <2>1. p \in Nat
    BY <1>1, Zenon DEF DirtyTypeOK
  <2> QED BY <2>1, <1>1, <1>2, <1>4, <1>16, MarksTake, Zenon
<1>17. \A c \in DirtyClients : \A p \in owed'[c] : p \in owed[c] /\ (p \in pages => p \in Pages(b, newsize))
  BY <1>4, Zenon
<1>18. OwedInv'
  <2>1. ASSUME NEW c \in DirtyClients, NEW p \in owed'[c], Covers(b, p), p \notin Pages(b, newsize)
        PROVE  p \in Marked(c)'
    <3>1. p \in owed[c] /\ p \notin pages
      BY <1>17, <2>1, Zenon
    <3>2. p \in Marked(c)
      BY <1>1, <1>2, <2>1, <3>1, Zenon DEF DirtyKept, Covers
    <3> QED BY <1>16, <3>1, <3>2, Zenon
  <2>2. Pages(b, newsize)' = Pages(b, newsize) /\ rblock'[b].used_length = newsize
    BY <1>12, <1>13, Zenon DEF Pages
  <2>3. \A c \in DirtyClients : \A p \in owed'[c] : \E x \in Listed : Covers(x, p)
    BY <1>1, <1>17, Zenon DEF OwedInv
  <2>4. \A c \in DirtyClients : \A p \in owed'[c] : \E x \in Listed' : Covers(x, p)'
    BY <2>3, <1>14, <1>15, Zenon
  <2>5. Pages(main.b, rblock[main.b].used_length)' = Pages(b, newsize) /\ \A p : Covers(main.b, p)' <=> Covers(b, p)
    BY <2>2, <1>10, <1>15, Zenon DEF Pages, Covers
  <2> QED BY <2>1, <2>4, <2>5, Zenon DEF OwedInv
<1>19. DirtyKept'
  <2>1. ASSUME NEW x \in Listed, x # b, NEW c \in DirtyClients, NEW p \in owed'[c], p \in Pages(x, rblock[x].max_length)
        PROVE  p \in Marked(c)'
    <3>1. p \in owed[c] /\ Covers(x, p)
      BY <1>17, <2>1, Zenon DEF Covers
    <3>2. p \notin pages
      BY <1>1, <1>6, <2>1, <3>1, Exclusive, Zenon DEF Placed
    <3>3. p \in Marked(c)
      BY <1>1, <1>2, <2>1, <3>1, Zenon DEF DirtyKept
    <3> QED BY <1>16, <3>1, <3>2, <3>3, Zenon
  <2>2. \A x \in Listed : Pages(x, rblock[x].max_length)' = Pages(x, rblock[x].max_length)
    BY <1>14, Zenon DEF Pages, Stays, Fixed, Listed
  <2> QED BY <1>10, <1>14, <2>1, <2>2, Zenon DEF DirtyKept
<1>20. MainBlock'
  BY <1>10, <1>14, Zenon DEF MainBlock
<1>21. \A x \in Settled : Stays(x)
  BY <1>14, Zenon DEF Settled
<1> QED BY <1>2, <1>8, <1>9, <1>10, <1>13, <1>14, <1>18, <1>19, <1>20, <1>21, MarkingStep, SMTT(30)

\* What call_rcu is given stays for the threads in a critical section.
LEMMA KeptByCallRcu ==
  ASSUME NEW what, call_rcu(what), NEW t \in Reading, NEW x, Kept(t, x)
  PROVE  Kept(t, x)'
<1>1. Reading # {}
  BY Zenon
<1>2. freed' = freed /\ grace' = grace \cup {[what |-> w, wait |-> Reading] : w \in what}
  BY <1>1, Zenon DEF call_rcu
<1>3. ASSUME NEW k \in grace', k.what = x PROVE t \in k.wait
  BY <1>2, <1>3 DEF Kept
<1> QED BY <1>2, <1>3, Zenon DEF Kept

\* What call_rcu takes over waits for the readers that are active now.
LEMMA GraceStep ==
  ASSUME NEW what, call_rcu(what), thr' = thr, GraceInv,
         \A w \in what : Dead(w)', \A w \in freed \cup Pending : Dead(w)'
  PROVE  GraceInv'
<1>1. Reading' = Reading
  BY Zenon DEF Reading
<1>2. (freed \cup Pending)' \subseteq (freed \cup Pending) \cup what
  BY DEF call_rcu, Pending
<1>3. \A k \in grace' : k = [what |-> k.what, wait |-> k.wait] /\ k.wait \subseteq Reading
  <2>1. CASE Reading = {}
    BY <2>1, Zenon DEF call_rcu, GraceInv
  <2>2. CASE Reading # {}
    <3> SUFFICES ASSUME NEW k \in grace' PROVE k = [what |-> k.what, wait |-> k.wait] /\ k.wait \subseteq Reading
      BY Zenon
    <3>1. CASE k \in grace
      BY <3>1, Zenon DEF GraceInv
    <3>2. CASE \E w \in what : k = [what |-> w, wait |-> Reading]
      BY <3>2
    <3> QED BY <2>2, <3>1, <3>2, Zenon DEF call_rcu
  <2> QED BY <2>1, <2>2, Zenon
<1>4. ASSUME NEW t \in Threads PROVE Holds(t, thr[t].at, thr[t].arr)'
  <2>1. CASE thr[t].at \in {"set", "clear"}
    <3>1. t \in Reading
      BY <2>1, Zenon DEF Reading
    <3>2. \A c \in DirtyClients : Kept(t, Array(thr[t].arr[c]))
      BY <2>1, Zenon DEF GraceInv, Holds
    <3>3. \A c \in DirtyClients : Kept(t, Array(thr[t].arr[c]))'
      BY <3>1, <3>2, KeptByCallRcu, Zenon DEF Array
    <3> QED BY <3>3, Zenon DEF Holds
  <2>2. CASE thr[t].at \notin {"set", "clear"}
    BY <2>2, Zenon DEF Holds
  <2> QED BY <2>1, <2>2, Zenon
<1> QED BY <1>1, <1>2, <1>3, <1>4, Zenon DEF GraceInv

\* call_rcu changes nothing that a walk reads.
LEMMA WalkStep ==
  ASSUME NEW what, call_rcu(what), UNCHANGED <<thr, rblock, succ>>, WalkInv, MruInv'
  PROVE  WalkInv'
<1>1. ASSUME NEW t \in Threads PROVE Looks(t, thr[t].at, thr[t].cur, thr[t].addr)'
  <2>1. CASE thr[t].at = "idle"
    BY <2>1, Zenon DEF Looks
  <2>2. CASE thr[t].at # "idle"
    <3>1. t \in Reading
      BY <2>2, Zenon DEF Reading
    <3>2. \A n, a : Passes(t, n, a) => Passes(t, n, a)'
      BY <3>1, KeptByCallRcu, Zenon DEF Passes, Covers, Pages, Block
    <3>3. \A x, b, a, S : Path(t, x, b, a, S) => Path(t, x, b, a, S)'
      BY <3>2, Zenon DEF Path
    <3>4. \A w, b, a : Looks(t, w, b, a) => Looks(t, w, b, a)'
      BY <3>2, <3>3 DEF Looks, Listed, Covers, Pages
    <3> QED BY <3>4, Zenon DEF WalkInv
  <2> QED BY <2>1, <2>2, Zenon
<1> QED BY <1>1, Zenon DEF WalkInv, LookupFinds

\* qemu_ram_free hands its block to call_rcu.
LEMMA ReclaimNext ==
  ASSUME RamParameters, RamInv, RamReclaimLater
  PROVE  RamInv'
<1>1. BlockTypeOK /\ MainTypeOK /\ MainBlock /\ SpaceInv /\ MaxBlocks \in Nat
  BY Zenon DEF RamInv, RamTypeOK, RamParameters
<1>2. /\ main.at = "reclaim" /\ call_rcu({Block(main.b)}) /\ main' = MainIdle
      /\ UNCHANGED <<rblock, succ, mru_block, dirty, arrays, bitmaps, thr, owed>>
  BY Zenon DEF RamReclaimLater, MainAt
<1>3. MainTypeOK' /\ main'.at = "idle"
  BY <1>1, <1>2, MainEnds, Zenon DEF MainBecomes
<1>4. Listed' = Listed /\ \A x \in Settled : Stays(x)
  BY <1>2, Zenon DEF Listed, Settled, Stays, Fixed
<1>5. MainBlock' /\ BlockTypeOK' /\ MruInv'
  BY <1>1, <1>2, <1>3, <1>4, Zenon DEF MainBlock, BlockTypeOK, MruInv, RamInv, WalkInv
<1>6. SpaceInv'
  BY <1>1, <1>3, <1>4, QuietSpace, Zenon
<1>7. ListInv'
  BY <1>2, <1>4, QuietList, Zenon DEF RamInv
<1>8. ArrayInv'
  BY <1>2, <1>3, <1>4, QuietArrays, Zenon DEF RamInv
<1>9. OwedInv' /\ DirtyKept'
  BY <1>2, <1>3, <1>4, QuietMarks, Zenon DEF RamInv
<1>10. \A w : Dead(w) => Dead(w)'
  BY <1>2, <1>3, Zenon DEF Dead
<1>11. PICK b \in RamBlocks : b = main.b /\ rblock[b].state = "removed"
  BY <1>1, <1>2, Zenon DEF MainBlock
<1>12. GraceInv'
  <2>1. PICK x : x = Block(b)
    BY Zenon
  <2>2. Dead(x)'
    BY <1>2, <1>3, <1>11, <2>1, Zenon DEF Dead, Block
  <2>3. call_rcu({x})
    BY <1>2, <1>11, <2>1, Zenon
  <2>4. GraceInv /\ \A w \in freed \cup Pending : Dead(w)'
    BY <1>10, Zenon DEF RamInv, GraceInv
  <2> QED BY <1>2, <2>2, <2>3, <2>4, GraceStep, Zenon
<1>13. WalkInv'
  BY <1>2, <1>5, WalkStep, Zenon DEF RamInv
<1>14. WorkInv'
  BY <1>2 DEF RamInv, WorkInv, Works, HasBitmaps, Listed, Covers, Pages, End
<1>15. RamTypeOK'
  BY <1>2, <1>3, <1>5, Zenon DEF RamInv, RamTypeOK, ThrTypeOK, DirtyTypeOK
<1> QED BY <1>5, <1>6, <1>7, <1>8, <1>9, <1>12, <1>13, <1>14, <1>15, Zenon DEF RamInv

\* A block changes its state and nothing else.
LEMMA StateUpdate ==
  ASSUME BlockTypeOK, NEW b \in RamBlocks, rblock[b].state # "unused", NEW st \in BlockStates,
         rblock' = [rblock EXCEPT ![b].state = st],
         succ' \in [0..MaxBlocks -> 0..MaxBlocks], mru_block' = mru_block
  PROVE  /\ BlockTypeOK' /\ rblock'[b].state = st
         /\ \A x \in RamBlocks : Fixed(x) /\ (x # b => rblock'[x].state = rblock[x].state)
<1> DEFINE R == [offset : Nat, max_length : Nat, used_length : Nat, resizeable : BOOLEAN, state : BlockStates]
<1>1. PICK r \in R : r = rblock[b]
  BY Zenon DEF BlockTypeOK
<1>2. PICK q : q = [r EXCEPT !.state = st]
  BY Zenon
<1>3. q \in R /\ q.state = st /\ q.offset = r.offset /\ q.max_length = r.max_length /\ q.used_length = r.used_length
  BY <1>2, Zenon
<1>4. rblock' = [rblock EXCEPT ![b] = q]
  BY <1>1, <1>2, Zenon
<1>5. rblock' \in [RamBlocks -> R] /\ rblock'[b] = q /\ \A x \in RamBlocks \ {b} : rblock'[x] = rblock[x]
  BY <1>3, <1>4, Zenon DEF BlockTypeOK
<1>6. ASSUME NEW x \in RamBlocks
      PROVE  /\ rblock'[x].used_length <= rblock'[x].max_length
             /\ rblock'[x].state # "unused" => rblock'[x].max_length \in 1..RAM_ADDR_MAX
  BY <1>1, <1>3, <1>5, Zenon DEF BlockTypeOK
<1>7. BlockTypeOK'
  BY <1>5, <1>6, Zenon DEF BlockTypeOK
<1> QED BY <1>1, <1>3, <1>5, <1>7, Zenon DEF Fixed

\* QLIST_INSERT puts the new block into the list, while readers walk it.
LEMMA InsertNext ==
    NatFacts /\ RamParameters /\ RamInv /\ RamInsert
  => RamInv'
\* RamInsert puts its block behind a place of the list.
<1>InsertPlace.
  ASSUME NatFacts, MaxBlocks \in Nat, ListInv, BlockTypeOK, MainBlock, RamInsert
  PROVE  \E k \in 0..Len(Order) : succ' = [succ EXCEPT ![main.b] = succ[At(Order, k)], ![At(Order, k)] = main.b]
  <2> USE <1>InsertPlace
  <2> DEFINE n == Len(Order)
             smaller(i) == rblock[Order[i]].max_length < rblock[main.b].max_length
             ok(i) == (i <= n => smaller(i)) /\ \A j \in 1..(i - 1) : ~smaller(j)
             first == CHOOSE i \in 1..(n + 1) : ok(i)
  <2>1. succ' = [succ EXCEPT ![main.b] = succ[At(Order, first - 1)], ![At(Order, first - 1)] = main.b]
    BY Zenon DEF RamInsert
  <2>2. n \in Nat
    BY OrderIs
  <2> DEFINE I == {i \in 1..(n + 1) : i <= n => smaller(i)}
  <2> HIDE DEF smaller, n
  <2>3. PICK i \in I : \A j \in I : i <= j
    <3>0. n + 1 \in 1..(n + 1) /\ ~(n + 1 <= n)
      BY <2>2
    <3>1. n + 1 \in I
      BY <3>0, Zenon
    <3>2. I \in SUBSET Nat
      OBVIOUS
    <3> HIDE DEF I
    <3> QED BY <3>1, <3>2, LeastNat, Zenon
  <2>4. i \in 1..(n + 1) /\ ok(i)
    <3>1. i \in 1..(n + 1) /\ (i <= n => smaller(i))
      BY Zenon
    <3>2. ASSUME NEW j \in 1..(i - 1) PROVE ~smaller(j)
      <4>1. j \in 1..(n + 1) /\ ~(i <= j)
        BY <2>2, <3>1
      <4> QED BY <2>3, <4>1, Zenon
    <3> QED BY <3>1, <3>2, Zenon
  <2>5. first \in 1..(n + 1)
    <3> HIDE DEF ok
    <3> QED BY <2>4, Zenon
  <2> HIDE DEF first
  <2>6. first - 1 \in 0..n
    BY <2>2, <2>5
  <2> QED BY <2>1, <2>6, Zenon DEF n
<1>InsertList.
  \A b \in RamBlocks : \A k \in 0..Len(Order) : \A p :
    /\ NatFacts
    /\ MaxBlocks \in Nat
    /\ ListInv
    /\ BlockTypeOK
    /\ rblock[b].state # "listed"
    /\ p = At(Order, k)
    /\ succ' = [succ EXCEPT ![b] = succ[p], ![p] = b]
    /\ Listed' = Listed \cup {b}
  => /\ ListInv' /\ succ' \in [0..MaxBlocks -> 0..MaxBlocks]
     /\ p \in 0..MaxBlocks /\ p # b /\ succ'[b] = succ[p] /\ succ'[p] = b
     /\ \A a \in 0..MaxBlocks : a # b /\ a # p => succ'[a] = succ[a]
  <2>NoMoreThan.
    ASSUME NatFacts, NEW M \in Nat, NEW n \in Nat, NEW s \in [1..n -> 1..M], Distinct(s, n)
    PROVE  n <= M
    BY <2>NoMoreThan, Zenon DEF NatFacts
  <2>ChainInsert.
    ASSUME NEW M, NEW n, NEW s, NEW f, NEW g, NEW b, NEW k, PutsBehind(M, n, s, f, g, b, k)
    PROVE  Longer(M, n, s, g, b)
    <3> USE <2>ChainInsert
    <3>0. /\ M \in Nat /\ n \in Nat /\ s \in [1..n -> 1..M] /\ Chain(f, s, n) /\ Distinct(s, n)
          /\ b \in 1..M /\ (\A i \in 1..n : s[i] # b) /\ k \in 0..n
          /\ g[b] = f[At(s, k)] /\ g[At(s, k)] = b
          /\ \A a \in 0..M : a # b /\ a # At(s, k) => g[a] = f[a]
      BY Zenon DEF PutsBehind
    <3> USE <3>0
    <3> DEFINE r == [j \in 1..(n + 1) |-> IF j <= k THEN s[j] ELSE IF j = k + 1 THEN b ELSE s[j - 1]]
    <3>1. r \in [1..(n + 1) -> 1..M]
      OBVIOUS
    <3>2. \A i \in 1..(n + 1) : r[i] = IF i <= k THEN s[i] ELSE IF i = k + 1 THEN b ELSE s[i - 1]
      BY Zenon
    <3> HIDE DEF r
    <3>3. \A i \in 0..(n + 1) : At(r, i) = IF i <= k THEN At(s, i) ELSE IF i = k + 1 THEN b ELSE At(s, i - 1)
      BY <3>2 DEF At
    <3>4. \A i \in 0..n : At(s, i) # b /\ At(s, i) \in 0..M
      BY DEF At
    <3>5. \A i \in 0..n : i # k => g[At(s, i)] = f[At(s, i)]
      BY <3>4, PlacesDiffer, Zenon
    <3>6. /\ f[At(s, n)] = 0
          /\ \A i \in 1..n : s[i] = f[At(s, i - 1)]
      BY Zenon DEF Chain
    <3>7. g[At(r, n + 1)] = 0
      <4>1. CASE k = n
        <5>1. At(r, n + 1) = b
          BY <4>1, <3>3
        <5> QED BY <5>1, <4>1, <3>6, Zenon
      <4>2. CASE k < n
        <5>1. At(r, n + 1) = At(s, n)
          BY <4>2, <3>3
        <5> QED BY <5>1, <4>2, <3>5, <3>6
      <4> QED BY <4>1, <4>2
    <3>8. ASSUME NEW i \in 1..(n + 1) PROVE r[i] = g[At(r, i - 1)]
      <4>1. CASE i <= k
        <5>1. At(r, i - 1) = At(s, i - 1) /\ r[i] = s[i] /\ i - 1 \in 0..n /\ i \in 1..n /\ i - 1 # k
          BY <4>1, <3>2, <3>3
        <5> QED BY <5>1, <3>5, <3>6, Zenon
      <4>2. CASE i = k + 1
        <5>1. At(r, i - 1) = At(s, k) /\ r[i] = b
          BY <4>2, <3>2, <3>3
        <5> QED BY <5>1, Zenon
      <4>3. CASE i = k + 2
        <5>1. At(r, i - 1) = b /\ r[i] = s[k + 1] /\ k + 1 \in 1..n /\ (k + 1) - 1 = k
          BY <4>3, <3>2, <3>3
        <5> QED BY <5>1, <3>6, Zenon
      <4>4. CASE i > k + 2
        <5>1. /\ At(r, i - 1) = At(s, (i - 1) - 1) /\ r[i] = s[i - 1]
              /\ (i - 1) - 1 \in 0..n /\ i - 1 \in 1..n /\ (i - 1) - 1 # k
          BY <4>4, <3>2, <3>3
        <5> QED BY <5>1, <3>5, <3>6, Zenon
      <4> QED BY <4>1, <4>2, <4>3, <4>4
    <3>9. Distinct(r, n + 1)
      BY <3>2 DEF Distinct
    <3>10. \A a : (\E i \in 1..(n + 1) : r[i] = a) <=> (a = b \/ \E i \in 1..n : s[i] = a)
      <4> SUFFICES ASSUME NEW a PROVE (\E i \in 1..(n + 1) : r[i] = a) <=> (a = b \/ \E i \in 1..n : s[i] = a)
        BY Zenon
      <4>1. ASSUME NEW i \in 1..n, s[i] = a PROVE \E j \in 1..(n + 1) : r[j] = a
        <5>1. CASE i <= k
          <6>1. i \in 1..(n + 1) /\ r[i] = a
            BY <4>1, <5>1, <3>2
          <6> QED BY <6>1, Zenon
        <5>2. CASE i > k
          <6>1. i + 1 \in 1..(n + 1) /\ r[i + 1] = a
            BY <4>1, <5>2, <3>2
          <6> QED BY <6>1, Zenon
        <5> QED BY <5>1, <5>2
      <4>2. r[k + 1] = b /\ k + 1 \in 1..(n + 1)
        BY <3>2
      <4>3. ASSUME NEW j \in 1..(n + 1), r[j] = a PROVE a = b \/ \E i \in 1..n : s[i] = a
        <5>1. CASE j <= k
          BY <4>3, <5>1, <3>2
        <5>2. CASE j = k + 1
          BY <4>3, <5>2, <3>2
        <5>3. CASE j > k + 1
          <6>1. j - 1 \in 1..n /\ s[j - 1] = a
            BY <4>3, <5>3, <3>2
          <6> QED BY <6>1, Zenon
        <5> QED BY <5>1, <5>2, <5>3
      <4> QED BY <4>1, <4>2, <4>3, Zenon
    <3>11. Chain(g, r, n + 1)
      BY <3>7, <3>8, Zenon DEF Chain
    <3> QED BY <3>1, <3>9, <3>10, <3>11, Zenon DEF Longer
  <2> SUFFICES ASSUME NatFacts, MaxBlocks \in Nat, ListInv, BlockTypeOK, NEW b \in RamBlocks,
                      rblock[b].state # "listed", NEW k \in 0..Len(Order), NEW p, p = At(Order, k),
                      succ' = [succ EXCEPT ![b] = succ[p], ![p] = b], Listed' = Listed \cup {b}
               PROVE  /\ ListInv' /\ succ' \in [0..MaxBlocks -> 0..MaxBlocks]
                      /\ p \in 0..MaxBlocks /\ p # b /\ succ'[b] = succ[p] /\ succ'[p] = b
                      /\ \A a \in 0..MaxBlocks : a # b /\ a # p => succ'[a] = succ[a]
    BY Zenon
  <2>1. PICK n \in Nat : n = Len(Order)
    BY OrderIs
  <2>2. PICK s \in [1..n -> 1..MaxBlocks] : s = Order
    BY <2>1, OrderIs, Zenon DEF RamBlocks
  <2>3. /\ Chain(succ, s, n) /\ Distinct(s, n)
        /\ \A x \in RamBlocks : x \in Listed <=> \E i \in 1..n : s[i] = x
    BY <2>1, <2>2, OrderIs, Zenon DEF ListOf
  <2>4. succ \in [0..MaxBlocks -> 0..MaxBlocks] /\ b \in 1..MaxBlocks /\ b \in 0..MaxBlocks
    <3>1. succ \in [0..MaxBlocks -> 0..MaxBlocks]
      BY Zenon DEF BlockTypeOK
    <3>2. b \in 1..MaxBlocks
      BY Zenon DEF RamBlocks
    <3> QED BY <3>1, <3>2, SMTT(30)
  <2>5. \A i \in 1..n : s[i] # b
    BY <2>3, Zenon DEF Listed
  <2>6. p = At(s, k)
    BY <2>2, Zenon
  <2>7. p \in 0..MaxBlocks /\ p # b
    <3>1. CASE k = 0
      BY <3>1, <2>4, <2>6 DEF At
    <3>2. CASE k # 0
      <4>1. k \in 1..n /\ p = s[k]
        BY <3>2, <2>1, <2>6 DEF At
      <4> QED BY <4>1, <2>5
    <3> QED BY <3>1, <3>2, Zenon
  <2>8. /\ succ' \in [0..MaxBlocks -> 0..MaxBlocks]
        /\ succ'[b] = succ[p] /\ succ'[p] = b
        /\ \A a \in 0..MaxBlocks : a # b /\ a # p => succ'[a] = succ[a]
    <3>1. succ' = [succ EXCEPT ![b] = succ[p], ![p] = b]
      BY <2>2, <2>6, Zenon
    <3>2. succ[p] \in 0..MaxBlocks
      BY <2>4, <2>7, Zenon
    <3> QED BY <3>1, <3>2, <2>4, <2>7, Zenon
  <2>9. PICK r \in [1..(n + 1) -> 1..MaxBlocks] :
           /\ Chain(succ', r, n + 1) /\ Distinct(r, n + 1)
           /\ \A a : (\E i \in 1..(n + 1) : r[i] = a) <=> (a = b \/ \E i \in 1..n : s[i] = a)
    <3>1. /\ k \in 0..n /\ succ'[b] = succ[At(s, k)] /\ succ'[At(s, k)] = b
          /\ \A a \in 0..MaxBlocks : a # b /\ a # At(s, k) => succ'[a] = succ[a]
      BY <2>1, <2>6, <2>8, Zenon
    <3>2. PICK f : f = succ
      BY Zenon
    <3>3. PICK g : g = succ'
      BY Zenon
    <3>4. /\ Chain(f, s, n) /\ g[b] = f[At(s, k)] /\ g[At(s, k)] = b
          /\ \A a \in 0..MaxBlocks : a # b /\ a # At(s, k) => g[a] = f[a]
      BY <2>3, <3>1, <3>2, <3>3, Zenon
    <3>5. \E r \in [1..(n + 1) -> 1..MaxBlocks] :
             /\ Chain(g, r, n + 1) /\ Distinct(r, n + 1)
             /\ \A a : (\E i \in 1..(n + 1) : r[i] = a) <=> (a = b \/ \E i \in 1..n : s[i] = a)
      <4>1. PutsBehind(MaxBlocks, n, s, f, g, b, k)
        BY <2>3, <2>4, <2>5, <3>1, <3>4, Zenon DEF PutsBehind
      <4>2. Longer(MaxBlocks, n, s, g, b)
        BY <4>1, <2>ChainInsert, Zenon
      <4> QED BY <4>2, Zenon DEF Longer
    <3> QED BY <3>3, <3>5, Zenon
  <2>10. n + 1 \in 0..MaxBlocks
    <3>1. PICK m \in Nat : m = n + 1
      OBVIOUS
    <3>2. m <= MaxBlocks
      BY <2>9, <3>1, <2>NoMoreThan, Zenon
    <3> QED BY <3>1, <3>2
  <2>11. \A x \in RamBlocks : x \in Listed' <=> \E i \in 1..(n + 1) : r[i] = x
    BY <2>3, <2>9, Zenon
  <2>12. ListOf(r, n + 1)'
    BY <2>9, <2>11, Zenon DEF ListOf
  <2>13. ListInv'
    BY <2>9, <2>10, <2>12, Zenon DEF ListInv, RamBlocks
  <2> QED BY <2>2, <2>6, <2>7, <2>8, <2>13, Zenon
\* A walk goes on when block b is put behind p: the new block is on its way
\* when p is.
<1>InsertPath.
  ASSUME NEW t, NEW x, NEW c, NEW a, NEW S \in SUBSET RamBlocks, Path(t, x, c, a, S), NEW b \in RamBlocks, NEW p,
         b \notin S, x # b, MaxBlocks \in Nat, succ'[b] = succ[p], succ'[p] = b,
         \A n \in 0..MaxBlocks : n # b /\ n # p => succ'[n] = succ[n],
         \A n \in RamBlocks : Passes(t, n, a) => Passes(t, n, a)', Passes(t, b, a)'
  PROVE  \E T \in SUBSET RamBlocks : Path(t, x, c, a, T)'
  <2> USE <1>InsertPath
  <2>1. \A n \in S \ {x} : n # b /\ n \in 0..MaxBlocks /\ Passes(t, n, a)' /\ succ[n] \in S
    BY DEF Path, RamBlocks
  <2>2. CASE p \in S \ {x}
    <3>1. PICK T \in SUBSET RamBlocks : T = S \cup {b}
      BY Zenon
    <3>2. succ[p] \in S
      BY <2>1, <2>2, Zenon
    <3>3. ASSUME NEW n \in T \ {x} PROVE Passes(t, n, a)' /\ succ'[n] \in T
      BY <2>1, <3>1, <3>2, Zenon
    <3>4. Path(t, x, c, a, T)'
      BY <3>1, <3>3, Zenon DEF Path
    <3> QED BY <3>4, Zenon
  <2>3. CASE p \notin S \ {x}
    <3>1. ASSUME NEW n \in S \ {x} PROVE Passes(t, n, a)' /\ succ'[n] \in S
      BY <2>1, <2>3, Zenon
    <3>2. Path(t, x, c, a, S)'
      BY <3>1, Zenon DEF Path
    <3> QED BY <3>2, Zenon
  <2> QED BY <2>2, <2>3, Zenon
<1> SUFFICES ASSUME NatFacts, RamParameters, RamInv, RamInsert
             PROVE  RamInv'
  BY Zenon
<1>1. /\ BlockTypeOK /\ MainTypeOK /\ ThrTypeOK /\ DirtyTypeOK /\ ListInv /\ MainBlock /\ SpaceInv /\ ArrayInv /\ WorkInv
      /\ OwedInv /\ DirtyKept /\ GraceInv /\ WalkInv
  BY Zenon DEF RamInv, RamTypeOK
<1>p. MaxBlocks \in Nat /\ RAM_ADDR_MAX \in Nat /\ DIRTY_MEMORY_BLOCK_SIZE \in Nat \ {0}
  BY Zenon DEF RamParameters
<1>2. /\ main.at = "extend" /\ main.todo = {} /\ MainGoes("added")
      /\ rblock' = [rblock EXCEPT ![main.b].state = "listed"]
      /\ UNCHANGED <<mru_block, dirty, arrays, bitmaps, thr, grace, freed, owed>>
  BY Zenon DEF RamInsert, MainAt
<1>3. PICK b \in RamBlocks : b = main.b /\ rblock[b].state = "new"
  BY <1>1, <1>2, Zenon DEF MainBlock
<1>4. PICK k \in 0..Len(Order) : succ' = [succ EXCEPT ![b] = succ[At(Order, k)], ![At(Order, k)] = b]
  BY <1>1, <1>p, <1>3, <1>InsertPlace, Zenon
<1>5. Listed' = Listed \cup {b} /\ b \notin Listed
  BY <1>1, <1>2, <1>3, Zenon DEF Listed, BlockTypeOK
<1>6. PICK p : p = At(Order, k)
  BY Zenon
<1>7. /\ ListInv' /\ succ' \in [0..MaxBlocks -> 0..MaxBlocks]
      /\ p \in 0..MaxBlocks /\ p # b /\ succ'[b] = succ[p] /\ succ'[p] = b
      /\ \A n \in 0..MaxBlocks : n # b /\ n # p => succ'[n] = succ[n]
  <2>1. rblock[b].state # "listed" /\ Listed' = Listed \cup {b} /\ MaxBlocks \in Nat /\ ListInv /\ BlockTypeOK
    BY <1>1, <1>p, <1>3, <1>5, Zenon
  <2>2. succ' = [succ EXCEPT ![b] = succ[p], ![p] = b]
    BY <1>4, <1>6, Zenon
  <2>3. MaxBlocks \in Nat /\ ListInv /\ BlockTypeOK /\ b \in RamBlocks /\ k \in 0..Len(Order)
    BY <1>1, <2>1, Zenon
  <2> QED BY <1>6, <2>1, <2>2, <2>3, <1>InsertList, ZenonT(60)
<1>8. /\ BlockTypeOK' /\ rblock'[b].state = "listed"
      /\ \A x \in RamBlocks : Fixed(x) /\ (x # b => rblock'[x].state = rblock[x].state)
  BY <1>1, <1>2, <1>3, <1>7, StateUpdate, Zenon DEF BlockStates
<1>9. \A x \in RamBlocks : End(x)' = End(x) /\ \A a : Covers(x, a)' <=> Covers(x, a)
  BY <1>8, FixedCovers, Zenon
<1>10. MainTypeOK' /\ main'.at = "added" /\ main'.b = b
  BY <1>1, <1>2, <1>3, MainMoves, Zenon DEF MainBecomes, MainPlaces
<1>11. MainBlock'
  BY <1>5, <1>10, Zenon DEF MainBlock
<1>12. Placed = Listed \cup {b} /\ Placed' = Listed \cup {b} /\ Listed \subseteq RamBlocks
  BY <1>2, <1>3, <1>5, <1>10, Zenon DEF Placed, Listed
<1>13. SpaceInv'
  BY <1>1, <1>8, <1>9, <1>10, <1>12, SMTT(30) DEF SpaceInv, Apart, Fixed
<1>14. ArrayInv'
  <2>1. \A c : ArrLen(c)' = ArrLen(c)
    BY <1>2, Zenon DEF ArrLen
  <2>2. ASSUME NEW c \in DirtyClients PROVE BitmapCount(End(b)) <= ArrLen(c)
    <3>1. BitmapCount(main.new) <= ArrLen(c) /\ main.new = Max2(main.old, End(b))
      BY <1>1, <1>2, <1>3, Zenon DEF ArrayInv, SpaceInv
    <3>2. main.old \in Nat /\ main.new \in Nat /\ End(b) \in Nat
      BY <1>1, <1>p, <1>3, MainFields, BlockFields, Zenon
    <3>3. End(b) <= main.new
      BY <3>1, <3>2 DEF Max2
    <3>4. BitmapCount(End(b)) <= BitmapCount(main.new) /\ BitmapCount(End(b)) \in Nat /\ BitmapCount(main.new) \in Nat
      BY <1>p, <3>2, <3>3, BitmapCountMonotone, BitmapCountIs, ZenonT(60)
    <3>5. ArrLen(c) \in Nat
      <4>1. dirty[c] \in Nat /\ dirty[c] <= Len(arrays) /\ arrays \in Seq(Seq(Nat))
        BY <1>1, Zenon DEF ArrayInv, DirtyTypeOK
      <4> QED BY <4>1 DEF ArrLen
    <3> QED BY <3>1, <3>4, <3>5, SMTT(30)
  <2>3. \A x \in Listed', c \in DirtyClients : BitmapCount(End(x)') <= ArrLen(c)
    BY <1>1, <1>5, <1>9, <1>12, <2>2, Zenon DEF ArrayInv
  <2> QED BY <1>1, <1>2, <1>10, <2>1, <2>3, SMTT(30) DEF ArrayInv
<1>15. OwedInv'
  BY <1>1, <1>2, <1>5, <1>9, <1>10, <1>12, Zenon DEF OwedInv
<1>16. DirtyKept'
  <2>1. \A c : Marked(c)' = Marked(c)
    BY <1>2, Zenon DEF Marked, Reaches, BitmapOf
  <2>2. \A x \in RamBlocks : Pages(x, rblock[x].max_length)' = Pages(x, rblock[x].max_length)
    BY <1>8, Zenon DEF Fixed, Pages
  <2>3. ASSUME NEW c \in DirtyClients PROVE Pages(b, rblock[b].max_length) \cap owed[c] = {}
    <3>1. ASSUME NEW a \in owed[c] PROVE ~Covers(b, a)
      <4>1. PICK y \in Listed : Covers(y, a)
        BY <1>1, <3>1, Zenon DEF OwedInv
      <4> QED BY <1>1, <1>p, <1>5, <1>12, <4>1, Exclusive, Zenon
    <3> QED BY <3>1, Zenon DEF Covers
  <2>4. ASSUME NEW x \in Listed, NEW c \in DirtyClients PROVE Pages(x, rblock[x].max_length) \cap owed[c] \subseteq Marked(c)
    BY <1>1, <1>2, Zenon DEF DirtyKept
  <2>5. ASSUME NEW x \in Listed', NEW c \in DirtyClients
        PROVE  Pages(x, rblock[x].max_length)' \cap owed'[c] \subseteq Marked(c)'
    BY <1>2, <1>3, <1>5, <1>12, <2>1, <2>2, <2>3, <2>4, Zenon
  <2> QED BY <2>5, Zenon DEF DirtyKept
<1>17. \A w : Dead(w) => Dead(w)'
  BY <1>2, <1>3, <1>8, <1>10, Zenon DEF Dead
<1>18. \A t, w : Kept(t, w)' <=> Kept(t, w)
  BY <1>2, Zenon DEF Kept
<1>19. GraceInv'
  BY <1>1, <1>2, <1>17, <1>18, Zenon DEF GraceInv, Holds, Reading, Pending
<1>20. WorkInv'
  <2>1. \A w, x, a, e, arr : Works(w, x, a, e, arr) => Works(w, x, a, e, arr)'
    BY <1>2, <1>5, <1>9, <1>12, SMTT(30) DEF Works, HasBitmaps
  <2> QED BY <1>1, <1>2, <2>1, Zenon DEF WorkInv
<1>21. ASSUME NEW t \in Threads PROVE Looks(t, thr[t].at, thr[t].cur, thr[t].addr)'
  <2>1. \A n \in RamBlocks : \A a : Passes(t, n, a) => Passes(t, n, a)'
    BY <1>8, <1>9, <1>18, Zenon DEF Passes
  <2>2. Kept(t, Block(b))
    BY <1>1, <1>3, NotDead, AliveBlock, Zenon
  <2>3. PICK w, cur, a : w = thr[t].at /\ cur = thr[t].cur /\ a = thr[t].addr
    BY Zenon
  <2>4. Looks(t, w, cur, a)
    BY <1>1, <2>3, Zenon DEF WalkInv
  <2>5. ASSUME NEW x \in Listed, Covers(x, a), NEW S \in SUBSET RamBlocks, Path(t, x, cur, a, S)
        PROVE  \E T \in SUBSET RamBlocks : Path(t, x, cur, a, T)'
    <3>1. x # b /\ ~Covers(b, a)
      BY <1>1, <1>p, <1>5, <1>12, <2>5, Exclusive, Zenon
    <3>2. ~Passes(t, b, a) /\ Passes(t, b, a)'
      BY <1>3, <1>8, <1>9, <1>18, <2>2, <3>1, Zenon DEF Passes, Block
    <3>3. b \notin S
      BY <2>5, <3>1, <3>2, Zenon DEF Path
    <3> QED BY <1>p, <1>7, <2>1, <2>5, <3>1, <3>2, <3>3, <1>InsertPath, Zenon
  <2>6. Looks(t, w, cur, a)'
    BY <1>5, <1>9, <1>12, <2>1, <2>4, <2>5, Zenon DEF Looks
  <2> QED BY <1>2, <2>3, <2>6, Zenon
<1>22. WalkInv'
  BY <1>1, <1>2, <1>5, <1>21, Zenon DEF WalkInv, MruInv, LookupFinds
<1>23. RamTypeOK'
  BY <1>1, <1>2, <1>8, <1>10, Zenon DEF RamTypeOK, ThrTypeOK, DirtyTypeOK
<1> QED BY <1>7, <1>11, <1>13, <1>14, <1>15, <1>16, <1>19, <1>20, <1>22, <1>23, SMTT(30) DEF RamInv
=============================================================================
