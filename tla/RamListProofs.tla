--------------------------- MODULE RamListProofs ---------------------------
(***************************************************************************)
(* What the list of RAM blocks guarantees, for any number of reader        *)
(* threads, blocks, clients and pages, while one thread at a time          *)
(* allocates, resizes and frees blocks: removal from the list and          *)
(* dirty_memory_extend, the last two steps, keep the invariant of          *)
(* RamListInv, hence every step does, and the theorems follow.             *)
(* RamAssumption says what the constants have to be: positive numbers, and *)
(* bitmaps of whole words.                                                 *)
(***************************************************************************)
EXTENDS RamListSteps

\* QLIST_REMOVE takes a block out of the list, while readers walk it.
LEMMA FreeNext ==
  \A b \in Listed :
    NatFacts /\ RamParameters /\ RamInv /\ RamFree(b)
  => RamInv'
\* RamFree takes its block, behind place k, out of the list.
<1>RemoveList.
  \A b \in Listed : \A p :
    /\ NatFacts
    /\ MaxBlocks \in Nat
    /\ ListInv
    /\ BlockTypeOK
    /\ p = CHOOSE q \in {0} \cup Listed : succ[q] = b
    /\ succ' = [succ EXCEPT ![p] = succ[b]]
    /\ Listed' = Listed \ {b}
  => /\ ListInv' /\ succ' \in [0..MaxBlocks -> 0..MaxBlocks]
     /\ p \in 0..MaxBlocks /\ succ[p] = b /\ succ'[p] = succ[b]
     /\ \A a \in 0..MaxBlocks : a # p => succ'[a] = succ[a]
  \* The block behind place k leaves the list when its successor becomes that of
  \* place k.
  <2>ChainRemove.
    ASSUME NEW M, NEW n, NEW s, NEW f, NEW g, NEW k, TakesBehind(M, n, s, f, g, k)
    PROVE  Shorter(M, n, s, g, s[k + 1])
    <3> USE <2>ChainRemove
    <3>0. /\ M \in Nat /\ n \in Nat /\ s \in [1..n -> 1..M] /\ Chain(f, s, n) /\ Distinct(s, n)
          /\ k \in 0..(n - 1) /\ g[At(s, k)] = f[s[k + 1]]
          /\ \A a \in 0..M : a # At(s, k) => g[a] = f[a]
      BY Zenon DEF TakesBehind
    <3> USE <3>0
    <3> DEFINE r == [j \in 1..(n - 1) |-> IF j <= k THEN s[j] ELSE s[j + 1]]
    <3>1. r \in [1..(n - 1) -> 1..M]
      OBVIOUS
    <3>2. \A i \in 1..(n - 1) : r[i] = IF i <= k THEN s[i] ELSE s[i + 1]
      BY Zenon
    <3> HIDE DEF r
    <3>3. \A i \in 0..(n - 1) : At(r, i) = IF i <= k THEN At(s, i) ELSE At(s, i + 1)
      <4> TAKE i \in 0..(n - 1)
      <4>1. CASE i = 0
        BY <4>1 DEF At
      <4>2. CASE i # 0
        <5>1. i \in 1..(n - 1) /\ i + 1 # 0
          BY <4>2
        <5> QED BY <5>1, <3>2, <4>2, Zenon DEF At
      <4> QED BY <4>1, <4>2, Zenon
    <3>4. \A i \in 0..n : i # k => g[At(s, i)] = f[At(s, i)]
      <4> TAKE i \in 0..n
      <4>1. k \in 0..n
        OBVIOUS
      <4>2. i # k => At(s, i) # At(s, k) /\ At(s, i) \in 0..M
        BY <4>1, PlacesDiffer, Zenon
      <4> QED BY <4>2, Zenon
    <3>5. /\ f[At(s, n)] = 0
          /\ \A i \in 1..n : s[i] = f[At(s, i - 1)]
      BY Zenon DEF Chain
    <3>6. g[At(r, n - 1)] = 0
      <4>1. CASE k = n - 1
        <5>1. At(r, n - 1) = At(s, k) /\ s[k + 1] = At(s, n)
          BY <4>1, <3>3 DEF At
        <5> QED BY <5>1, <3>5, Zenon
      <4>2. CASE k < n - 1
        <5>1. At(r, n - 1) = At(s, n) /\ n \in 0..n /\ n # k
          BY <4>2, <3>3
        <5> QED BY <5>1, <3>4, <3>5, Zenon
      <4> QED BY <4>1, <4>2
    <3>7. ASSUME NEW i \in 1..(n - 1) PROVE r[i] = g[At(r, i - 1)]
      <4>0. i - 1 \in 0..(n - 1) /\ i - 1 \in 0..n
        OBVIOUS
      <4>1. CASE i <= k
        <5>1. At(r, i - 1) = At(s, i - 1) /\ r[i] = s[i] /\ i \in 1..n /\ i - 1 # k
          BY <4>0, <4>1, <3>2, <3>3
        <5> QED BY <4>0, <5>1, <3>4, <3>5, Zenon
      <4>2. CASE i = k + 1
        <5>1. At(r, i - 1) = At(s, k) /\ r[i] = s[k + 2] /\ k + 2 \in 1..n /\ (k + 2) - 1 = k + 1 /\ At(s, k + 1) = s[k + 1]
          BY <4>0, <4>2, <3>2, <3>3 DEF At
        <5> QED BY <5>1, <3>5
      <4>3. CASE i > k + 1
        <5>1. i - 1 \in 0..(n - 1) /\ i - 1 > k /\ i > k /\ i \in 0..n /\ i + 1 \in 1..n /\ i # k /\ (i - 1) + 1 = i /\ (i + 1) - 1 = i
          BY <4>0, <4>3, <3>2
        <5>2. At(r, i - 1) = At(s, i) /\ r[i] = s[i + 1]
          BY <5>1, <3>2, <3>3
        <5> QED BY <5>1, <5>2, <3>4, <3>5, ZenonT(60)
      <4> QED BY <4>1, <4>2, <4>3
    <3>8. Distinct(r, n - 1)
      <4> SUFFICES ASSUME NEW i \in 1..(n - 1), NEW j \in 1..(n - 1), r[i] = r[j] PROVE i = j
        BY Zenon DEF Distinct
      <4>1. i \in 1..n /\ i + 1 \in 1..n /\ j \in 1..n /\ j + 1 \in 1..n
        BY SMTT(30)
      <4>2. \A x, y \in 1..n : s[x] = s[y] => x = y
        BY Zenon DEF Distinct
      <4>3. CASE i <= k /\ j <= k
        BY <4>1, <4>2, <4>3, <3>2
      <4>4. CASE i <= k /\ j > k
        <5>1. s[i] = s[j + 1]
          BY <4>4, <3>2
        <5> QED BY <4>1, <4>2, <4>4, <5>1
      <4>5. CASE i > k /\ j <= k
        <5>1. s[i + 1] = s[j]
          BY <4>5, <3>2
        <5> QED BY <4>1, <4>2, <4>5, <5>1
      <4>6. CASE i > k /\ j > k
        <5>1. s[i + 1] = s[j + 1]
          BY <4>6, <3>2
        <5> QED BY <4>1, <4>2, <4>6, <5>1
      <4> QED BY <4>3, <4>4, <4>5, <4>6
    <3>9. \A a : (\E i \in 1..(n - 1) : r[i] = a) <=> (a # s[k + 1] /\ \E i \in 1..n : s[i] = a)
      <4> SUFFICES ASSUME NEW a PROVE (\E i \in 1..(n - 1) : r[i] = a) <=> (a # s[k + 1] /\ \E i \in 1..n : s[i] = a)
        BY Zenon
      <4>1. ASSUME NEW i \in 1..n, s[i] = a, a # s[k + 1] PROVE \E j \in 1..(n - 1) : r[j] = a
        <5>1. CASE i <= k
          <6>1. i \in 1..(n - 1) /\ r[i] = a
            BY <4>1, <5>1, <3>2
          <6> QED BY <6>1, Zenon
        <5>2. CASE i > k + 1
          <6>1. i - 1 \in 1..(n - 1) /\ r[i - 1] = a
            BY <4>1, <5>2, <3>2
          <6> QED BY <6>1, Zenon
        <5> QED BY <4>1, <5>1, <5>2
      <4>2. ASSUME NEW j \in 1..(n - 1), r[j] = a PROVE a # s[k + 1] /\ \E i \in 1..n : s[i] = a
        <5>1. CASE j <= k
          <6>1. j \in 1..n /\ s[j] = a /\ j # k + 1 /\ k + 1 \in 1..n
            BY <4>2, <5>1, <3>2
          <6> QED BY <6>1, Zenon DEF Distinct
        <5>2. CASE j > k
          <6>1. j + 1 \in 1..n /\ s[j + 1] = a /\ j + 1 # k + 1 /\ k + 1 \in 1..n
            BY <4>2, <5>2, <3>2
          <6> QED BY <6>1, Zenon DEF Distinct
        <5> QED BY <5>1, <5>2
      <4> QED BY <4>1, <4>2, Zenon
    <3>10. Chain(g, r, n - 1)
      BY <3>6, <3>7, Zenon DEF Chain
    <3> QED BY <3>1, <3>8, <3>9, <3>10, Zenon DEF Shorter
  <2> SUFFICES ASSUME NatFacts, MaxBlocks \in Nat, ListInv, BlockTypeOK, NEW b \in Listed, NEW p,
                      p = CHOOSE q \in {0} \cup Listed : succ[q] = b, succ' = [succ EXCEPT ![p] = succ[b]],
                      Listed' = Listed \ {b}
               PROVE  /\ ListInv' /\ succ' \in [0..MaxBlocks -> 0..MaxBlocks]
                      /\ p \in 0..MaxBlocks /\ succ[p] = b /\ succ'[p] = succ[b]
                      /\ \A a \in 0..MaxBlocks : a # p => succ'[a] = succ[a]
    BY Zenon
  <2>1. PICK n \in Nat : n = Len(Order) /\ n \in 0..MaxBlocks
    BY OrderIs
  <2>2. PICK s \in [1..n -> 1..MaxBlocks] : s = Order
    BY <2>1, OrderIs, Zenon DEF RamBlocks
  <2>3. /\ Chain(succ, s, n) /\ Distinct(s, n)
        /\ \A x \in RamBlocks : x \in Listed <=> \E i \in 1..n : s[i] = x
    BY <2>1, <2>2, OrderIs, Zenon DEF ListOf
  <2>4. succ \in [0..MaxBlocks -> 0..MaxBlocks]
    BY Zenon DEF BlockTypeOK
  <2>5. b \in 1..MaxBlocks /\ b \in 0..MaxBlocks /\ b # 0 /\ b \in RamBlocks
    BY DEF Listed, RamBlocks
  <2>6. PICK i \in 1..n : s[i] = b
    BY <2>3, <2>5, Zenon
  <2>7. PICK k \in 0..(n - 1) : k + 1 = i
    <3>1. i - 1 \in 0..(n - 1) /\ (i - 1) + 1 = i
      BY <2>1
    <3> QED BY <3>1, Zenon
  <2>8. /\ succ[At(s, n)] = 0 /\ \A j \in 1..n : s[j] = succ[At(s, j - 1)]
    BY <2>3, Zenon DEF Chain
  <2>9. succ[At(s, k)] = b
    <3>1. i - 1 = k
      BY <2>7
    <3> QED BY <2>6, <2>8, <3>1, Zenon
  <2>10. \A q \in {0} \cup Listed : \E j \in 0..n : q = At(s, j)
    <3>1. \E j \in 0..n : 0 = At(s, j)
      <4>1. 0 \in 0..n /\ At(s, 0) = 0
        BY <2>1 DEF At
      <4> QED BY <4>1, Zenon
    <3>2. ASSUME NEW q \in Listed PROVE \E j \in 0..n : q = At(s, j)
      <4>1. q \in RamBlocks
        BY Zenon DEF Listed
      <4>2. PICK j \in 1..n : s[j] = q
        BY <2>3, <4>1, Zenon
      <4>3. j \in 0..n /\ j # 0
        BY <2>1
      <4> QED BY <4>2, <4>3, Zenon DEF At
    <3> QED BY <3>1, <3>2, Zenon
  <2>11. ASSUME NEW j \in 0..n, succ[At(s, j)] = b PROVE j = k
    <3>1. j # n
      BY <2>5, <2>8, <2>11, Zenon
    <3>2. j + 1 \in 1..n /\ (j + 1) - 1 = j
      BY <2>1, <3>1
    <3>3. s[j + 1] = b
      BY <2>8, <2>11, <3>2, Zenon
    <3>4. j + 1 = i
      BY <2>3, <2>6, <3>2, <3>3, Zenon DEF Distinct
    <3> QED BY <2>7, <3>4
  <2>12. At(s, k) \in {0} \cup Listed /\ At(s, k) \in 0..MaxBlocks
    <3>1. CASE k = 0
      BY <3>1 DEF At
    <3>2. CASE k # 0
      <4>1. k \in 1..n /\ At(s, k) = s[k]
        BY <2>1, <3>2, SMTT(30) DEF At
      <4>2. s[k] \in RamBlocks /\ s[k] \in 0..MaxBlocks
        BY <4>1 DEF RamBlocks
      <4> QED BY <2>3, <4>1, <4>2, Zenon
    <3> QED BY <3>1, <3>2, Zenon
  <2>13. p \in {0} \cup Listed /\ succ[p] = b
    BY <2>9, <2>12, Zenon
  <2>14. p = At(s, k)
    BY <2>10, <2>11, <2>13, Zenon
  <2>15. /\ succ' \in [0..MaxBlocks -> 0..MaxBlocks] /\ succ'[p] = succ[b]
         /\ \A a \in 0..MaxBlocks : a # p => succ'[a] = succ[a]
    BY <2>4, <2>5, <2>12, <2>14, Zenon
  <2>16. PICK r \in [1..(n - 1) -> 1..MaxBlocks] :
           /\ Chain(succ', r, n - 1) /\ Distinct(r, n - 1)
           /\ \A a : (\E j \in 1..(n - 1) : r[j] = a) <=> (a # b /\ \E j \in 1..n : s[j] = a)
    <3>1. PICK f, g : f = succ /\ g = succ'
      BY Zenon
    <3>2. Chain(f, s, n) /\ g[At(s, k)] = f[b] /\ \A a \in 0..MaxBlocks : a # At(s, k) => g[a] = f[a]
      BY <2>3, <2>14, <2>15, <3>1, Zenon
    <3>3. s[k + 1] = b
      BY <2>6, <2>7, Zenon
    <3>4. TakesBehind(MaxBlocks, n, s, f, g, k)
      BY <2>3, <3>2, <3>3, Zenon DEF TakesBehind
    <3>5. Shorter(MaxBlocks, n, s, g, b)
      BY <3>3, <3>4, <2>ChainRemove, Zenon
    <3> QED BY <3>1, <3>5, Zenon DEF Shorter
  <2>17. n - 1 \in 0..MaxBlocks
    BY <2>1, <2>7
  <2>18. \A x \in RamBlocks : x \in Listed' <=> \E j \in 1..(n - 1) : r[j] = x
    BY <2>3, <2>16, Zenon
  <2>19. ListOf(r, n - 1)'
    BY <2>16, <2>18, Zenon DEF ListOf
  <2>20. ListInv'
    BY <2>16, <2>17, <2>19, Zenon DEF ListInv, RamBlocks
  <2> QED BY <2>12, <2>13, <2>14, <2>15, <2>20, Zenon
\* A walk goes on when b is taken out behind p: whoever was about to go to b
\* goes to its successor, and whoever is at b finds its successor unchanged.
<1>RemovePath.
  ASSUME NEW t, NEW x, NEW c, NEW a, NEW S \in SUBSET RamBlocks, Path(t, x, c, a, S), NEW b, NEW p, x # b,
         MaxBlocks \in Nat, succ[p] = b, succ'[p] = succ[b], \A n \in 0..MaxBlocks : n # p => succ'[n] = succ[n],
         \A n \in RamBlocks : Passes(t, n, a) => Passes(t, n, a)'
  PROVE  Path(t, x, c, a, S)'
  <2> USE <1>RemovePath
  <2>1. \A n \in S \ {x} : n \in 0..MaxBlocks /\ Passes(t, n, a)' /\ succ[n] \in S
    BY DEF Path, RamBlocks
  <2>2. ASSUME NEW n \in S \ {x} PROVE Passes(t, n, a)' /\ succ'[n] \in S
    <3>1. CASE n = p
      <4>1. b \in S \ {x}
        BY <2>1, <3>1, Zenon
      <4> QED BY <2>1, <3>1, <4>1, Zenon
    <3>2. CASE n # p
      BY <2>1, <3>2, Zenon
    <3> QED BY <3>1, <3>2, Zenon
  <2> QED BY <2>2, Zenon DEF Path
<1> SUFFICES ASSUME NatFacts, RamParameters, RamInv, NEW b \in Listed, RamFree(b)
             PROVE  RamInv'
  BY Zenon
<1>1. /\ BlockTypeOK /\ MainTypeOK /\ ThrTypeOK /\ DirtyTypeOK /\ ListInv /\ MainBlock /\ SpaceInv /\ ArrayInv /\ WorkInv
      /\ OwedInv /\ DirtyKept /\ GraceInv /\ WalkInv
  BY Zenon DEF RamInv, RamTypeOK
<1>p. MaxBlocks \in Nat
  BY Zenon DEF RamParameters
<1>2. /\ main.at = "idle" /\ b \in Listed \ Held
      /\ rblock' = [rblock EXCEPT ![b].state = "removed"]
      /\ owed' = [c \in DirtyClients |-> owed[c] \ Pages(b, rblock[b].max_length)]
      /\ main' = [main EXCEPT !.at = "removed", !.b = b]
      /\ UNCHANGED <<mru_block, dirty, arrays, bitmaps, thr, grace, freed>>
  BY Zenon DEF RamFree, BeginChange, MainAt
<1>3. b \in RamBlocks /\ rblock[b].state = "listed" /\ Listed \subseteq RamBlocks
  BY Zenon DEF Listed
<1>4. PICK p : p = (CHOOSE q \in {0} \cup Listed : succ[q] = b) /\ succ' = [succ EXCEPT ![p] = succ[b]]
  BY Zenon DEF RamFree
<1>5. Listed' = Listed \ {b}
  BY <1>1, <1>2, <1>3, Zenon DEF Listed, BlockTypeOK
<1>6. /\ ListInv' /\ succ' \in [0..MaxBlocks -> 0..MaxBlocks]
      /\ p \in 0..MaxBlocks /\ succ[p] = b /\ succ'[p] = succ[b]
      /\ \A n \in 0..MaxBlocks : n # p => succ'[n] = succ[n]
  BY <1>1, <1>p, <1>4, <1>5, <1>RemoveList, Zenon
<1>7. /\ BlockTypeOK' /\ rblock'[b].state = "removed"
      /\ \A x \in RamBlocks : Fixed(x) /\ (x # b => rblock'[x].state = rblock[x].state)
  BY <1>1, <1>2, <1>3, <1>6, StateUpdate, ZenonT(60) DEF BlockStates
<1>8. \A x \in RamBlocks : End(x)' = End(x) /\ \A a : Covers(x, a)' <=> Covers(x, a)
  BY <1>7, FixedCovers, Zenon
<1>9. MainTypeOK' /\ main'.at = "removed" /\ main'.b = b
  <2>1. b \in 0..MaxBlocks /\ "removed" \in MainPlaces
    BY <1>3, <1>p, SMTT(30) DEF RamBlocks, MainPlaces
  <2> QED BY <1>1, <1>2, <2>1, MainTakes, Zenon DEF MainBecomes
<1>10. MainBlock'
  BY <1>3, <1>7, <1>9, Zenon DEF MainBlock
<1>11. Placed = Listed /\ Placed' = Listed
  BY <1>2, <1>3, <1>5, <1>9, Zenon DEF Placed
<1>12. SpaceInv'
  BY <1>1, <1>3, <1>7, <1>8, <1>9, <1>11, SMTT(30) DEF SpaceInv, Apart, Fixed
<1>13. ArrayInv'
  <2>1. \A c : ArrLen(c)' = ArrLen(c)
    BY <1>2, Zenon DEF ArrLen
  <2>2. \A x \in Listed', c \in DirtyClients : BitmapCount(End(x)') <= ArrLen(c)
    BY <1>1, <1>3, <1>5, <1>8, Zenon DEF ArrayInv
  <2> QED BY <1>1, <1>2, <1>9, <2>1, <2>2, SMTT(30) DEF ArrayInv
<1>14. \A c \in DirtyClients : owed'[c] = owed[c] \ Pages(b, rblock[b].max_length)
  BY <1>2, Zenon
<1>15. OwedInv'
  <2>1. ASSUME NEW c \in DirtyClients, NEW a \in owed'[c] PROVE \E x \in Listed' : Covers(x, a)'
    <3>1. a \in owed[c] /\ ~Covers(b, a)
      BY <1>14, <2>1, Zenon DEF Covers
    <3>2. PICK x \in Listed : Covers(x, a)
      BY <1>1, <3>1, Zenon DEF OwedInv
    <3> QED BY <1>3, <1>5, <1>8, <3>1, <3>2, Zenon
  <2> QED BY <1>9, <2>1, Zenon DEF OwedInv
<1>16. DirtyKept'
  <2>1. \A c : Marked(c)' = Marked(c)
    BY <1>2, Zenon DEF Marked, Reaches, BitmapOf
  <2>2. \A x \in RamBlocks : Pages(x, rblock[x].max_length)' = Pages(x, rblock[x].max_length)
    BY <1>7, Zenon DEF Fixed, Pages
  <2>3. ASSUME NEW x \in Listed, NEW c \in DirtyClients PROVE Pages(x, rblock[x].max_length) \cap owed[c] \subseteq Marked(c)
    BY <1>1, <1>2, Zenon DEF DirtyKept
  <2>4. ASSUME NEW x \in Listed', NEW c \in DirtyClients
        PROVE  Pages(x, rblock[x].max_length)' \cap owed'[c] \subseteq Marked(c)'
    BY <1>3, <1>5, <1>14, <2>1, <2>2, <2>3, Zenon
  <2> QED BY <2>4, Zenon DEF DirtyKept
<1>17. \A w : Dead(w) => Dead(w)'
  BY <1>2, <1>3, <1>7, <1>9, SMTT(30) DEF Dead
<1>18. \A t, w : Kept(t, w)' <=> Kept(t, w)
  BY <1>2, Zenon DEF Kept
<1>19. GraceInv'
  BY <1>1, <1>2, <1>17, <1>18, Zenon DEF GraceInv, Holds, Reading, Pending
<1>20. \A t \in Threads : thr[t].at # "idle" => ~Covers(b, thr[t].addr)
  BY <1>2, Zenon DEF Held
<1>21. ASSUME NEW t \in Threads
       PROVE  /\ Works(thr[t].at, thr[t].cur, thr[t].addr, thr[t].upto, thr[t].arr)'
              /\ Looks(t, thr[t].at, thr[t].cur, thr[t].addr)'
  <2>1. \A n \in RamBlocks : \A a : Passes(t, n, a) => Passes(t, n, a)'
    BY <1>7, <1>8, <1>18, Zenon DEF Passes
  <2>2. PICK w, cur, a, e, arr : w = thr[t].at /\ cur = thr[t].cur /\ a = thr[t].addr /\ e = thr[t].upto /\ arr = thr[t].arr
    BY Zenon
  <2>3. Looks(t, w, cur, a) /\ Works(w, cur, a, e, arr) /\ (w # "idle" => ~Covers(b, a))
    BY <1>1, <1>20, <2>2, Zenon DEF WalkInv, WorkInv
  <2>4. ASSUME NEW x \in Listed, Covers(x, a), w # "idle", NEW S \in SUBSET RamBlocks, Path(t, x, cur, a, S)
        PROVE  Path(t, x, cur, a, S)'
    <3>1. x # b
      BY <2>3, <2>4, Zenon
    <3> QED BY <1>p, <1>6, <2>1, <2>4, <3>1, <1>RemovePath, ZenonT(60)
  <2>5. Looks(t, w, cur, a)'
    BY <1>3, <1>5, <1>8, <2>1, <2>3, <2>4, Zenon DEF Looks
  <2>6. Works(w, cur, a, e, arr)'
    BY <1>2, <1>3, <1>5, <1>8, <2>3, Zenon DEF Works, HasBitmaps
  <2> QED BY <1>2, <2>2, <2>5, <2>6, Zenon
<1>22. WalkInv' /\ WorkInv'
  BY <1>1, <1>2, <1>5, <1>9, <1>21, Zenon DEF WalkInv, WorkInv, MruInv, LookupFinds
<1>23. RamTypeOK'
  <2>1. owed' \in [DirtyClients -> SUBSET Nat]
    BY <1>1, <1>2, Zenon DEF DirtyTypeOK
  <2> QED BY <1>1, <1>2, <1>7, <1>9, <2>1, Zenon DEF RamTypeOK, ThrTypeOK, DirtyTypeOK
<1> QED BY <1>6, <1>10, <1>12, <1>13, <1>15, <1>16, <1>19, <1>22, <1>23, Zenon DEF RamInv

\* A sequence of n numbers: the first o of those of a, and fresh ones from m on.
Grown(A, a, o, n, m) ==
  /\ A \in Seq(Nat) /\ Len(A) = n
  /\ \A i \in 1..n : A[i] = IF i <= o THEN a[i] ELSE m + (i - o)

\* What a round of dirty_memory_extend makes of the arrays, where o and n are
\* the numbers of bitmaps before and after, N and m those of arrays and bitmaps.
Extends(c, o, n, N, m, A) ==
  /\ o \in Nat /\ n \in Nat /\ o <= n /\ N \in Nat /\ m \in Nat /\ N = Len(arrays) /\ m = Len(bitmaps)
  /\ o = BitmapCount(main.old) /\ n = BitmapCount(main.new)
  /\ Grown(A, arrays[dirty[c]], o, n, m) /\ (o > 0 => dirty[c] # 0)
  /\ arrays' \in Seq(Seq(Nat)) /\ Len(arrays') = N + 1 /\ arrays'[N + 1] = A /\ (\A g \in 1..N : arrays'[g] = arrays[g])
  /\ bitmaps' \in Seq(SUBSET Nat) /\ Len(bitmaps') = m + (n - o) /\ (\A i \in 1..m : bitmaps'[i] = bitmaps[i])
  /\ dirty' \in [DirtyClients -> Nat] /\ dirty'[c] = N + 1 /\ \A d \in DirtyClients \ {c} : dirty'[d] = dirty[d]

\* dirty_memory_extend gives a client a new array, which keeps the bitmaps of
\* the old one.
LEMMA ExtendNext ==
  \A c \in DirtyClients :
    RamParameters /\ RamInv /\ ExtendDirty(c)
  => RamInv'
<1>MainRounds.
  ASSUME MainTypeOK, NEW c, main' = [main EXCEPT !.todo = @ \ {c}]
  PROVE  MainBecomes(main.at, main.b, main.old, main.new, main.todo \ {c})
  <2> USE <1>MainRounds
  <2>1. PICK x \in MainStates : x = main
    BY Zenon DEF MainTypeOK, MainStates
  <2>2. PICK r : r = [x EXCEPT !.todo = x.todo \ {c}]
    BY Zenon
  <2>3. r \in MainStates /\ r.at = x.at /\ r.b = x.b /\ r.old = x.old /\ r.new = x.new /\ r.todo = x.todo \ {c}
    BY <2>2, Zenon DEF MainStates
  <2>4. main' = r
    BY <2>1, <2>2, Zenon
  <2> QED BY <2>1, <2>3, <2>4, Zenon DEF MainBecomes, MainTypeOK, MainStates
<1>ArrLenIs.
  ASSUME DirtyTypeOK, ArrayInv, NEW c \in DirtyClients
  PROVE  /\ ArrLen(c) \in Nat /\ dirty[c] \in 0..Len(arrays) /\ Len(arrays) \in Nat
         /\ dirty[c] # 0 => arrays[dirty[c]] \in Seq(Nat) /\ ArrLen(c) = Len(arrays[dirty[c]])
  <2> USE <1>ArrLenIs
  <2>1. dirty[c] \in Nat /\ dirty[c] <= Len(arrays) /\ arrays \in Seq(Seq(Nat))
    BY Zenon DEF ArrayInv, DirtyTypeOK
  <2>2. Len(arrays) \in Nat /\ dirty[c] \in 0..Len(arrays)
    BY <2>1
  <2>3. dirty[c] # 0 => arrays[dirty[c]] \in Seq(Nat)
    BY <2>1
  <2> QED BY <2>2, <2>3 DEF ArrLen
\* While a block is added, the arrays reach all there was before.
<1>OldReached.
  ASSUME RamParameters, RamTypeOK, SpaceInv, ArrayInv, main.at \in {"offset", "extend"}, NEW c \in DirtyClients
  PROVE  BitmapCount(main.old) \in Nat /\ BitmapCount(main.old) <= ArrLen(c)
  <2> USE <1>OldReached
  <2>1. /\ BlockTypeOK /\ MainTypeOK /\ DirtyTypeOK /\ DIRTY_MEMORY_BLOCK_SIZE \in Nat \ {0}
    BY Zenon DEF RamTypeOK, RamParameters
  <2>2. main.old \in Nat /\ (main.old = 0 \/ \E b \in Listed : main.old = End(b))
    BY <2>1, MainFields, Zenon DEF SpaceInv
  <2>3. BitmapCount(main.old) \in Nat /\ ArrLen(c) \in Nat
    BY <2>1, <2>2, BitmapCountIs, <1>ArrLenIs, Zenon
  <2>4. CASE main.old = 0
    <3>1. BitmapCount(0) <= 0
      BY <2>1, BitmapCountIs
    <3> QED BY <2>3, <2>4, <3>1
  <2>5. CASE \E b \in Listed : main.old = End(b)
    BY <2>3, <2>5, Zenon DEF ArrayInv
  <2> QED BY <2>2, <2>3, <2>4, <2>5, Zenon
<1>DoesExtend.
  \A c \in DirtyClients :
    RamParameters /\ RamTypeOK /\ MainBlock /\ SpaceInv /\ ArrayInv /\ ExtendDirty(c)
  => \E o, n, N, m, A : Extends(c, o, n, N, m, A)
  <2>GrownIs.
    \A o \in Nat : \A n \in Nat : \A m \in Nat : \A a \in Seq(Nat) : \A A :
      o <= n /\ o <= Len(a) /\ A = SubSeq(a, 1, o) \o [i \in 1..(n - o) |-> m + i]
    => Grown(A, a, o, n, m)
    <3>JoinedIs.
      ASSUME NEW S, NEW s \in Seq(S), NEW f \in Seq(S)
      PROVE  \A j \in 1..(Len(s) + Len(f)) : (s \o f)[j] = IF j <= Len(s) THEN s[j] ELSE f[j - Len(s)]
      BY <3>JoinedIs
    <3>JoinedLen.
      ASSUME NEW S, NEW s \in Seq(S), NEW f \in Seq(S)
      PROVE  s \o f \in Seq(S) /\ Len(s \o f) = Len(s) + Len(f)
      BY <3>JoinedLen
    <3> SUFFICES ASSUME NEW o \in Nat, NEW n \in Nat, o <= n, NEW m \in Nat, NEW a \in Seq(Nat), o <= Len(a), NEW A,
                        A = SubSeq(a, 1, o) \o [i \in 1..(n - o) |-> m + i]
                 PROVE  Grown(A, a, o, n, m)
      BY Zenon
    <3>1. PICK k \in Nat : k = n - o
      OBVIOUS
    <3>2. PICK s : s = SubSeq(a, 1, o)
      BY Zenon
    <3>3. s \in Seq(Nat) /\ Len(s) = o /\ \A i \in 1..o : s[i] = a[i]
      BY <3>2
    <3>4. PICK f : f = [i \in 1..k |-> m + i]
      BY Zenon
    <3>5. f \in Seq(Nat) /\ Len(f) = k /\ \A i \in 1..k : f[i] = m + i
      BY <3>4
    <3>6. A = s \o f
      BY <3>1, <3>2, <3>4, Zenon
    <3>7. A \in Seq(Nat) /\ Len(A) = o + k
      <4>1. s \o f \in Seq(Nat) /\ Len(s \o f) = Len(s) + Len(f)
        BY <3>3, <3>5, <3>JoinedLen, Zenon
      <4> QED BY <3>3, <3>5, <3>6, <4>1, Zenon
    <3>8. ASSUME NEW i \in 1..n PROVE A[i] = IF i <= o THEN a[i] ELSE m + (i - o)
      <4>1. CASE i <= o
        BY <3>3, <3>5, <3>6, <4>1, SMTT(30)
      <4>2. CASE ~(i <= o)
        <5>1. i - o \in 1..k
          BY <3>1, <4>2
        <5>2. A[i] = f[i - o]
          <6>1. i \in (o + 1)..(o + k) /\ Len(s) = o /\ Len(f) = k
            BY <3>1, <3>3, <3>5, <4>2
          <6>2. \A j \in 1..(Len(s) + Len(f)) : (s \o f)[j] = IF j <= Len(s) THEN s[j] ELSE f[j - Len(s)]
            BY <3>3, <3>5, <3>JoinedIs, Zenon
          <6>3. i \in 1..(Len(s) + Len(f)) /\ ~(i <= Len(s))
            BY <3>1, <4>2, <6>1
          <6>4. (s \o f)[i] = f[i - Len(s)]
            BY <6>2, <6>3, Zenon
          <6> QED BY <3>6, <6>1, <6>4, Zenon
        <5> QED BY <3>5, <4>2, <5>1, <5>2, Zenon
      <4> QED BY <4>1, <4>2, Zenon
    <3>9. Len(A) = n
      BY <3>1, <3>7
    <3> QED BY <3>7, <3>8, <3>9, Zenon DEF Grown
  <2>GrownFromNone.
    ASSUME NEW n \in Nat, NEW m \in Nat, NEW a, NEW A, A = <<>> \o [i \in 1..(n - 0) |-> m + i]
    PROVE  Grown(A, a, 0, n, m)
    <3> USE <2>GrownFromNone
    <3>1. PICK f : f = [i \in 1..n |-> m + i]
      BY Zenon
    <3>2. f \in Seq(Nat) /\ Len(f) = n /\ \A i \in 1..n : f[i] = m + i
      BY <3>1
    <3>3. A = f
      BY <3>1, <3>2
    <3> QED BY <3>2, <3>3 DEF Grown
  <2> SUFFICES ASSUME RamParameters, RamTypeOK, MainBlock, SpaceInv, ArrayInv, NEW c \in DirtyClients, ExtendDirty(c)
               PROVE  \E o, n, N, m, A : Extends(c, o, n, N, m, A)
    BY Zenon
  <2>1. /\ BlockTypeOK /\ MainTypeOK /\ DirtyTypeOK /\ DIRTY_MEMORY_BLOCK_SIZE \in Nat \ {0} /\ main.at = "extend" /\ MaxBlocks \in Nat
    BY Zenon DEF RamTypeOK, RamParameters, ExtendDirty, MainAt
  <2>2. PICK o \in Nat : o = BitmapCount(main.old) /\ o <= ArrLen(c)
    BY <2>1, <1>OldReached, Zenon
  <2>3. main.old \in Nat /\ main.new \in Nat /\ main.old <= main.new
    <3>1. main.old \in Nat /\ main.new \in Nat /\ main.new = Max2(main.old, End(main.b)) /\ main.b \in RamBlocks
      BY <2>1, MainFields, Zenon DEF SpaceInv, MainBlock
    <3>2. End(main.b) \in Nat
      BY <2>1, <3>1, BlockFields, Zenon
    <3> QED BY <3>1, <3>2 DEF Max2
  <2>4. PICK n \in Nat : n = BitmapCount(main.new) /\ o <= n
    BY <2>1, <2>2, <2>3, BitmapCountIs, BitmapCountMonotone, Zenon
  <2>5. PICK N \in Nat : N = Len(arrays) /\ arrays \in Seq(Seq(Nat))
    BY <2>1 DEF DirtyTypeOK
  <2>6. PICK m \in Nat : m = Len(bitmaps) /\ bitmaps \in Seq(SUBSET Nat)
    BY <2>1 DEF DirtyTypeOK
  <2>7. PICK A : A = (IF dirty[c] = 0 THEN <<>> ELSE SubSeq(arrays[dirty[c]], 1, o)) \o [i \in 1..(n - o) |-> m + i]
    BY Zenon
  <2>8. /\ ArrLen(c) \in Nat /\ dirty[c] \in 0..N
        /\ dirty[c] # 0 => arrays[dirty[c]] \in Seq(Nat) /\ ArrLen(c) = Len(arrays[dirty[c]])
    BY <2>1, <2>5, <1>ArrLenIs, Zenon
  <2>9. Grown(A, arrays[dirty[c]], o, n, m) /\ (o > 0 => dirty[c] # 0)
    <3>1. CASE dirty[c] = 0
      <4>1. o = 0
        BY <2>2, <3>1 DEF ArrLen
      <4>2. A = <<>> \o [i \in 1..(n - 0) |-> m + i]
        BY <2>7, <3>1, <4>1, Zenon
      <4> QED BY <4>1, <4>2, <2>GrownFromNone
    <3>2. CASE dirty[c] # 0
      <4>1. PICK a \in Seq(Nat) : a = arrays[dirty[c]] /\ o <= Len(a)
        BY <2>2, <2>8, <3>2, Zenon
      <4>2. A = SubSeq(a, 1, o) \o [i \in 1..(n - o) |-> m + i]
        BY <2>7, <3>2, <4>1, Zenon
      <4> QED BY <2>4, <3>2, <4>1, <4>2, <2>GrownIs, Zenon
    <3> QED BY <3>1, <3>2, Zenon
  <2>10. /\ arrays' \in Seq(Seq(Nat)) /\ Len(arrays') = N + 1 /\ arrays'[N + 1] = A /\ (\A g \in 1..N : arrays'[g] = arrays[g])
    <3>1. arrays' = Append(arrays, A)
      BY <2>2, <2>4, <2>6, <2>7, Zenon DEF ExtendDirty
    <3>2. A \in Seq(Nat)
      BY <2>9, Zenon DEF Grown
    <3> QED BY <2>5, <3>1, <3>2
  <2>11. /\ bitmaps' \in Seq(SUBSET Nat) /\ Len(bitmaps') = m + (n - o) /\ (\A i \in 1..m : bitmaps'[i] = bitmaps[i])
    <3>1. PICK e : e = [i \in 1..(n - o) |-> {}]
      BY Zenon
    <3>2. bitmaps' = bitmaps \o [i \in DOMAIN [i \in 1..(n - o) |-> m + i] |-> {}]
      BY <2>2, <2>4, <2>6, Zenon DEF ExtendDirty
    <3>3. bitmaps' = bitmaps \o e
      BY <3>1, <3>2, Zenon
    <3>4. PICK k \in Nat : k = n - o
      BY <2>4
    <3>5. e \in Seq(SUBSET Nat) /\ Len(e) = n - o
      BY <3>1, <3>4
    <3> QED BY <2>6, <3>3, <3>5, SMTT(30)
  <2>12. dirty' \in [DirtyClients -> Nat] /\ dirty'[c] = N + 1 /\ \A d \in DirtyClients \ {c} : dirty'[d] = dirty[d]
    <3>1. dirty' = [dirty EXCEPT ![c] = N + 1]
      BY <2>10, Zenon DEF ExtendDirty
    <3> QED BY <2>1, <3>1, SMTT(30) DEF DirtyTypeOK
  <2>13. Extends(c, o, n, N, m, A)
    BY <2>2, <2>4, <2>5, <2>6, <2>9, <2>10, <2>11, <2>12, Zenon DEF Extends
  <2> QED BY <2>13, Zenon
\* The bitmaps of the pages there were are in the new array.
<1>ExtendKeeps.
  ASSUME DirtyTypeOK, ArrayInv, NEW c \in DirtyClients, NEW o, NEW n, NEW N, NEW m, NEW A, Extends(c, o, n, N, m, A),
         NEW d \in DirtyClients, NEW i \in 1..o, o <= ArrLen(d)
  PROVE  /\ dirty'[d] \in 1..(N + 1) /\ i <= Len(arrays'[dirty'[d]]) /\ arrays'[dirty'[d]][i] = arrays[dirty[d]][i]
         /\ dirty[d] # 0 /\ i <= Len(arrays[dirty[d]])
  <2> USE <1>ExtendKeeps
  <2>1. /\ o \in Nat /\ n \in Nat /\ o <= n /\ N \in Nat /\ Grown(A, arrays[dirty[c]], o, n, m)
        /\ dirty'[c] = N + 1 /\ arrays'[N + 1] = A /\ (\A g \in 1..N : arrays'[g] = arrays[g])
        /\ \A e \in DirtyClients \ {c} : dirty'[e] = dirty[e]
    BY Zenon DEF Extends
  <2>2. /\ ArrLen(d) \in Nat /\ dirty[d] \in 0..N
        /\ dirty[d] # 0 => ArrLen(d) = Len(arrays[dirty[d]])
    BY <1>ArrLenIs, Zenon DEF Extends
  <2>3. dirty[d] # 0
    BY <2>1, <2>2 DEF ArrLen
  <2>4. i <= Len(arrays[dirty[d]])
    BY <2>1, <2>2, <2>3
  <2>5. CASE d = c
    <3>1. i \in 1..n /\ i <= o
      BY <2>1
    <3>2. A[i] = arrays[dirty[c]][i] /\ Len(A) = n
      BY <2>1, <3>1, Zenon DEF Grown
    <3> QED BY <2>1, <2>3, <2>4, <2>5, <3>1, <3>2
  <2>6. CASE d # c
    <3>1. dirty'[d] = dirty[d] /\ dirty[d] \in 1..N
      BY <2>1, <2>2, <2>3, <2>6, SMTT(30)
    <3> QED BY <2>1, <2>3, <2>4, <3>1, SMTT(30)
  <2> QED BY <2>5, <2>6, Zenon
<1>ExtendArrayInv.
  ASSUME RamParameters, RamTypeOK, SpaceInv, ArrayInv, main.at = "extend", NEW c \in DirtyClients, NEW o, NEW n,
         NEW N, NEW m, NEW A, Extends(c, o, n, N, m, A), rblock' = rblock, main'.at = "extend", main'.new = main.new,
         main'.todo = main.todo \ {c}
  PROVE  ArrayInv'
  <2> USE <1>ExtendArrayInv
  <2>1. /\ DirtyTypeOK /\ BlockTypeOK /\ MainTypeOK /\ MaxBlocks \in Nat /\ DIRTY_MEMORY_BLOCK_SIZE \in Nat \ {0}
    BY Zenon DEF RamTypeOK, RamParameters
  <2>2. /\ o \in Nat /\ n \in Nat /\ o <= n /\ N \in Nat /\ m \in Nat /\ N = Len(arrays) /\ m = Len(bitmaps)
        /\ o = BitmapCount(main.old) /\ n = BitmapCount(main.new) /\ (o > 0 => dirty[c] # 0)
        /\ Len(arrays') = N + 1 /\ arrays'[N + 1] = A /\ (\A g \in 1..N : arrays'[g] = arrays[g])
        /\ Len(bitmaps') = m + (n - o)
        /\ dirty'[c] = N + 1 /\ (\A d \in DirtyClients \ {c} : dirty'[d] = dirty[d])
    BY Zenon DEF Extends
  <2>n. o \in Nat /\ n \in Nat /\ o <= n /\ N \in Nat /\ m \in Nat
    BY <2>2, Zenon
  <2>3. Len(A) = n /\ \A i \in 1..n : A[i] = IF i <= o THEN arrays[dirty[c]][i] ELSE m + (i - o)
    BY Zenon DEF Extends, Grown
  <2>4. \A d \in DirtyClients : ArrLen(d) \in Nat /\ dirty[d] \in 0..N /\ (dirty[d] # 0 => ArrLen(d) = Len(arrays[dirty[d]]))
                               /\ o <= ArrLen(d)
    BY <2>1, <2>2, <1>ArrLenIs, <1>OldReached, Zenon
  <2>5. \A g \in 1..N : \A i \in 1..Len(arrays[g]) : arrays[g][i] \in 1..m
    BY <2>2, Zenon DEF ArrayInv
  <2>6. \A i \in 1..n : /\ i <= o => A[i] = arrays[dirty[c]][i] /\ dirty[c] \in 1..N /\ i \in 1..ArrLen(c) /\ A[i] \in 1..m
                        /\ ~(i <= o) => A[i] \in (m + 1)..(m + (n - o))
    <3> TAKE i \in 1..n
    <3>1. CASE i <= o
      <4>1. A[i] = arrays[dirty[c]][i] /\ dirty[c] \in 1..N /\ i \in 1..ArrLen(c) /\ i \in 1..Len(arrays[dirty[c]])
        <5>1. o > 0 /\ dirty[c] # 0 /\ A[i] = arrays[dirty[c]][i]
          BY <2>2, <2>3, <3>1, SMTT(30)
        <5>2. dirty[c] \in 1..N /\ ArrLen(c) \in Nat /\ ArrLen(c) = Len(arrays[dirty[c]]) /\ o <= ArrLen(c)
          BY <2>2, <2>4, <5>1, SMTT(30)
        <5>3. i \in 1..ArrLen(c)
          BY <2>2, <3>1, <5>2, SMTT(30)
        <5> QED BY <5>1, <5>2, <5>3, Zenon
      <4> QED BY <2>5, <3>1, <4>1, Zenon
    <3>2. CASE ~(i <= o)
      <4>1. A[i] = m + (i - o)
        BY <2>3, <3>2, Zenon
      <4>2. m + (i - o) \in (m + 1)..(m + (n - o))
        BY <2>n, <3>2
      <4> QED BY <3>2, <4>1, <4>2, Zenon
    <3> QED BY <3>1, <3>2, Zenon
  <2>7. \A d \in DirtyClients : dirty'[d] <= Len(arrays')
    <3> TAKE d \in DirtyClients
    <3>1. dirty[d] \in 0..N /\ Len(arrays') = N + 1 /\ (dirty'[d] = N + 1 \/ dirty'[d] = dirty[d])
      BY <2>2, <2>4, Zenon
    <3> QED BY <2>n, <3>1
  <2>8. \A d, e \in DirtyClients : d # e /\ dirty'[d] # 0 => dirty'[d] # dirty'[e]
    <3>1. N + 1 # 0 /\ \A d \in DirtyClients : dirty[d] # N + 1
      BY <2>n, <2>4
    <3>2. \A d, e \in DirtyClients : d # e /\ dirty[d] # 0 => dirty[d] # dirty[e]
      BY Zenon DEF ArrayInv
    <3>3. dirty'[c] = N + 1 /\ \A d \in DirtyClients \ {c} : dirty'[d] = dirty[d]
      BY <2>2, Zenon
    <3> QED BY <3>1, <3>2, <3>3, Zenon
  <2>9. \A g \in 1..Len(arrays') : \A i \in 1..Len(arrays'[g]) : arrays'[g][i] \in 1..Len(bitmaps')
    <3> SUFFICES ASSUME NEW g \in 1..Len(arrays'), NEW i \in 1..Len(arrays'[g]) PROVE arrays'[g][i] \in 1..(m + (n - o))
      BY <2>2, Zenon
    <3>1. CASE g = N + 1
      <4>1. i \in 1..n /\ arrays'[g][i] = A[i]
        BY <2>2, <2>3, <3>1, Zenon
      <4>2. A[i] \in 1..m \/ A[i] \in (m + 1)..(m + (n - o))
        BY <2>6, <4>1, Zenon
      <4>3. A[i] \in 1..(m + (n - o))
        BY <2>n, <4>2
      <4> QED BY <4>1, <4>3, Zenon
    <3>2. CASE g # N + 1
      <4>0. g \in 1..(N + 1)
        BY <2>2, Zenon
      <4>1. g \in 1..N /\ arrays'[g] = arrays[g]
        <5>1. g \in 1..N
          BY <2>n, <3>2, <4>0, SMTT(30)
        <5> QED BY <2>2, <5>1, Zenon
      <4>2. arrays[g][i] \in 1..m
        BY <2>5, <4>1, Zenon
      <4>3. arrays[g][i] \in 1..(m + (n - o))
        BY <2>n, <4>2, SMTT(30)
      <4> QED BY <4>1, <4>3, Zenon
    <3> QED BY <3>1, <3>2, Zenon
  <2>10. \A d \in DirtyClients : ArrLen(d)' = IF d = c THEN n ELSE ArrLen(d)
    <3> TAKE d \in DirtyClients
    <3>1. CASE d = c
      BY <2>2, <2>3, <3>1, SMTT(30) DEF ArrLen
    <3>2. CASE d # c
      BY <2>2, <2>4, <3>2, SMTT(30) DEF ArrLen
    <3> QED BY <3>1, <3>2, Zenon
  <2>11. ASSUME NEW d \in DirtyClients \ {c}, dirty[d] # 0, NEW i \in 1..n, NEW j \in 1..ArrLen(d)
         PROVE  A[i] # arrays[dirty[d]][j]
    <3>1. dirty[d] \in 1..N /\ j \in 1..Len(arrays[dirty[d]])
      BY <2>2, <2>4, <2>11, SMTT(30)
    <3>2. arrays[dirty[d]][j] \in 1..m
      BY <2>5, <3>1, Zenon
    <3>3. CASE i <= o
      <4>1. A[i] = arrays[dirty[c]][i] /\ dirty[c] # 0 /\ i \in 1..ArrLen(c)
        BY <2>2, <2>6, <3>3, SMTT(30)
      <4> QED BY <2>11, <4>1, Zenon DEF ArrayInv
    <3>4. CASE ~(i <= o)
      <4>1. A[i] \in (m + 1)..(m + (n - o))
        BY <2>6, <3>4, Zenon
      <4> QED BY <2>n, <3>2, <4>1, SMTT(30)
    <3> QED BY <3>3, <3>4, Zenon
  <2>12. \A d, e \in DirtyClients : d # e /\ dirty'[d] # 0 /\ dirty'[e] # 0 =>
           \A i \in 1..ArrLen(d)', j \in 1..ArrLen(e)' : arrays'[dirty'[d]][i] # arrays'[dirty'[e]][j]
    <3> SUFFICES ASSUME NEW d \in DirtyClients, NEW e \in DirtyClients, d # e, dirty'[d] # 0, dirty'[e] # 0,
                        NEW i \in 1..ArrLen(d)', NEW j \in 1..ArrLen(e)'
                 PROVE  arrays'[dirty'[d]][i] # arrays'[dirty'[e]][j]
      BY Zenon
    <3>1. \A f \in DirtyClients \ {c} : dirty'[f] # 0 => arrays'[dirty'[f]] = arrays[dirty[f]] /\ dirty[f] # 0 /\ ArrLen(f)' = ArrLen(f)
      <4> TAKE f \in DirtyClients \ {c}
      <4>1. dirty'[f] = dirty[f] /\ dirty[f] \in 0..N /\ ArrLen(f)' = ArrLen(f)
        BY <2>2, <2>4, <2>10, Zenon
      <4>2. dirty[f] # 0 => dirty[f] \in 1..N
        BY <2>2, <4>1, SMTT(30)
      <4> QED BY <2>2, <4>1, <4>2, Zenon
    <3>2. arrays'[dirty'[c]] = A /\ ArrLen(c)' = n
      BY <2>2, <2>10, Zenon
    <3>3. CASE d = c
      BY <2>11, <3>1, <3>2, <3>3, SMTT(30)
    <3>4. CASE e = c
      BY <2>11, <3>1, <3>2, <3>4, SMTT(30)
    <3>5. CASE d # c /\ e # c
      BY <3>1, <3>5, SMTT(30) DEF ArrayInv
    <3> QED BY <3>3, <3>4, <3>5, Zenon
  <2>13. Listed' = Listed /\ \A x : End(x)' = End(x)
    BY Zenon DEF Listed, End
  <2>14. \A b \in Listed, d \in DirtyClients : BitmapCount(End(b)) <= ArrLen(d)'
    <3> TAKE b \in Listed, d \in DirtyClients
    <3>1. End(b) <= main.old /\ End(b) \in Nat /\ main.old \in Nat
      BY <2>1, ListedBlocks, BlockFields, MainFields, Zenon DEF SpaceInv
    <3>2. BitmapCount(End(b)) <= o /\ BitmapCount(End(b)) \in Nat
      BY <2>1, <2>2, <3>1, BitmapCountMonotone, BitmapCountIs, Zenon
    <3> QED BY <2>2, <2>4, <2>10, <3>2, SMTT(30)
  <2>15. \A d \in DirtyClients \ (main.todo \ {c}) : BitmapCount(main.new) <= ArrLen(d)'
    <3> TAKE d \in DirtyClients \ (main.todo \ {c})
    <3>1. CASE d = c
      BY <2>2, <2>10, <3>1, SMTT(30)
    <3>2. CASE d # c
      BY <2>10, <3>2 DEF ArrayInv
    <3> QED BY <3>1, <3>2, Zenon
  <2> QED BY <2>7, <2>8, <2>9, <2>12, <2>13, <2>14, <2>15, SMTT(30) DEF ArrayInv
\* No mark of a page that there was is lost.
<1>ExtendMarks.
  ASSUME RamParameters, RamTypeOK, SpaceInv, ArrayInv, main.at = "extend", NEW c \in DirtyClients, NEW o, NEW n,
         NEW N, NEW m, NEW A, Extends(c, o, n, N, m, A), NEW d \in DirtyClients, NEW p \in Marked(d), p < main.old
  PROVE  p \in Marked(d)'
  <2> USE <1>ExtendMarks
  <2>1. /\ DirtyTypeOK /\ MainTypeOK /\ DIRTY_MEMORY_BLOCK_SIZE \in Nat \ {0} /\ RAM_ADDR_MAX \in Nat /\ main.old \in Nat
    BY MainFields, Zenon DEF RamTypeOK, RamParameters
  <2>2. p \in 0..(RAM_ADDR_MAX - 1) /\ Reaches(dirty[d], p) /\ p \in bitmaps[BitmapOf(dirty[d], p)] /\ p \in Nat
    BY <2>1, MarkedIs
  <2>3. /\ o \in Nat /\ o = BitmapCount(main.old) /\ N \in Nat /\ m \in Nat /\ m = Len(bitmaps) /\ \A i \in 1..m : bitmaps'[i] = bitmaps[i]
    BY Zenon DEF Extends
  <2>4. PICK q \in Nat : q = p \div DIRTY_MEMORY_BLOCK_SIZE
    BY <2>1, <2>2, DivMod, Zenon
  <2>5. q < o
    BY <2>1, <2>2, <2>3, <2>4, BitmapCountIs, Zenon
  <2>6. q + 1 \in 1..o
    BY <2>3, <2>5
  <2>7. o <= ArrLen(d)
    BY <2>3, <1>OldReached, Zenon
  <2>8. /\ dirty'[d] \in 1..(N + 1) /\ q + 1 <= Len(arrays'[dirty'[d]])
        /\ arrays'[dirty'[d]][q + 1] = arrays[dirty[d]][q + 1]
    BY <2>1, <2>6, <2>7, <1>ExtendKeeps, SMTT(30)
  <2>9. BitmapOf(dirty[d], p) = arrays[dirty[d]][q + 1] /\ BitmapOf(dirty[d], p) \in 1..m
    <3>1. BitmapOf(dirty[d], p) \in DOMAIN bitmaps
      BY <2>1, <2>2, BitmapExists, Zenon
    <3>2. DOMAIN bitmaps = 1..m
      BY <2>1, <2>3, SMTT(30) DEF DirtyTypeOK
    <3> QED BY <2>4, <3>1, <3>2, Zenon DEF BitmapOf
  <2>10. /\ BitmapOf(dirty[d], p)' = arrays'[dirty'[d]][q + 1]
         /\ Reaches(dirty[d], p)' <=> dirty'[d] # 0 /\ q < Len(arrays'[dirty'[d]])
    BY <2>4, Zenon DEF BitmapOf, Reaches
  <2>11. Reaches(dirty[d], p)'
    <3>1. dirty'[d] # 0
      BY <2>3, <2>8, SMTT(30)
    <3>2. Len(arrays'[dirty'[d]]) \in Nat
      <4>1. arrays' \in Seq(Seq(Nat)) /\ Len(arrays') = N + 1
        BY Zenon DEF Extends
      <4>2. arrays'[dirty'[d]] \in Seq(Nat)
        BY <2>8, <4>1
      <4> QED BY <4>2
    <3> QED BY <2>8, <2>10, <3>1, <3>2, SMTT(30)
  <2>12. p \in (bitmaps[BitmapOf(dirty[d], p)])'
    <3>1. PICK i \in 1..m : i = arrays[dirty[d]][q + 1]
      BY <2>9, Zenon
    <3>2. p \in bitmaps[i] /\ bitmaps'[i] = bitmaps[i]
      BY <2>2, <2>3, <2>9, <3>1, Zenon
    <3>3. BitmapOf(dirty[d], p)' = i
      BY <2>8, <2>10, <3>1, Zenon
    <3> QED BY <3>2, <3>3, Zenon
  <2> QED BY <2>2, <2>11, <2>12 DEF Marked
<1> SUFFICES ASSUME RamParameters, RamInv, NEW c \in DirtyClients, ExtendDirty(c)
             PROVE  RamInv'
  BY Zenon
<1>1. /\ RamTypeOK /\ BlockTypeOK /\ MainTypeOK /\ ThrTypeOK /\ DirtyTypeOK /\ ListInv /\ MainBlock /\ SpaceInv /\ ArrayInv /\ WorkInv
      /\ OwedInv /\ DirtyKept /\ GraceInv /\ WalkInv
  BY Zenon DEF RamInv, RamTypeOK
<1>p. MaxBlocks \in Nat /\ DIRTY_MEMORY_BLOCK_SIZE \in Nat \ {0}
  BY Zenon DEF RamParameters
<1>2. /\ main.at = "extend" /\ main' = [main EXCEPT !.todo = @ \ {c}]
      /\ call_rcu({Array(g) : g \in {dirty[c]} \ {0}})
      /\ UNCHANGED <<rblock, succ, mru_block, thr, owed>>
  BY Zenon DEF ExtendDirty, MainAt
<1>3. PICK o, n, N, m, A : Extends(c, o, n, N, m, A)
  BY <1>1, <1>DoesExtend, Zenon
<1>4. /\ o \in Nat /\ N \in Nat /\ N = Len(arrays) /\ o = BitmapCount(main.old) /\ Len(arrays') = N + 1
      /\ (\A g \in 1..N : arrays'[g] = arrays[g])
      /\ dirty'[c] = N + 1 /\ (\A d \in DirtyClients \ {c} : dirty'[d] = dirty[d])
  BY <1>3, Zenon DEF Extends
<1>5. /\ MainTypeOK' /\ main'.at = "extend" /\ main'.b = main.b /\ main'.old = main.old /\ main'.new = main.new
      /\ main'.todo = main.todo \ {c}
  BY <1>1, <1>2, <1>MainRounds, Zenon DEF MainBecomes
<1>6. /\ Listed' = Listed /\ (\A x : End(x)' = End(x)) /\ (\A x, a : Covers(x, a)' <=> Covers(x, a))
      /\ (\A x, l : Pages(x, l)' = Pages(x, l))
  BY <1>2, Zenon DEF Listed, End, Covers, Pages
<1>7. ListInv'
  BY <1>1, <1>2, <1>6, QuietList, SMTT(30)
<1>8. MainBlock'
  BY <1>1, <1>2, <1>5, <1>6, SMTT(30) DEF MainBlock
<1>9. SpaceInv'
  <2>1. Placed' = Placed
    BY <1>2, <1>5, <1>6, Zenon DEF Placed
  <2>2. End(main.b)' = End(main.b)
    BY <1>2, <1>5, Zenon DEF End
  <2> QED BY <1>1, <1>2, <1>5, <1>6, <2>1, <2>2, SMTT(30) DEF SpaceInv, Apart
<1>10. ArrayInv'
  BY <1>1, <1>2, <1>3, <1>5, <1>ExtendArrayInv, SMTT(30)
<1>11. ASSUME NEW b \in Listed, NEW d \in DirtyClients
       PROVE  BitmapCount(End(b)) \in Nat /\ BitmapCount(End(b)) <= o /\ o <= ArrLen(d) /\ End(b) <= main.old /\ main.old \in Nat
  <2>1. End(b) <= main.old /\ End(b) \in Nat /\ main.old \in Nat
    BY <1>1, <1>p, <1>2, ListedBlocks, BlockFields, MainFields, SMTT(30) DEF SpaceInv
  <2> QED BY <1>1, <1>p, <1>2, <1>4, <2>1, BitmapCountMonotone, BitmapCountIs, <1>OldReached, SMTT(30)
<1>12. \A b \in Listed : \A arr : HasBitmaps(b, arr) => HasBitmaps(b, arr)'
  <2> SUFFICES ASSUME NEW b \in Listed, NEW arr, HasBitmaps(b, arr) PROVE HasBitmaps(b, arr)'
    BY Zenon
  <2>1. arr \in [DirtyClients -> 1..N]
    BY <1>4, Zenon DEF HasBitmaps
  <2>2. ASSUME NEW d \in DirtyClients
        PROVE  /\ BitmapCount(End(b)) <= Len(arrays'[arr[d]])
               /\ \A i \in 1..BitmapCount(End(b)) : arrays'[arr[d]][i] = arrays'[dirty'[d]][i]
    <3>1. arr[d] \in 1..N /\ arrays'[arr[d]] = arrays[arr[d]]
      BY <1>4, <2>1, Zenon
    <3>2. /\ BitmapCount(End(b)) <= Len(arrays[arr[d]])
          /\ \A i \in 1..BitmapCount(End(b)) : arrays[arr[d]][i] = arrays[dirty[d]][i]
      BY Zenon DEF HasBitmaps
    <3>3. ASSUME NEW i \in 1..BitmapCount(End(b)) PROVE arrays'[dirty'[d]][i] = arrays[dirty[d]][i]
      <4>1. i \in 1..o /\ o <= ArrLen(d)
        BY <1>4, <1>11, SMTT(30)
      <4> QED BY <1>1, <1>3, <4>1, <1>ExtendKeeps, SMTT(30)
    <3> QED BY <3>1, <3>2, <3>3, Zenon
  <2>3. arr \in [DirtyClients -> 1..Len(arrays')]
    BY <1>4, <2>1, SMTT(30)
  <2> QED BY <1>6, <2>2, <2>3, Zenon DEF HasBitmaps
<1>13. WorkInv'
  <2>1. \A w, b, a, e, arr : Works(w, b, a, e, arr) => Works(w, b, a, e, arr)'
    BY <1>6, <1>12, SMTT(30) DEF Works
  <2> QED BY <1>1, <1>2, <2>1, Zenon DEF WorkInv
<1>14. OwedInv'
  BY <1>1, <1>2, <1>5, <1>6, Zenon DEF OwedInv
<1>15. DirtyKept'
  <2>1. ASSUME NEW b \in Listed, NEW d \in DirtyClients, NEW p \in Pages(b, rblock[b].max_length) \cap owed[d]
        PROVE  p \in Marked(d)'
    <3>1. p \in Marked(d)
      BY <1>1, <1>2, <2>1, Zenon DEF DirtyKept
    <3>2. p < End(b) /\ p \in Nat /\ End(b) \in Nat
      BY <1>1, <1>p, <2>1, ListedBlocks, BlockFields, SMTT(30) DEF Covers
    <3>3. p < main.old
      BY <1>11, <3>2, SMTT(30)
    <3> QED BY <1>1, <1>2, <1>3, <3>1, <3>3, <1>ExtendMarks, Zenon
  <2> QED BY <1>2, <1>6, <2>1, Zenon DEF DirtyKept
<1>16. \A w : Dead(w) => Dead(w)'
  <2>1. ASSUME NEW g \in 1..N, \A d \in DirtyClients : dirty[d] # g PROVE \A d \in DirtyClients : dirty'[d] # g
    BY <1>4, <2>1, SMTT(30)
  <2>2. \A g \in 1..N : g \in 1..Len(arrays')
    BY <1>4
  <2> QED BY <1>2, <1>4, <1>5, <2>1, <2>2, SMTT(30) DEF Dead
<1>17. GraceInv'
  <2>1. PICK what : what = {Array(g) : g \in {dirty[c]} \ {0}}
    BY ZenonT(60)
  <2>2. ASSUME NEW w \in what PROVE Dead(w)'
    <3>1. PICK g : g = dirty[c]
      BY Zenon
    <3>2. w = Array(g) /\ g # 0
      BY <2>1, <3>1, Zenon
    <3>3. g \in 0..N
      BY <1>1, <1>4, <3>1, <1>ArrLenIs
    <3>4. g \in 1..Len(arrays')
      BY <1>4, <3>2, <3>3, SMTT(30)
    <3>5. \A d \in DirtyClients : dirty'[d] # g
      <4> TAKE d \in DirtyClients
      <4>1. CASE d = c
        BY <1>4, <3>3, <4>1, SMTT(30)
      <4>2. CASE d # c
        BY <1>1, <1>4, <3>1, <3>2, <4>2, SMTT(30) DEF ArrayInv
      <4> QED BY <4>1, <4>2, Zenon
    <3> QED BY <3>2, <3>4, <3>5, Zenon DEF Dead, Array
  <2>3. \A w \in freed \cup Pending : Dead(w)'
    BY <1>1, <1>16, Zenon DEF GraceInv
  <2> QED BY <1>1, <1>2, <2>1, <2>2, <2>3, GraceStep, Zenon
<1>18. WalkInv'
  <2>1. MruInv'
    BY <1>1, <1>2, <1>5, <1>6, Zenon DEF WalkInv, MruInv
  <2>2. PICK what : call_rcu(what)
    BY <1>2, Zenon
  <2> QED BY <1>1, <1>2, <2>1, <2>2, WalkStep, Zenon
<1>19. RamTypeOK'
  <2>1. DirtyTypeOK'
    BY <1>1, <1>2, <1>3, Zenon DEF DirtyTypeOK, Extends
  <2> QED BY <1>1, <1>2, <1>5, <2>1, Zenon DEF RamTypeOK, ThrTypeOK, BlockTypeOK
<1> QED BY <1>7, <1>8, <1>9, <1>10, <1>13, <1>14, <1>15, <1>17, <1>18, <1>19, SMTT(30) DEF RamInv

\* The invariant holds at the start.
LEMMA RamInvInit ==
    RamParameters /\ RamInit
  => RamInv
<1>TypeInit.
  RamParameters /\ RamInit => RamTypeOK
  BY DEF RamParameters, RamInit, RamTypeOK, BlockTypeOK, MainTypeOK, ThrTypeOK, DirtyTypeOK, MainIdle, ThrIdle,
         BlockStates, MainPlaces, ThrPlaces, RamBlocks, ThrStates, Loaded
<1> SUFFICES ASSUME RamParameters, RamInit
             PROVE  RamInv
  BY Zenon
<1>1. /\ MaxBlocks \in Nat
      /\ rblock = [b \in RamBlocks |->
                     [offset |-> 0, max_length |-> 0, used_length |-> 0, resizeable |-> FALSE, state |-> "unused"]]
      /\ succ = [b \in 0..MaxBlocks |-> 0] /\ mru_block = 0 /\ dirty = [c \in DirtyClients |-> 0]
      /\ arrays = <<>> /\ bitmaps = <<>> /\ main = MainIdle /\ thr = [t \in Threads |-> ThrIdle]
      /\ grace = {} /\ freed = {} /\ owed = [c \in DirtyClients |-> {}]
  BY Zenon DEF RamInit, RamParameters
<1>2. Listed = {} /\ main.at = "idle" /\ \A t \in Threads : thr[t].at = "idle" /\ thr[t].upto = 0
  BY <1>1, Zenon DEF Listed, MainIdle, ThrIdle
<1>3. RamTypeOK
  BY <1>1, <1>TypeInit, Zenon DEF RamInit
<1>4. ListInv
  <2>1. PICK s \in [1..0 -> RamBlocks] : TRUE
    <3>1. [i \in 1..0 |-> i] \in [1..0 -> RamBlocks]
      OBVIOUS
    <3> QED BY <3>1, Zenon
  <2>2. Chain(succ, s, 0) /\ Distinct(s, 0)
    BY <1>1 DEF Chain, Distinct, At
  <2>3. ListOf(s, 0)
    BY <1>2, <2>2, SMTT(30) DEF ListOf
  <2>4. 0 \in 0..MaxBlocks
    BY <1>1
  <2> QED BY <2>3, <2>4, Zenon DEF ListInv
<1>5. MainBlock
  BY <1>2, Zenon DEF MainBlock
<1>6. SpaceInv
  BY <1>2, Zenon DEF SpaceInv, Placed
<1>7. ArrayInv
  BY <1>1, <1>2, SMTT(30) DEF ArrayInv
<1>8. WorkInv
  BY <1>2, Zenon DEF WorkInv, Works
<1>9. OwedInv /\ DirtyKept
  BY <1>1, <1>2, Zenon DEF OwedInv, DirtyKept
<1>10. GraceInv
  BY <1>1, <1>2, Zenon DEF GraceInv, Pending, Holds
<1>11. WalkInv
  BY <1>1, <1>2, Zenon DEF WalkInv, MruInv, LookupFinds, Looks
<1> QED BY <1>3, <1>4, <1>5, <1>6, <1>7, <1>8, <1>9, <1>10, <1>11, SMTT(30) DEF RamInv

\* The invariant holds after a stutter.
LEMMA RamInvStutters == ASSUME RamInv, UNCHANGED ramVars PROVE RamInv'
<1>1. UNCHANGED <<rblock, succ, mru_block, dirty, arrays, bitmaps, main, thr, grace, freed, owed>>
  BY Zenon DEF ramVars
<1>2. Listed' = Listed /\ \A x \in Settled : Stays(x)
  BY <1>1, Zenon DEF Listed, Settled, Stays, Fixed
<1>3. RamTypeOK'
  BY <1>1, Zenon DEF RamInv, RamTypeOK, BlockTypeOK, MainTypeOK, ThrTypeOK, DirtyTypeOK
<1>4. ListInv' /\ MainBlock' /\ SpaceInv' /\ ArrayInv'
  BY <1>1, StillThere, Zenon DEF RamInv
<1>5. OwedInv' /\ DirtyKept'
  BY <1>1, MarksSame, Zenon DEF RamInv
<1>6. MruInv' /\ \A w \in freed \cup Pending : Dead(w)'
  BY <1>1, DeadSame, MruSame, Zenon DEF RamInv, GraceInv, WalkInv
<1>7. WorkInv' /\ GraceInv' /\ WalkInv'
  BY <1>1, <1>2, <1>6, QuietThreads, Zenon DEF RamInv
<1> QED BY <1>3, <1>4, <1>5, <1>7, Zenon DEF RamInv

\* Every step of the thread with the ramlist lock keeps the invariant.
LEMMA MainNext == ASSUME NatFacts, RamParameters, RamInv, MainSteps PROVE RamInv'
<1>1. ASSUME NEW b \in RamBlocks, NEW kind \in Kinds, RamAlloc(b, kind) PROVE RamInv'
  BY <1>1, AllocNext, Zenon
<1>2. CASE RamOffset
  BY <1>2, OffsetNext, Zenon
<1>3. ASSUME NEW c \in DirtyClients, ExtendDirty(c) PROVE RamInv'
  BY <1>3, ExtendNext, Zenon
<1>4. CASE RamInsert
  BY <1>4, InsertNext, Zenon
<1>5. CASE RamForget \/ RamFreeForget
  BY <1>5, ForgetNext, Zenon
<1>6. CASE RamMarkUsed
  BY <1>6, MarkUsedNext, Zenon
<1>7. ASSUME NEW b \in Listed, NEW newsize \in 1..rblock[b].max_length, RamResize(b, newsize) PROVE RamInv'
  BY <1>7, ResizeNext, Zenon
<1>8. ASSUME NEW b \in Listed, RamFree(b) PROVE RamInv'
  BY <1>8, FreeNext, Zenon
<1>9. CASE RamReclaimLater
  BY <1>9, ReclaimNext, Zenon
<1> QED BY <1>1, <1>2, <1>3, <1>4, <1>5, <1>6, <1>7, <1>8, <1>9, SMTT(30) DEF MainSteps

\* Every step keeps the invariant.
LEMMA RamInvNext == ASSUME NatFacts, RamParameters, RamInv, [RamNext]_ramVars PROVE RamInv'
BY MainNext, ThreadNext, RamInvStutters, Zenon DEF RamNext

LOCAL INSTANCE FunctionTheorems
LOCAL INSTANCE WellFoundedInduction

\* The two facts about the natural numbers that the lemmas assume.
LEMMA NatFactsHold == NatFacts
<1>1. ASSUME NEW S \in SUBSET Nat, S # {} PROVE \E n \in S : \A m \in S : n <= m
  <2>1. PICK n \in S : \A m \in S : ~(<<m, n>> \in OpToRel(<, Nat))
    BY <1>1, NatLessThanWellFounded, WFMin, Zenon
  <2>2. \A m \in S : ~(m < n)
    BY <2>1, Zenon DEF OpToRel
  <2> QED BY <2>2
<1>2. ASSUME NEW M \in Nat, NEW n \in Nat, NEW s \in [1..n -> 1..M], Distinct(s, n) PROVE n <= M
  <2>1. IsInjective(s)
    BY <1>2, Zenon DEF Distinct, IsInjective
  <2>2. s \in Injection(1..n, 1..M)
    BY <2>1, Zenon DEF Injection
  <2>3. ExistsInjection(1..n, 1..M)
    BY <2>2, Zenon DEF ExistsInjection
  <2> QED BY <2>3, Fun_NatInjLeq
<1> QED BY <1>1, <1>2, Zenon DEF NatFacts

\* The invariant holds in every reachable state.
THEOREM RamInvariant == RamSpec => []RamInv
<1> USE RamAssumption
<1>1. RamInit => RamInv
  BY RamInvInit, Zenon
<1>2. RamInv /\ [RamNext]_ramVars => RamInv'
  BY RamInvNext, NatFactsHold, Zenon
<1> QED BY <1>1, <1>2, PTL DEF RamSpec

\* find_ram_offset never gives two blocks the same ram address: the blocks of
\* the list do not overlap even at their maximal lengths, each starts at a word
\* of the bitmaps, and the arrays of every client reach all their pages.
THEOREM BlocksStayApart == RamSpec => []BlocksApart
<1> USE RamAssumption
<1>1. ASSUME RamInv PROVE BlocksApart
  <2>1. RamTypeOK /\ BlockTypeOK /\ SpaceInv /\ ArrayInv /\ MaxBlocks \in Nat
    BY <1>1, Zenon DEF RamInv, RamTypeOK, RamParameters
  <2>2. ASSUME NEW b \in Listed PROVE rblock[b].offset % BITS_PER_LONG = 0 /\ End(b) <= RAM_ADDR_MAX
    BY <2>1, Zenon DEF SpaceInv, Placed
  <2>3. ASSUME NEW b \in Listed, NEW a \in Listed \ {b} PROVE End(a) <= rblock[b].offset \/ End(b) <= rblock[a].offset
    BY <2>1, Zenon DEF SpaceInv, Placed, Apart
  <2>4. ASSUME NEW b \in Listed, NEW c \in DirtyClients PROVE Reaches(dirty[c], End(b) - 1)
    <3>1. End(b) - 1 \in Nat /\ rblock[b].offset <= End(b) - 1 /\ End(b) - 1 < End(b)
      BY <2>1, ListedBlocks, BlockFields, SMTT(30)
    <3>2. Covers(b, End(b) - 1)
      BY <2>1, <3>1, ListedBlocks, BlockFields, SMTT(30)
    <3> QED BY <2>1, <3>2, ListedPage, SMTT(30)
  <2> QED BY <2>2, <2>3, <2>4, SMTT(30) DEF BlocksApart
<1> QED BY <1>1, RamInvariant, PTL

\* A page that was written stays marked for every client until it is cleared,
\* though dirty_memory_extend replaces the array under the writers; and a
\* reader only uses arrays that are not freed.
THEOREM MarksAreKept == RamSpec => []DirtySafe
<1> USE RamAssumption
<1>1. ASSUME RamInv PROVE ArraysLive
  <2> SUFFICES ASSUME NEW t \in Threads, NEW c \in DirtyClients, thr[t].at \in {"set", "clear"}
               PROVE  Array(thr[t].arr[c]) \notin freed /\ Reaches(thr[t].arr[c], Max2(thr[t].addr, thr[t].upto - 1))
    BY Zenon DEF ArraysLive
  <2>1. RamTypeOK /\ BlockTypeOK /\ ThrTypeOK /\ ArrayInv /\ MaxBlocks \in Nat /\ BITS_PER_LONG \in Nat \ {0}
    BY <1>1, Zenon DEF RamInv, RamTypeOK, RamParameters
  <2>2. Array(thr[t].arr[c]) \notin freed
    BY <1>1, Zenon DEF RamInv, GraceInv, Holds, Kept
  <2>3. PICK b \in Listed : /\ b = thr[t].cur /\ Covers(b, thr[t].addr) /\ thr[t].upto <= RoundUp(End(b), BITS_PER_LONG)
                            /\ HasBitmaps(b, thr[t].arr)
    BY <1>1, Zenon DEF RamInv, WorkInv, Works
  <2>4. PICK p : p = Max2(thr[t].addr, thr[t].upto - 1)
    BY Zenon
  <2>5. thr[t].addr \in Nat /\ thr[t].upto \in Nat
    BY <2>1, ThrFields, SMTT(30)
  <2>6. End(b) \in Nat /\ thr[t].addr < End(b) /\ RoundUp(End(b), BITS_PER_LONG) \in Nat /\ End(b) <= RoundUp(End(b), BITS_PER_LONG)
    <3>1. End(b) \in Nat /\ thr[t].addr < End(b)
      BY <2>1, <2>3, ListedBlocks, BlockFields, SMTT(30)
    <3> QED BY <2>1, <3>1, RoundUpIs, SMTT(30)
  <2>7. p \in Nat /\ p < RoundUp(End(b), BITS_PER_LONG)
    BY <2>3, <2>4, <2>5, <2>6, SMTT(30) DEF Max2
  <2>8. Reaches(thr[t].arr[c], p)
    BY <2>1, <2>3, <2>7, PageReached, SMTT(30)
  <2> QED BY <2>2, <2>4, <2>8, SMTT(30)
<1>2. RamInv => DirtySafe
  BY <1>1, Zenon DEF RamInv, DirtySafe
<1> QED BY <1>2, RamInvariant, PTL

\* qemu_get_ram_block finds the block of an address that was in the list all
\* the time, through mru_block or by its walk, and mru_block never leads to a
\* block that is given back.
THEOREM LookupIsSafe == RamSpec => []LookupSafe
<1> USE RamAssumption
<1>1. ASSUME RamInv PROVE MruSafe
  <2> SUFFICES ASSUME NEW t \in Threads
               PROVE  /\ thr[t].at \in {"mru", "walk", "found", "use"} => Block(thr[t].cur) \notin freed
                      /\ thr[t].at = "use" => thr[t].cur \in Listed
    BY Zenon DEF MruSafe
  <2>1. GraceInv /\ Looks(t, thr[t].at, thr[t].cur, thr[t].addr)
    BY <1>1, Zenon DEF RamInv, WalkInv
  <2>2. \A x \in Listed : Block(x) \notin freed
    <3> TAKE x \in Listed
    <3>1. ~Dead(Block(x))
      BY ListedBlocks, AliveBlock, Zenon
    <3> QED BY <2>1, <3>1, SMTT(30) DEF GraceInv
  <2>3. \A n, a : Passes(t, n, a) => Block(n) \notin freed
    BY Zenon DEF Passes, Kept
  <2> QED BY <2>1, <2>2, <2>3, SMTT(30) DEF Looks, Path
<1>2. RamInv => LookupFinds
  BY Zenon DEF RamInv, WalkInv
<1>3. RamInv => LookupSafe
  BY <1>1, <1>2, Zenon DEF LookupSafe
<1> QED BY <1>3, RamInvariant, PTL
=============================================================================
