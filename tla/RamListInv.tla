---------------------------- MODULE RamListInv -----------------------------
(***************************************************************************)
(* The inductive invariant of the list of RAM blocks, and the proof that   *)
(* the steps of the reader threads keep it, for any number of threads,     *)
(* blocks, clients and pages.                                              *)
(*                                                                         *)
(* ListInv: the list reaches exactly the listed blocks. SpaceInv: no two   *)
(* blocks that have an offset overlap. ArrayInv: the array a client's      *)
(* dirty memory consists of has distinct bitmaps, enough of them for every *)
(* listed block, and a new array keeps those of the old one. WorkInv: what *)
(* a reader between its loads has in hand is good enough for the address   *)
(* it is after. OwedInv and DirtyKept: a page that was written and not     *)
(* cleared since is marked. GraceInv: what a reader can still reach is not *)
(* given back (RCU). WalkInv: a walk of the list finds the block of its    *)
(* address.                                                                *)
(***************************************************************************)
EXTENDS RamList, Integers, TLAPS

\* Where the fields of a block, the main thread and the readers can be.
BlockStates == {"unused", "new", "failed", "listed", "removed"}
MainPlaces == {"idle", "offset", "aborted", "extend", "added", "mark", "resized", "removed", "reclaim"}
ThrPlaces == {"idle", "mru", "head", "walk", "found", "use", "badoffset", "load", "loadClear", "set", "clear"}

\* The types of the list of blocks.
BlockTypeOK ==
  /\ rblock \in [RamBlocks -> [offset : Nat, max_length : Nat, used_length : Nat, resizeable : BOOLEAN, state : BlockStates]]
  /\ \A b \in RamBlocks : /\ rblock[b].used_length <= rblock[b].max_length
                          /\ rblock[b].state # "unused" => rblock[b].max_length \in 1..RAM_ADDR_MAX
  /\ succ \in [0..MaxBlocks -> 0..MaxBlocks]
  /\ mru_block \in 0..MaxBlocks

\* The type of what the thread with the ramlist lock is doing.
MainTypeOK ==
  main \in [at : MainPlaces, b : 0..MaxBlocks, old : Nat, new : Nat, todo : SUBSET DirtyClients]

\* The types of what readers have in hand.
Loaded == [DirtyClients -> Nat] \cup {<<>>}
ThrStates == [at : ThrPlaces, cur : 0..MaxBlocks, addr : Nat, upto : Nat, arr : Loaded, client : SUBSET DirtyClients]
ThrTypeOK == thr \in [Threads -> ThrStates]

\* The types of the dirty bitmaps.
DirtyTypeOK ==
  /\ dirty \in [DirtyClients -> Nat]
  /\ arrays \in Seq(Seq(Nat))
  /\ bitmaps \in Seq(SUBSET Nat)
  /\ owed \in [DirtyClients -> SUBSET Nat]

\* The types of all variables.
RamTypeOK == BlockTypeOK /\ MainTypeOK /\ ThrTypeOK /\ DirtyTypeOK

-----------------------------------------------------------------------------
(* The list: it holds the blocks in state "listed", each once.             *)
Chain(f, s, n) == f[At(s, n)] = 0 /\ \A i \in 1..n : s[i] = f[At(s, i - 1)]
Distinct(s, n) == \A i, j \in 1..n : s[i] = s[j] => i = j
ListOf(s, n) ==
  /\ Chain(succ, s, n) /\ Distinct(s, n)
  /\ \A b \in RamBlocks : b \in Listed <=> \E i \in 1..n : s[i] = b
ListInv == \E n \in 0..MaxBlocks : \E s \in [1..n -> RamBlocks] : ListOf(s, n)

\* Which block main is at, and in which state.
MainBlock ==
  /\ main.at \in {"offset", "extend"} => main.b \in RamBlocks /\ rblock[main.b].state = "new"
  /\ main.at \in {"added", "mark", "resized"} => main.b \in Listed
  /\ main.at \in {"removed", "reclaim"} => main.b \in RamBlocks /\ rblock[main.b].state = "removed"

(* The space of RAM addresses.                                             *)
Apart(a, b) == End(a) <= rblock[b].offset \/ End(b) <= rblock[a].offset
\* Blocks of the list, and the one that comes or goes.
Placed == Listed \cup {b \in RamBlocks : main.at \in {"extend", "removed"} /\ b = main.b}
SpaceInv ==
  /\ \A b \in Placed : rblock[b].offset % BITS_PER_LONG = 0 /\ End(b) <= RAM_ADDR_MAX
  /\ \A a, b \in Placed : a # b => Apart(a, b)
  /\ main.at \in {"offset", "extend"} =>
       /\ \A b \in Listed : End(b) <= main.old
       /\ main.old = 0 \/ \E b \in Listed : main.old = End(b)
  /\ main.at = "extend" => main.new = Max2(main.old, End(main.b))

(* Arrays of bitmaps.                                                      *)
ArrLen(c) == IF dirty[c] = 0 THEN 0 ELSE Len(arrays[dirty[c]])
ArrayInv ==
  /\ \A c \in DirtyClients : dirty[c] <= Len(arrays)
  /\ \A c, d \in DirtyClients : c # d /\ dirty[c] # 0 => dirty[c] # dirty[d]
  /\ \A g \in 1..Len(arrays) : \A i \in 1..Len(arrays[g]) : arrays[g][i] \in 1..Len(bitmaps)
  /\ \A c, d \in DirtyClients : c # d /\ dirty[c] # 0 /\ dirty[d] # 0 =>
       \A i \in 1..ArrLen(c), j \in 1..ArrLen(d) : arrays[dirty[c]][i] # arrays[dirty[d]][j]
  /\ \A b \in Listed, c \in DirtyClients : BitmapCount(End(b)) <= ArrLen(c)
  /\ main.at = "extend" => \A c \in DirtyClients \ main.todo : BitmapCount(main.new) <= ArrLen(c)

\* A thread at w that marks pages or takes marks is at a listed block b and a
\* page a of it; the arrays it has loaded have the bitmaps of this block that
\* the arrays of now have.
HasBitmaps(b, arr) ==
  /\ arr \in [DirtyClients -> 1..Len(arrays)]
  /\ \A c \in DirtyClients :
       /\ BitmapCount(End(b)) <= Len(arrays[arr[c]])
       /\ \A i \in 1..BitmapCount(End(b)) : arrays[arr[c]][i] = arrays[dirty[c]][i]
Works(w, b, a, e, arr) ==
  /\ w \notin {"loadClear", "clear"} => e = 0
  /\ w \in {"load", "loadClear", "set", "clear"} =>
       /\ b \in Listed /\ Covers(b, a) /\ e <= RoundUp(End(b), BITS_PER_LONG)
       /\ w \in {"loadClear", "clear"} => a < e
       /\ w \in {"set", "clear"} => HasBitmaps(b, arr)
WorkInv == \A t \in Threads : Works(thr[t].at, thr[t].cur, thr[t].addr, thr[t].upto, thr[t].arr)

(* Marks.                                                                  *)
OwedInv ==
  /\ \A c \in DirtyClients : \A p \in owed[c] : \E b \in Listed : Covers(b, p)
  /\ main.at = "resized" =>
       \A c \in DirtyClients : \A p \in owed[c] :
         Covers(main.b, p) /\ p \notin Pages(main.b, rblock[main.b].used_length) => p \in Marked(c)

(* Reclamation.                                                            *)
Pending == {k.what : k \in grace}
Kept(t, what) == what \notin freed /\ \A k \in grace : k.what = what => t \in k.wait
\* What is or will be reclaimed is of no further use to main or to new readers.
Dead(w) ==
  \/ \E g \in 1..Len(arrays) : w = Array(g) /\ \A c \in DirtyClients : dirty[c] # g
  \/ \E b \in RamBlocks : /\ w = Block(b) /\ rblock[b].state = "removed"
                          /\ ~(main.at \in {"removed", "reclaim"} /\ main.b = b)
\* The arrays that thread t at w has loaded stay until it leaves.
Holds(t, w, arr) == w \in {"set", "clear"} => \A c \in DirtyClients : Kept(t, Array(arr[c]))
GraceInv ==
  /\ \A k \in grace : k = [what |-> k.what, wait |-> k.wait] /\ k.wait \subseteq Reading
  /\ \A w \in freed \cup Pending : Dead(w)
  /\ \A t \in Threads : Holds(t, thr[t].at, thr[t].arr)

(* Lookups.                                                                *)
\* A block that thread t may read, looking for address a, and need not stop at.
Passes(t, n, a) == Kept(t, Block(n)) /\ rblock[n].state \in {"listed", "removed"} /\ ~Covers(n, a)
\* Blocks on the way of thread t from b to x, the block of address a: whatever
\* it passes next is one of them.
Path(t, x, b, a, S) ==
  /\ S \subseteq RamBlocks /\ b \in S
  /\ \A n \in S \ {x} : Passes(t, n, a) /\ succ[n] \in S
\* Thread t at w and at block b, with address a: the block of the address stays
\* in the list while the thread is in its section.
Looks(t, w, b, a) ==
  w # "idle" => \E x \in Listed :
    /\ Covers(x, a)
    /\ w = "mru" => b = x \/ (b \in RamBlocks /\ Passes(t, b, a))
    /\ w = "walk" => \E S \in SUBSET RamBlocks : Path(t, x, b, a, S)
    /\ w \in {"found", "use"} => b = x
MruInv == mru_block # 0 => mru_block \in Listed \/ (main.at = "removed" /\ mru_block = main.b)
WalkInv == MruInv /\ LookupFinds /\ \A t \in Threads : Looks(t, thr[t].at, thr[t].cur, thr[t].addr)

\* The inductive invariant.
RamInv ==
  /\ RamTypeOK /\ ListInv /\ MainBlock /\ SpaceInv /\ ArrayInv /\ WorkInv
  /\ OwedInv /\ DirtyKept /\ GraceInv /\ WalkInv

-----------------------------------------------------------------------------
(* Arithmetic.                                                             *)
LEMMA DivMod ==
  ASSUME NEW n \in Nat, NEW k \in Nat \ {0}
  PROVE  /\ n \div k \in Nat /\ n % k \in 0..(k - 1)
         /\ n = k * (n \div k) + (n % k)
OBVIOUS

\* The quotient of n by k, rounded up.
LEMMA Ceiling ==
  ASSUME NEW n \in Nat, NEW k \in Nat \ {0}, NEW q, q = (n + k - 1) \div k
  PROVE  q \in Nat /\ k * q <= n + k - 1 /\ n <= k * q
<1>1. PICK a \in Nat : a = n + k - 1
  OBVIOUS
<1>2. q = a \div k
  BY <1>1, Zenon
<1>3. q \in Nat /\ a % k \in 0..(k - 1) /\ a = k * q + (a % k)
  BY <1>2, DivMod, Zenon
<1> QED BY <1>1, <1>3

\* The quotient of a division, by its bounds.
LEMMA DivBounds ==
  ASSUME NEW n \in Nat, NEW q \in Nat, NEW k \in Nat \ {0}
  PROVE  /\ n < k * (q + 1) => n \div k <= q
         /\ k * q <= n => q <= n \div k
<1>1. n < k * (q + 1) => n \div k <= q
  OBVIOUS
<1>2. k * q <= n => q <= n \div k
  OBVIOUS
<1> QED BY <1>1, <1>2, Zenon

\* A remainder of 0 means a multiple.
LEMMA MultipleOf ==
  ASSUME NEW n \in Nat, NEW k \in Nat \ {0}
  PROVE  n % k = 0 <=> \E q \in Nat : n = k * q
<1>1. ASSUME n % k = 0 PROVE \E q \in Nat : n = k * q
  <2>1. n = k * (n \div k) /\ n \div k \in Nat
    BY <1>1, DivMod
  <2> QED BY <2>1, Zenon
<1>2. ASSUME NEW q \in Nat, n = k * q PROVE n % k = 0
  BY <1>2
<1> QED BY <1>1, <1>2, Zenon

\* RoundUp is the least multiple that is not smaller.
LEMMA RoundUpIs ==
  ASSUME NEW n \in Nat, NEW k \in Nat \ {0}
  PROVE  /\ RoundUp(n, k) \in Nat /\ RoundUp(n, k) % k = 0
         /\ n <= RoundUp(n, k)
         /\ \A m \in Nat : m % k = 0 /\ n <= m => RoundUp(n, k) <= m
<1> DEFINE q == (n + k - 1) \div k
<1>1. q \in Nat /\ k * q <= n + k - 1 /\ n <= k * q
  BY Ceiling, Zenon
<1>2. RoundUp(n, k) = k * q
  BY <1>1 DEF RoundUp
<1>3. k * q \in Nat /\ (k * q) % k = 0
  BY <1>1
<1>4. ASSUME NEW m \in Nat, m % k = 0, n <= m PROVE k * q <= m
  <2>1. PICK r \in Nat : m = k * r
    BY <1>4, MultipleOf, Zenon
  <2>2. k * q < k * (r + 1)
    BY <2>1, <1>1, <1>4
  <2>3. q < r + 1
    BY <2>1, <2>2, <1>1
  <2> QED BY <2>1, <2>3, <1>1
<1> QED BY <1>1, <1>2, <1>3, <1>4, Zenon

\* There is a bitmap for every page below the end.
LEMMA BitmapCountIs ==
  ASSUME NEW n \in Nat, DIRTY_MEMORY_BLOCK_SIZE \in Nat \ {0}
  PROVE  /\ BitmapCount(n) \in Nat /\ (n > 0 => BitmapCount(n) > 0)
         /\ \A p \in Nat : p < n => p \div DIRTY_MEMORY_BLOCK_SIZE \in Nat /\ p \div DIRTY_MEMORY_BLOCK_SIZE < BitmapCount(n)
         /\ \A m \in Nat : m <= n * DIRTY_MEMORY_BLOCK_SIZE => BitmapCount(m) <= n
<1> DEFINE D == DIRTY_MEMORY_BLOCK_SIZE
<1> DEFINE q == (n + D - 1) \div D
<1>1. q \in Nat /\ D * q <= n + D - 1 /\ n <= D * q
  BY Ceiling, Zenon
<1>2. BitmapCount(n) = q
  BY <1>1, Zenon DEF BitmapCount
<1>3. n > 0 => q > 0
  BY <1>1
<1>4. ASSUME NEW p \in Nat, p < n PROVE p \div D \in Nat /\ p \div D < q
  <2>1. p \div D \in Nat /\ D * (p \div D) <= p
    BY DivMod
  <2>2. D * (p \div D) < D * q
    BY <2>1, <1>1, <1>4
  <2> QED BY <2>1, <2>2, <1>1
<1>5. ASSUME NEW m \in Nat, m <= n * D PROVE BitmapCount(m) <= n
  <2>1. m + D - 1 < D * (n + 1) /\ m + D - 1 \in Nat
    BY <1>5
  <2> QED BY <2>1, DivBounds, Zenon DEF BitmapCount
<1> QED BY <1>1, <1>2, <1>3, <1>4, <1>5, Zenon

\* More memory needs no fewer bitmaps.
LEMMA BitmapCountMonotone ==
  ASSUME NEW m \in Nat, NEW n \in Nat, m <= n, DIRTY_MEMORY_BLOCK_SIZE \in Nat \ {0}
  PROVE  BitmapCount(m) <= BitmapCount(n)
<1> DEFINE D == DIRTY_MEMORY_BLOCK_SIZE
<1>1. BitmapCount(n) \in Nat /\ D * BitmapCount(n) <= n + D - 1 /\ n <= D * BitmapCount(n)
  BY Ceiling, Zenon DEF BitmapCount
<1>2. m <= BitmapCount(n) * D
  BY <1>1
<1> QED BY <1>1, <1>2, BitmapCountIs, Zenon

\* What the proofs need of the numbers; proved from the induction theorems in
\* RamListProofs.
NatFacts ==
  /\ \A S \in SUBSET Nat : S # {} => \E n \in S : \A m \in S : n <= m
  /\ \A M, n \in Nat : \A s \in [1..n -> 1..M] : Distinct(s, n) => n <= M

\* A set of numbers has a least element.
LEMMA LeastNat ==
  ASSUME NatFacts, NEW S \in SUBSET Nat, S # {}
  PROVE  \E n \in S : \A m \in S : n <= m
BY Zenon DEF NatFacts

-----------------------------------------------------------------------------
(* Lists.                                                                  *)
LEMMA SeqLen ==
  ASSUME NEW n \in Nat, NEW S, NEW s \in [1..n -> S]
  PROVE  s \in Seq(S) /\ Len(s) = n
OBVIOUS

\* Order is the list.
LEMMA OrderIs ==
    NatFacts /\ MaxBlocks \in Nat /\ ListInv
  => /\ Len(Order) \in 0..MaxBlocks /\ Order \in [1..Len(Order) -> RamBlocks]
     /\ ListOf(Order, Len(Order))
\* Two walks of the list agree.
<1>WalkUnique.
  ASSUME NatFacts, NEW m \in Nat, NEW n \in Nat, NEW s \in [1..m -> RamBlocks], NEW r \in [1..n -> RamBlocks], NEW f,
         Chain(f, s, m), Chain(f, r, n), m <= n, MaxBlocks \in Nat
  PROVE  s = r /\ m = n
  <2> USE <1>WalkUnique
  <2>1. /\ f[At(s, m)] = 0 /\ \A i \in 1..m : s[i] = f[At(s, i - 1)]
        /\ f[At(r, n)] = 0 /\ \A i \in 1..n : r[i] = f[At(r, i - 1)]
    BY Zenon DEF Chain
  <2> DEFINE T == {i \in 1..m : s[i] # r[i]}
  <2>2. T = {}
    <3> SUFFICES ASSUME T # {} PROVE FALSE
      BY Zenon
    <3>1. T \in SUBSET Nat
      OBVIOUS
    <3>2. PICK i \in T : \A j \in T : i <= j
      <4> HIDE DEF T
      <4> QED BY <3>1, LeastNat, Zenon
    <3>3. i \in 1..m /\ i \in 1..n /\ s[i] # r[i]
      OBVIOUS
    <3>4. At(s, i - 1) = At(r, i - 1)
      <4>1. CASE i = 1
        BY <4>1 DEF At
      <4>2. CASE i > 1
        <5>1. i - 1 \in 1..m /\ i - 1 \notin T /\ i - 1 # 0
          BY <4>2, <3>2, <3>3
        <5> QED BY <5>1, Zenon DEF At
      <4> QED BY <3>3, <4>1, <4>2
    <3> QED BY <2>1, <3>3, <3>4, Zenon
  <2>3. \A i \in 1..m : s[i] = r[i]
    BY <2>2, Zenon
  <2>4. m = n
    <3> SUFFICES ASSUME m < n PROVE FALSE
      OBVIOUS
    <3>1. At(r, m) = At(s, m)
      BY <2>3 DEF At
    <3>2. m + 1 \in 1..n /\ (m + 1) - 1 = m
      OBVIOUS
    <3>3. r[m + 1] = 0
      BY <2>1, <3>1, <3>2, Zenon
    <3>4. r[m + 1] \in RamBlocks
      BY <3>2, Zenon
    <3> QED BY <3>3, <3>4 DEF RamBlocks
  <2> QED BY <2>3, <2>4
<1> SUFFICES ASSUME NatFacts, MaxBlocks \in Nat, ListInv
             PROVE  /\ Len(Order) \in 0..MaxBlocks /\ Order \in [1..Len(Order) -> RamBlocks]
                    /\ ListOf(Order, Len(Order))
  BY Zenon
<1> DEFINE W == UNION {[1..n -> RamBlocks] : n \in 0..MaxBlocks}
<1>1. PICK n \in 0..MaxBlocks : \E s \in [1..n -> RamBlocks] : ListOf(s, n)
  BY Zenon DEF ListInv
<1>2. PICK s \in [1..n -> RamBlocks] : ListOf(s, n)
  BY <1>1, Zenon
<1>3. s \in W /\ IsWalk(s) /\ Chain(succ, s, n)
  <2>1. Len(s) = n
    BY SeqLen
  <2> QED BY <1>2, <2>1 DEF ListOf, Chain, IsWalk
<1>4. Order \in W /\ IsWalk(Order)
  <2>1. Order = CHOOSE r \in W : IsWalk(r)
    BY Zenon DEF Order
  <2> HIDE DEF W
  <2> QED BY <2>1, <1>3, Zenon
<1>5. PICK m \in 0..MaxBlocks : Order \in [1..m -> RamBlocks]
  BY <1>4, Zenon
<1>6. Len(Order) = m /\ m \in Nat /\ n \in Nat
  BY <1>5, SeqLen
<1>7. Chain(succ, Order, m)
  BY <1>4, <1>6, Zenon DEF IsWalk, Chain
<1>8. Order = s /\ m = n
  <2>2. CASE m <= n
    BY <2>2, <1>3, <1>5, <1>6, <1>7, <1>WalkUnique, Zenon
  <2>3. CASE n <= m
    BY <2>3, <1>3, <1>5, <1>6, <1>7, <1>WalkUnique, Zenon
  <2> QED BY <1>6, <2>2, <2>3
<1> QED BY <1>2, <1>5, <1>6, <1>8, Zenon

\* No two places, the head included, are the same.
LEMMA PlacesDiffer ==
  ASSUME NEW M \in Nat, NEW n \in Nat, NEW s \in [1..n -> 1..M], Distinct(s, n),
         NEW i \in 0..n, NEW j \in 0..n, i # j
  PROVE  At(s, i) # At(s, j) /\ At(s, i) \in 0..M
BY DEF At, Distinct

\* A block b that is put behind place k of the list is in it.
\* g is the list s of f, of n blocks, with b put behind its place k.
PutsBehind(M, n, s, f, g, b, k) ==
  /\ M \in Nat /\ n \in Nat /\ s \in [1..n -> 1..M] /\ Chain(f, s, n) /\ Distinct(s, n)
  /\ b \in 1..M /\ (\A i \in 1..n : s[i] # b) /\ k \in 0..n
  /\ g[b] = f[At(s, k)] /\ g[At(s, k)] = b
  /\ \A a \in 0..M : a # b /\ a # At(s, k) => g[a] = f[a]

\* The blocks of s and b are a list of g.
Longer(M, n, s, g, b) ==
  \E r \in [1..(n + 1) -> 1..M] :
    /\ Chain(g, r, n + 1) /\ Distinct(r, n + 1)
    /\ \A a : (\E i \in 1..(n + 1) : r[i] = a) <=> (a = b \/ \E i \in 1..n : s[i] = a)

\* g is the list s of f without the block behind place k.
TakesBehind(M, n, s, f, g, k) ==
  /\ M \in Nat /\ n \in Nat /\ s \in [1..n -> 1..M] /\ Chain(f, s, n) /\ Distinct(s, n)
  /\ k \in 0..(n - 1) /\ g[At(s, k)] = f[s[k + 1]]
  /\ \A a \in 0..M : a # At(s, k) => g[a] = f[a]

\* The blocks of s but for b are a list of g.
Shorter(M, n, s, g, b) ==
  \E r \in [1..(n - 1) -> 1..M] :
    /\ Chain(g, r, n - 1) /\ Distinct(r, n - 1)
    /\ \A a : (\E i \in 1..(n - 1) : r[i] = a) <=> (a # b /\ \E i \in 1..n : s[i] = a)

\* What a step makes of thread t; it leaves the others alone.
ThrBecomes(t, w, b, a, e, arr, cl) ==
  /\ ThrTypeOK'
  /\ thr'[t].at = w /\ thr'[t].cur = b /\ thr'[t].addr = a /\ thr'[t].upto = e
  /\ thr'[t].arr = arr /\ thr'[t].client = cl
  /\ \A u \in Threads \ {t} : thr'[u] = thr[u]

\* The fields of a reader.
LEMMA ThrFields ==
  ASSUME ThrTypeOK, NEW t \in Threads
  PROVE  /\ thr[t] \in ThrStates
         /\ thr[t].at \in ThrPlaces /\ thr[t].cur \in 0..MaxBlocks /\ thr[t].addr \in Nat /\ thr[t].upto \in Nat
         /\ thr[t].client \in SUBSET DirtyClients
<1>1. PICK x \in ThrStates : x = thr[t]
  BY Zenon DEF ThrTypeOK
<1>2. x.at \in ThrPlaces /\ x.cur \in 0..MaxBlocks /\ x.addr \in Nat /\ x.upto \in Nat /\ x.client \in SUBSET DirtyClients
  BY Zenon DEF ThrStates
<1> QED BY <1>1, <1>2, Zenon

\* A step of a reader changes that reader alone.
LEMMA ThrUpdate ==
  ASSUME ThrTypeOK, NEW t \in Threads, NEW r \in ThrStates, thr' = [thr EXCEPT ![t] = r]
  PROVE  ThrBecomes(t, r.at, r.cur, r.addr, r.upto, r.arr, r.client)
<1>1. ThrTypeOK' /\ thr'[t] = r /\ \A u \in Threads \ {t} : thr'[u] = thr[u]
  BY Zenon DEF ThrTypeOK
<1> QED BY <1>1, Zenon DEF ThrBecomes

\* rcu_read_unlock leaves nothing in the hands of the reader.
LEMMA ThrLeaves ==
  ASSUME ThrTypeOK, NEW t \in Threads, MaxBlocks \in Nat, RcuUnlock(t)
  PROVE  ThrBecomes(t, "idle", 0, 0, 0, <<>>, {})
<1>1. PICK r : r = ThrIdle
  BY Zenon
<1>2. r \in ThrStates /\ r.at = "idle" /\ r.cur = 0 /\ r.addr = 0 /\ r.upto = 0 /\ r.arr = <<>> /\ r.client = {}
  BY <1>1 DEF ThrStates, ThrIdle, ThrPlaces, Loaded
<1>3. thr' = [thr EXCEPT ![t] = r]
  BY <1>1, Zenon DEF RcuUnlock
<1>5. ThrBecomes(t, r.at, r.cur, r.addr, r.upto, r.arr, r.client)
  BY <1>2, <1>3, ThrUpdate, Zenon
<1> QED BY <1>2, <1>5, Zenon DEF ThrBecomes

\* Steps of main leave the threads alone, those of a thread the list.
LEMMA MainFrame == MainSteps => UNCHANGED <<thr, ops>>
BY ZenonT(60) DEF MainSteps, RamAlloc, RamOffset, ExtendDirty, RamInsert, RamForget, RamMarkUsed, RamResize, RamFree,
       RamFreeForget, Forget, RamReclaimLater, BeginChange

\* Setting and clearing bits keeps the bitmaps.
LEMMA MarksType ==
  ASSUME bitmaps \in Seq(SUBSET Nat), NEW arr, NEW clients, NEW pages \in SUBSET Nat
  PROVE  /\ WithMarks(arr, pages) \in Seq(SUBSET Nat)
         /\ WithoutMarks(arr, clients, pages) \in Seq(SUBSET Nat)
         /\ Len(WithMarks(arr, pages)) = Len(bitmaps)
         /\ Len(WithoutMarks(arr, clients, pages)) = Len(bitmaps)
<1>1. Len(bitmaps) \in Nat /\ DOMAIN bitmaps = 1..Len(bitmaps)
  OBVIOUS
<1>0. \A k \in 1..Len(bitmaps) : bitmaps[k] \subseteq Nat
  BY <1>1
<1>2. WithMarks(arr, pages) \in [1..Len(bitmaps) -> SUBSET Nat]
  <2>1. \A k \in DOMAIN bitmaps :
          bitmaps[k] \cup {p \in pages : \E c \in DirtyClients : Reaches(arr[c], p) /\ BitmapOf(arr[c], p) = k} \in SUBSET Nat
    BY <1>0, <1>1, Zenon
  <2> QED BY <1>1, <2>1, Zenon DEF WithMarks
<1>3. WithoutMarks(arr, clients, pages) \in [1..Len(bitmaps) -> SUBSET Nat]
  <2>1. \A k \in DOMAIN bitmaps :
          bitmaps[k] \ {p \in pages : \E c \in clients : Reaches(arr[c], p) /\ BitmapOf(arr[c], p) = k} \in SUBSET Nat
    BY <1>0, <1>1, Zenon
  <2> QED BY <1>1, <2>1, Zenon DEF WithoutMarks
<1> QED BY <1>1, <1>2, <1>3, SeqLen, Zenon

\* A block has its numbers, and an address of it is a page number.
LEMMA BlockFields ==
  ASSUME BlockTypeOK, MaxBlocks \in Nat, NEW b \in RamBlocks
  PROVE  /\ b \in 0..MaxBlocks /\ b # 0
         /\ rblock[b].offset \in Nat /\ rblock[b].max_length \in Nat /\ rblock[b].used_length \in Nat
         /\ rblock[b].used_length <= rblock[b].max_length
         /\ rblock[b].state \in BlockStates
         /\ End(b) \in Nat /\ End(b) = rblock[b].offset + rblock[b].max_length
         /\ \A p : Covers(b, p) <=> p \in Nat /\ rblock[b].offset <= p /\ p < End(b)
         /\ b \in Listed <=> rblock[b].state = "listed"
         /\ rblock[b].state # "unused" => rblock[b].max_length > 0 /\ rblock[b].max_length <= RAM_ADDR_MAX
<1>0. PICK x \in [offset : Nat, max_length : Nat, used_length : Nat, resizeable : BOOLEAN, state : BlockStates] : x = rblock[b]
  BY Zenon DEF BlockTypeOK
<1>1. /\ b \in 0..MaxBlocks /\ b # 0
      /\ rblock[b].offset \in Nat /\ rblock[b].max_length \in Nat /\ rblock[b].used_length \in Nat
      /\ rblock[b].state \in BlockStates
  BY <1>0 DEF RamBlocks
<1>2. rblock[b].used_length <= rblock[b].max_length /\ (rblock[b].state # "unused" => rblock[b].max_length \in 1..RAM_ADDR_MAX)
  BY Zenon DEF BlockTypeOK
<1>3. rblock[b].state # "unused" => rblock[b].max_length > 0 /\ rblock[b].max_length <= RAM_ADDR_MAX
  BY <1>1, <1>2
<1>4. End(b) \in Nat /\ End(b) = rblock[b].offset + rblock[b].max_length
  BY <1>1 DEF End
<1>5. \A p : Covers(b, p) <=> p \in Nat /\ rblock[b].offset <= p /\ p < End(b)
  BY <1>1, <1>4 DEF Covers, Pages
<1> QED BY <1>1, <1>2, <1>3, <1>4, <1>5, Zenon DEF Listed

\* A listed block is in use.
LEMMA ListedBlocks ==
  ASSUME NEW b \in Listed
  PROVE  b \in RamBlocks /\ rblock[b].state = "listed" /\ rblock[b].state # "unused"
BY Zenon DEF Listed

\* What is no longer reachable depends on the list and on the arrays alone.
LEMMA DeadSame ==
  ASSUME UNCHANGED <<rblock, dirty, arrays, main>>, NEW w
  PROVE  Dead(w)' <=> Dead(w)
BY Zenon DEF Dead

\* A thread goes on in its critical section, or enters one.
LEMMA ThreadGoesOn ==
  ASSUME NEW t \in Threads, NEW w, NEW b, NEW a, NEW e, NEW arr, NEW cl, ThrBecomes(t, w, b, a, e, arr, cl),
         UNCHANGED <<rblock, succ, dirty, arrays, main, grace, freed>>,
         WorkInv, GraceInv, WalkInv, MruInv', w # "idle", w # "badoffset",
         Works(w, b, a, e, arr), Holds(t, w, arr), Looks(t, w, b, a)
  PROVE  WorkInv' /\ GraceInv' /\ WalkInv'
<1>1. /\ thr'[t].at = w /\ thr'[t].cur = b /\ thr'[t].addr = a /\ thr'[t].upto = e
      /\ thr'[t].arr = arr
      /\ \A u \in Threads \ {t} : thr'[u] = thr[u]
  BY Zenon DEF ThrBecomes
<1>2. WorkInv'
  <2> SUFFICES ASSUME NEW u \in Threads
               PROVE  Works(thr[u].at, thr[u].cur, thr[u].addr, thr[u].upto, thr[u].arr)'
    BY Zenon DEF WorkInv
  <2>0. \A v, x, y, z, g : Works(v, x, y, z, g)' <=> Works(v, x, y, z, g)
    BY DEF Works, HasBitmaps, Listed, Covers, Pages, End
  <2>1. Works(thr[u].at, thr[u].cur, thr[u].addr, thr[u].upto, thr[u].arr)' <=>
        Works(thr'[u].at, thr'[u].cur, thr'[u].addr, thr'[u].upto, thr'[u].arr)
    BY <2>0 , Zenon
  <2>2. CASE u = t
    BY <2>1, <2>2, <1>1, Zenon
  <2>3. CASE u # t
    BY <2>1, <2>3, <1>1, Zenon DEF WorkInv
  <2> QED BY <2>2, <2>3, Zenon
<1>3. GraceInv'
  <2>0. \A u, x : Kept(u, x)' <=> Kept(u, x)
    BY Zenon DEF Kept
  <2>1. \A u, v, g : Holds(u, v, g)' <=> Holds(u, v, g)
    BY <2>0, Zenon DEF Holds
  <2>2. ASSUME NEW u \in Threads PROVE Holds(u, thr[u].at, thr[u].arr)'
    <3>1. Holds(u, thr[u].at, thr[u].arr)' <=> Holds(u, thr'[u].at, thr'[u].arr)
      BY <2>1, Zenon
    <3>2. CASE u = t
      BY <3>1, <3>2, <1>1, Zenon
    <3>3. CASE u # t
      BY <3>1, <3>3, <1>1, Zenon DEF GraceInv
    <3> QED BY <3>2, <3>3, Zenon
  <2>3. Reading \subseteq Reading'
    BY <1>1, Zenon DEF Reading
  <2>4. \A k \in grace' : k = [what |-> k.what, wait |-> k.wait] /\ k.wait \subseteq Reading'
    BY <2>3, Zenon DEF GraceInv
  <2>5. \A x \in (freed \cup Pending)' : Dead(x)'
    BY DeadSame, Zenon DEF GraceInv, Pending
  <2> QED BY <2>2, <2>4, <2>5, Zenon DEF GraceInv
<1>4. WalkInv'
  <2>0. \A u, x : Kept(u, x)' <=> Kept(u, x)
    BY Zenon DEF Kept
  <2>1. \A u, n, x : Passes(u, n, x)' <=> Passes(u, n, x)
    BY <2>0, Zenon DEF Passes, Covers, Pages
  <2>2. \A u, x, n, y, S : Path(u, x, n, y, S)' <=> Path(u, x, n, y, S)
    BY <2>1, Zenon DEF Path
  <2>3. \A u, v, n, y : Looks(u, v, n, y)' <=> Looks(u, v, n, y)
    BY <2>1, <2>2 DEF Looks, Listed, Covers, Pages
  <2>4. ASSUME NEW u \in Threads PROVE Looks(u, thr[u].at, thr[u].cur, thr[u].addr)' /\ thr'[u].at # "badoffset"
    <3>1. Looks(u, thr[u].at, thr[u].cur, thr[u].addr)' <=> Looks(u, thr'[u].at, thr'[u].cur, thr'[u].addr)
      BY <2>3, Zenon
    <3>2. CASE u = t
      BY <3>1, <3>2, <1>1, Zenon
    <3>3. CASE u # t
      BY <3>1, <3>3, <1>1, Zenon DEF WalkInv, LookupFinds
    <3> QED BY <3>2, <3>3, Zenon
  <2> QED BY <2>4, Zenon DEF WalkInv, LookupFinds
<1> QED BY <1>2, <1>3, <1>4, Zenon

\* A reader that ends its critical section keeps the invariants about readers.
LEMMA ThreadLeaves ==
  \A t \in Threads :
    /\ RcuUnlock(t)
    /\ ThrTypeOK
    /\ MaxBlocks \in Nat
    /\ UNCHANGED <<rblock, succ, dirty, arrays, main, mru_block>>
    /\ WorkInv
    /\ GraceInv
    /\ WalkInv
  => WorkInv' /\ GraceInv' /\ WalkInv'
\* A thread that leaves its critical section releases what nobody else waits for.
<1>KeptByOthers.
  ASSUME NEW t \in Threads, RcuUnlock(t), GraceInv, NEW u \in Threads \ {t}, NEW x, Kept(u, x)
  PROVE  Kept(u, x)'
  <2> USE <1>KeptByOthers
  <2>1. x \notin freed'
    BY Zenon DEF Kept, RcuUnlock
  <2>2. ASSUME NEW k \in grace', k.what = x PROVE u \in k.wait
    <3>1. PICK h \in grace : k = [h EXCEPT !.wait = @ \ {t}] /\ h.wait # {t}
      BY <2>2, Zenon DEF RcuUnlock
    <3>2. h = [what |-> h.what, wait |-> h.wait]
      BY Zenon DEF GraceInv
    <3>3. k.what = h.what /\ k.wait = h.wait \ {t}
      BY <3>1, <3>2, Zenon
    <3> QED BY <2>2, <3>3, Zenon DEF Kept
  <2> QED BY <2>1, <2>2, Zenon DEF Kept
<1> SUFFICES ASSUME NEW t \in Threads, RcuUnlock(t), ThrTypeOK, MaxBlocks \in Nat,
                    UNCHANGED <<rblock, succ, dirty, arrays, main, mru_block>>, WorkInv, GraceInv, WalkInv
             PROVE  WorkInv' /\ GraceInv' /\ WalkInv'
  BY Zenon
<1>1. /\ thr'[t].at = "idle" /\ thr'[t].upto = 0
      /\ \A u \in Threads \ {t} : thr'[u] = thr[u]
  BY ThrLeaves, Zenon DEF ThrBecomes
<1>2. WorkInv'
  <2> SUFFICES ASSUME NEW u \in Threads
               PROVE  Works(thr[u].at, thr[u].cur, thr[u].addr, thr[u].upto, thr[u].arr)'
    BY Zenon DEF WorkInv
  <2>0. \A v, x, y, z, g : Works(v, x, y, z, g)' <=> Works(v, x, y, z, g)
    BY DEF Works, HasBitmaps, Listed, Covers, Pages, End
  <2>1. Works(thr[u].at, thr[u].cur, thr[u].addr, thr[u].upto, thr[u].arr)' <=>
        Works(thr'[u].at, thr'[u].cur, thr'[u].addr, thr'[u].upto, thr'[u].arr)
    BY <2>0, Zenon
  <2>2. CASE u = t
    BY <2>1, <2>2, <1>1, Zenon DEF Works
  <2>3. CASE u # t
    BY <2>1, <2>3, <1>1, Zenon DEF WorkInv
  <2> QED BY <2>2, <2>3, Zenon
<1>3. GraceInv'
  <2>1. ASSUME NEW u \in Threads PROVE Holds(u, thr[u].at, thr[u].arr)'
    <3>1. CASE u = t
      BY <3>1, <1>1, Zenon DEF Holds
    <3>2. CASE u # t
      <4>1. Holds(u, thr[u].at, thr[u].arr) /\ thr'[u] = thr[u]
        BY <3>2, <1>1, Zenon DEF GraceInv
      <4> QED BY <4>1, <3>2, <1>KeptByOthers, Zenon DEF Holds
    <3> QED BY <3>1, <3>2, Zenon
  <2>2. ASSUME NEW k \in grace' PROVE k = [what |-> k.what, wait |-> k.wait] /\ k.wait \subseteq Reading' /\ k.what \in Pending
    <3>1. PICK h \in grace : k = [h EXCEPT !.wait = @ \ {t}] /\ h.wait # {t}
      BY Zenon DEF RcuUnlock
    <3>2. h = [what |-> h.what, wait |-> h.wait] /\ h.wait \subseteq Reading
      BY Zenon DEF GraceInv
    <3>3. k = [what |-> h.what, wait |-> h.wait \ {t}]
      BY <3>1, <3>2, Zenon
    <3>4. Reading \ {t} \subseteq Reading'
      BY <1>1, Zenon DEF Reading
    <3> QED BY <3>2, <3>3, <3>4, Zenon DEF Pending
  <2>3. freed' \subseteq freed \cup Pending
    BY Zenon DEF RcuUnlock, Pending
  <2>4. (freed \cup Pending)' \subseteq freed \cup Pending
    BY <2>2, <2>3, Zenon DEF Pending
  <2>5. \A x \in (freed \cup Pending)' : Dead(x)'
    BY <2>4, DeadSame, Zenon DEF GraceInv
  <2> QED BY <2>1, <2>2, <2>5, Zenon DEF GraceInv
<1>4. WalkInv'
  <2>1. ASSUME NEW u \in Threads PROVE Looks(u, thr[u].at, thr[u].cur, thr[u].addr)' /\ thr'[u].at # "badoffset"
    <3>1. CASE u = t
      BY <3>1, <1>1, Zenon DEF Looks
    <3>2. CASE u # t
      <4>1. /\ Looks(u, thr[u].at, thr[u].cur, thr[u].addr) /\ thr'[u] = thr[u] /\ thr[u].at # "badoffset"
        BY <3>2, <1>1, Zenon DEF WalkInv, LookupFinds
      <4>2. \A n, y : Passes(u, n, y) => Passes(u, n, y)'
        BY <3>2, <1>KeptByOthers, Zenon DEF Passes, Covers, Pages
      <4>3. \A x, n, y, S : Path(u, x, n, y, S) => Path(u, x, n, y, S)'
        BY <4>2, Zenon DEF Path
      <4>4. \A v, n, y : Looks(u, v, n, y) => Looks(u, v, n, y)'
        BY <4>2, <4>3 DEF Looks, Listed, Covers, Pages
      <4>5. Looks(u, thr'[u].at, thr'[u].cur, thr'[u].addr)
        BY <4>1, Zenon
      <4> QED BY <4>1, <4>4, <4>5, Zenon
    <3> QED BY <3>1, <3>2, Zenon
  <2> QED BY <2>1, Zenon DEF WalkInv, LookupFinds, MruInv, Listed
<1> QED BY <1>2, <1>3, <1>4, Zenon

\* What is reachable is not given back.
LEMMA NotDead == ASSUME GraceInv, NEW w, ~Dead(w), NEW t PROVE Kept(t, w)
BY Zenon DEF GraceInv, Pending, Kept

\* A block that the list has, or that its removal is still busy with, is
\* reachable.
LEMMA AliveBlock ==
  ASSUME NEW b \in RamBlocks, rblock[b].state # "removed" \/ (main.at \in {"removed", "reclaim"} /\ main.b = b)
  PROVE  ~Dead(Block(b))
BY Zenon DEF Dead, Block, Array

\* An address is in one block at most.
LEMMA Exclusive ==
  ASSUME BlockTypeOK, MaxBlocks \in Nat, SpaceInv, NEW x \in Placed, NEW y \in Placed, x # y, NEW a, Covers(x, a)
  PROVE  ~Covers(y, a)
<1>1. Apart(x, y)
  BY Zenon DEF SpaceInv
<1>2. x \in RamBlocks /\ y \in RamBlocks
  BY Zenon DEF Placed, Listed
<1>3. End(x) <= rblock[y].offset \/ End(y) <= rblock[x].offset
  BY <1>1, Zenon DEF Apart
<1>4. /\ End(x) \in Nat /\ End(y) \in Nat /\ rblock[x].offset \in Nat /\ rblock[y].offset \in Nat
      /\ a \in Nat /\ rblock[x].offset <= a /\ a < End(x)
      /\ Covers(y, a) => rblock[y].offset <= a /\ a < End(y)
  BY <1>2, BlockFields, Zenon
<1> QED BY <1>3, <1>4

\* Page p is owed to client c as before, and no mark of it is lost, or it is
\* marked now.
StillMarked(c, p) ==
  \/ p \in owed[c] /\ (p \in Marked(c) => p \in Marked(c)')
  \/ p \in Marked(c)' /\ \E b \in Listed : Covers(b, p)

\* A page is marked if its bit in its bitmap is set.
LEMMA MarkedIs ==
  ASSUME NEW c, NEW p
  PROVE  p \in Marked(c) <=> p \in 0..(RAM_ADDR_MAX - 1) /\ Reaches(dirty[c], p) /\ p \in bitmaps[BitmapOf(dirty[c], p)]
BY Zenon DEF Marked

\* The bitmap of a page that the array of a client reaches is one of the bitmaps.
LEMMA BitmapExists ==
  ASSUME DirtyTypeOK, ArrayInv, DIRTY_MEMORY_BLOCK_SIZE \in Nat \ {0}, NEW c \in DirtyClients, NEW p \in Nat, Reaches(dirty[c], p)
  PROVE  BitmapOf(dirty[c], p) \in DOMAIN bitmaps
<1>1. p \div DIRTY_MEMORY_BLOCK_SIZE \in Nat
  BY DivMod, Zenon
<1>2. /\ dirty[c] \in Nat /\ dirty[c] # 0 /\ dirty[c] <= Len(arrays)
      /\ p \div DIRTY_MEMORY_BLOCK_SIZE < Len(arrays[dirty[c]]) /\ arrays \in Seq(Seq(Nat)) /\ bitmaps \in Seq(SUBSET Nat)
  BY Zenon DEF Reaches, DirtyTypeOK, ArrayInv
<1>3. dirty[c] \in 1..Len(arrays)
  BY <1>2
<1>4. arrays[dirty[c]] \in Seq(Nat)
  BY <1>2, <1>3
<1>5. p \div DIRTY_MEMORY_BLOCK_SIZE + 1 \in 1..Len(arrays[dirty[c]])
  BY <1>1, <1>2, <1>4
<1>6. BitmapOf(dirty[c], p) \in 1..Len(bitmaps)
  BY <1>3, <1>5, Zenon DEF BitmapOf, ArrayInv
<1> QED BY <1>2, <1>6

\* Setting bits loses no mark and marks what is reached.
LEMMA MarksAdd ==
  ASSUME RamParameters, DirtyTypeOK, ArrayInv, NEW arr, NEW pages, bitmaps' = WithMarks(arr, pages), UNCHANGED <<dirty, arrays>>,
         NEW c \in DirtyClients, NEW p \in Nat
  PROVE  /\ p \in Marked(c) => p \in Marked(c)'
         /\ /\ p \in pages /\ p < RAM_ADDR_MAX /\ Reaches(arr[c], p) /\ Reaches(dirty[c], p)
            /\ BitmapOf(arr[c], p) = BitmapOf(dirty[c], p)
            => p \in Marked(c)'
<1>0. RAM_ADDR_MAX \in Nat /\ DIRTY_MEMORY_BLOCK_SIZE \in Nat \ {0}
  BY Zenon DEF RamParameters
<1>1. p \in Marked(c)' <=> p \in 0..(RAM_ADDR_MAX - 1) /\ Reaches(dirty[c], p) /\ p \in bitmaps'[BitmapOf(dirty[c], p)]
  BY Zenon DEF Marked, Reaches, BitmapOf
<1>2. Reaches(dirty[c], p) =>
        bitmaps'[BitmapOf(dirty[c], p)] = bitmaps[BitmapOf(dirty[c], p)] \cup
          {q \in pages : \E d \in DirtyClients : Reaches(arr[d], q) /\ BitmapOf(arr[d], q) = BitmapOf(dirty[c], p)}
  BY <1>0, BitmapExists, Zenon DEF WithMarks
<1> QED BY <1>0, <1>1, <1>2, MarkedIs

\* Clearing bits through some arrays keeps every other mark.
LEMMA MarksTake ==
  ASSUME RamParameters, DirtyTypeOK, ArrayInv, NEW arr, NEW clients, NEW pages, bitmaps' = WithoutMarks(arr, clients, pages),
         UNCHANGED <<dirty, arrays>>, NEW c \in DirtyClients, NEW p \in Nat, p \in Marked(c),
         p \in pages => \A d \in clients : Reaches(arr[d], p) => BitmapOf(arr[d], p) # BitmapOf(dirty[c], p)
  PROVE  p \in Marked(c)'
<1>0. RAM_ADDR_MAX \in Nat /\ DIRTY_MEMORY_BLOCK_SIZE \in Nat \ {0}
  BY Zenon DEF RamParameters
<1>1. p \in Marked(c)' <=> p \in 0..(RAM_ADDR_MAX - 1) /\ Reaches(dirty[c], p) /\ p \in bitmaps'[BitmapOf(dirty[c], p)]
  BY Zenon DEF Marked, Reaches, BitmapOf
<1>2. p \in 0..(RAM_ADDR_MAX - 1) /\ Reaches(dirty[c], p) /\ p \in bitmaps[BitmapOf(dirty[c], p)]
  BY MarkedIs, Zenon
<1>3. bitmaps'[BitmapOf(dirty[c], p)] = bitmaps[BitmapOf(dirty[c], p)] \
          {q \in pages : \E d \in clients : Reaches(arr[d], q) /\ BitmapOf(arr[d], q) = BitmapOf(dirty[c], p)}
  BY <1>0, <1>2, BitmapExists, Zenon DEF WithoutMarks
<1> QED BY <1>1, <1>2, <1>3, Zenon

\* A reader that loaded its arrays before they were extended sets the very bits
\* that are in use now.
LEMMA PageReached ==
  \A b \in Listed : \A arr : \A p \in Nat : \A c \in DirtyClients :
    /\ RamParameters
    /\ RamTypeOK
    /\ ArrayInv
    /\ HasBitmaps(b, arr)
    /\ p < RoundUp(End(b), BITS_PER_LONG)
  => /\ Reaches(arr[c], p) /\ Reaches(dirty[c], p) /\ BitmapOf(arr[c], p) = BitmapOf(dirty[c], p)
<1>WordsOfBitmaps.
  ASSUME NEW n \in Nat, DIRTY_MEMORY_BLOCK_SIZE \in Nat \ {0}, BITS_PER_LONG \in Nat \ {0},
         DIRTY_MEMORY_BLOCK_SIZE % BITS_PER_LONG = 0
  PROVE  BitmapCount(RoundUp(n, BITS_PER_LONG)) <= BitmapCount(n)
  <2> USE <1>WordsOfBitmaps
  <2> DEFINE D == DIRTY_MEMORY_BLOCK_SIZE  B == BITS_PER_LONG  q == BitmapCount(n)
  <2>1. q \in Nat /\ D * q <= n + D - 1 /\ n <= D * q
    BY Ceiling, Zenon DEF BitmapCount
  <2>2. PICK k \in Nat : D = B * k
    BY MultipleOf, Zenon
  <2>3. D * q = B * (k * q) /\ k * q \in Nat /\ D * q \in Nat
    BY <2>1, <2>2
  <2>4. (D * q) % B = 0
    BY <2>3, MultipleOf, Zenon
  <2>5. n <= D * q
    BY <2>1, Zenon
  <2>6. RoundUp(n, B) <= D * q /\ RoundUp(n, B) \in Nat
    BY <2>3, <2>4, <2>5, RoundUpIs, Zenon
  <2> QED BY <2>1, <2>6, BitmapCountIs
<1> SUFFICES ASSUME RamParameters, RamTypeOK, ArrayInv, NEW b \in Listed, NEW arr, HasBitmaps(b, arr), NEW p \in Nat,
                    p < RoundUp(End(b), BITS_PER_LONG), NEW c \in DirtyClients
             PROVE  /\ Reaches(arr[c], p) /\ Reaches(dirty[c], p) /\ BitmapOf(arr[c], p) = BitmapOf(dirty[c], p)
  BY Zenon
<1> DEFINE D == DIRTY_MEMORY_BLOCK_SIZE
<1>1. /\ BlockTypeOK /\ MaxBlocks \in Nat /\ D \in Nat \ {0} /\ BITS_PER_LONG \in Nat \ {0}
      /\ D % BITS_PER_LONG = 0
      /\ dirty \in [DirtyClients -> Nat] /\ arrays \in Seq(Seq(Nat))
  BY Zenon DEF RamTypeOK, RamParameters, DirtyTypeOK
<1>2. PICK n \in Nat : n = End(b)
  BY <1>1, ListedBlocks, BlockFields, Zenon
<1>3. RoundUp(n, BITS_PER_LONG) \in Nat /\ BitmapCount(RoundUp(n, BITS_PER_LONG)) <= BitmapCount(n)
  BY <1>1, RoundUpIs, <1>WordsOfBitmaps, Zenon
<1>4. BitmapCount(n) \in Nat /\ BitmapCount(RoundUp(n, BITS_PER_LONG)) \in Nat
  BY <1>1, <1>3, BitmapCountIs, Zenon
<1>5. p \div D \in Nat /\ p \div D < BitmapCount(RoundUp(n, BITS_PER_LONG))
  BY <1>1, <1>2, <1>3, BitmapCountIs, Zenon
<1>6. PICK i \in Nat : i = p \div D
  BY <1>5, Zenon
<1>7. i < BitmapCount(n) /\ i + 1 \in 1..BitmapCount(n)
  BY <1>3, <1>4, <1>5, <1>6
<1>8. /\ arr[c] \in 1..Len(arrays) /\ BitmapCount(n) <= Len(arrays[arr[c]])
      /\ \A j \in 1..BitmapCount(n) : arrays[arr[c]][j] = arrays[dirty[c]][j]
  BY <1>2, Zenon DEF HasBitmaps
<1>9. /\ BitmapCount(n) <= ArrLen(c) /\ dirty[c] \in Nat /\ dirty[c] <= Len(arrays)
  BY <1>1, <1>2, Zenon DEF ArrayInv
<1>10. dirty[c] # 0 /\ BitmapCount(n) <= Len(arrays[dirty[c]])
  BY <1>4, <1>7, <1>9 DEF ArrLen
<1>11. Len(arrays[arr[c]]) \in Nat /\ Len(arrays[dirty[c]]) \in Nat /\ Len(arrays) \in Nat
  BY <1>1, <1>8, <1>9, <1>10, SMTT(30)
<1>12. i < Len(arrays[arr[c]]) /\ i < Len(arrays[dirty[c]]) /\ arr[c] # 0
  BY <1>4, <1>7, <1>8, <1>10, <1>11, SMTT(30)
<1>13. arrays[arr[c]][i + 1] = arrays[dirty[c]][i + 1]
  BY <1>7, <1>8, Zenon
<1> QED BY <1>6, <1>10, <1>12, <1>13, Zenon DEF Reaches, BitmapOf

\* Thread steps leave the list, the space of addresses and the arrays alone.
LEMMA StillThere ==
  ASSUME UNCHANGED <<rblock, succ, dirty, arrays, main>>, ListInv, MainBlock, SpaceInv, ArrayInv, Len(bitmaps') = Len(bitmaps)
  PROVE  ListInv' /\ MainBlock' /\ SpaceInv' /\ ArrayInv'
<1>1. Listed' = Listed /\ Placed' = Placed
  BY Zenon DEF Listed, Placed
<1>2. ListInv'
  BY <1>1, Zenon DEF ListInv, ListOf
<1>3. MainBlock'
  BY <1>1, Zenon DEF MainBlock
<1>4. SpaceInv'
  BY <1>1, Zenon DEF SpaceInv, Apart, End
<1>5. ArrayInv'
  BY <1>1 DEF ArrayInv, ArrLen, End
<1> QED BY <1>2, <1>3, <1>4, <1>5, Zenon

\* A step of a reader keeps the types.
LEMMA TypeStays ==
  ASSUME RamTypeOK, UNCHANGED <<rblock, succ, dirty, arrays, main>>,
         ThrTypeOK', mru_block' \in 0..MaxBlocks, bitmaps' \in Seq(SUBSET Nat), owed' \in [DirtyClients -> SUBSET Nat]
  PROVE  RamTypeOK'
<1>1. BlockTypeOK'
  BY Zenon DEF RamTypeOK, BlockTypeOK
<1>2. MainTypeOK'
  BY Zenon DEF RamTypeOK, MainTypeOK
<1>3. DirtyTypeOK'
  BY Zenon DEF RamTypeOK, DirtyTypeOK
<1> QED BY <1>1, <1>2, <1>3, Zenon DEF RamTypeOK

\* What is owed and marked depends on blocks and bitmaps alone.
LEMMA MarksSame ==
  ASSUME UNCHANGED <<rblock, main, dirty, arrays, bitmaps, owed>>, OwedInv, DirtyKept
  PROVE  OwedInv' /\ DirtyKept'
BY DEF OwedInv, DirtyKept, Listed, Covers, Pages, Marked, Reaches, BitmapOf

\* A step of a thread that goes on or enters its critical section.
LEMMA GoesOn ==
  ASSUME RamInv, NEW t \in Threads, NEW w, NEW b, NEW a, NEW e, NEW arr, NEW cl, ThrBecomes(t, w, b, a, e, arr, cl),
         UNCHANGED <<rblock, succ, dirty, arrays, main, grace, freed, bitmaps, owed>>,
         mru_block' \in 0..MaxBlocks, MruInv', w # "idle", w # "badoffset",
         Works(w, b, a, e, arr), Holds(t, w, arr), Looks(t, w, b, a)
  PROVE  RamInv'
<1>1. ListInv' /\ MainBlock' /\ SpaceInv' /\ ArrayInv'
  BY StillThere, Zenon DEF RamInv
<1>2. ThrTypeOK'
  BY Zenon DEF ThrBecomes
<1>3. RamTypeOK'
  BY <1>2, TypeStays, Zenon DEF RamInv, RamTypeOK, DirtyTypeOK
<1>4. OwedInv' /\ DirtyKept'
  BY MarksSame, Zenon DEF RamInv
<1>5. WorkInv' /\ GraceInv' /\ WalkInv'
  BY ThreadGoesOn, Zenon DEF RamInv
<1> QED BY <1>1, <1>3, <1>4, <1>5, Zenon DEF RamInv

\* mru_block is as good as it was while blocks stay.
LEMMA MruSame == ASSUME MruInv, UNCHANGED <<mru_block, rblock, main>> PROVE MruInv'
BY Zenon DEF MruInv, Listed

\* Every step of a reader (qemu_get_ram_block, and setting and clearing dirty
\* bits) keeps the invariant.
LEMMA ThreadNext ==
  \A t \in Threads :
    RamParameters /\ RamInv /\ ThreadSteps(t)
  => RamInv'
<1>ThrGoes.
  ASSUME ThrTypeOK, NEW t \in Threads, NEW w \in ThrPlaces, Goes(t, w)
  PROVE  ThrBecomes(t, w, thr[t].cur, thr[t].addr, thr[t].upto, thr[t].arr, thr[t].client)
  <2> USE <1>ThrGoes
  <2>1. PICK x \in ThrStates : x = thr[t]
    BY Zenon DEF ThrTypeOK
  <2>2. PICK r : r = [x EXCEPT !.at = w]
    BY Zenon
  <2>3. /\ r \in ThrStates /\ r.at = w /\ r.cur = x.cur /\ r.addr = x.addr /\ r.upto = x.upto /\ r.arr = x.arr /\ r.client = x.client
    BY <2>2, Zenon DEF ThrStates
  <2>4. thr' = [thr EXCEPT ![t] = r]
    BY <2>1, <2>2, Zenon DEF Goes
  <2>5. ThrBecomes(t, r.at, r.cur, r.addr, r.upto, r.arr, r.client)
    BY <2>3, <2>4, ThrUpdate, Zenon
  <2> QED BY <2>1, <2>3, <2>5, Zenon DEF ThrBecomes
<1>ThrMoves.
  ASSUME ThrTypeOK, NEW t \in Threads, NEW w \in ThrPlaces, NEW b \in 0..MaxBlocks,
         thr' = [thr EXCEPT ![t].at = w, ![t].cur = b]
  PROVE  ThrBecomes(t, w, b, thr[t].addr, thr[t].upto, thr[t].arr, thr[t].client)
  <2> USE <1>ThrMoves
  <2>1. PICK x \in ThrStates : x = thr[t]
    BY Zenon DEF ThrTypeOK
  <2>2. PICK r : r = [x EXCEPT !.at = w, !.cur = b]
    BY Zenon
  <2>3. /\ r \in ThrStates /\ r.at = w /\ r.cur = b /\ r.addr = x.addr /\ r.upto = x.upto /\ r.arr = x.arr /\ r.client = x.client
    BY <2>2, Zenon DEF ThrStates
  <2>4. thr' = [thr EXCEPT ![t] = r]
    BY <2>1, <2>2, Zenon DEF ThrTypeOK
  <2>5. ThrBecomes(t, r.at, r.cur, r.addr, r.upto, r.arr, r.client)
    BY <2>3, <2>4, ThrUpdate, Zenon
  <2> QED BY <2>1, <2>3, <2>5, Zenon DEF ThrBecomes
<1>ThrStarts.
  ASSUME ThrTypeOK, NEW t \in Threads, NEW w \in ThrPlaces, NEW b \in 0..MaxBlocks, NEW a \in Nat,
         thr' = [thr EXCEPT ![t] = [@ EXCEPT !.at = w, !.cur = b, !.addr = a]]
  PROVE  ThrBecomes(t, w, b, a, thr[t].upto, thr[t].arr, thr[t].client)
  <2> USE <1>ThrStarts
  <2>1. PICK x \in ThrStates : x = thr[t]
    BY Zenon DEF ThrTypeOK
  <2>2. PICK r : r = [x EXCEPT !.at = w, !.cur = b, !.addr = a]
    BY Zenon
  <2>3. /\ r \in ThrStates /\ r.at = w /\ r.cur = b /\ r.addr = a /\ r.upto = x.upto /\ r.arr = x.arr /\ r.client = x.client
    BY <2>2, Zenon DEF ThrStates
  <2>4. thr' = [thr EXCEPT ![t] = r]
    BY <2>1, <2>2, Zenon DEF ThrTypeOK
  <2>5. ThrBecomes(t, r.at, r.cur, r.addr, r.upto, r.arr, r.client)
    BY <2>3, <2>4, ThrUpdate, Zenon
  <2> QED BY <2>1, <2>3, <2>5, Zenon DEF ThrBecomes
<1>ThreadFrame.
  ASSUME NEW t \in Threads, ThreadSteps(t)
  PROVE  UNCHANGED <<rblock, succ, dirty, arrays, main, changes>>
  BY <1>ThreadFrame, Zenon DEF ThreadSteps, RamLookup, TestMru, WalkHead, Walk, Found, UseBlock, Store, LoadArrays, MarkPage,
         TestAndClear, ClearPages, BeginOp
(* What the steps of a thread do to it.                                    *)
<1>DoesLookup.
  ASSUME RamParameters, RamTypeOK, NEW t \in Threads, NEW b \in Listed, NEW addr \in {rblock[b].offset, End(b) - 1},
         RamLookup(t, addr)
  PROVE  /\ Covers(b, addr) /\ thr[t].at = "idle"
         /\ ThrBecomes(t, IF mru_block = 0 THEN "head" ELSE "mru", mru_block, addr, thr[t].upto, thr[t].arr, thr[t].client)
  <2> USE <1>DoesLookup
  <2>0. BlockTypeOK /\ ThrTypeOK /\ MaxBlocks \in Nat
    BY Zenon DEF RamTypeOK, RamParameters
  <2>1. b \in RamBlocks /\ rblock[b].state # "unused"
    BY ListedBlocks, Zenon
  <2>2. Covers(b, addr) /\ addr \in Nat
    BY <2>0, <2>1, BlockFields
  <2>3. mru_block \in 0..MaxBlocks
    BY <2>0, Zenon DEF BlockTypeOK
  <2>4. PICK w \in ThrPlaces : w = IF mru_block = 0 THEN "head" ELSE "mru"
    BY Zenon DEF ThrPlaces
  <2>5. thr' = [thr EXCEPT ![t] = [@ EXCEPT !.at = w, !.cur = mru_block, !.addr = addr]]
    BY <2>4, Zenon DEF RamLookup
  <2>6. ThrBecomes(t, w, mru_block, addr, thr[t].upto, thr[t].arr, thr[t].client)
    BY <2>0, <2>2, <2>3, <2>5, <1>ThrStarts, Zenon
  <2>7. thr[t].at = "idle"
    BY Zenon DEF RamLookup, BeginOp, ThrAt
  <2> QED BY <2>2, <2>4, <2>6, <2>7, Zenon
<1>DoesTestMru.
  ASSUME RamTypeOK, NEW t \in Threads, TestMru(t)
  PROVE  ThrBecomes(t, IF Covers(thr[t].cur, thr[t].addr) THEN "use" ELSE "head",
                    thr[t].cur, thr[t].addr, thr[t].upto, thr[t].arr, thr[t].client)
  <2> USE <1>DoesTestMru
  <2>1. ThrTypeOK
    BY Zenon DEF RamTypeOK
  <2>2. PICK w \in ThrPlaces : w = IF Covers(thr[t].cur, thr[t].addr) THEN "use" ELSE "head"
    BY Zenon DEF ThrPlaces
  <2>3. Goes(t, w)
    BY <2>2, Zenon DEF TestMru
  <2> QED BY <2>1, <2>2, <2>3, <1>ThrGoes, Zenon
<1>DoesWalkHead.
  ASSUME RamParameters, RamTypeOK, NEW t \in Threads, WalkHead(t)
  PROVE  ThrBecomes(t, IF succ[0] = 0 THEN "badoffset" ELSE "walk", succ[0], thr[t].addr, thr[t].upto, thr[t].arr, thr[t].client)
  <2> USE <1>DoesWalkHead
  <2>1. ThrTypeOK /\ succ[0] \in 0..MaxBlocks
    BY DEF RamTypeOK, BlockTypeOK, RamParameters
  <2>2. PICK w \in ThrPlaces : w = IF succ[0] = 0 THEN "badoffset" ELSE "walk"
    BY Zenon DEF ThrPlaces
  <2>3. thr' = [thr EXCEPT ![t].at = w, ![t].cur = succ[0]]
    BY <2>2, Zenon DEF WalkHead
  <2>4. ThrBecomes(t, w, succ[0], thr[t].addr, thr[t].upto, thr[t].arr, thr[t].client)
    BY <2>1, <2>3, <1>ThrMoves, Zenon
  <2> QED BY <2>2, <2>4, Zenon
<1>DoesWalk.
  ASSUME RamTypeOK, NEW t \in Threads, Walk(t)
  PROVE  IF Covers(thr[t].cur, thr[t].addr)
         THEN ThrBecomes(t, "found", thr[t].cur, thr[t].addr, thr[t].upto, thr[t].arr, thr[t].client)
         ELSE ThrBecomes(t, IF succ[thr[t].cur] = 0 THEN "badoffset" ELSE "walk", succ[thr[t].cur],
                         thr[t].addr, thr[t].upto, thr[t].arr, thr[t].client)
  <2> USE <1>DoesWalk
  <2>1. ThrTypeOK
    BY Zenon DEF RamTypeOK
  <2>2. CASE Covers(thr[t].cur, thr[t].addr)
    <3>1. Goes(t, "found") /\ "found" \in ThrPlaces
      BY <2>2, Zenon DEF Walk, ThrPlaces
    <3> QED BY <2>1, <2>2, <3>1, <1>ThrGoes, Zenon
  <2>3. CASE ~Covers(thr[t].cur, thr[t].addr)
    <3>1. thr[t].cur \in 0..MaxBlocks
      BY <2>1, ThrFields, Zenon
    <3>2. PICK b \in 0..MaxBlocks : b = succ[thr[t].cur]
      BY <3>1, Zenon DEF RamTypeOK, BlockTypeOK
    <3>3. PICK w \in ThrPlaces : w = IF succ[thr[t].cur] = 0 THEN "badoffset" ELSE "walk"
      BY Zenon DEF ThrPlaces
    <3>4. thr' = [thr EXCEPT ![t].at = w, ![t].cur = b]
      BY <2>3, <3>2, <3>3, Zenon DEF Walk
    <3>5. ThrBecomes(t, w, b, thr[t].addr, thr[t].upto, thr[t].arr, thr[t].client)
      BY <2>1, <3>4, <1>ThrMoves, Zenon
    <3> QED BY <2>3, <3>2, <3>3, <3>5, Zenon
  <2> QED BY <2>2, <2>3, Zenon
<1>DoesFound.
  ASSUME RamTypeOK, NEW t \in Threads, Found(t)
  PROVE  ThrBecomes(t, "use", thr[t].cur, thr[t].addr, thr[t].upto, thr[t].arr, thr[t].client)
  BY <1>DoesFound, <1>ThrGoes, Zenon DEF RamTypeOK, Found, ThrPlaces
<1>DoesStore.
  ASSUME RamParameters, RamTypeOK, NEW t \in Threads, NEW b \in Listed, NEW page \in 0..(rblock[b].used_length - 1),
         Store(t, b, page)
  PROVE  \E a \in Nat : /\ a = rblock[b].offset + page /\ Covers(b, a) /\ thr[t].at = "idle"
                        /\ ThrBecomes(t, "load", b, a, thr[t].upto, thr[t].arr, thr[t].client)
  <2> USE <1>DoesStore
  <2>0. BlockTypeOK /\ ThrTypeOK /\ MaxBlocks \in Nat
    BY Zenon DEF RamTypeOK, RamParameters
  <2>1. b \in RamBlocks /\ rblock[b].state # "unused"
    BY ListedBlocks, Zenon
  <2>2. PICK a : a = rblock[b].offset + page
    BY Zenon
  <2>3. a \in Nat /\ Covers(b, a) /\ b \in 0..MaxBlocks
    BY <2>0, <2>1, <2>2, BlockFields
  <2>4. thr' = [thr EXCEPT ![t] = [@ EXCEPT !.at = "load", !.cur = b, !.addr = a]]
    BY <2>2, Zenon DEF Store
  <2>5. ThrBecomes(t, "load", b, a, thr[t].upto, thr[t].arr, thr[t].client)
    <3>1. "load" \in ThrPlaces
      BY Zenon DEF ThrPlaces
    <3> QED BY <2>0, <2>3, <2>4, <3>1, <1>ThrStarts, Zenon
  <2> QED BY <2>2, <2>3, <2>5, Zenon DEF Store, BeginOp, ThrAt
<1>DoesLoadArrays.
  \A t \in Threads :
    RamTypeOK /\ LoadArrays(t)
  => ThrBecomes(t, IF thr[t].at = "load" THEN "set" ELSE "clear", thr[t].cur, thr[t].addr, thr[t].upto, dirty, thr[t].client)
  <2>ThrLoads.
    ASSUME ThrTypeOK, NEW t \in Threads, NEW w \in ThrPlaces, NEW g \in Loaded,
           thr' = [thr EXCEPT ![t].at = w, ![t].arr = g]
    PROVE  ThrBecomes(t, w, thr[t].cur, thr[t].addr, thr[t].upto, g, thr[t].client)
    <3> USE <2>ThrLoads
    <3>1. PICK x \in ThrStates : x = thr[t]
      BY Zenon DEF ThrTypeOK
    <3>2. PICK r : r = [x EXCEPT !.at = w, !.arr = g]
      BY Zenon
    <3>3. /\ r \in ThrStates /\ r.at = w /\ r.cur = x.cur /\ r.addr = x.addr /\ r.upto = x.upto /\ r.arr = g /\ r.client = x.client
      BY <3>2, Zenon DEF ThrStates
    <3>4. thr' = [thr EXCEPT ![t] = r]
      BY <3>1, <3>2, Zenon DEF ThrTypeOK
    <3>5. ThrBecomes(t, r.at, r.cur, r.addr, r.upto, r.arr, r.client)
      BY <3>3, <3>4, ThrUpdate, Zenon
    <3> QED BY <3>1, <3>3, <3>5, Zenon DEF ThrBecomes
  <2> SUFFICES ASSUME RamTypeOK, NEW t \in Threads, LoadArrays(t)
               PROVE  ThrBecomes(t, IF thr[t].at = "load" THEN "set" ELSE "clear", thr[t].cur, thr[t].addr, thr[t].upto, dirty, thr[t].client)
    BY Zenon
  <2>1. ThrTypeOK /\ dirty \in Loaded
    BY Zenon DEF RamTypeOK, DirtyTypeOK, Loaded
  <2>2. PICK w \in ThrPlaces : w = IF thr[t].at = "load" THEN "set" ELSE "clear"
    BY Zenon DEF ThrPlaces
  <2>3. thr' = [thr EXCEPT ![t].at = w, ![t].arr = dirty]
    BY <2>1, <2>2, Zenon DEF LoadArrays, ThrTypeOK
  <2>4. ThrBecomes(t, w, thr[t].cur, thr[t].addr, thr[t].upto, dirty, thr[t].client)
    BY <2>1, <2>3, <2>ThrLoads, Zenon
  <2> QED BY <2>2, <2>4, Zenon
<1>DoesTestAndClear.
  \A t \in Threads : \A b \in Listed : \A c \in DirtyClients : \A align \in {1, BITS_PER_LONG} : \A start \in 0..(rblock[b].used_length - 1) :
    /\ RamParameters
    /\ RamTypeOK
    /\ SpaceInv
    /\ TestAndClear(t, b, start, rblock[b].used_length - start, c, align)
  => \E a, e \in Nat : /\ Covers(b, a) /\ a < e /\ e <= RoundUp(End(b), BITS_PER_LONG) /\ thr[t].at = "idle"
                       /\ ThrBecomes(t, "loadClear", b, a, e, thr[t].arr, {c})
  <2>ThrTakes.
    ASSUME ThrTypeOK, NEW t \in Threads, NEW w \in ThrPlaces, NEW b \in 0..MaxBlocks, NEW a \in Nat, NEW e \in Nat,
           NEW cl \in SUBSET DirtyClients,
           thr' = [thr EXCEPT ![t] = [@ EXCEPT !.at = w, !.cur = b, !.client = cl, !.addr = a, !.upto = e]]
    PROVE  ThrBecomes(t, w, b, a, e, thr[t].arr, cl)
    <3> USE <2>ThrTakes
    <3>1. PICK x \in ThrStates : x = thr[t]
      BY Zenon DEF ThrTypeOK
    <3>2. PICK r : r = [x EXCEPT !.at = w, !.cur = b, !.client = cl, !.addr = a, !.upto = e]
      BY Zenon
    <3>3. /\ r \in ThrStates /\ r.at = w /\ r.cur = b /\ r.addr = a /\ r.upto = e /\ r.arr = x.arr /\ r.client = cl
      BY <3>2, Zenon DEF ThrStates
    <3>4. thr' = [thr EXCEPT ![t] = r]
      BY <3>1, <3>2, Zenon DEF ThrTypeOK
    <3>5. ThrBecomes(t, r.at, r.cur, r.addr, r.upto, r.arr, r.client)
      BY <3>3, <3>4, ThrUpdate, Zenon
    <3> QED BY <3>1, <3>3, <3>5, Zenon DEF ThrBecomes
  <2>RoundDownIs.
    ASSUME NEW n \in Nat, NEW k \in Nat \ {0}
    PROVE  /\ (n \div k) * k \in Nat /\ (n \div k) * k <= n
           /\ \A m \in Nat : m % k = 0 /\ m <= n => m <= (n \div k) * k
    <3> USE <2>RoundDownIs
    <3> DEFINE q == n \div k
    <3>1. q \in Nat /\ n % k \in 0..(k - 1) /\ n = k * q + (n % k)
      BY DivMod, Zenon
    <3>2. q * k = k * q /\ k * q \in Nat /\ k * q <= n /\ n < k * (q + 1)
      BY <3>1
    <3>3. ASSUME NEW m \in Nat, m % k = 0, m <= n PROVE m <= k * q
      <4>1. PICK r \in Nat : m = k * r
        BY <3>3, MultipleOf, Zenon
      <4>2. k * r < k * (q + 1)
        BY <4>1, <3>2, <3>3, <3>1
      <4>3. r < q + 1
        BY <4>2, <3>1
      <4>4. r <= q
        BY <4>3, <3>1
      <4> QED BY <4>1, <4>4, <3>1
    <3> QED BY <3>2, <3>3, Zenon
  <2>RoundUpMonotone.
    ASSUME NEW m \in Nat, NEW n \in Nat, m <= n, NEW k \in Nat \ {0}
    PROVE  RoundUp(m, k) <= RoundUp(n, k)
    BY <2>RoundUpMonotone, RoundUpIs
  <2>RoundUpOne.
    ASSUME NEW n \in Nat
    PROVE  RoundUp(n, 1) = n
    BY <2>RoundUpOne DEF RoundUp
  <2> SUFFICES ASSUME RamParameters, RamTypeOK, SpaceInv, NEW t \in Threads, NEW b \in Listed, NEW c \in DirtyClients,
                      NEW align \in {1, BITS_PER_LONG}, NEW start \in 0..(rblock[b].used_length - 1),
                      TestAndClear(t, b, start, rblock[b].used_length - start, c, align)
               PROVE  \E a, e \in Nat : /\ Covers(b, a) /\ a < e /\ e <= RoundUp(End(b), BITS_PER_LONG) /\ thr[t].at = "idle"
                                        /\ ThrBecomes(t, "loadClear", b, a, e, thr[t].arr, {c})
    BY ZenonT(60)
  <2>0. BlockTypeOK /\ ThrTypeOK /\ MaxBlocks \in Nat /\ BITS_PER_LONG \in Nat \ {0}
    BY Zenon DEF RamTypeOK, RamParameters
  <2>1. b \in RamBlocks /\ rblock[b].state # "unused"
    BY ListedBlocks, Zenon
  <2>2. PICK o \in Nat : o = rblock[b].offset
    BY <2>0, <2>1, BlockFields, Zenon
  <2>3. PICK u \in Nat : u = rblock[b].used_length
    BY <2>0, <2>1, BlockFields, Zenon
  <2>4. /\ start \in Nat /\ start < u /\ o + u <= End(b) /\ End(b) \in Nat /\ b \in 0..MaxBlocks
        /\ \A p \in Nat : o <= p /\ p < End(b) => Covers(b, p)
    BY <2>0, <2>1, <2>2, <2>3, BlockFields
  <2>5. o % BITS_PER_LONG = 0
    BY <2>2, Zenon DEF SpaceInv, Placed
  <2>6. PICK s \in Nat : s = o + start
    BY <2>2, <2>4
  <2>7. align \in Nat \ {0} /\ o % align = 0 /\ o + start + (u - start) = o + u /\ o <= s /\ s < o + u /\ o + u \in Nat
    BY <2>0, <2>2, <2>3, <2>4, <2>5, <2>6
  <2>8. PICK a : a = (s \div align) * align
    BY Zenon
  <2>9. a \in Nat /\ o <= a /\ a <= s
    BY <2>7, <2>8, <2>RoundDownIs, Zenon
  <2>10. PICK e : e = RoundUp(o + u, align)
    BY Zenon
  <2>11. e \in Nat /\ o + u <= e
    BY <2>7, <2>10, RoundUpIs, Zenon
  <2>12. e <= RoundUp(End(b), BITS_PER_LONG)
    <3>1. CASE align = 1
      <4>1. e = o + u
        BY <3>1, <2>7, <2>10, <2>RoundUpOne, Zenon
      <4>2. End(b) <= RoundUp(End(b), BITS_PER_LONG) /\ RoundUp(End(b), BITS_PER_LONG) \in Nat
        BY <2>0, <2>4, RoundUpIs, Zenon
      <4> QED BY <4>1, <4>2, <2>4, <2>7
    <3>2. CASE align = BITS_PER_LONG
      BY <3>2, <2>0, <2>4, <2>7, <2>10, <2>RoundUpMonotone, Zenon
    <3> QED BY <3>1, <3>2, Zenon
  <2>13. Covers(b, a) /\ a < e
    BY <2>4, <2>7, <2>9, <2>11
  <2>14. thr' = [thr EXCEPT ![t] = [@ EXCEPT !.at = "loadClear", !.cur = b, !.client = {c}, !.addr = a, !.upto = e]]
    BY <2>2, <2>3, <2>6, <2>7, <2>8, <2>10, Zenon DEF TestAndClear
  <2>15. ThrBecomes(t, "loadClear", b, a, e, thr[t].arr, {c})
    <3>1. "loadClear" \in ThrPlaces /\ {c} \in SUBSET DirtyClients
      BY Zenon DEF ThrPlaces
    <3> QED BY <2>0, <2>4, <2>9, <2>11, <2>14, <3>1, <2>ThrTakes, Zenon
  <2>16. thr[t].at = "idle"
    BY Zenon DEF TestAndClear, BeginOp, ThrAt
  <2> QED BY <2>9, <2>11, <2>12, <2>13, <2>15, <2>16, Zenon
<1>DoesClearPages.
  \A t \in Threads :
    RamParameters /\ RamTypeOK /\ WorkInv /\ ClearPages(t)
  => \E num \in Nat :
       /\ thr[t].addr + num \in Nat /\ num > 0 /\ thr[t].addr + num <= thr[t].upto
       /\ bitmaps' = WithoutMarks(thr[t].arr, thr[t].client, thr[t].addr..(thr[t].addr + num - 1))
       /\ owed' = [c \in DirtyClients |-> IF c \in thr[t].client THEN owed[c] \ (thr[t].addr..(thr[t].addr + num - 1)) ELSE owed[c]]
       /\ mru_block' = mru_block
       /\ \/ thr[t].addr + num = thr[t].upto /\ RcuUnlock(t)
          \/ /\ Covers(thr[t].cur, thr[t].addr + num) /\ thr[t].addr + num < thr[t].upto
             /\ ThrBecomes(t, "clear", thr[t].cur, thr[t].addr + num, thr[t].upto, thr[t].arr, thr[t].client)
             /\ UNCHANGED <<grace, freed>>
  <2>ThrProceeds.
    ASSUME ThrTypeOK, NEW t \in Threads, NEW a \in Nat, thr' = [thr EXCEPT ![t].addr = a]
    PROVE  ThrBecomes(t, thr[t].at, thr[t].cur, a, thr[t].upto, thr[t].arr, thr[t].client)
    <3> USE <2>ThrProceeds
    <3>1. PICK x \in ThrStates : x = thr[t]
      BY Zenon DEF ThrTypeOK
    <3>2. PICK r : r = [x EXCEPT !.addr = a]
      BY Zenon
    <3>3. /\ r \in ThrStates /\ r.at = x.at /\ r.cur = x.cur /\ r.addr = a /\ r.upto = x.upto /\ r.arr = x.arr /\ r.client = x.client
      BY <3>2, Zenon DEF ThrStates
    <3>4. thr' = [thr EXCEPT ![t] = r]
      BY <3>1, <3>2, Zenon DEF ThrTypeOK
    <3>5. ThrBecomes(t, r.at, r.cur, r.addr, r.upto, r.arr, r.client)
      BY <3>3, <3>4, ThrUpdate, Zenon
    <3> QED BY <3>1, <3>3, <3>5, Zenon DEF ThrBecomes
  \* A round of the loop that takes marks ends at the end of the pages, or at
  \* the start of a bitmap, which is a page of the same block.
  <2>RoundEnds.
    ASSUME NEW a \in Nat, NEW e \in Nat, NEW n \in Nat, NEW D \in Nat \ {0}, NEW B \in Nat \ {0}, D % B = 0, a < e,
           e <= RoundUp(n, B), a < n, NEW num, num = Min2(e - a, D - (a % D))
    PROVE  /\ num \in Nat /\ num > 0 /\ a + num <= e /\ a + num \in Nat
           /\ a + num # e => a + num < n
           /\ \A p \in a..(a + num - 1) : p \div D = a \div D
    <3> USE <2>RoundEnds
    <3>1. a % D \in 0..(D - 1) /\ a \div D \in Nat /\ a = D * (a \div D) + (a % D)
      BY DivMod, Zenon
    <3>2. /\ num \in Nat /\ num > 0 /\ a + num <= e /\ a + num \in Nat /\ num <= D - (a % D)
          /\ a + num # e => num = D - (a % D)
      BY <3>1 DEF Min2
    <3>3. ASSUME a + num # e PROVE a + num < n
      <4>1. PICK q \in Nat : q = a \div D
        BY <3>1, Zenon
      <4>2. PICK m \in Nat : m = q + 1
        BY <4>1
      <4>3. PICK r \in Nat : D = B * r
        BY MultipleOf, Zenon
      <4>4. a + num = D * m
        BY <3>1, <3>2, <3>3, <4>1, <4>2
      <4>8. (B * r) * m = B * (r * m) /\ r * m \in Nat
        OBVIOUS
      <4>9. PICK z \in Nat : z = a + num
        BY <3>2, Zenon
      <4>10. z = B * (r * m)
        BY <4>3, <4>4, <4>8, <4>9, Zenon
      <4>11. z % B = 0
        BY <4>8, <4>10, MultipleOf, Zenon
      <4>5. (a + num) % B = 0
        BY <4>9, <4>11, Zenon
      <4>12. RoundUp(n, B) \in Nat
        BY RoundUpIs, Zenon
      <4>6. a + num < RoundUp(n, B) /\ RoundUp(n, B) \in Nat
        BY <3>2, <3>3, <4>12
      <4>7. n <= a + num => RoundUp(n, B) <= a + num
        BY <3>2, <4>5, RoundUpIs, Zenon
      <4> QED BY <3>2, <4>6, <4>7
    <3>4. ASSUME NEW p \in a..(a + num - 1) PROVE p \div D = a \div D
      <4>1. PICK q \in Nat : q = a \div D
        BY <3>1, Zenon
      <4>2. p \in Nat /\ D * q <= p /\ p < D * q + D
        BY <3>1, <3>2, <4>1
      <4>3. p < D * (q + 1)
        BY <4>1, <4>2
      <4>4. p \div D <= q /\ q <= p \div D /\ p \div D \in Nat
        BY <4>2, <4>3, DivBounds, DivMod, Zenon
      <4> QED BY <4>1, <4>4
    <3> QED BY <3>2, <3>3, <3>4, Zenon
  <2> SUFFICES ASSUME RamParameters, RamTypeOK, WorkInv, NEW t \in Threads, ClearPages(t)
               PROVE  \E num \in Nat :
                        /\ thr[t].addr + num \in Nat /\ num > 0 /\ thr[t].addr + num <= thr[t].upto
                        /\ bitmaps' = WithoutMarks(thr[t].arr, thr[t].client, thr[t].addr..(thr[t].addr + num - 1))
                        /\ owed' = [c \in DirtyClients |-> IF c \in thr[t].client THEN owed[c] \ (thr[t].addr..(thr[t].addr + num - 1)) ELSE owed[c]]
                        /\ mru_block' = mru_block
                        /\ \/ thr[t].addr + num = thr[t].upto /\ RcuUnlock(t)
                           \/ /\ Covers(thr[t].cur, thr[t].addr + num) /\ thr[t].addr + num < thr[t].upto
                              /\ ThrBecomes(t, "clear", thr[t].cur, thr[t].addr + num, thr[t].upto, thr[t].arr, thr[t].client)
                              /\ UNCHANGED <<grace, freed>>
    BY Zenon
  <2>0. /\ BlockTypeOK /\ ThrTypeOK /\ MaxBlocks \in Nat /\ BITS_PER_LONG \in Nat \ {0} /\ DIRTY_MEMORY_BLOCK_SIZE \in Nat \ {0}
        /\ DIRTY_MEMORY_BLOCK_SIZE % BITS_PER_LONG = 0
    BY Zenon DEF RamTypeOK, RamParameters
  <2>1. thr[t].at = "clear"
    BY Zenon DEF ClearPages, ThrAt
  <2>2. /\ thr[t].cur \in Listed /\ Covers(thr[t].cur, thr[t].addr) /\ thr[t].addr < thr[t].upto
        /\ thr[t].upto <= RoundUp(End(thr[t].cur), BITS_PER_LONG)
    BY <2>1, Zenon DEF WorkInv, Works
  <2>3. PICK a \in Nat : a = thr[t].addr
    BY <2>0, ThrFields, Zenon
  <2>4. PICK e \in Nat : e = thr[t].upto
    BY <2>0, ThrFields, Zenon
  <2>5. thr[t].cur \in RamBlocks
    BY <2>2, ListedBlocks, Zenon
  <2>6. PICK n \in Nat : n = End(thr[t].cur)
    BY <2>0, <2>5, BlockFields, Zenon
  <2>7. a < n /\ (\A p \in Nat : a <= p /\ p < n => Covers(thr[t].cur, p))
    BY <2>0, <2>2, <2>3, <2>5, <2>6, BlockFields, SMTT(30)
  <2>8. PICK num : num = Min2(e - a, DIRTY_MEMORY_BLOCK_SIZE - (a % DIRTY_MEMORY_BLOCK_SIZE))
    BY Zenon
  <2>9. /\ num \in Nat /\ num > 0 /\ a + num <= e /\ a + num \in Nat
        /\ a + num # e => a + num < n
    <3>1. a < e /\ e <= RoundUp(n, BITS_PER_LONG) /\ a < n
      BY <2>2, <2>3, <2>4, <2>6, <2>7, Zenon
    <3> QED BY <3>1, <2>0, <2>8, <2>RoundEnds, ZenonT(60)
  <2>10. /\ bitmaps' = WithoutMarks(thr[t].arr, thr[t].client, a..(a + num - 1))
         /\ owed' = [c \in DirtyClients |-> IF c \in thr[t].client THEN owed[c] \ (a..(a + num - 1)) ELSE owed[c]]
         /\ mru_block' = mru_block
         /\ IF a + num = e THEN RcuUnlock(t) ELSE thr' = [thr EXCEPT ![t].addr = @ + num] /\ UNCHANGED <<grace, freed>>
    BY <2>3, <2>4, <2>8, Zenon DEF ClearPages
  <2>11. ASSUME a + num # e
         PROVE  /\ Covers(thr[t].cur, a + num) /\ a + num < e
                /\ ThrBecomes(t, "clear", thr[t].cur, a + num, thr[t].upto, thr[t].arr, thr[t].client)
                /\ UNCHANGED <<grace, freed>>
    <3>1. thr' = [thr EXCEPT ![t].addr = a + num]
      BY <2>10, <2>11, <2>3, <2>0, Zenon DEF ThrTypeOK
    <3>2. Covers(thr[t].cur, a + num) /\ a + num < e
      BY <2>7, <2>9, <2>11
    <3>3. ThrBecomes(t, thr[t].at, thr[t].cur, a + num, thr[t].upto, thr[t].arr, thr[t].client)
      BY <3>1, <2>0, <2>9, <2>ThrProceeds, Zenon
    <3> QED BY <3>2, <3>3, <2>1, <2>10, <2>11, Zenon
  <2> QED BY <2>3, <2>4, <2>9, <2>10, <2>11, Zenon
<1>LookupLooks.
  ASSUME RamParameters, RamTypeOK, MainBlock, SpaceInv, GraceInv, WalkInv, NEW t \in Threads, NEW b \in Listed,
         NEW a, Covers(b, a)
  PROVE  Looks(t, IF mru_block = 0 THEN "head" ELSE "mru", mru_block, a)
  <2> USE <1>LookupLooks
  <2>1. BlockTypeOK /\ MaxBlocks \in Nat
    BY Zenon DEF RamTypeOK, RamParameters
  <2>2. CASE mru_block = 0
    BY <2>2, Zenon DEF Looks
  <2>3. CASE mru_block # 0 /\ mru_block # b
    <3>1. /\ mru_block \in Placed /\ mru_block \in RamBlocks /\ b \in Placed
          /\ rblock[mru_block].state \in {"listed", "removed"}
          /\ rblock[mru_block].state # "removed" \/ (main.at \in {"removed", "reclaim"} /\ main.b = mru_block)
      <4>1. CASE mru_block \in Listed
        BY <4>1, Zenon DEF Placed, Listed
      <4>2. CASE main.at = "removed" /\ mru_block = main.b
        BY <4>2, Zenon DEF Placed, MainBlock
      <4> QED BY <2>3, <4>1, <4>2, Zenon DEF WalkInv, MruInv
    <3>2. Kept(t, Block(mru_block))
      BY <3>1, AliveBlock, NotDead, Zenon
    <3>3. ~Covers(mru_block, a)
      BY <2>1, <2>3, <3>1, Exclusive, Zenon
    <3> QED BY <2>3, <3>1, <3>2, <3>3, Zenon DEF Looks, Passes
  <2>4. CASE mru_block = b
    <3>1. b # 0
      BY <2>1, ListedBlocks, BlockFields, Zenon
    <3> QED BY <2>4, <3>1, Zenon DEF Looks
  <2> QED BY <2>2, <2>3, <2>4, Zenon
<1>HeadLooks.
  ASSUME RamParameters, RamTypeOK, ListInv, SpaceInv, GraceInv, NEW t \in Threads, NEW x \in Listed, NEW a,
         Covers(x, a)
  PROVE  succ[0] # 0 /\ Looks(t, "walk", succ[0], a)
  <2> USE <1>HeadLooks
  <2>1. BlockTypeOK /\ MaxBlocks \in Nat
    BY Zenon DEF RamTypeOK, RamParameters
  <2>2. PICK n \in 0..MaxBlocks : \E s \in [1..n -> RamBlocks] : ListOf(s, n)
    BY Zenon DEF ListInv
  <2>3. PICK s \in [1..n -> RamBlocks] : ListOf(s, n)
    BY <2>2, Zenon
  <2>4. /\ \A i \in 1..n : s[i] = succ[At(s, i - 1)]
        /\ \A i, j \in 1..n : s[i] = s[j] => i = j
        /\ \A b \in RamBlocks : b \in Listed <=> \E i \in 1..n : s[i] = b
    BY <2>3, Zenon DEF ListOf, Chain, Distinct
  <2>5. PICK k \in 1..n : s[k] = x
    BY <2>4, ListedBlocks, Zenon
  <2> DEFINE S == {s[i] : i \in 1..k}
  <2>6. succ[0] = s[1] /\ 1 \in 1..k /\ 1 \in 1..n
    <3>1. 1 \in 1..n /\ 1 \in 1..k
      BY <2>1
    <3>2. At(s, 1 - 1) = 0
      BY DEF At
    <3> QED BY <3>1, <3>2, <2>4, Zenon
  <2>7. S \subseteq RamBlocks /\ succ[0] \in S /\ succ[0] # 0
    <3>1. S \subseteq RamBlocks
      BY <2>1
    <3>2. succ[0] \in S
      BY <2>6, Zenon
    <3> QED BY <3>1, <3>2 DEF RamBlocks
  <2>8. ASSUME NEW m \in S \ {x} PROVE Passes(t, m, a) /\ succ[m] \in S
    <3>1. PICK i \in 1..k : m = s[i]
      BY Zenon
    <3>2. i # k /\ i \in 1..n /\ i + 1 \in 1..k /\ i + 1 \in 1..n
      BY <3>1, <2>1, <2>5
    <3>3. m \in Listed /\ m # x
      BY <3>1, <3>2, <2>4, Zenon
    <3>4. succ[m] = s[i + 1]
      <4>1. At(s, (i + 1) - 1) = m
        BY <3>1, <3>2 DEF At
      <4> QED BY <4>1, <3>2, <2>4, Zenon
    <3>5. m \in RamBlocks /\ rblock[m].state = "listed"
      BY <3>3, ListedBlocks, Zenon
    <3>6. Kept(t, Block(m))
      BY <3>5, AliveBlock, NotDead, Zenon
    <3>7. ~Covers(m, a)
      BY <2>1, <3>3, Exclusive, Zenon DEF Placed
    <3> QED BY <3>2, <3>4, <3>5, <3>6, <3>7, Zenon DEF Passes
  <2>9. Path(t, x, succ[0], a, S)
    BY <2>7, <2>8, Zenon DEF Path
  <2> QED BY <2>7, <2>9, Zenon DEF Looks
<1>LoadedFits.
  \A t \in Threads : \A b \in Listed : \A w :
    RamParameters /\ RamTypeOK /\ ArrayInv /\ GraceInv
  => HasBitmaps(b, dirty) /\ Holds(t, w, dirty)
  <2>AliveArray.
    ASSUME NEW c \in DirtyClients
    PROVE  ~Dead(Array(dirty[c]))
    BY <2>AliveArray, Zenon DEF Dead, Block, Array
  <2> SUFFICES ASSUME RamParameters, RamTypeOK, ArrayInv, GraceInv, NEW t \in Threads, NEW b \in Listed, NEW w
               PROVE  HasBitmaps(b, dirty) /\ Holds(t, w, dirty)
    BY Zenon
  <2>1. /\ BlockTypeOK /\ MaxBlocks \in Nat /\ DIRTY_MEMORY_BLOCK_SIZE \in Nat \ {0}
        /\ dirty \in [DirtyClients -> Nat] /\ arrays \in Seq(Seq(Nat))
    BY Zenon DEF RamTypeOK, RamParameters, DirtyTypeOK
  <2>2. b \in RamBlocks /\ rblock[b].state # "unused"
    BY ListedBlocks, Zenon
  <2>3. End(b) \in Nat /\ End(b) > 0
    <3>1. /\ rblock[b].offset \in Nat /\ rblock[b].max_length \in Nat /\ rblock[b].max_length > 0
          /\ End(b) = rblock[b].offset + rblock[b].max_length
      BY <2>1, <2>2, BlockFields, Zenon
    <3> QED BY <3>1
  <2>4. BitmapCount(End(b)) \in Nat /\ BitmapCount(End(b)) > 0
    BY <2>1, <2>3, BitmapCountIs, Zenon
  <2>5. ASSUME NEW c \in DirtyClients PROVE dirty[c] \in 1..Len(arrays) /\ BitmapCount(End(b)) <= Len(arrays[dirty[c]])
    <3>1. BitmapCount(End(b)) <= ArrLen(c) /\ dirty[c] <= Len(arrays) /\ dirty[c] \in Nat
      BY <2>1, Zenon DEF ArrayInv
    <3>2. dirty[c] # 0
      BY <3>1, <2>4 DEF ArrLen
    <3> QED BY <3>1, <3>2 DEF ArrLen
  <2>6. HasBitmaps(b, dirty)
    BY <2>1, <2>5, Zenon DEF HasBitmaps
  <2>7. Holds(t, w, dirty)
    BY <2>AliveArray, NotDead, Zenon DEF Holds
  <2> QED BY <2>6, <2>7, Zenon
<1>MarksSurvive.
  ASSUME UNCHANGED <<rblock, main>>, OwedInv, DirtyKept,
         \A c \in DirtyClients : \A p \in owed'[c] : StillMarked(c, p)
  PROVE  OwedInv' /\ DirtyKept'
  <2> USE <1>MarksSurvive
  <2>1. Listed' = Listed /\ (\A b, p : Covers(b, p)' <=> Covers(b, p)) /\ (\A b, n : Pages(b, n)' = Pages(b, n))
    BY Zenon DEF Listed, Covers, Pages
  <2>2. \A c \in DirtyClients : \A p \in owed'[c] : \E b \in Listed : Covers(b, p)
    BY Zenon DEF OwedInv, StillMarked
  <2>3. ASSUME main.at = "resized", NEW c \in DirtyClients, NEW p \in owed'[c],
               Covers(main.b, p), p \notin Pages(main.b, rblock[main.b].used_length)
        PROVE  p \in Marked(c)'
    BY <2>3, Zenon DEF OwedInv, StillMarked
  <2>4. OwedInv'
    BY <2>1, <2>2, <2>3, Zenon DEF OwedInv
  <2>5. ASSUME NEW b \in Listed, NEW c \in DirtyClients, ~(main.at = "resized" /\ main.b = b),
               NEW p \in Pages(b, rblock[b].max_length), p \in owed'[c]
        PROVE  p \in Marked(c)'
    <3>1. p \in owed[c] => p \in Marked(c)
      BY <2>5, Zenon DEF DirtyKept
    <3> QED BY <2>5, <3>1, Zenon DEF StillMarked
  <2>6. DirtyKept'
    BY <2>1, <2>5, Zenon DEF DirtyKept
  <2> QED BY <2>4, <2>6, Zenon
<1>MarkPageMarks.
  ASSUME RamParameters, RamTypeOK, SpaceInv, ArrayInv, WorkInv, OwedInv, DirtyKept, NEW t \in Threads, MarkPage(t)
  PROVE  OwedInv' /\ DirtyKept'
  <2> USE <1>MarkPageMarks
  <2>1. DirtyTypeOK /\ ThrTypeOK /\ BlockTypeOK /\ MaxBlocks \in Nat /\ BITS_PER_LONG \in Nat \ {0} /\ RAM_ADDR_MAX \in Nat
    BY Zenon DEF RamTypeOK, RamParameters
  <2>2. PICK a \in Nat : a = thr[t].addr
    BY <2>1, ThrFields, Zenon
  <2>3. PICK b \in Listed : Covers(b, a) /\ HasBitmaps(b, thr[t].arr)
    BY <2>2, Zenon DEF MarkPage, ThrAt, WorkInv, Works
  <2>4. PICK n \in Nat : n = End(b)
    BY <2>1, ListedBlocks, BlockFields, Zenon
  <2>5. a < n /\ n <= RoundUp(n, BITS_PER_LONG) /\ RoundUp(n, BITS_PER_LONG) \in Nat /\ n <= RAM_ADDR_MAX
    <3>1. a < n
      BY <2>1, <2>3, <2>4, ListedBlocks, BlockFields, Zenon
    <3>2. n <= RAM_ADDR_MAX
      BY <2>4, Zenon DEF SpaceInv, Placed
    <3> QED BY <2>1, <3>1, <3>2, RoundUpIs, Zenon
  <2>6. a < RoundUp(End(b), BITS_PER_LONG) /\ a < RAM_ADDR_MAX
    BY <2>1, <2>4, <2>5
  <2>7. /\ bitmaps' = WithMarks(thr[t].arr, {a}) /\ owed' = [c \in DirtyClients |-> owed[c] \cup {a}]
        /\ UNCHANGED <<rblock, main, dirty, arrays>>
    BY <2>2, Zenon DEF MarkPage
  <2>8. ASSUME NEW c \in DirtyClients, NEW p \in owed'[c] PROVE StillMarked(c, p)
    <3>1. p \in owed[c] \/ p = a
      BY <2>7, Zenon
    <3>2. p \in Nat
      BY <3>1, <2>1, Zenon DEF DirtyTypeOK
    <3>3. p \in Marked(c) => p \in Marked(c)'
      BY <2>1, <2>7, <3>2, MarksAdd, Zenon
    <3>4. a \in Marked(c)'
      <4>1. /\ Reaches(thr[t].arr[c], a) /\ Reaches(dirty[c], a) /\ BitmapOf(thr[t].arr[c], a) = BitmapOf(dirty[c], a)
        BY <2>3, <2>6, PageReached, Zenon
      <4> QED BY <2>1, <2>6, <2>7, <4>1, MarksAdd, Zenon
    <3> QED BY <2>3, <3>1, <3>3, <3>4, Zenon DEF StillMarked
  <2> QED BY <2>7, <2>8, <1>MarksSurvive, Zenon
<1>ClearPagesMarks.
  \A t \in Threads :
    /\ RamParameters
    /\ RamTypeOK
    /\ SpaceInv
    /\ ArrayInv
    /\ WorkInv
    /\ OwedInv
    /\ DirtyKept
    /\ ClearPages(t)
  => OwedInv' /\ DirtyKept'
  <2>OwnBitmaps.
    ASSUME DirtyTypeOK, ArrayInv, DIRTY_MEMORY_BLOCK_SIZE \in Nat \ {0}, NEW c \in DirtyClients,
           NEW d \in DirtyClients, c # d, NEW p \in Nat, Reaches(dirty[c], p), Reaches(dirty[d], p)
    PROVE  BitmapOf(dirty[c], p) # BitmapOf(dirty[d], p)
    <3> USE <2>OwnBitmaps
    <3>1. PICK i : i = p \div DIRTY_MEMORY_BLOCK_SIZE + 1
      BY Zenon
    <3>2. p \div DIRTY_MEMORY_BLOCK_SIZE \in Nat
      BY DivMod, Zenon
    <3>3. /\ arrays \in Seq(Seq(Nat)) /\ dirty[c] \in Nat /\ dirty[d] \in Nat /\ dirty[c] <= Len(arrays) /\ dirty[d] <= Len(arrays)
          /\ dirty[c] # 0 /\ dirty[d] # 0
      BY Zenon DEF DirtyTypeOK, ArrayInv, Reaches
    <3>4. Len(arrays[dirty[c]]) \in Nat /\ Len(arrays[dirty[d]]) \in Nat
      BY <3>3
    <3>5. i \in 1..ArrLen(c) /\ i \in 1..ArrLen(d)
      <4>1. PICK q \in Nat : q = p \div DIRTY_MEMORY_BLOCK_SIZE
        BY <3>2, Zenon
      <4>2. q < Len(arrays[dirty[c]]) /\ q < Len(arrays[dirty[d]])
        BY <4>1, Zenon DEF Reaches
      <4>3. i \in 1..Len(arrays[dirty[c]]) /\ i \in 1..Len(arrays[dirty[d]])
        BY <4>1, <4>2, <3>1, <3>4
      <4> QED BY <4>3, <3>3, Zenon DEF ArrLen
    <3>6. arrays[dirty[c]][i] # arrays[dirty[d]][i]
      BY <3>3, <3>5, Zenon DEF ArrayInv
    <3> QED BY <3>1, <3>6, Zenon DEF BitmapOf
  <2> SUFFICES ASSUME RamParameters, RamTypeOK, SpaceInv, ArrayInv, WorkInv, OwedInv, DirtyKept, NEW t \in Threads,
                      ClearPages(t)
               PROVE  OwedInv' /\ DirtyKept'
    BY Zenon
  <2>1. /\ DirtyTypeOK /\ ThrTypeOK /\ BlockTypeOK /\ MaxBlocks \in Nat /\ BITS_PER_LONG \in Nat \ {0}
        /\ DIRTY_MEMORY_BLOCK_SIZE \in Nat \ {0}
    BY Zenon DEF RamTypeOK, RamParameters
  <2>2. PICK a \in Nat : a = thr[t].addr
    BY <2>1, ThrFields, Zenon
  <2>3. PICK e \in Nat : e = thr[t].upto
    BY <2>1, ThrFields, Zenon
  <2>4. PICK b \in Listed : HasBitmaps(b, thr[t].arr) /\ e <= RoundUp(End(b), BITS_PER_LONG)
    BY <2>3, Zenon DEF ClearPages, ThrAt, WorkInv, Works
  <2>5. PICK num \in Nat :
          /\ a + num <= e
          /\ bitmaps' = WithoutMarks(thr[t].arr, thr[t].client, a..(a + num - 1))
          /\ owed' = [c \in DirtyClients |-> IF c \in thr[t].client THEN owed[c] \ (a..(a + num - 1)) ELSE owed[c]]
    BY <2>2, <2>3, <1>DoesClearPages, SMTT(30)
  <2>6. UNCHANGED <<rblock, main, dirty, arrays>>
    BY Zenon DEF ClearPages
  <2>7. PICK pages : pages = a..(a + num - 1)
    BY Zenon
  <2>8. PICK m \in Nat : m = RoundUp(End(b), BITS_PER_LONG)
    <3>1. End(b) \in Nat
      BY <2>1, ListedBlocks, BlockFields, Zenon
    <3> QED BY <3>1, <2>1, RoundUpIs, Zenon
  <2>9. \A p \in pages : p \in Nat /\ p < RoundUp(End(b), BITS_PER_LONG)
    BY <2>4, <2>5, <2>7, <2>8, SMTT(30)
  <2>10. ASSUME NEW c \in DirtyClients, NEW p \in owed'[c] PROVE StillMarked(c, p)
    <3>1. p \in owed[c] /\ (c \in thr[t].client => p \notin pages)
      BY <2>5, <2>7, Zenon
    <3>2. p \in Nat
      BY <3>1, <2>1, Zenon DEF DirtyTypeOK
    <3>3. ASSUME p \in pages, p \in Marked(c), NEW d \in thr[t].client, Reaches(thr[t].arr[d], p)
          PROVE  BitmapOf(thr[t].arr[d], p) # BitmapOf(dirty[c], p)
      <4>1. d \in DirtyClients /\ c # d
        BY <3>1, <3>3, <2>1, ThrFields, Zenon
      <4>2. Reaches(dirty[d], p) /\ BitmapOf(thr[t].arr[d], p) = BitmapOf(dirty[d], p)
        BY <2>4, <2>9, <3>2, <3>3, <4>1, PageReached, Zenon
      <4>3. Reaches(dirty[c], p)
        BY <3>3, MarkedIs, Zenon
      <4> QED BY <2>1, <3>2, <4>1, <4>2, <4>3, <2>OwnBitmaps, Zenon
    <3>4. p \in Marked(c) => p \in Marked(c)'
      BY <2>1, <2>5, <2>6, <2>7, <3>2, <3>3, MarksTake, Zenon
    <3> QED BY <3>1, <3>4, Zenon DEF StillMarked
  <2> QED BY <2>6, <2>10, <1>MarksSurvive, Zenon
<1> SUFFICES ASSUME RamParameters, RamInv, NEW t \in Threads, ThreadSteps(t)
             PROVE  RamInv'
  BY Zenon
<1> USE DEF RamInv
<1>0. UNCHANGED <<rblock, succ, dirty, arrays, main, changes>>
  BY <1>ThreadFrame, Zenon
<1>m. MruInv /\ mru_block \in 0..MaxBlocks /\ ThrTypeOK /\ MaxBlocks \in Nat /\ BlockTypeOK
      /\ bitmaps \in Seq(SUBSET Nat) /\ owed \in [DirtyClients -> SUBSET Nat]
  BY Zenon DEF WalkInv, RamTypeOK, BlockTypeOK, DirtyTypeOK, RamParameters
<1>w. Works(thr[t].at, thr[t].cur, thr[t].addr, thr[t].upto, thr[t].arr)
  BY Zenon DEF WorkInv
<1>h. Holds(t, thr[t].at, thr[t].arr)
  BY Zenon DEF GraceInv
<1>l. Looks(t, thr[t].at, thr[t].cur, thr[t].addr)
  BY Zenon DEF WalkInv
<1>i. thr[t].at = "idle" => thr[t].upto = 0
  BY <1>w, Zenon DEF Works
<1>1. ASSUME NEW b \in Listed, NEW addr \in {rblock[b].offset, End(b) - 1}, RamLookup(t, addr) PROVE RamInv'
  <2>1. /\ Covers(b, addr) /\ thr[t].upto = 0
        /\ ThrBecomes(t, IF mru_block = 0 THEN "head" ELSE "mru", mru_block, addr, thr[t].upto, thr[t].arr, thr[t].client)
    BY <1>1, <1>i, <1>DoesLookup, Zenon
  <2>2. PICK w : w = IF mru_block = 0 THEN "head" ELSE "mru"
    BY Zenon
  <2>3. Looks(t, w, mru_block, addr)
    BY <2>1, <2>2, <1>LookupLooks, Zenon
  <2>4. Works(w, mru_block, addr, thr[t].upto, thr[t].arr) /\ Holds(t, w, thr[t].arr) /\ w # "idle" /\ w # "badoffset"
    BY <2>1, <2>2, Zenon DEF Works, Holds
  <2>5. UNCHANGED <<grace, freed, bitmaps, owed, mru_block>>
    BY <1>1, Zenon DEF RamLookup
  <2>6. MruInv'
    BY <1>0, <1>m, <2>5, MruSame, Zenon
  <2> QED BY <1>0, <1>m, <2>1, <2>2, <2>3, <2>4, <2>5, <2>6, GoesOn, Zenon
<1>2. CASE TestMru(t)
  <2>1. PICK w : w = IF Covers(thr[t].cur, thr[t].addr) THEN "use" ELSE "head"
    BY Zenon
  <2>2. ThrBecomes(t, w, thr[t].cur, thr[t].addr, thr[t].upto, thr[t].arr, thr[t].client)
    BY <1>2, <2>1, <1>DoesTestMru, Zenon
  <2>3. thr[t].at = "mru" /\ UNCHANGED <<grace, freed, bitmaps, owed, mru_block>>
    BY <1>2, Zenon DEF TestMru, ThrAt
  <2>4. Looks(t, w, thr[t].cur, thr[t].addr)
    BY <1>l, <2>1, <2>3, Zenon DEF Looks, Passes
  <2>5. Works(w, thr[t].cur, thr[t].addr, thr[t].upto, thr[t].arr) /\ Holds(t, w, thr[t].arr) /\ w # "idle" /\ w # "badoffset"
    BY <1>w, <2>1, <2>3, Zenon DEF Works, Holds
  <2>6. MruInv'
    BY <1>0, <1>m, <2>3, MruSame, Zenon
  <2> QED BY <1>0, <1>m, <2>2, <2>3, <2>4, <2>5, <2>6, GoesOn, SMTT(30)
<1>3. CASE WalkHead(t)
  <2>1. thr[t].at = "head" /\ UNCHANGED <<grace, freed, bitmaps, owed, mru_block>>
    BY <1>3, Zenon DEF WalkHead, ThrAt
  <2>2. PICK x \in Listed : Covers(x, thr[t].addr)
    BY <1>l, <2>1, Zenon DEF Looks
  <2>3. succ[0] # 0 /\ Looks(t, "walk", succ[0], thr[t].addr)
    BY <2>2, <1>HeadLooks, Zenon
  <2>4. ThrBecomes(t, "walk", succ[0], thr[t].addr, thr[t].upto, thr[t].arr, thr[t].client)
    BY <1>3, <2>3, <1>DoesWalkHead, Zenon
  <2>5. Works("walk", succ[0], thr[t].addr, thr[t].upto, thr[t].arr) /\ Holds(t, "walk", thr[t].arr)
    BY <1>w, <2>1, Zenon DEF Works, Holds
  <2>6. MruInv'
    BY <1>0, <1>m, <2>1, MruSame, Zenon
  <2> QED BY <1>0, <1>m, <2>1, <2>3, <2>4, <2>5, <2>6, GoesOn, Zenon
<1>4. CASE Walk(t)
  <2>1. thr[t].at = "walk" /\ UNCHANGED <<grace, freed, bitmaps, owed, mru_block>>
    BY <1>4, Zenon DEF Walk, ThrAt
  <2>2. PICK x \in Listed : Covers(x, thr[t].addr) /\ \E S \in SUBSET RamBlocks : Path(t, x, thr[t].cur, thr[t].addr, S)
    BY <1>l, <2>1, Zenon DEF Looks
  <2>3. PICK S \in SUBSET RamBlocks : Path(t, x, thr[t].cur, thr[t].addr, S)
    BY <2>2, Zenon
  <2>6. MruInv'
    BY <1>0, <1>m, <2>1, MruSame, Zenon
  <2>7. CASE Covers(thr[t].cur, thr[t].addr)
    <3>1. thr[t].cur = x
      BY <2>3, <2>7, Zenon DEF Path, Passes
    <3>2. Looks(t, "found", thr[t].cur, thr[t].addr)
      BY <2>2, <3>1, Zenon DEF Looks
    <3>3. ThrBecomes(t, "found", thr[t].cur, thr[t].addr, thr[t].upto, thr[t].arr, thr[t].client)
      BY <1>4, <2>7, <1>DoesWalk, Zenon
    <3>4. Works("found", thr[t].cur, thr[t].addr, thr[t].upto, thr[t].arr) /\ Holds(t, "found", thr[t].arr)
      BY <1>w, <2>1, Zenon DEF Works, Holds
    <3> QED BY <1>0, <1>m, <2>1, <2>6, <3>2, <3>3, <3>4, GoesOn, Zenon
  <2>8. CASE ~Covers(thr[t].cur, thr[t].addr)
    <3>1. thr[t].cur # x
      BY <2>2, <2>8, Zenon
    <3>2. succ[thr[t].cur] \in S /\ Path(t, x, succ[thr[t].cur], thr[t].addr, S)
      BY <2>3, <3>1, Zenon DEF Path
    <3>3. succ[thr[t].cur] # 0
      BY <3>2 DEF RamBlocks
    <3>4. Looks(t, "walk", succ[thr[t].cur], thr[t].addr)
      BY <2>2, <3>2, Zenon DEF Looks
    <3>5. ThrBecomes(t, "walk", succ[thr[t].cur], thr[t].addr, thr[t].upto, thr[t].arr, thr[t].client)
      BY <1>4, <2>8, <3>3, <1>DoesWalk, Zenon
    <3>6. Works("walk", succ[thr[t].cur], thr[t].addr, thr[t].upto, thr[t].arr) /\ Holds(t, "walk", thr[t].arr)
      BY <1>w, <2>1, Zenon DEF Works, Holds
    <3> QED BY <1>0, <1>m, <2>1, <2>6, <3>4, <3>5, <3>6, GoesOn, Zenon
  <2> QED BY <2>7, <2>8, Zenon
<1>5. CASE Found(t)
  <2>1. /\ thr[t].at = "found" /\ UNCHANGED <<grace, freed, bitmaps, owed>>
        /\ mru_block' \in {mru_block, thr[t].cur}
    BY <1>5, Zenon DEF Found, ThrAt
  <2>2. thr[t].cur \in Listed /\ Covers(thr[t].cur, thr[t].addr)
    BY <1>l, <2>1, Zenon DEF Looks
  <2>3. mru_block' \in 0..MaxBlocks
    BY <1>m, <2>1, ThrFields, Zenon
  <2>4. MruInv'
    BY <1>0, <1>m, <2>1, <2>2, Zenon DEF MruInv, Listed
  <2>5. ThrBecomes(t, "use", thr[t].cur, thr[t].addr, thr[t].upto, thr[t].arr, thr[t].client)
    BY <1>5, <1>DoesFound, Zenon
  <2>6. /\ Looks(t, "use", thr[t].cur, thr[t].addr)
        /\ Works("use", thr[t].cur, thr[t].addr, thr[t].upto, thr[t].arr) /\ Holds(t, "use", thr[t].arr)
    BY <1>w, <2>1, <2>2, Zenon DEF Looks, Works, Holds
  <2> QED BY <1>0, <1>m, <2>1, <2>3, <2>4, <2>5, <2>6, GoesOn, Zenon
<1>r. ASSUME RcuUnlock(t), mru_block' = mru_block, bitmaps' \in Seq(SUBSET Nat), Len(bitmaps') = Len(bitmaps),
             owed' \in [DirtyClients -> SUBSET Nat], OwedInv' /\ DirtyKept'
      PROVE  RamInv'
  <2>1. ListInv' /\ MainBlock' /\ SpaceInv' /\ ArrayInv'
    BY <1>0, <1>r, StillThere, Zenon
  <2>2. ThrTypeOK'
    BY <1>r, <1>m, ThrLeaves, Zenon DEF ThrBecomes
  <2>3. RamTypeOK'
    BY <1>0, <1>m, <1>r, <2>2, TypeStays, Zenon
  <2>4. WorkInv' /\ GraceInv' /\ WalkInv'
    BY <1>0, <1>m, <1>r, ThreadLeaves, Zenon
  <2> QED BY <1>r, <2>1, <2>3, <2>4, Zenon
<1>6. CASE UseBlock(t)
  <2>1. RcuUnlock(t) /\ UNCHANGED <<mru_block, bitmaps, owed>>
    BY <1>6, Zenon DEF UseBlock
  <2>2. OwedInv' /\ DirtyKept'
    BY <1>0, <2>1, MarksSame, Zenon
  <2> QED BY <1>m, <1>r, <2>1, <2>2, Zenon
<1>7. ASSUME NEW b \in Listed, NEW page \in 0..(rblock[b].used_length - 1), Store(t, b, page) PROVE RamInv'
  <2>1. PICK a \in Nat : /\ Covers(b, a) /\ thr[t].at = "idle"
                         /\ ThrBecomes(t, "load", b, a, thr[t].upto, thr[t].arr, thr[t].client)
    BY <1>7, <1>DoesStore, Zenon
  <2>2. UNCHANGED <<grace, freed, bitmaps, owed, mru_block>>
    BY <1>7, Zenon DEF Store
  <2>3. MruInv'
    BY <1>0, <1>m, <2>2, MruSame, Zenon
  <2>4. Looks(t, "load", b, a) /\ Holds(t, "load", thr[t].arr)
    BY <2>1, Zenon DEF Looks, Holds
  <2>5. RoundUp(End(b), BITS_PER_LONG) \in Nat
    <3>1. End(b) \in Nat
      BY <1>m, ListedBlocks, BlockFields, Zenon
    <3> QED BY <3>1, RoundUpIs, Zenon DEF RamParameters
  <2>6. Works("load", b, a, thr[t].upto, thr[t].arr)
    BY <1>i, <2>1, <2>5, SMTT(30) DEF Works
  <2> QED BY <1>0, <1>m, <2>1, <2>2, <2>3, <2>4, <2>6, GoesOn, Zenon
<1>8. CASE LoadArrays(t)
  <2>1. thr[t].at \in {"load", "loadClear"} /\ UNCHANGED <<grace, freed, bitmaps, owed, mru_block>>
    BY <1>8, Zenon DEF LoadArrays
  <2>2. PICK w : w = IF thr[t].at = "load" THEN "set" ELSE "clear"
    BY Zenon
  <2>3. ThrBecomes(t, w, thr[t].cur, thr[t].addr, thr[t].upto, dirty, thr[t].client)
    BY <1>8, <2>2, <1>DoesLoadArrays, Zenon
  <2>4. thr[t].cur \in Listed /\ Covers(thr[t].cur, thr[t].addr)
    BY <1>w, <2>1, Zenon DEF Works
  <2>5. HasBitmaps(thr[t].cur, dirty) /\ Holds(t, w, dirty)
    BY <2>4, <1>LoadedFits, Zenon
  <2>6. Works(w, thr[t].cur, thr[t].addr, thr[t].upto, dirty)
    BY <1>w, <2>1, <2>2, <2>5, Zenon DEF Works
  <2>7. Looks(t, w, thr[t].cur, thr[t].addr) /\ w # "idle" /\ w # "badoffset"
    BY <2>2, <2>4, Zenon DEF Looks
  <2>8. MruInv'
    BY <1>0, <1>m, <2>1, MruSame, Zenon
  <2> QED BY <1>0, <1>m, <2>1, <2>3, <2>5, <2>6, <2>7, <2>8, GoesOn, Zenon
<1>9. CASE MarkPage(t)
  <2>1. /\ RcuUnlock(t) /\ mru_block' = mru_block /\ bitmaps' = WithMarks(thr[t].arr, {thr[t].addr})
        /\ owed' = [c \in DirtyClients |-> owed[c] \cup {thr[t].addr}]
    BY <1>9, Zenon DEF MarkPage
  <2>2. {thr[t].addr} \in SUBSET Nat
    BY <1>m, ThrFields, Zenon
  <2>3. bitmaps' \in Seq(SUBSET Nat) /\ Len(bitmaps') = Len(bitmaps)
    BY <1>m, <2>1, <2>2, MarksType, ZenonT(60)
  <2>4. owed' \in [DirtyClients -> SUBSET Nat]
    BY <1>m, <2>1, <2>2, Zenon
  <2>5. OwedInv' /\ DirtyKept'
    BY <1>9, <1>MarkPageMarks, Zenon
  <2> QED BY <1>r, <2>1, <2>3, <2>4, <2>5, Zenon
<1>10. ASSUME NEW b \in Listed, NEW c \in DirtyClients, NEW align \in {1, BITS_PER_LONG},
              NEW start \in 0..(rblock[b].used_length - 1), TestAndClear(t, b, start, rblock[b].used_length - start, c, align)
       PROVE  RamInv'
  <2>1. PICK a, e \in Nat : /\ Covers(b, a) /\ a < e /\ e <= RoundUp(End(b), BITS_PER_LONG)
                            /\ ThrBecomes(t, "loadClear", b, a, e, thr[t].arr, {c})
    BY <1>10, <1>DoesTestAndClear, ZenonT(60)
  <2>2. UNCHANGED <<grace, freed, bitmaps, owed, mru_block>>
    BY <1>10, Zenon DEF TestAndClear
  <2>3. MruInv'
    BY <1>0, <1>m, <2>2, MruSame, Zenon
  <2>4. Looks(t, "loadClear", b, a) /\ Holds(t, "loadClear", thr[t].arr) /\ Works("loadClear", b, a, e, thr[t].arr)
    BY <2>1, Zenon DEF Looks, Holds, Works
  <2> QED BY <1>0, <1>m, <2>1, <2>2, <2>3, <2>4, GoesOn, Zenon
<1>11. CASE ClearPages(t)
  <2>1. PICK num \in Nat :
           /\ thr[t].addr + num \in Nat /\ thr[t].addr + num <= thr[t].upto
           /\ bitmaps' = WithoutMarks(thr[t].arr, thr[t].client, thr[t].addr..(thr[t].addr + num - 1))
           /\ owed' = [c \in DirtyClients |-> IF c \in thr[t].client THEN owed[c] \ (thr[t].addr..(thr[t].addr + num - 1)) ELSE owed[c]]
           /\ mru_block' = mru_block
           /\ \/ thr[t].addr + num = thr[t].upto /\ RcuUnlock(t)
              \/ /\ Covers(thr[t].cur, thr[t].addr + num) /\ thr[t].addr + num < thr[t].upto
                 /\ ThrBecomes(t, "clear", thr[t].cur, thr[t].addr + num, thr[t].upto, thr[t].arr, thr[t].client)
                 /\ UNCHANGED <<grace, freed>>
    BY <1>11, <1>DoesClearPages, ZenonT(60)
  <2>2. PICK pages : pages = thr[t].addr..(thr[t].addr + num - 1)
    BY Zenon
  <2>3. pages \in SUBSET Nat
    BY <1>m, <2>2, ThrFields, SMTT(30)
  <2>4. bitmaps' \in Seq(SUBSET Nat) /\ Len(bitmaps') = Len(bitmaps)
    BY <1>m, <2>1, <2>2, <2>3, MarksType, Zenon
  <2>5. owed' \in [DirtyClients -> SUBSET Nat]
    BY <1>m, <2>1, Zenon
  <2>6. OwedInv' /\ DirtyKept'
    BY <1>11, <1>ClearPagesMarks, Zenon
  <2>7. CASE RcuUnlock(t)
    BY <1>r, <2>1, <2>4, <2>5, <2>6, <2>7, ZenonT(60)
  <2>8. CASE /\ Covers(thr[t].cur, thr[t].addr + num) /\ thr[t].addr + num < thr[t].upto
             /\ ThrBecomes(t, "clear", thr[t].cur, thr[t].addr + num, thr[t].upto, thr[t].arr, thr[t].client)
             /\ UNCHANGED <<grace, freed>>
    <3>1. thr[t].at = "clear"
      BY <1>11, Zenon DEF ClearPages, ThrAt
    <3>2. /\ Works("clear", thr[t].cur, thr[t].addr + num, thr[t].upto, thr[t].arr)
          /\ Holds(t, "clear", thr[t].arr) /\ Looks(t, "clear", thr[t].cur, thr[t].addr + num)
      BY <1>w, <1>h, <2>8, <3>1, ZenonT(60) DEF Works, Holds, Looks
    <3>3. ListInv' /\ MainBlock' /\ SpaceInv' /\ ArrayInv'
      BY <1>0, <2>4, StillThere, Zenon
    <3>4. ThrTypeOK'
      BY <2>8, Zenon DEF ThrBecomes
    <3>5. RamTypeOK'
      BY <1>0, <1>m, <2>1, <2>4, <2>5, <3>4, TypeStays, ZenonT(60)
    <3>6. MruInv'
      BY <1>0, <1>m, <2>1, MruSame, ZenonT(60)
    <3>7. WorkInv' /\ GraceInv' /\ WalkInv'
      BY <1>0, <2>8, <3>2, <3>6, ThreadGoesOn, Zenon
    <3> QED BY <2>6, <3>3, <3>5, <3>7, Zenon
  <2> QED BY <2>1, <2>7, <2>8, ZenonT(60)
<1> QED BY <1>1, <1>2, <1>3, <1>4, <1>5, <1>6, <1>7, <1>8, <1>9, <1>10, <1>11, SMTT(30) DEF ThreadSteps

\* What a step makes of main.
MainBecomes(w, b, o, n, c) ==
  /\ MainTypeOK'
  /\ main'.at = w /\ main'.b = b /\ main'.old = o /\ main'.new = n /\ main'.todo = c

\* The states of the thread with the ramlist lock.
MainStates == [at : MainPlaces, b : 0..MaxBlocks, old : Nat, new : Nat, todo : SUBSET DirtyClients]
=============================================================================
