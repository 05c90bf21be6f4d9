----------------------------- MODULE CowSteps ------------------------------
(***************************************************************************)
(* The inductive invariant of copy-on-write, for any number of threads,    *)
(* blocks, units and locks, and the proof that every step of cow_handler,  *)
(* of uf_monitor and of final_cow keeps it.                                *)
(*                                                                         *)
(* RunInv holds while the process runs. ShowInv: every data block belongs  *)
(* to the block whose address its entry has, and what it contains is zeros *)
(* (not yet copied), the original or a store of that very unit; mappings,  *)
(* the nodes of the hash table and the blocks handlers work with lead to   *)
(* such data blocks only. ListedInv: at most one handler works on the      *)
(* blocks of one cow_lock, and a block that is copied in part has a node   *)
(* of the hash table unless its handler is still copying. The properties   *)
(* themselves (CowInvariant) are kept after the process has ended too:     *)
(* what is in the file no longer changes.                                  *)
(***************************************************************************)
EXTENDS Cow, TLAPS

\* What a unit can contain, and where handlers and the hash table can be.
Marks == {Zero} \cup (Blocks \X Units \X Nat)
Places == {"idle", "store", "uffd", "inList", "lock", "insert"} \cup Copying
Cows == [b : Blocks, blk : Nat, ent : Nat]
Buckets == 0..(BucketNum - 1)
EntryRecs == [addr : Blocks, bits : SUBSET Units]

\* The types of the variables the invariant speaks of.
CowTypes ==
  /\ maps \in [Blocks -> [Units -> {Absent, ReadOnly} \cup DataBlocks]]
  /\ data \in [DataBlocks -> [Units -> Marks]]
  /\ last \in [Blocks -> [Units -> Marks]]
  /\ entries \in Seq(EntryRecs) /\ Len(entries) <= MaxBlockNum
  /\ ht \in [Buckets -> Seq(Cows)]
  /\ pc \in [Threads -> Places]
  /\ tgt \in [Threads -> Blocks \X Units \X {0, 1}]
  /\ cow \in [Threads -> Cows]
  /\ buf \in [Threads -> Nat \X Marks]
  /\ monitor \in [pc : {"poll", "new", "map", "wake"}, b : Blocks, blk : Nat]

\* Data block k is a block of b; and its unit u shows what b may show there.
Holds(k, b) == k \in DOMAIN entries /\ entries[k].addr = b
Shows(b, u, x) == x = Original(b, u) \/ (x # Zero /\ x[1] = b /\ x[2] = u)
Good(k, b, u) == Holds(k, b) /\ Shows(b, u, data[k][u])

\* A data block without an entry is all zeros; one with an entry has units of
\* its block.
Filled ==
  /\ \A k \in DataBlocks, u \in Units : k \notin DOMAIN entries => data[k][u] = Zero
  /\ \A k \in DOMAIN entries, u \in Units : data[k][u] = Zero \/ Shows(entries[k].addr, u, data[k][u])
\* The guest reads a block of no layer through uf_monitor only, and a copied
\* unit from a data block of its own.
MapsInv ==
  \A b \in Blocks, u \in Units :
    /\ maps[b][u] \in DataBlocks => Good(maps[b][u], b, u)
    /\ maps[b][u] = Absent => b \in Missing
\* A node of the hash table knows the data block of its block.
TableInv == \A n \in Buckets : \A i \in DOMAIN ht[n] : Holds(ht[n][i].blk, ht[n][i].b)
\* uf_monitor serves blocks of no layer, with the data block it allocated.
MonitorInv ==
  /\ monitor.pc # "poll" => monitor.b \in Missing
  /\ monitor.pc = "map" => Holds(monitor.blk, monitor.b)

\* What thread t has copied so far.
ThreadInv(t) ==
  /\ pc[t] = "uffd" => tgt[t][1] \in Missing
  /\ pc[t] \in Copying => Holds(cow[t].blk, tgt[t][1])
  /\ pc[t] = "remap" => Good(cow[t].blk, tgt[t][1], tgt[t][2])
  /\ pc[t] \in {"read", "write"} =>
       buf[t][1] \in Units /\ \A u \in Units : u < buf[t][1] => Good(cow[t].blk, tgt[t][1], u)
  /\ pc[t] = "write" => Shows(tgt[t][1], buf[t][1], buf[t][2])
  /\ pc[t] = "remapAll" => \A u \in Units : Good(cow[t].blk, tgt[t][1], u)

\* One handler at a time works on a block, and it keeps the block known.
Locks(t) == pc[t] \in Copying \cup {"insert"}
Listed(b) == \E n \in Buckets : \E i \in DOMAIN ht[n] : ht[n][i].b = b
AllMapped(b) == \A u \in Units : maps[b][u] \in DataBlocks
InPart(b) == (\E u \in Units : maps[b][u] = ReadOnly) /\ (\E u \in Units : maps[b][u] \in DataBlocks)
LockInv == \A t, w \in Threads : t # w /\ Locks(t) /\ Locks(w) => LockNum(tgt[t][1]) # LockNum(tgt[w][1])
WorkInv(t) ==
  /\ pc[t] = "entry" => cow[t].b = tgt[t][1]
  /\ pc[t] \in {"copy", "remap", "bits"} => Listed(tgt[t][1])
  /\ pc[t] = "clear" => AllMapped(tgt[t][1])
PartInv == \A b \in Blocks : InPart(b) => Listed(b) \/ \E t \in Threads : pc[t] \in Copying /\ tgt[t][1] = b

\* What units show.
ShowInv == MapsInv /\ TableInv /\ MonitorInv /\ Filled /\ \A t \in Threads : ThreadInv(t)
\* Which blocks the hash table has.
ListedInv == LockInv /\ PartInv /\ \A t \in Threads : WorkInv(t)
\* The inductive invariant while the process runs.
RunInv == CowTypes /\ ShowInv /\ ListedInv

-----------------------------------------------------------------------------
(* What a unit may show.                                                   *)
\* A sequence is a function on 1..Len.
LEMMA SeqIs ==
  ASSUME NEW S, NEW s \in Seq(S)
  PROVE  Len(s) \in Nat /\ DOMAIN s = 1..Len(s) /\ s \in [1..Len(s) -> S]
OBVIOUS

\* The elements of two sequences joined.
LEMMA ConcatIs ==
  ASSUME NEW S, NEW s \in Seq(S), NEW f \in Seq(S)
  PROVE  /\ s \o f \in Seq(S) /\ Len(s \o f) = Len(s) + Len(f)
         /\ \A j \in 1..(Len(s) + Len(f)) : (s \o f)[j] = IF j <= Len(s) THEN s[j] ELSE f[j - Len(s)]
OBVIOUS

\* What the constants are.
LEMMA Sizes == /\ MaxBlockNum \in Nat /\ MaxPerSeg \in Nat \ {0} /\ BlockSize \in Nat /\ IntSpan \in Nat \ {0}
               /\ MaxThreadNum \in Nat \ {0} /\ BucketNum \in Nat \ {0} /\ RankThreshold \in Nat
               /\ NumBlocks \in Nat \ {0} /\ UnitsPerBlock \in Nat \ {0}
  BY CowAssumption, Zenon

\* A unit may show its original, which is zeros for blocks of no layer only.
LEMMA OriginalShows ==
  ASSUME NEW b \in Blocks, NEW u \in Units
  PROVE  Original(b, u) \in Marks /\ Shows(b, u, Original(b, u)) /\ (b \in Missing => Original(b, u) = Zero) /\ (b \notin Missing => Original(b, u) # Zero)
<1>1. <<b, u, 0>> \in Blocks \X Units \X Nat
  BY Zenon
<1>2. <<b, u, 0>> # <<>>
  BY Zenon
<1> QED BY <1>1, <1>2, Zenon DEF Original, Shows, Marks, Zero

\* A unit may show a store to it.
LEMMA StoredShows ==
  ASSUME NEW b \in Blocks, NEW u \in Units, last[b][u] \in Marks
  PROVE  Stored(b, u) \in Marks /\ Shows(b, u, Stored(b, u))
<1>1. PICK n \in Nat : Stored(b, u) = <<b, u, n>>
  <2>1. CASE last[b][u] = Zero
    BY <2>1, Zenon DEF Stored
  <2>2. CASE last[b][u] # Zero
    <3>1. last[b][u][3] + 1 \in Nat
      BY <2>2 DEF Marks
    <3> QED BY <2>2, <3>1, Zenon DEF Stored
  <2> QED BY <2>1, <2>2, Zenon
<1>2. <<b, u, n>> \in Blocks \X Units \X Nat /\ <<b, u, n>> # <<>> /\ <<b, u, n>>[1] = b /\ <<b, u, n>>[2] = u
  BY Zenon
<1> QED BY <1>1, <1>2, Zenon DEF Shows, Marks, Zero

\* What the guest reads of a unit is something the unit may show.
LEMMA ViewShows ==
  ASSUME CowTypes, ShowInv, NEW b \in Blocks, NEW u \in Units
  PROVE  View(b, u) \in Marks /\ Shows(b, u, View(b, u))
<1>1. CASE maps[b][u] \in DataBlocks
  <2>1. data[maps[b][u]][u] \in Marks
    BY <1>1 DEF CowTypes
  <2>2. Shows(b, u, data[maps[b][u]][u])
    BY <1>1, Zenon DEF ShowInv, MapsInv, Good
  <2> QED BY <1>1, <2>1, <2>2, Zenon DEF View
<1>2. CASE maps[b][u] \notin DataBlocks
  BY <1>2, OriginalShows, Zenon DEF View
<1> QED BY <1>1, <1>2, Zenon

\* The block, unit and node of a handler are blocks, units and nodes.
LEMMA Target ==
  ASSUME CowTypes, NEW t \in Threads
  PROVE  tgt[t][1] \in Blocks /\ tgt[t][2] \in Units /\ cow[t] \in Cows /\ buf[t][1] \in Nat /\ buf[t][2] \in Marks
<1>1. tgt[t] \in Blocks \X Units \X {0, 1} /\ buf[t] \in Nat \X Marks
  BY Zenon DEF CowTypes
<1> QED BY <1>1, Zenon DEF CowTypes

\* A block with an entry is a data block of the layer.
LEMMA HeldBlock ==
  ASSUME CowTypes, NEW k, NEW b, Holds(k, b)
  PROVE  k \in DataBlocks /\ b \in Blocks /\ k \in 1..Len(entries)
<1>1. entries \in Seq(EntryRecs) /\ Len(entries) <= MaxBlockNum /\ k \in DOMAIN entries /\ entries[k].addr = b
  BY Zenon DEF CowTypes, Holds
<1>2. k \in 1..Len(entries) /\ Len(entries) \in Nat
  BY <1>1, SeqIs, Zenon
<1>3. entries[k] \in EntryRecs
  BY <1>1, <1>2, SeqIs, Zenon
<1> QED BY <1>1, <1>2, <1>3, Sizes DEF DataBlocks, EntryRecs

\* A store of x to unit u of data block k.
LEMMA Written ==
  ASSUME CowTypes, NEW k \in DataBlocks, NEW u \in Units, NEW x \in Marks, data' = [data EXCEPT ![k][u] = x]
  PROVE  /\ data' \in [DataBlocks -> [Units -> Marks]]
         /\ data'[k][u] = x
         /\ \A j \in DataBlocks, w \in Units : j # k \/ w # u => data'[j][w] = data[j][w]
BY Zenon DEF CowTypes

\* What steps never take back: whose block a data block is, and what it shows.
AddrsKept == \A k, b : Holds(k, b) => Holds(k, b)'
GoodKept == \A k, b : \A u \in Units : Good(k, b, u) => Good(k, b, u)'

-----------------------------------------------------------------------------
(* What a step of one thread leaves alone.                                 *)
Kept == AddrsKept /\ GoodKept
OthersStay(t) ==
  \A w \in Threads : w # t => pc'[w] = pc[w] /\ tgt'[w] = tgt[w] /\ cow'[w] = cow[w] /\ buf'[w] = buf[w]

\* A thread moves on and the others stay where they are.
LEMMA Going ==
  ASSUME CowTypes, NEW t \in Threads, NEW from, NEW to \in Places, Goto(t, from, to)
  PROVE  pc' \in [Threads -> Places] /\ pc[t] = from /\ pc'[t] = to /\ \A w \in Threads : w # t => pc'[w] = pc[w]
BY Zenon DEF CowTypes, Goto

\* new_block: the next entry, with the block's address.
LEMMA NewKept ==
  \A b \in Blocks : \A m :
    CowTypes /\ Filled /\ ~OutOfRange /\ NewBlock(b) /\ data' = data /\ m = Len(entries) + 1
  => /\ entries' \in Seq(EntryRecs) /\ Len(entries') <= MaxBlockNum /\ Kept /\ Filled'
     /\ Holds(m, b)' /\ m \in DataBlocks /\ m \notin DOMAIN entries
     /\ \A u \in Units : data[m][u] = Zero
     /\ \A k, c : Holds(k, c)' => Holds(k, c) \/ (k = m /\ c = b)
<1>AppendIs.
  ASSUME NEW S, NEW s \in Seq(S), NEW x \in S
  PROVE  /\ Append(s, x) \in Seq(S) /\ Len(Append(s, x)) = Len(s) + 1
         /\ \A i \in 1..Len(s) : Append(s, x)[i] = s[i]
         /\ Append(s, x)[Len(s) + 1] = x
  BY <1>AppendIs
<1> SUFFICES ASSUME CowTypes, Filled, NEW b \in Blocks, ~OutOfRange, NewBlock(b), data' = data, NEW m,
                    m = Len(entries) + 1
             PROVE  /\ entries' \in Seq(EntryRecs) /\ Len(entries') <= MaxBlockNum /\ Kept /\ Filled'
                    /\ Holds(m, b)' /\ m \in DataBlocks /\ m \notin DOMAIN entries
                    /\ \A u \in Units : data[m][u] = Zero
                    /\ \A k, c : Holds(k, c)' => Holds(k, c) \/ (k = m /\ c = b)
  BY Zenon
<1> DEFINE n == Len(entries)
           r == [addr |-> b, bits |-> {}]
<1>1. entries \in Seq(EntryRecs) /\ n \in Nat /\ DOMAIN entries = 1..n /\ r \in EntryRecs
  BY SeqIs, Zenon DEF CowTypes, EntryRecs
<1>2. /\ entries' \in Seq(EntryRecs) /\ Len(entries') = m /\ DOMAIN entries' = 1..m /\ m = n + 1 /\ m \in Nat
      /\ \A i \in 1..n : entries'[i] = entries[i]
      /\ entries'[m] = r
  BY <1>1, <1>AppendIs, SeqIs DEF NewBlock
<1>3. m <= MaxBlockNum /\ m \in DataBlocks /\ m \notin DOMAIN entries
  BY <1>1, Sizes DEF OutOfRange, DataBlocks
<1>4. \A u \in Units : data[m][u] = Zero
  BY <1>3, Zenon DEF Filled
<1>5. \A k, c : Holds(k, c) => Holds(k, c)'
  BY <1>1, <1>2 DEF Holds
<1>6. \A k, c, u : Good(k, c, u) => Good(k, c, u)'
  BY <1>5 DEF Good, Shows, Original
<1>7. \A k, c : Holds(k, c)' => Holds(k, c) \/ (k = m /\ c = b)
  <2> SUFFICES ASSUME NEW k, NEW c, Holds(k, c)' PROVE Holds(k, c) \/ (k = m /\ c = b)
    BY Zenon
  <2>1. k \in 1..m /\ entries'[k].addr = c
    BY <1>2, Zenon DEF Holds
  <2>2. CASE k = m
    BY <2>1, <2>2, <1>2
  <2>3. CASE k \in 1..n
    BY <2>1, <2>3, <1>1, <1>2, Zenon DEF Holds
  <2> QED BY <1>1, <2>1, <2>2, <2>3
<1>8. Filled'
  <2>1. ASSUME NEW k \in DataBlocks, NEW u \in Units, k \notin DOMAIN entries' PROVE data'[k][u] = Zero
    <3>1. k \notin DOMAIN entries
      BY <2>1, <1>1, <1>2
    <3> QED BY <3>1, Zenon DEF Filled
  <2>2. ASSUME NEW k \in DOMAIN entries', NEW u \in Units PROVE data'[k][u] = Zero \/ Shows(entries'[k].addr, u, data'[k][u])
    <3>1. CASE k = m
      BY <3>1, <1>4, Zenon
    <3>2. CASE k \in 1..n
      BY <3>2, <1>1, <1>2, Zenon DEF Filled
    <3> QED BY <2>2, <3>1, <3>2, <1>1, <1>2
  <2> QED BY <2>1, <2>2, Zenon DEF Filled, Shows, Original
<1>9. Holds(m, b)'
  BY <1>1, <1>2 DEF Holds
<1> QED BY <1>1, <1>2, <1>3, <1>4, <1>5, <1>6, <1>7, <1>8, <1>9, Zenon DEF Kept, AddrsKept, GoodKept

\* Which blocks are listed depends on the hash table alone.
LEMMA ListedSame == ASSUME ht' = ht PROVE \A b : Listed(b)' <=> Listed(b)
BY Zenon DEF Listed

\* Which blocks are mapped depends on the mappings alone.
LEMMA MappedSame ==
  ASSUME maps' = maps PROVE \A b : (AllMapped(b)' <=> AllMapped(b)) /\ (InPart(b)' <=> InPart(b))
BY Zenon DEF AllMapped, InPart

-----------------------------------------------------------------------------
(* Steps outside the copy: no data, entry, mapping or bucket changes.      *)
Early == {"idle", "store", "uffd", "inList", "lock", "insert"}

\* A bucket before and after a handler works on it.
LEMMA BucketIs ==
  ASSUME CowTypes, NEW b \in Blocks
  PROVE  /\ BucketOf(b) \in Buckets /\ ht[BucketOf(b)] \in Seq(Cows) /\ Len(ht[BucketOf(b)]) \in Nat
         /\ DOMAIN ht[BucketOf(b)] = 1..Len(ht[BucketOf(b)])
<1>1. BucketOf(b) \in Buckets
  BY Sizes DEF BucketOf, Buckets, Blocks
<1>2. ht[BucketOf(b)] \in Seq(Cows)
  BY <1>1, Zenon DEF CowTypes
<1> QED BY <1>1, <1>2, SeqIs, Zenon

\* What the proofs need of the numbers; proved from the induction theorems where
\* the theorems are.
NatLeast == \A S \in SUBSET Nat : S # {} => \E r \in S : \A i \in S : r <= i

\* A set of ranks has a least one.
LEMMA LeastRank ==
  ASSUME NatLeast, NEW S \in SUBSET Nat, S # {}
  PROVE  \E r \in S : \A i \in S : r <= i
BY Zenon DEF NatLeast

\* search_ht finds a node of the block it is asked for.
LEMMA RankIs ==
  ASSUME NatLeast, CowTypes, NEW t \in Threads, Ranks(t) # {}
  PROVE  Min(Ranks(t)) \in DOMAIN Bucket(t) /\ Bucket(t)[Min(Ranks(t))].b = tgt[t][1] /\ Bucket(t)[Min(Ranks(t))] \in Cows
<1>1. DOMAIN Bucket(t) = 1..Len(Bucket(t)) /\ Bucket(t) \in Seq(Cows) /\ Len(Bucket(t)) \in Nat
  BY BucketIs, Target, Zenon DEF Bucket
<1>2. Ranks(t) \subseteq Nat
  BY <1>1 DEF Ranks
<1>3. \E r \in Ranks(t) : \A i \in Ranks(t) : r <= i
  BY <1>2, LeastRank, Zenon
<1>4. Min(Ranks(t)) \in Ranks(t)
  BY <1>3, Zenon DEF Min
<1> QED BY <1>1, <1>4, SeqIs, Zenon DEF Ranks

\* Two sequences joined.
LEMMA Joined ==
  ASSUME NEW S, NEW f \in Seq(S), NEW b \in Seq(S), NEW r, r = f \o b, NEW l, NEW m, l = Len(f), m = Len(b)
  PROVE  r \in Seq(S) /\ Len(r) = l + m /\ DOMAIN r = 1..(l + m) /\ \A j \in 1..(l + m) : r[j] = IF j <= l THEN f[j] ELSE b[j - l]
<1>1. /\ r \in Seq(S)
      /\ Len(r) = l + m
      /\ \A j \in 1..(l + m) : r[j] = IF j <= l THEN f[j] ELSE b[j - l]
  BY ConcatIs
<1> QED BY <1>1, SeqIs, Zenon

\* A sequence without its element i.
LEMMA Removed ==
  \A S : \A s \in Seq(S) : \A i \in 1..Len(s) : \A r :
    r = Unlink(s, i)
  => /\ r \in Seq(S)
     /\ \A j \in DOMAIN r : \E k \in DOMAIN s : r[j] = s[k]
     /\ \A k \in DOMAIN s : k # i => \E j \in DOMAIN r : r[j] = s[k]
\* The part of a sequence from a to z.
<1>Part.
  \A S : \A s \in Seq(S) : \A a \in Nat : \A z \in Nat : \A p :
    1 <= a /\ a <= z + 1 /\ z <= Len(s) /\ p = SubSeq(s, a, z)
  => p \in Seq(S) /\ Len(p) = z - a + 1 /\ \A j \in 1..(z - a + 1) : p[j] = s[a + j - 1]
  <2>SubSeqIs.
    ASSUME NEW S, NEW s \in Seq(S), NEW a \in Int, NEW z \in Int, \A k \in a..z : s[k] \in S
    PROVE  /\ SubSeq(s, a, z) \in Seq(S)
           /\ Len(SubSeq(s, a, z)) = (IF a <= z THEN z - a + 1 ELSE 0)
           /\ \A j \in 1..(z - a + 1) : SubSeq(s, a, z)[j] = s[a + j - 1]
    BY <2>SubSeqIs
  <2> SUFFICES ASSUME NEW S, NEW s \in Seq(S), NEW a \in Nat, NEW z \in Nat, 1 <= a, a <= z + 1, z <= Len(s), NEW p,
                      p = SubSeq(s, a, z)
               PROVE  p \in Seq(S) /\ Len(p) = z - a + 1 /\ \A j \in 1..(z - a + 1) : p[j] = s[a + j - 1]
    OBVIOUS
  <2>1. Len(s) \in Nat /\ a \in Int /\ z \in Int
    BY SeqIs
  <2>2. \A k \in a..z : s[k] \in S
    <3> TAKE k \in a..z
    <3>1. k \in 1..Len(s)
      BY <2>1
    <3> QED BY <3>1, SeqIs, Zenon
  <2>3. /\ p \in Seq(S)
        /\ Len(p) = (IF a <= z THEN z - a + 1 ELSE 0)
        /\ \A j \in 1..(z - a + 1) : p[j] = s[a + j - 1]
    BY <2>1, <2>2, <2>SubSeqIs
  <2>4. (IF a <= z THEN z - a + 1 ELSE 0) = z - a + 1
    BY <2>1
  <2> QED BY <2>3, <2>4, Zenon
<1> SUFFICES ASSUME NEW S, NEW s \in Seq(S), NEW i \in 1..Len(s), NEW r, r = Unlink(s, i)
             PROVE  /\ r \in Seq(S)
                    /\ \A j \in DOMAIN r : \E k \in DOMAIN s : r[j] = s[k]
                    /\ \A k \in DOMAIN s : k # i => \E j \in DOMAIN r : r[j] = s[k]
  BY Zenon
<1>1. PICK n \in Nat : n = Len(s)
  BY SeqIs, Zenon
<1>2. DOMAIN s = 1..n /\ i \in 1..n
  BY <1>1, SeqIs, Zenon
<1>3. PICK h \in Nat : h = i - 1
  BY <1>2
<1>4. PICK f : f = SubSeq(s, 1, h)
  BY Zenon
<1>5. PICK b : b = SubSeq(s, i + 1, n)
  BY Zenon
<1>6. f \in Seq(S) /\ Len(f) = h /\ \A j \in 1..h : f[j] = s[j]
  <2>1. 1 <= h + 1 /\ h <= Len(s) /\ h - 1 + 1 = h /\ \A j \in 1..h : 1 + j - 1 = j
    BY <1>1, <1>2, <1>3
  <2>2. f \in Seq(S) /\ Len(f) = h - 1 + 1 /\ \A j \in 1..(h - 1 + 1) : f[j] = s[1 + j - 1]
    BY <1>4, <2>1, <1>Part
  <2> QED BY <2>1, <2>2, Zenon
<1>7. b \in Seq(S) /\ Len(b) = n - i /\ \A j \in 1..(n - i) : b[j] = s[i + j]
  <2>1. PICK a \in Nat : a = i + 1
    BY <1>2
  <2>2. 1 <= a /\ a <= n + 1 /\ n <= Len(s) /\ n - a + 1 = n - i /\ \A j \in 1..(n - i) : a + j - 1 = i + j
    BY <1>1, <1>2, <2>1
  <2>3. b \in Seq(S) /\ Len(b) = n - a + 1 /\ \A j \in 1..(n - a + 1) : b[j] = s[a + j - 1]
    BY <1>5, <2>1, <2>2, <1>Part
  <2> QED BY <2>2, <2>3, Zenon
<1>8. r = f \o b
  BY <1>1, <1>3, <1>4, <1>5, Zenon DEF Unlink
<1>9. r \in Seq(S) /\ DOMAIN r = 1..(h + (n - i)) /\ \A j \in 1..(h + (n - i)) : r[j] = IF j <= h THEN f[j] ELSE b[j - h]
  <2>1. PICK m : m = n - i
    BY Zenon
  <2>2. h = Len(f) /\ m = Len(b)
    BY <2>1, <1>6, <1>7, Zenon
  <2>3. f \in Seq(S) /\ b \in Seq(S)
    BY <1>6, <1>7, Zenon
  <2>4. r \in Seq(S) /\ DOMAIN r = 1..(h + m) /\ \A j \in 1..(h + m) : r[j] = IF j <= h THEN f[j] ELSE b[j - h]
    BY <2>2, <2>3, <1>8, Joined
  <2> QED BY <2>1, <2>4, Zenon
<1>10. ASSUME NEW j \in DOMAIN r PROVE \E k \in DOMAIN s : r[j] = s[k]
  <2>1. CASE j <= h
    <3>1. j \in 1..h /\ j \in 1..n /\ r[j] = f[j]
      BY <1>2, <1>3, <1>9, <2>1
    <3> QED BY <3>1, <1>2, <1>6, Zenon
  <2>2. CASE ~(j <= h)
    <3>1. j - h \in 1..(n - i) /\ i + (j - h) \in 1..n /\ r[j] = b[j - h]
      BY <1>2, <1>3, <1>9, <2>2
    <3> QED BY <3>1, <1>2, <1>7, Zenon
  <2> QED BY <2>1, <2>2, Zenon
<1>11. ASSUME NEW k \in DOMAIN s, k # i PROVE \E j \in DOMAIN r : r[j] = s[k]
  <2>1. CASE k < i
    <3>1. k \in DOMAIN r /\ k \in 1..h /\ k <= h
      BY <1>2, <1>3, <1>9, <2>1
    <3>2. r[k] = f[k]
      BY <3>1, <1>9, Zenon
    <3> QED BY <3>1, <3>2, <1>6, Zenon
  <2>2. CASE k > i
    <3>1. PICK j \in Nat : j = k - 1
      BY <1>2, <2>2
    <3>2. j \in 1..(h + (n - i)) /\ ~(j <= h) /\ j - h \in 1..(n - i) /\ i + (j - h) = k
      <4>1. k \in 1..n /\ i \in 1..n
        BY <1>2, Zenon
      <4> QED BY <4>1, <1>3, <2>2, <3>1
    <3>3. r[j] = b[j - h] /\ j \in DOMAIN r
      BY <3>2, <1>9, Zenon
    <3>4. b[j - h] = s[k]
      BY <3>2, <1>7, Zenon
    <3> QED BY <3>2, <3>3, <3>4, Zenon
  <2> QED BY <1>11, <1>2, <2>1, <2>2
<1> QED BY <1>9, <1>10, <1>11, Zenon

\* What the three kinds of insertion have in common.
LEMMA InsertEffects ==
  ASSUME RunInv, NEW t \in Threads, NEW to \in {"read", "copy", "entry"}, Goto(t, "insert", to),
         UNCHANGED <<maps, data, last, tgt, monitor>>
  PROVE  /\ CowTypes /\ ShowInv /\ ListedInv /\ tgt[t][1] \in Blocks /\ Locks(t)
         /\ pc' \in [Threads -> Places] /\ pc'[t] = to /\ \A w \in Threads : w # t => pc'[w] = pc[w]
<1>1. CowTypes /\ ShowInv /\ ListedInv
  BY Zenon DEF RunInv
<1>2. /\ pc' \in [Threads -> Places] /\ pc[t] = "insert" /\ pc'[t] = to
      /\ \A w \in Threads : w # t => pc'[w] = pc[w]
  BY <1>1, Going, Zenon DEF Places, Copying
<1> QED BY <1>1, <1>2, Target, Zenon DEF Locks

\* What a handler at work knows.
LEMMA AtWork ==
  ASSUME RunInv, NEW t \in Threads, pc[t] \in Copying
  PROVE  /\ CowTypes /\ ShowInv /\ ListedInv /\ ThreadInv(t) /\ WorkInv(t)
         /\ tgt[t][1] \in Blocks /\ tgt[t][2] \in Units /\ Holds(cow[t].blk, tgt[t][1]) /\ cow[t].blk \in DataBlocks
<1>1. CowTypes /\ ShowInv /\ ListedInv
  BY Zenon DEF RunInv
<1>2. ThreadInv(t) /\ WorkInv(t)
  BY <1>1, Zenon DEF ShowInv, ListedInv
<1>3. Holds(cow[t].blk, tgt[t][1])
  BY <1>2, Zenon DEF ThreadInv
<1> QED BY <1>1, <1>2, <1>3, Target, HeldBlock, Zenon

\* A set of entries has a last one.
LEMMA Largest ==
  ASSUME NatLeast, NEW n \in Nat, NEW S \in SUBSET (1..n), S # {}
  PROVE  Max(S) \in S
<1> DEFINE D == {i \in 0..n : n - i \in S}
<1>1. D \in SUBSET Nat
  OBVIOUS
<1>2. D # {}
  <2>1. PICK k \in S : TRUE
    BY Zenon
  <2>2. k \in 1..n
    BY <2>1, Zenon
  <2>3. n - k \in 0..n /\ n - (n - k) = k
    BY <2>2
  <2> QED BY <2>1, <2>3, Zenon
<1>3. PICK r \in D : \A i \in D : r <= i
  BY <1>1, <1>2, LeastRank, Zenon
<1>4. PICK m : m = n - r
  BY Zenon
<1>5. m \in S /\ r \in 0..n
  BY <1>3, <1>4, Zenon
<1>6. \A k \in S : m >= k
  <2> TAKE k \in S
  <2>1. k \in 1..n
    BY Zenon
  <2>2. n - k \in 0..n /\ n - (n - k) = k
    BY <2>1
  <2>3. r <= n - k
    BY <2>2, <1>3, Zenon
  <2> QED BY <2>1, <2>3, <1>4, <1>5
<1> QED BY <1>5, <1>6, Zenon DEF Max

\* What the next fmmap maps a block to: the block of one of its entries.
LEMMA RemappedIs ==
  ASSUME NatLeast, CowTypes, NEW b, NEW u
  PROVE  \/ Remapped(b, u) = Original(b, u) /\ \A k : ~Holds(k, b)
         \/ \E k : Holds(k, b) /\ Remapped(b, u) = data[k][u]
<1> DEFINE mine == {k \in DOMAIN entries : entries[k].addr = b}
<1>1. PICK n \in Nat : n = Len(entries) /\ DOMAIN entries = 1..n
  BY SeqIs, Zenon DEF CowTypes
<1>2. CASE mine = {}
  <2>1. Remapped(b, u) = Original(b, u)
    BY <1>2, Zenon DEF Remapped
  <2>2. \A k : ~Holds(k, b)
    BY <1>2, Zenon DEF Holds
  <2> QED BY <2>1, <2>2, Zenon
<1>3. CASE mine # {}
  <2>1. PICK k : k = Max(mine)
    BY Zenon
  <2>2. mine \in SUBSET (1..n)
    BY <1>1, Zenon
  <2>3. k \in mine
    <3> HIDE DEF mine
    <3> QED BY <2>1, <2>2, <1>3, Largest, Zenon
  <2>4. Remapped(b, u) = data[k][u]
    BY <2>1, <1>3, Zenon DEF Remapped
  <2>5. Holds(k, b)
    BY <2>3, Zenon DEF Holds
  <2> QED BY <2>4, <2>5, Zenon
<1> QED BY <1>2, <1>3, Zenon

\* What a unit may show is zeros or carries its block and unit.
LEMMA OwnOrZero ==
  ASSUME NEW b, NEW u, NEW x, x = Zero \/ Shows(b, u, x)
  PROVE  x = Zero \/ (x[1] = b /\ x[2] = u)
<1>1. <<b, u, 0>>[1] = b /\ <<b, u, 0>>[2] = u
  BY Zenon
<1> QED BY <1>1, Zenon DEF Shows, Original

\* The invariant implies that units show nothing foreign, before and after the
\* next fmmap.
LEMMA Foreign == ASSUME NatLeast, RunInv PROVE NothingForeign
<1>1. CowTypes /\ ShowInv
  BY Zenon DEF RunInv
<1>2. ASSUME NEW b \in Blocks, NEW u \in Units
      PROVE  /\ View(b, u) = Original(b, u) \/ (View(b, u) # Zero /\ View(b, u)[1] = b /\ View(b, u)[2] = u)
             /\ Remapped(b, u) = Zero \/ (Remapped(b, u)[1] = b /\ Remapped(b, u)[2] = u)
  <2>1. Shows(b, u, View(b, u))
    BY <1>1, ViewShows, Zenon
  <2>2. Remapped(b, u) = Zero \/ Shows(b, u, Remapped(b, u))
    <3>1. CASE Remapped(b, u) = Original(b, u)
      BY <3>1, OriginalShows, Zenon
    <3>2. ASSUME NEW k, Holds(k, b), Remapped(b, u) = data[k][u] PROVE Remapped(b, u) = Zero \/ Shows(b, u, Remapped(b, u))
      BY <3>2, <1>1, Zenon DEF ShowInv, Filled, Holds
    <3> QED BY <3>1, <3>2, <1>1, RemappedIs, Zenon
  <2>3. Remapped(b, u) = Zero \/ (Remapped(b, u)[1] = b /\ Remapped(b, u)[2] = u)
    BY <2>2, OwnOrZero, Zenon
  <2> QED BY <2>1, <2>3, Zenon DEF Shows
<1> QED BY <1>2, Zenon DEF NothingForeign

\* The invariant implies that a block copied in part is listed, or a handler is
\* at work on it.
LEMMA Partly ==
    RunInv
  => UncompletedListed
<1>ListedIn.
  ASSUME CowTypes, NEW b
  PROVE  Listed(b) <=> \E e \in Uncompleted : e.b = b
  <2> USE <1>ListedIn
  <2>1. DOMAIN ht = Buckets
    BY Zenon DEF CowTypes
  <2>2. ASSUME Listed(b) PROVE \E e \in Uncompleted : e.b = b
    <3>1. PICK n \in Buckets : \E i \in DOMAIN ht[n] : ht[n][i].b = b
      BY <2>2, Zenon DEF Listed
    <3>2. PICK i \in DOMAIN ht[n] : ht[n][i].b = b
      BY <3>1, Zenon
    <3>3. ht[n][i] \in Range(ht[n]) /\ n \in DOMAIN ht
      BY <2>1, Zenon DEF Range
    <3> QED BY <3>2, <3>3, Zenon DEF Uncompleted
  <2>3. ASSUME NEW e \in Uncompleted, e.b = b PROVE Listed(b)
    <3>1. PICK n \in DOMAIN ht : e \in Range(ht[n])
      BY Zenon DEF Uncompleted
    <3>2. PICK i \in DOMAIN ht[n] : e = ht[n][i]
      BY <3>1, Zenon DEF Range
    <3> QED BY <3>2, <2>1, <2>3, Zenon DEF Listed
  <2> QED BY <2>2, <2>3, Zenon
<1> SUFFICES ASSUME RunInv
             PROVE  UncompletedListed
  BY Zenon
<1>1. CowTypes /\ PartInv
  BY Zenon DEF RunInv, ListedInv
<1>2. \A b : Listed(b) <=> \E e \in Uncompleted : e.b = b
  BY <1>1, <1>ListedIn, Zenon
<1> QED BY <1>1, <1>2, Zenon DEF PartInv, InPart, UncompletedListed

\* What holds always: the invariant while the process runs, and the two
\* properties even after it.
CowInvariant == (process = "running" => RunInv) /\ NothingForeign /\ UncompletedListed

\* The invariant holds when the image has just been mapped.
LEMMA RunInit == ASSUME Init PROVE RunInv
<1>1. CowTypes
  <2>1. /\ maps = [b \in Blocks |-> [u \in Units |-> IF b \in Missing THEN Absent ELSE ReadOnly]]
        /\ data = [k \in DataBlocks |-> [u \in Units |-> Zero]] /\ entries = <<>>
        /\ last = [b \in Blocks |-> [u \in Units |-> Original(b, u)]]
        /\ ht = [n \in Buckets |-> <<>>]
        /\ pc = [t \in Threads |-> "idle"] /\ tgt = [t \in Threads |-> <<0, 0, 0>>]
        /\ cow = [t \in Threads |-> [b |-> 0, blk |-> 0, ent |-> 0]] /\ buf = [t \in Threads |-> <<0, Zero>>]
        /\ monitor = [pc |-> "poll", b |-> 0, blk |-> 0]
    BY Zenon DEF Init, Buckets
  <2>2. 0 \in Blocks /\ 0 \in Units
    BY Sizes DEF Blocks, Units
  <2>3. maps \in [Blocks -> [Units -> {Absent, ReadOnly} \cup DataBlocks]] /\ data \in [DataBlocks -> [Units -> Marks]]
    BY <2>1, Zenon DEF Marks
  <2>4. last \in [Blocks -> [Units -> Marks]]
    BY <2>1, OriginalShows, Zenon
  <2>5. entries \in Seq(EntryRecs) /\ Len(entries) <= MaxBlockNum
    BY <2>1, Sizes
  <2>6. ht \in [Buckets -> Seq(Cows)] /\ pc \in [Threads -> Places]
    BY <2>1 DEF Places
  <2>7. tgt \in [Threads -> Blocks \X Units \X {0, 1}] /\ buf \in [Threads -> Nat \X Marks]
    BY <2>1, <2>2, Zenon DEF Marks
  <2>8. cow \in [Threads -> Cows] /\ monitor \in [pc : {"poll", "new", "map", "wake"}, b : Blocks, blk : Nat]
    BY <2>1, <2>2, Zenon DEF Cows
  <2> QED BY <2>3, <2>4, <2>5, <2>6, <2>7, <2>8, Zenon DEF CowTypes
<1>2. /\ \A t \in Threads : pc[t] = "idle"
      /\ \A b \in Blocks, u \in Units : maps[b][u] = IF b \in Missing THEN Absent ELSE ReadOnly
      /\ \A k \in DataBlocks, u \in Units : data[k][u] = Zero
      /\ DOMAIN entries = {} /\ monitor.pc = "poll" /\ \A n \in Buckets : DOMAIN ht[n] = {}
  BY DEF Init, Buckets
<1>3. Absent \notin DataBlocks /\ ReadOnly \notin DataBlocks /\ Absent # ReadOnly
  BY Sizes DEF Absent, ReadOnly, DataBlocks
<1>4. ShowInv
  <2>1. MapsInv
    BY <1>2, <1>3, Zenon DEF MapsInv
  <2>2. TableInv /\ MonitorInv /\ Filled
    BY <1>2, Zenon DEF TableInv, MonitorInv, Filled
  <2>3. \A t \in Threads : ThreadInv(t)
    BY <1>2, Zenon DEF ThreadInv, Copying
  <2> QED BY <2>1, <2>2, <2>3, Zenon DEF ShowInv
<1>5. ListedInv
  <2>1. LockInv /\ \A t \in Threads : WorkInv(t)
    BY <1>2, Zenon DEF LockInv, Locks, WorkInv, Copying
  <2>2. PartInv
    BY <1>2, <1>3, Zenon DEF PartInv, InPart
  <2> QED BY <2>1, <2>2, Zenon DEF ListedInv
<1> QED BY <1>1, <1>4, <1>5, Zenon DEF RunInv

\* Every step of the handlers, of uf_monitor, of the guest and of fmunmap keeps
\* the invariant.
LEMMA CowNext ==
    NatLeast /\ CowInvariant /\ [Next]_vars
  => CowInvariant'
<1>SameKept.
  ASSUME UNCHANGED <<data, entries>>
  PROVE  Kept /\ (Filled => Filled')
  <2> USE <1>SameKept
  <2>1. \A k, b : Holds(k, b)' <=> Holds(k, b)
    BY Zenon DEF Holds
  <2>2. \A k, b, u : Good(k, b, u)' <=> Good(k, b, u)
    BY <2>1 DEF Good, Shows, Original
  <2>3. Filled => Filled'
    BY DEF Filled, Shows, Original
  <2> QED BY <2>1, <2>2, <2>3, Zenon DEF Kept, AddrsKept, GoodKept
<1>ThreadKeeps.
  ASSUME NEW w \in Threads, ThreadInv(w), Kept, pc'[w] = pc[w], tgt'[w] = tgt[w], cow'[w] = cow[w], buf'[w] = buf[w],
         tgt[w][2] \in Units
  PROVE  ThreadInv(w)'
  <2> USE <1>ThreadKeeps
  <2>1. \A k, b : Holds(k, b) => Holds(k, b)'
    BY Zenon DEF Kept, AddrsKept
  <2>2. \A k, b : \A u \in Units : Good(k, b, u) => Good(k, b, u)'
    BY Zenon DEF Kept, GoodKept
  <2>3. /\ (pc[w] = "uffd" => tgt[w][1] \in Missing)'
        /\ (pc[w] \in Copying => Holds(cow[w].blk, tgt[w][1]))'
    BY <2>1, Zenon DEF ThreadInv
  <2>4. (pc[w] = "remap" => Good(cow[w].blk, tgt[w][1], tgt[w][2]))'
    BY <2>2, Zenon DEF ThreadInv
  <2>5. (pc[w] \in {"read", "write"} =>
         buf[w][1] \in Units /\ \A u \in Units : u < buf[w][1] => Good(cow[w].blk, tgt[w][1], u))'
    BY <2>2, Zenon DEF ThreadInv
  <2>6. (pc[w] = "remapAll" => \A u \in Units : Good(cow[w].blk, tgt[w][1], u))'
    BY <2>2, Zenon DEF ThreadInv
  <2>7. (pc[w] = "write" => Shows(tgt[w][1], buf[w][1], buf[w][2]))'
    BY Zenon DEF ThreadInv, Shows, Original
  <2> QED BY <2>3, <2>4, <2>5, <2>6, <2>7, Zenon DEF ThreadInv
<1>ThreadsKeep.
  ASSUME CowTypes, ShowInv, NEW t \in Threads, OthersStay(t), Kept, ThreadInv(t)'
  PROVE  \A w \in Threads : ThreadInv(w)'
  <2> USE <1>ThreadsKeep
  <2> TAKE w \in Threads
  <2>1. CASE w = t
    BY <2>1, Zenon
  <2>2. CASE w # t
    <3>1. pc'[w] = pc[w] /\ tgt'[w] = tgt[w] /\ cow'[w] = cow[w] /\ buf'[w] = buf[w]
      BY <2>2, Zenon DEF OthersStay
    <3>2. ThreadInv(w)
      BY Zenon DEF ShowInv
    <3>3. tgt[w][2] \in Units
      BY Target, Zenon
    <3> QED BY <3>1, <3>2, <3>3, <1>ThreadKeeps, Zenon
  <2> QED BY <2>1, <2>2, Zenon
<1>MapsKeep.
  ASSUME CowTypes, ShowInv, Kept, maps' = maps
  PROVE  MapsInv'
  <2> USE <1>MapsKeep
  <2>1. \A k, b : \A u \in Units : Good(k, b, u) => Good(k, b, u)'
    BY Zenon DEF Kept, GoodKept
  <2> QED BY <2>1, Zenon DEF ShowInv, MapsInv
<1>TableKeep.
  ASSUME ShowInv, Kept, ht' = ht
  PROVE  TableInv'
  <2> USE <1>TableKeep
  <2>1. \A k, b : Holds(k, b) => Holds(k, b)'
    BY Zenon DEF Kept, AddrsKept
  <2> QED BY <2>1, Zenon DEF ShowInv, TableInv
<1>MonitorKeep.
  ASSUME ShowInv, Kept, monitor' = monitor
  PROVE  MonitorInv'
  <2> USE <1>MonitorKeep
  <2>1. \A k, b : Holds(k, b) => Holds(k, b)'
    BY Zenon DEF Kept, AddrsKept
  <2> QED BY <2>1, Zenon DEF ShowInv, MonitorInv
\* A thread that does not take a lock keeps the locks apart.
<1>LocksKeep.
  ASSUME LockInv, NEW t \in Threads, OthersStay(t), Locks(t)' => Locks(t) /\ tgt'[t] = tgt[t]
  PROVE  LockInv'
  <2> USE <1>LocksKeep
  <2> SUFFICES ASSUME NEW v \in Threads, NEW w \in Threads, v # w, Locks(v)', Locks(w)'
               PROVE  LockNum(tgt'[v][1]) # LockNum(tgt'[w][1])
    BY Zenon DEF LockInv, LockNum
  <2>1. ASSUME NEW x \in Threads, Locks(x)' PROVE Locks(x) /\ tgt'[x] = tgt[x]
    <3>1. CASE x = t
      BY <2>1, <3>1, Zenon
    <3>2. CASE x # t
      BY <2>1, <3>2, Zenon DEF OthersStay, Locks
    <3> QED BY <3>1, <3>2, Zenon
  <2>2. Locks(v) /\ Locks(w) /\ tgt'[v] = tgt[v] /\ tgt'[w] = tgt[w]
    BY <2>1, Zenon
  <2> QED BY <2>2, Zenon DEF LockInv
<1>WorkKeeps.
  ASSUME CowTypes, ListedInv, NEW t \in Threads, OthersStay(t), WorkInv(t)',
         \A w \in Threads : \A b \in Blocks : w # t /\ Locks(w) /\ tgt[w][1] = b =>
           (Listed(b) => Listed(b)') /\ (AllMapped(b) => AllMapped(b)')
  PROVE  \A w \in Threads : WorkInv(w)'
  <2> USE <1>WorkKeeps
  <2> TAKE w \in Threads
  <2>1. CASE w = t
    BY <2>1, Zenon
  <2>2. CASE w # t
    <3>1. pc'[w] = pc[w] /\ tgt'[w] = tgt[w] /\ cow'[w] = cow[w] /\ WorkInv(w)
      BY <2>2, Zenon DEF OthersStay, ListedInv
    <3>2. PICK b \in Blocks : b = tgt[w][1]
      BY Target, Zenon
    <3>3. pc[w] \in {"copy", "remap", "bits", "clear"} => (Listed(b) => Listed(b)') /\ (AllMapped(b) => AllMapped(b)')
      BY <2>2, <3>2, Zenon DEF Locks, Copying
    <3>4. /\ pc[w] \in {"copy", "remap", "bits"} => Listed(b)
          /\ pc[w] = "clear" => AllMapped(b)
      BY <3>1, <3>2, Zenon DEF WorkInv
    <3>5. /\ pc'[w] \in {"copy", "remap", "bits"} => Listed(b)'
          /\ pc'[w] = "clear" => AllMapped(b)'
      BY <3>1, <3>3, <3>4, Zenon
    <3> QED BY <3>1, <3>2, <3>5 DEF WorkInv, Listed, AllMapped
  <2> QED BY <2>1, <2>2, Zenon
<1>EarlyStep.
  ASSUME RunInv, NEW t \in Threads, NEW from \in Early, NEW to \in Early, Goto(t, from, to),
         tgt' \in [Threads -> Blocks \X Units \X {0, 1}], \A w \in Threads : w # t => tgt'[w] = tgt[w],
         to = "uffd" => tgt'[t][1] \in Missing, to = "insert" => tgt' = tgt /\ CowLockFree(LockNum(tgt[t][1])),
         UNCHANGED <<maps, data, entries, last, ht, cow, buf, monitor>>
  PROVE  RunInv'
  <2> USE <1>EarlyStep
  <2>1. CowTypes /\ ShowInv /\ ListedInv
    BY Zenon DEF RunInv
  <2>2. pc' \in [Threads -> Places] /\ pc[t] = from /\ pc'[t] = to /\ \A w \in Threads : w # t => pc'[w] = pc[w]
    BY <2>1, Going, Zenon DEF Places, Early
  <2>3. OthersStay(t)
    BY <2>2, Zenon DEF OthersStay
  <2>4. Kept /\ Filled'
    BY <2>1, <1>SameKept, Zenon DEF ShowInv
  <2>5. ThreadInv(t)'
    BY <2>2, Zenon DEF ThreadInv, Early, Copying
  <2>6. \A w \in Threads : ThreadInv(w)'
    BY <2>1, <2>3, <2>4, <2>5, <1>ThreadsKeep, Zenon
  <2>7. MapsInv' /\ TableInv' /\ MonitorInv'
    BY <2>1, <2>4, <1>MapsKeep, <1>TableKeep, <1>MonitorKeep, Zenon
  <2>8. CowTypes'
    BY <2>1, <2>2, Zenon DEF CowTypes
  <2>9. \A b : (Listed(b)' <=> Listed(b)) /\ (AllMapped(b)' <=> AllMapped(b)) /\ (InPart(b)' <=> InPart(b))
    BY ListedSame, MappedSame, Zenon
  <2>10. \A w \in Threads : WorkInv(w)'
    <3>1. WorkInv(t)'
      BY <2>2, Zenon DEF WorkInv, Early
    <3> QED BY <3>1, <2>1, <2>3, <2>9, <1>WorkKeeps, Zenon
  <2>11. PartInv'
    <3> SUFFICES ASSUME NEW b \in Blocks, InPart(b)'
                 PROVE  Listed(b)' \/ \E w \in Threads : pc'[w] \in Copying /\ tgt'[w][1] = b
      BY Zenon DEF PartInv
    <3>1. CASE Listed(b)
      BY <3>1, <2>9, Zenon
    <3>2. CASE ~Listed(b)
      <4>1. PICK w \in Threads : pc[w] \in Copying /\ tgt[w][1] = b
        BY <3>2, <2>1, <2>9, Zenon DEF ListedInv, PartInv
      <4>2. w # t
        BY <4>1, <2>2, Zenon DEF Early, Copying
      <4> QED BY <4>1, <4>2, <2>3, Zenon DEF OthersStay
    <3> QED BY <3>1, <3>2, Zenon
  <2>12. LockInv'
    <3>1. CASE to # "insert"
      <4>1. ~Locks(t)'
        BY <3>1, <2>2, Zenon DEF Locks, Early, Copying
      <4> QED BY <4>1, <2>1, <2>3, <1>LocksKeep, Zenon DEF ListedInv
    <3>2. CASE to = "insert"
      <4>1. \A w \in Threads : Locks(w) => LockNum(tgt[w][1]) # LockNum(tgt[t][1])
        BY <3>2, Zenon DEF CowLockFree, Locks
      <4> SUFFICES ASSUME NEW v \in Threads, NEW w \in Threads, v # w, Locks(v)', Locks(w)'
                   PROVE  LockNum(tgt'[v][1]) # LockNum(tgt'[w][1])
        BY Zenon DEF LockInv, LockNum
      <4>2. tgt' = tgt
        BY <3>2, Zenon
      <4>3. (v # t => Locks(v)) /\ (w # t => Locks(w))
        BY <2>3, Zenon DEF OthersStay, Locks
      <4>4. CASE v # t /\ w # t
        BY <4>2, <4>3, <4>4, <2>1, Zenon DEF ListedInv, LockInv
      <4>5. CASE v = t \/ w = t
        BY <4>1, <4>2, <4>3, <4>5, Zenon
      <4> QED BY <4>4, <4>5, Zenon
    <3> QED BY <3>1, <3>2, Zenon
  <2> QED BY <2>4, <2>6, <2>7, <2>8, <2>10, <2>11, <2>12, Zenon DEF RunInv, ShowInv, ListedInv
<1>BeginStep.
  ASSUME RunInv, NEW t \in Threads, NEW a \in Addresses(t), Begin(t, a)
  PROVE  RunInv'
  <2> USE <1>BeginStep
  <2>1. CowTypes /\ tgt \in [Threads -> Blocks \X Units \X {0, 1}]
    BY Zenon DEF RunInv, CowTypes
  <2>2. a \in Blocks \X Units \X {0, 1}
    <3>1. Touches[t] \subseteq Blocks
      BY CowAssumption, Zenon DEF Blocks
    <3> QED BY <3>1, Zenon DEF Addresses
  <2>3. Goto(t, "idle", "store") /\ tgt' = [tgt EXCEPT ![t] = a] /\ UNCHANGED <<maps, data, entries, last, ht, cow, buf, monitor>>
    BY Zenon DEF Begin, memVars, cowVars
  <2>4. tgt' \in [Threads -> Blocks \X Units \X {0, 1}] /\ \A w \in Threads : w # t => tgt'[w] = tgt[w]
    BY <2>1, <2>2, <2>3, Zenon
  <2> QED BY <2>3, <2>4, <1>EarlyStep, Zenon DEF Early
\* One mapping of all the units of a block.
<1>MapBlock.
  ASSUME CowTypes, ShowInv, NEW b \in Blocks, NEW k, \A u \in Units : Good(k, b, u),
         maps' = [maps EXCEPT ![b] = [u \in Units |-> k]], UNCHANGED <<data, entries>>
  PROVE  /\ maps' \in [Blocks -> [Units -> {Absent, ReadOnly} \cup DataBlocks]]
         /\ \A c \in Blocks : c # b => maps'[c] = maps[c]
         /\ MapsInv' /\ AllMapped(b)'
  <2> USE <1>MapBlock
  <2>1. k \in DataBlocks
    <3>1. 0 \in Units
      BY Sizes DEF Units
    <3> QED BY <3>1, HeldBlock, Zenon DEF Good
  <2>2. /\ maps' \in [Blocks -> [Units -> {Absent, ReadOnly} \cup DataBlocks]]
        /\ \A c \in Blocks : c # b => maps'[c] = maps[c]
        /\ \A u \in Units : maps'[b][u] = k
    BY <2>1, Zenon DEF CowTypes
  <2>3. \A j, c, v : Good(j, c, v)' <=> Good(j, c, v)
    BY DEF Good, Holds, Shows, Original
  <2>4. k # Absent
    BY <2>1, Sizes DEF DataBlocks, Absent
  <2>5. ASSUME NEW c \in Blocks, NEW v \in Units
        PROVE  /\ maps'[c][v] \in DataBlocks => Good(maps[c][v], c, v)'
               /\ maps'[c][v] = Absent => c \in Missing
    <3>1. CASE c = b
      <4>1. maps'[c][v] = k /\ Good(k, c, v)'
        BY <3>1, <2>2, <2>3, Zenon
      <4>2. Good(maps[c][v], c, v)'
        BY <4>1, Zenon DEF Good, Holds, Shows, Original
      <4> QED BY <4>1, <4>2, <2>4, Zenon
    <3>2. CASE c # b
      <4>1. maps'[c][v] = maps[c][v]
        BY <3>2, <2>2, Zenon
      <4>2. (maps[c][v] \in DataBlocks => Good(maps[c][v], c, v)) /\ (maps[c][v] = Absent => c \in Missing)
        BY Zenon DEF ShowInv, MapsInv
      <4>3. Good(maps[c][v], c, v) => Good(maps[c][v], c, v)'
        BY <4>1, Zenon DEF Good, Holds, Shows, Original
      <4> QED BY <4>1, <4>2, <4>3, Zenon
    <3> QED BY <3>1, <3>2, Zenon
  <2>6. MapsInv'
    BY <2>5, Zenon DEF MapsInv
  <2>7. AllMapped(b)'
    BY <2>1, <2>2, Zenon DEF AllMapped
  <2> QED BY <2>2, <2>6, <2>7, Zenon
\* A step of the monitor: threads that wait for it may go on.
<1>MonitorStep.
  ASSUME RunInv, UNCHANGED <<data, last, ht, tgt, cow, buf>>,
         \A w \in Threads : pc'[w] = pc[w] \/ (pc[w] = "uffd" /\ pc'[w] = "store"), pc' \in [Threads -> Places],
         entries' \in Seq(EntryRecs), Len(entries') <= MaxBlockNum,
         maps' \in [Blocks -> [Units -> {Absent, ReadOnly} \cup DataBlocks]],
         monitor' \in [pc : {"poll", "new", "map", "wake"}, b : Blocks, blk : Nat], Kept, Filled', MapsInv',
         MonitorInv', \A c \in Blocks : (AllMapped(c) => AllMapped(c)') /\ (InPart(c)' => InPart(c))
  PROVE  RunInv'
  <2> USE <1>MonitorStep
  <2>1. CowTypes /\ ShowInv /\ ListedInv
    BY Zenon DEF RunInv
  <2>2. CowTypes'
    BY <2>1, Zenon DEF CowTypes
  <2>3. \A w \in Threads : (pc'[w] \in Copying <=> pc[w] \in Copying) /\ (Locks(w)' <=> Locks(w))
    BY Zenon DEF Copying, Locks
  <2>4. \A w \in Threads : ThreadInv(w)'
    <3> TAKE w \in Threads
    <3>1. ThreadInv(w) /\ tgt'[w] = tgt[w] /\ cow'[w] = cow[w] /\ buf'[w] = buf[w] /\ tgt[w][2] \in Units
      BY <2>1, Target, Zenon DEF ShowInv
    <3>2. CASE pc'[w] = pc[w]
      BY <3>1, <3>2, <1>ThreadKeeps, Zenon
    <3>3. CASE pc'[w] = "store"
      BY <3>3, Zenon DEF ThreadInv, Copying
    <3> QED BY <3>2, <3>3, Zenon
  <2>5. TableInv'
    BY <2>1, <1>TableKeep, Zenon
  <2>6. \A c : Listed(c)' <=> Listed(c)
    BY ListedSame, Zenon
  <2>7. LockInv'
    BY <2>1, <2>3, Zenon DEF ListedInv, LockInv, LockNum
  <2>8. PartInv'
    BY <2>1, <2>3, <2>6, Zenon DEF ListedInv, PartInv
  <2>9. \A w \in Threads : WorkInv(w)'
    <3> TAKE w \in Threads
    <3>1. PICK b \in Blocks : b = tgt[w][1] /\ b = tgt'[w][1]
      BY <2>1, Target, Zenon
    <3>2. WorkInv(w) /\ cow'[w] = cow[w]
      BY <2>1, Zenon DEF ListedInv
    <3>3. CASE pc'[w] = pc[w]
      <4>1. /\ pc'[w] = "entry" => cow'[w].b = b
            /\ pc'[w] \in {"copy", "remap", "bits"} => Listed(b)'
            /\ pc'[w] = "clear" => AllMapped(b)'
        BY <2>6, <3>1, <3>2, <3>3, Zenon DEF WorkInv
      <4> QED BY <4>1, <3>1, Zenon DEF WorkInv, Listed, AllMapped
    <3>4. CASE pc'[w] = "store"
      BY <3>4, Zenon DEF WorkInv
    <3> QED BY <3>3, <3>4, Zenon
  <2> QED BY <2>2, <2>4, <2>5, <2>7, <2>8, <2>9, Zenon DEF RunInv, ShowInv, ListedInv
<1>Stopped.
  ASSUME NothingForeign, UncompletedListed, UNCHANGED <<maps, data, entries, ht, pc, tgt>>
  PROVE  NothingForeign' /\ UncompletedListed'
  <2> USE <1>Stopped
  <2>1. \A b, u : View(b, u)' = View(b, u) /\ Remapped(b, u)' = Remapped(b, u)
    BY Zenon DEF View, Remapped, Original
  <2>2. Uncompleted' = Uncompleted
    BY Zenon DEF Uncompleted
  <2>3. NothingForeign'
    BY <2>1 DEF NothingForeign, Original
  <2>4. UncompletedListed'
    BY <2>2, Zenon DEF UncompletedListed
  <2> QED BY <2>3, <2>4, Zenon
\* final_cow fills each block from the view of the block it belongs to.
<1>FmunmapStep.
  ASSUME NatLeast, RunInv, Fmunmap
  PROVE  NothingForeign' /\ UncompletedListed'
  <2> USE <1>FmunmapStep
  <2>1. CowTypes /\ ShowInv /\ UncompletedListed
    BY Partly, Zenon DEF RunInv
  <2>2. UNCHANGED <<maps, ht, pc, tgt>>
    BY Zenon DEF Fmunmap, cowVars, threadVars
  <2>3. UncompletedListed'
    <3>1. Uncompleted' = Uncompleted
      BY <2>2, Zenon DEF Uncompleted
    <3> QED BY <3>1, <2>1, <2>2, Zenon DEF UncompletedListed
  <2>4. ASSUME NEW e \in Uncompleted PROVE Holds(e.blk, e.b)
    <3>1. PICK n \in DOMAIN ht : e \in Range(ht[n])
      BY Zenon DEF Uncompleted
    <3>2. PICK i \in DOMAIN ht[n] : e = ht[n][i]
      BY <3>1, Zenon DEF Range
    <3>3. n \in Buckets
      BY <2>1, Zenon DEF CowTypes
    <3> QED BY <3>2, <3>3, <2>1, Zenon DEF ShowInv, TableInv
  <2>5. ASSUME NEW k \in DataBlocks, NEW b, Holds(k, b), NEW u \in Units
        PROVE  b \in Blocks /\ (data'[k][u] = data[k][u] \/ data'[k][u] = View(b, u))
    <3>1. b \in Blocks
      BY <2>1, <2>5, HeldBlock, Zenon
    <3>2. CASE \E e \in Uncompleted : e.blk = k
      <4>1. PICK d : d = CHOOSE e \in Uncompleted : e.blk = k
        BY Zenon
      <4>2. d \in Uncompleted /\ d.blk = k
        BY <4>1, <3>2, Zenon
      <4>3. d.b = b
        BY <4>2, <2>4, <2>5, Zenon DEF Holds
      <4>4. data'[k] = [v \in Units |-> View((CHOOSE e \in Uncompleted : e.blk = k).b, v)]
        BY <3>2, Zenon DEF Fmunmap
      <4>5. data'[k] = [v \in Units |-> View(d.b, v)]
        BY <4>1, <4>4, Zenon
      <4> QED BY <3>1, <4>3, <4>5, Zenon
    <3>3. CASE ~\E e \in Uncompleted : e.blk = k
      BY <3>1, <3>3, Zenon DEF Fmunmap
    <3> QED BY <3>2, <3>3, Zenon
  <2>6. ASSUME NEW k \in DataBlocks, NEW b, Holds(k, b), NEW u \in Units
        PROVE  data'[k][u] = Zero \/ Shows(b, u, data'[k][u])
    <3>1. data[k][u] = Zero \/ Shows(b, u, data[k][u])
      BY <2>1, <2>6, Zenon DEF ShowInv, Filled, Holds
    <3>2. b \in Blocks /\ Shows(b, u, View(b, u))
      BY <2>1, <2>5, <2>6, ViewShows, Zenon
    <3> QED BY <3>1, <3>2, <2>5, <2>6, Zenon
  <2>7. ASSUME NEW b \in Blocks, NEW u \in Units PROVE Shows(b, u, View(b, u)')
    <3>1. CASE maps[b][u] \in DataBlocks
      <4>1. PICK k \in DataBlocks : k = maps[b][u]
        BY <3>1, Zenon
      <4>2. Good(k, b, u) /\ Holds(k, b) /\ View(b, u) = data[k][u] /\ View(b, u)' = data'[k][u]
        BY <2>1, <2>2, <4>1, Zenon DEF ShowInv, MapsInv, Good, View
      <4>3. data'[k][u] = data[k][u] \/ data'[k][u] = View(b, u)
        BY <4>2, <2>5, Zenon
      <4> QED BY <4>2, <4>3, Zenon DEF Good
    <3>2. CASE maps[b][u] \notin DataBlocks
      <4>1. View(b, u)' = Original(b, u)
        BY <3>2, <2>2, Zenon DEF View, Original
      <4> QED BY <4>1, OriginalShows, Zenon
    <3> QED BY <3>1, <3>2, Zenon
  <2>8. ASSUME NEW b \in Blocks, NEW u \in Units PROVE (Remapped(b, u) = Zero \/ (Remapped(b, u)[1] = b /\ Remapped(b, u)[2] = u))'
    <3> DEFINE mine == {k \in DOMAIN entries' : entries'[k].addr = b}
    <3>1. PICK n \in Nat : n = Len(entries) /\ DOMAIN entries = 1..n /\ DOMAIN entries' = 1..n
      BY <2>1, SeqIs, Zenon DEF CowTypes, Fmunmap
    <3>2. ASSUME NEW k \in mine PROVE Holds(k, b) /\ k \in DataBlocks
      <4>1. b # AllOnes
        BY Sizes DEF Blocks, AllOnes
      <4>2. entries[k] \in EntryRecs
        BY <3>1, <2>1, SeqIs DEF CowTypes
      <4>3. entries'[k] = entries[k] \/ entries'[k].addr = AllOnes
        BY <3>1, <4>2, Zenon DEF Fmunmap, EntryRecs
      <4>4. Holds(k, b)
        BY <4>1, <4>3, <3>1, Zenon DEF Holds
      <4> QED BY <4>4, <2>1, HeldBlock, Zenon
    <3>3. CASE mine = {}
      <4>1. Remapped(b, u)' = Original(b, u)
        BY <3>3, Zenon DEF Remapped, Original
      <4> QED BY <4>1, OriginalShows, OwnOrZero
    <3>4. CASE mine # {}
      <4>1. PICK k : k = Max(mine)
        BY Zenon
      <4>2. mine \in SUBSET (1..n)
        BY <3>1, Zenon
      <4>3. k \in mine
        <5> HIDE DEF mine
        <5> QED BY <4>1, <4>2, <3>4, Largest, Zenon
      <4>4. Remapped(b, u)' = data'[k][u]
        BY <4>1, <3>4, Zenon DEF Remapped
      <4>5. data'[k][u] = Zero \/ Shows(b, u, data'[k][u])
        BY <4>3, <3>2, <2>6, Zenon
      <4> QED BY <4>4, <4>5, OwnOrZero, Zenon
    <3> QED BY <3>3, <3>4, Zenon
  <2>9. NothingForeign'
    BY <2>7, <2>8, Zenon DEF NothingForeign, Shows, Original
  <2> QED BY <2>3, <2>9, Zenon
<1>Stutter.
  ASSUME RunInv, UNCHANGED vars
  PROVE  RunInv'
  <2> USE <1>Stutter
  <2>1. UNCHANGED <<maps, data, entries, last, ht, pc, tgt, cow, buf, monitor>>
    BY Zenon DEF vars, memVars, cowVars, threadVars
  <2>2. CowTypes /\ ShowInv
    BY Zenon DEF RunInv
  <2>3. Kept /\ Filled' /\ MapsInv' /\ MonitorInv'
    BY <2>1, <2>2, <1>SameKept, <1>MapsKeep, <1>MonitorKeep, Zenon DEF ShowInv
  <2>4. \A c : (AllMapped(c)' <=> AllMapped(c)) /\ (InPart(c)' <=> InPart(c))
    BY <2>1, MappedSame, Zenon
  <2> QED BY <2>1, <2>2, <2>3, <2>4, <1>MonitorStep, Zenon DEF CowTypes
\* A step of a guest thread, of the monitor, or fmunmap.
<1>GuestStep.
  \A t \in Threads :
    /\ NatLeast
    /\ RunInv
    /\ Commit(t) \/ TouchAbsent(t) \/ Handler(t)
  => RunInv' \/ (process' # "running" /\ UNCHANGED <<maps, data, entries, ht, pc, tgt>>)
  <2>DataStep.
    ASSUME CowTypes, ShowInv, NEW k, NEW b, Holds(k, b), NEW u \in Units, NEW x \in Marks, Shows(b, u, x),
           data' = [data EXCEPT ![k][u] = x], entries' = entries
    PROVE  /\ data' \in [DataBlocks -> [Units -> Marks]]
           /\ Filled' /\ AddrsKept /\ GoodKept /\ Good(k, b, u)'
    <3> USE <2>DataStep
    <3>1. k \in DataBlocks /\ b \in Blocks
      BY HeldBlock, Zenon
    <3>2. /\ data' \in [DataBlocks -> [Units -> Marks]]
          /\ data'[k][u] = x
          /\ \A j \in DataBlocks, w \in Units : j # k \/ w # u => data'[j][w] = data[j][w]
      BY <3>1, Written, ZenonT(60)
    <3>3. \A j, c : Holds(j, c)' <=> Holds(j, c)
      BY Zenon DEF Holds
    <3>4. \A j, c, w : Shows(j, c, w)' <=> Shows(j, c, w)
      BY Zenon DEF Shows, Original
    <3>5. Good(k, b, u)'
      BY <3>2, <3>3, Zenon DEF Good, Shows, Original
    <3>6. GoodKept
      <4> SUFFICES ASSUME NEW j, NEW c, NEW w \in Units, Good(j, c, w) PROVE Good(j, c, w)'
        BY Zenon DEF GoodKept
      <4>1. j \in DataBlocks /\ Holds(j, c)'
        BY <3>3, HeldBlock, Zenon DEF Good
      <4>2. CASE j = k /\ w = u
        <5>1. c = b
          BY <4>2, Zenon DEF Good, Holds
        <5> QED BY <4>2, <5>1, <3>5, Zenon
      <4>3. CASE j # k \/ w # u
        <5>1. data'[j][w] = data[j][w]
          BY <3>2, <4>1, <4>3, Zenon
        <5> QED BY <5>1, <4>1, Zenon DEF Good, Shows, Original
      <4> QED BY <4>2, <4>3, Zenon
    <3>7. Filled'
      <4>1. ASSUME NEW j \in DataBlocks, NEW w \in Units, j \notin DOMAIN entries PROVE data'[j][w] = Zero
        <5>1. j # k
          BY <4>1, Zenon DEF Holds
        <5>2. data'[j][w] = data[j][w]
          BY <3>2, <5>1, Zenon
        <5> QED BY <4>1, <5>2, Zenon DEF ShowInv, Filled
      <4>2. ASSUME NEW j \in DOMAIN entries, NEW w \in Units PROVE data'[j][w] = Zero \/ Shows(entries[j].addr, w, data'[j][w])
        <5>1. Holds(j, entries[j].addr) /\ j \in DataBlocks
          BY HeldBlock, Zenon DEF Holds
        <5>2. CASE j = k /\ w = u
          BY <5>2, <3>2, Zenon DEF Holds
        <5>3. CASE j # k \/ w # u
          <6>1. data'[j][w] = data[j][w]
            BY <3>2, <5>1, <5>3, Zenon
          <6> QED BY <6>1, Zenon DEF ShowInv, Filled
        <5> QED BY <5>2, <5>3, Zenon
      <4> QED BY <4>1, <4>2 DEF Filled, Shows, Original
    <3> QED BY <3>2, <3>3, <3>5, <3>6, <3>7, Zenon DEF AddrsKept
  <2>EarlySteps.
    ASSUME RunInv, NEW t \in Threads, TouchAbsent(t) \/ Fault(t) \/ InList(t) \/ LockBlock(t) \/ AlreadyListed(t)
    PROVE  RunInv'
    <3> USE <2>EarlySteps
    <3>1. CowTypes /\ ShowInv /\ tgt \in [Threads -> Blocks \X Units \X {0, 1}] /\ tgt[t][1] \in Blocks /\ tgt[t][2] \in Units
      BY Target, Zenon DEF RunInv, CowTypes
    <3>2. CASE TouchAbsent(t)
      <4>1. Goto(t, "store", "uffd") /\ tgt' = tgt /\ UNCHANGED <<maps, data, entries, last, ht, cow, buf, monitor>>
        BY <3>2, Zenon DEF TouchAbsent, memVars, cowVars
      <4>2. tgt[t][1] \in Missing
        BY <3>1, <3>2, Zenon DEF TouchAbsent, ShowInv, MapsInv
      <4> QED BY <3>1, <4>1, <4>2, <1>EarlyStep, Zenon DEF Early
    <3>3. CASE Fault(t)
      <4>1. Goto(t, "store", "inList") /\ tgt' = tgt /\ UNCHANGED <<maps, data, entries, last, ht, cow, buf, monitor>>
        BY <3>3, Zenon DEF Fault, memVars, cowVars
      <4> QED BY <3>1, <4>1, <1>EarlyStep, Zenon DEF Early
    <3>4. CASE InList(t)
      <4>1. tgt' = tgt /\ UNCHANGED <<maps, data, entries, last, ht, cow, buf, monitor>>
        BY <3>4, Zenon DEF InList, memVars, cowVars
      <4>2. Goto(t, "inList", "store") \/ Goto(t, "inList", "lock")
        BY <3>4, Zenon DEF InList
      <4> QED BY <3>1, <4>1, <4>2, <1>EarlyStep, Zenon DEF Early
    <3>5. CASE LockBlock(t)
      <4>1. Goto(t, "lock", "insert") /\ tgt' = tgt /\ UNCHANGED <<maps, data, entries, last, ht, cow, buf, monitor>>
        BY <3>5, Zenon DEF LockBlock, memVars, cowVars
      <4>2. CowLockFree(LockNum(tgt[t][1]))
        BY <3>5, Zenon DEF LockBlock
      <4> QED BY <3>1, <4>1, <4>2, <1>EarlyStep, Zenon DEF Early
    <3>6. CASE AlreadyListed(t)
      <4>1. Goto(t, "insert", "store") /\ tgt' = tgt /\ UNCHANGED <<maps, data, entries, last, ht, cow, buf, monitor>>
        BY <3>6, Zenon DEF AlreadyListed, memVars, cowVars
      <4> QED BY <3>1, <4>1, <1>EarlyStep, Zenon DEF Early
    <3> QED BY <3>2, <3>3, <3>4, <3>5, <3>6, Zenon
  \* The store itself.
  <2>CommitStep.
    ASSUME RunInv, NEW t \in Threads, Commit(t)
    PROVE  RunInv'
    <3> USE <2>CommitStep
    <3>1. CowTypes /\ ShowInv /\ ListedInv /\ tgt[t][1] \in Blocks /\ tgt[t][2] \in Units
      BY Target, Zenon DEF RunInv
    <3>2. PICK b \in Blocks, u \in Units : b = tgt[t][1] /\ u = tgt[t][2]
      BY <3>1, Zenon
    <3>3. /\ maps[b][u] \in DataBlocks /\ Goto(t, "store", "idle")
          /\ data' = [data EXCEPT ![maps[b][u]][u] = Stored(b, u)] /\ last' = [last EXCEPT ![b][u] = Stored(b, u)]
          /\ UNCHANGED <<maps, entries, ht, tgt, cow, buf, monitor>>
      BY <3>2, Zenon DEF Commit, cowVars
    <3>4. Holds(maps[b][u], b)
      BY <3>1, <3>3, Zenon DEF ShowInv, MapsInv, Good
    <3>5. Stored(b, u) \in Marks /\ Shows(b, u, Stored(b, u))
      BY <3>1, StoredShows DEF CowTypes
    <3>6. data' \in [DataBlocks -> [Units -> Marks]] /\ Filled' /\ AddrsKept /\ GoodKept
      BY <3>1, <3>3, <3>4, <3>5, <2>DataStep, Zenon
    <3>7. last' \in [Blocks -> [Units -> Marks]]
      BY <3>1, <3>3, <3>5, Zenon DEF CowTypes
    <3>8. pc' \in [Threads -> Places] /\ pc[t] = "store" /\ pc'[t] = "idle" /\ \A w \in Threads : w # t => pc'[w] = pc[w]
      BY <3>1, <3>3, Going, Zenon DEF Places
    <3>9. OthersStay(t) /\ Kept
      BY <3>3, <3>6, <3>8, Zenon DEF OthersStay, Kept
    <3>10. \A w \in Threads : ThreadInv(w)'
      <4>1. ThreadInv(t)'
        BY <3>8, Zenon DEF ThreadInv, Copying
      <4> QED BY <4>1, <3>1, <3>9, <1>ThreadsKeep, Zenon
    <3>11. MapsInv' /\ TableInv' /\ MonitorInv'
      BY <3>1, <3>3, <3>9, <1>MapsKeep, <1>TableKeep, <1>MonitorKeep, Zenon
    <3>12. CowTypes'
      BY <3>1, <3>3, <3>6, <3>7, <3>8, Zenon DEF CowTypes
    <3>13. \A c : (Listed(c)' <=> Listed(c)) /\ (AllMapped(c)' <=> AllMapped(c)) /\ (InPart(c)' <=> InPart(c))
      BY <3>3, ListedSame, MappedSame, Zenon
    <3>14. ListedInv'
      <4>1. \A w \in Threads : WorkInv(w)'
        <5>1. WorkInv(t)'
          BY <3>8, Zenon DEF WorkInv
        <5> QED BY <5>1, <3>1, <3>9, <3>13, <1>WorkKeeps, Zenon
      <4>2. LockInv'
        <5>1. ~Locks(t)'
          BY <3>8, Zenon DEF Locks, Copying
        <5> QED BY <5>1, <3>1, <3>9, <1>LocksKeep, Zenon DEF ListedInv
      <4>3. \A w \in Threads : pc[w] \in Copying => pc'[w] \in Copying
        BY <3>8, Zenon DEF Copying
      <4>4. PartInv'
        BY <4>3, <3>1, <3>3, <3>13, Zenon DEF ListedInv, PartInv
      <4> QED BY <4>1, <4>2, <4>4, Zenon DEF ListedInv
    <3> QED BY <3>6, <3>10, <3>11, <3>12, <3>14, Zenon DEF RunInv, ShowInv
  (* The steps of a handler that has the lock of its block.                  *)
  <2>ShowStep.
    ASSUME CowTypes, ShowInv, NEW t \in Threads, OthersStay(t), Kept, Filled', ThreadInv(t)', MapsInv', TableInv',
           monitor' = monitor
    PROVE  ShowInv'
    <3> USE <2>ShowStep
    <3>1. \A w \in Threads : ThreadInv(w)'
      BY <1>ThreadsKeep, Zenon
    <3>2. MonitorInv'
      BY <1>MonitorKeep, Zenon
    <3> QED BY <3>1, <3>2, Zenon DEF ShowInv
  \* It changes the mapping and the buckets of no other block, and nobody else
  \* works on its block.
  <2>LockedStep.
    ASSUME CowTypes, ListedInv, NEW t \in Threads, NEW b \in Blocks, b = tgt[t][1], Locks(t), OthersStay(t),
           tgt' = tgt, \A c \in Blocks : c # b => maps'[c] = maps[c] /\ (Listed(c) => Listed(c)'),
           InPart(b)' => Listed(b)' \/ pc'[t] \in Copying, WorkInv(t)'
    PROVE  ListedInv'
    <3> USE <2>LockedStep
    <3>1. \A w \in Threads : w # t /\ Locks(w) => tgt[w][1] # b
      BY Zenon DEF ListedInv, LockInv
    <3>2. \A c \in Blocks : c # b => (AllMapped(c)' <=> AllMapped(c)) /\ (InPart(c)' <=> InPart(c))
      BY Zenon DEF AllMapped, InPart
    <3>3. \A w \in Threads : WorkInv(w)'
      BY <3>1, <3>2, <1>WorkKeeps, Zenon
    <3>4. LockInv'
      BY <1>LocksKeep, Zenon DEF ListedInv
    <3>5. PartInv'
      <4> SUFFICES ASSUME NEW c \in Blocks, InPart(c)'
                   PROVE  Listed(c)' \/ \E w \in Threads : pc'[w] \in Copying /\ tgt'[w][1] = c
        BY Zenon DEF PartInv
      <4>1. CASE c = b
        BY <4>1, Zenon
      <4>2. CASE c # b /\ Listed(c)
        BY <4>2, Zenon
      <4>3. CASE c # b /\ ~Listed(c)
        <5>1. PICK w \in Threads : pc[w] \in Copying /\ tgt[w][1] = c
          BY <4>3, <3>2, Zenon DEF ListedInv, PartInv
        <5>2. w # t
          BY <5>1, <4>3, Zenon
        <5> QED BY <5>1, <5>2, Zenon DEF OthersStay
      <4> QED BY <4>1, <4>2, <4>3, Zenon
    <3> QED BY <3>3, <3>4, <3>5, Zenon DEF ListedInv
  <2>InsertWholeStep.
    ASSUME NatLeast, RunInv, NEW t \in Threads, InsertListWhole(t)
    PROVE  RunInv'
    <3> USE <2>InsertWholeStep
    <3>1. PICK b : b = tgt[t][1]
      BY Zenon
    <3>2. PICK r : r = Min(Ranks(t))
      BY Zenon
    <3>3. PICK n : n = BucketOf(b)
      BY Zenon
    <3>4. /\ Goto(t, "insert", "read") /\ Ranks(t) # {} /\ cow' = [cow EXCEPT ![t] = Bucket(t)[r]] /\ buf' = [buf EXCEPT ![t] = <<0, Zero>>]
          /\ ht' = [ht EXCEPT ![n] = Unlink(ht[n], r)]
          /\ UNCHANGED <<maps, data, entries, last, tgt, monitor>>
      BY <3>1, <3>2, <3>3, Zenon DEF InsertListWhole, memVars
    <3>5. /\ CowTypes /\ ShowInv /\ ListedInv /\ b \in Blocks /\ Locks(t)
          /\ pc' \in [Threads -> Places] /\ pc'[t] = "read" /\ \A w \in Threads : w # t => pc'[w] = pc[w]
      BY <3>1, <3>4, InsertEffects, Zenon
    <3>6. n \in Buckets /\ ht[n] \in Seq(Cows) /\ Len(ht[n]) \in Nat /\ DOMAIN ht[n] = 1..Len(ht[n]) /\ Bucket(t) = ht[n]
      BY <3>1, <3>3, <3>5, BucketIs, Zenon DEF Bucket
    <3>7. r \in DOMAIN ht[n] /\ ht[n][r].b = b /\ ht[n][r] \in Cows
      BY <3>1, <3>2, <3>4, <3>5, <3>6, RankIs, Zenon
    <3>8. PICK s : s = Unlink(ht[n], r)
      BY Zenon
    <3>9. /\ s \in Seq(Cows)
          /\ \A j \in DOMAIN s : \E k \in DOMAIN ht[n] : s[j] = ht[n][k]
          /\ \A k \in DOMAIN ht[n] : k # r => \E j \in DOMAIN s : s[j] = ht[n][k]
      <4>1. r \in 1..Len(ht[n])
        BY <3>6, <3>7, Zenon
      <4>2. ht[n] \in Seq(Cows)
        BY <3>6, Zenon
      <4> QED BY <4>1, <4>2, <3>8, Removed
    <3>10. ht' \in [Buckets -> Seq(Cows)] /\ ht'[n] = s /\ \A m \in Buckets : m # n => ht'[m] = ht[m]
      BY <3>4, <3>5, <3>6, <3>8, <3>9, Zenon DEF CowTypes
    <3>11. /\ cow' \in [Threads -> Cows] /\ cow'[t] = ht[n][r] /\ \A w \in Threads : w # t => cow'[w] = cow[w]
           /\ buf' \in [Threads -> Nat \X Marks] /\ buf'[t] = <<0, Zero>> /\ \A w \in Threads : w # t => buf'[w] = buf[w]
      BY <3>4, <3>5, <3>6, <3>7, Zenon DEF CowTypes, Marks
    <3>12. CowTypes'
      BY <3>4, <3>5, <3>10, <3>11, Zenon DEF CowTypes
    <3>13. OthersStay(t)
      BY <3>4, <3>5, <3>11, Zenon DEF OthersStay
    <3>14. Kept /\ Filled'
      BY <3>4, <3>5, <1>SameKept, Zenon DEF ShowInv
    <3>15. TableInv'
      <4>1. ASSUME NEW m \in Buckets, NEW i \in DOMAIN ht'[m] PROVE \E k \in DOMAIN ht[m] : ht'[m][i] = ht[m][k]
        BY <3>9, <3>10
      <4>2. \A m \in Buckets : \A k \in DOMAIN ht[m] : Holds(ht[m][k].blk, ht[m][k].b)
        BY <3>5, Zenon DEF ShowInv, TableInv
      <4>3. \A k, c : Holds(k, c)' <=> Holds(k, c)
        BY <3>4, Zenon DEF Holds
      <4> QED BY <4>1, <4>2, <4>3 DEF TableInv
    <3>16. ThreadInv(t)'
      <4>1. Holds(ht[n][r].blk, b)
        BY <3>5, <3>6, <3>7, Zenon DEF ShowInv, TableInv
      <4>2. Holds(cow[t].blk, tgt[t][1])'
        BY <4>1, <3>1, <3>4, <3>11, Zenon DEF Holds
      <4>3. buf'[t][1] = 0 /\ 0 \in Units
        BY <3>11, Sizes DEF Units
      <4>4. \A u \in Units : ~(u < 0)
        BY Sizes DEF Units
      <4> QED BY <4>2, <4>3, <4>4, <3>5, Zenon DEF ThreadInv
    <3>17. ShowInv'
      <4>1. MapsInv'
        BY <3>4, <3>5, <3>14, <1>MapsKeep, Zenon
      <4> QED BY <4>1, <3>4, <3>5, <3>13, <3>14, <3>15, <3>16, <2>ShowStep, Zenon
    <3>18. ListedInv'
      <4>1. ASSUME NEW c \in Blocks, c # b, Listed(c) PROVE Listed(c)'
        <5>1. PICK m \in Buckets : \E i \in DOMAIN ht[m] : ht[m][i].b = c
          BY <4>1, Zenon DEF Listed
        <5>2. PICK i \in DOMAIN ht[m] : ht[m][i].b = c
          BY <5>1, Zenon
        <5>3. \E j \in DOMAIN ht'[m] : ht'[m][j] = ht[m][i]
          <6>1. CASE m = n
            BY <6>1, <5>2, <4>1, <3>7, <3>9, <3>10, Zenon
          <6>2. CASE m # n
            BY <6>2, <3>10, Zenon
          <6> QED BY <6>1, <6>2, Zenon
        <5> QED BY <5>2, <5>3, Zenon DEF Listed
      <4>2. \A c \in Blocks : c # b => maps'[c] = maps[c] /\ (Listed(c) => Listed(c)')
        BY <4>1, <3>4, Zenon
      <4>3. pc'[t] \in Copying /\ WorkInv(t)'
        BY <3>5, Zenon DEF Copying, WorkInv
      <4> QED BY <4>2, <4>3, <3>1, <3>4, <3>5, <3>13, <2>LockedStep, Zenon
    <3> QED BY <3>12, <3>17, <3>18, Zenon DEF RunInv
  <2>InsertUnitStep.
    ASSUME NatLeast, RunInv, NEW t \in Threads, InsertListUnit(t)
    PROVE  RunInv'
    <3> USE <2>InsertUnitStep
    <3>1. PICK b : b = tgt[t][1]
      BY Zenon
    <3>2. PICK r : r = Min(Ranks(t))
      BY Zenon
    <3>3. PICK n : n = BucketOf(b)
      BY Zenon
    <3>4. /\ Goto(t, "insert", "copy") /\ Ranks(t) # {} /\ cow' = [cow EXCEPT ![t] = Bucket(t)[r]]
          /\ UNCHANGED <<maps, data, entries, last, ht, tgt, buf, monitor>>
      BY <3>1, <3>2, <3>3, Zenon DEF InsertListUnit, memVars
    <3>5. /\ CowTypes /\ ShowInv /\ ListedInv /\ b \in Blocks /\ Locks(t)
          /\ pc' \in [Threads -> Places] /\ pc'[t] = "copy" /\ \A w \in Threads : w # t => pc'[w] = pc[w]
      BY <3>1, <3>4, InsertEffects, Zenon
    <3>6. n \in Buckets /\ Bucket(t) = ht[n]
      BY <3>1, <3>3, <3>5, BucketIs, Zenon DEF Bucket
    <3>7. r \in DOMAIN ht[n] /\ ht[n][r].b = b /\ ht[n][r] \in Cows
      BY <3>1, <3>2, <3>4, <3>5, <3>6, RankIs, Zenon
    <3>8. cow' \in [Threads -> Cows] /\ cow'[t] = ht[n][r] /\ \A w \in Threads : w # t => cow'[w] = cow[w]
      BY <3>4, <3>5, <3>6, <3>7, Zenon DEF CowTypes
    <3>9. CowTypes'
      BY <3>4, <3>5, <3>8, Zenon DEF CowTypes
    <3>10. OthersStay(t)
      BY <3>4, <3>5, <3>8, Zenon DEF OthersStay
    <3>11. Kept /\ Filled'
      BY <3>4, <3>5, <1>SameKept, Zenon DEF ShowInv
    <3>12. ThreadInv(t)'
      <4>1. Holds(ht[n][r].blk, b)
        BY <3>5, <3>6, <3>7, Zenon DEF ShowInv, TableInv
      <4>2. Holds(cow[t].blk, tgt[t][1])'
        BY <4>1, <3>1, <3>4, <3>8, Zenon DEF Holds
      <4> QED BY <4>2, <3>5, Zenon DEF ThreadInv
    <3>13. ShowInv'
      <4>1. MapsInv' /\ TableInv'
        BY <3>4, <3>5, <3>11, <1>MapsKeep, <1>TableKeep, Zenon
      <4> QED BY <4>1, <3>4, <3>5, <3>10, <3>11, <3>12, <2>ShowStep, Zenon
    <3>14. ListedInv'
      <4>1. \A c : Listed(c)' <=> Listed(c)
        BY <3>4, ListedSame, Zenon
      <4>2. Listed(b)
        BY <3>6, <3>7, Zenon DEF Listed
      <4>3. pc'[t] \in Copying /\ WorkInv(t)'
        BY <4>1, <4>2, <3>1, <3>4, <3>5 DEF Copying, WorkInv, Listed
      <4> QED BY <4>1, <4>3, <3>1, <3>4, <3>5, <3>10, <2>LockedStep, Zenon
    <3> QED BY <3>9, <3>13, <3>14, Zenon DEF RunInv
  <2>InsertNewStep.
    ASSUME RunInv, NEW t \in Threads, InsertListNew(t), ~OutOfRange
    PROVE  RunInv'
    <3> USE <2>InsertNewStep
    <3>1. PICK b : b = tgt[t][1]
      BY Zenon
    <3>2. PICK m : m = Len(entries) + 1
      BY Zenon
    <3>3. /\ Goto(t, "insert", "entry") /\ NewBlock(b) /\ cow' = [cow EXCEPT ![t] = [b |-> b, blk |-> m, ent |-> 0]]
          /\ UNCHANGED <<maps, data, last, ht, tgt, buf, monitor>>
      BY <3>1, <3>2, Zenon DEF InsertListNew
    <3>4. /\ CowTypes /\ ShowInv /\ ListedInv /\ b \in Blocks /\ Locks(t)
          /\ pc' \in [Threads -> Places] /\ pc'[t] = "entry" /\ \A w \in Threads : w # t => pc'[w] = pc[w]
      BY <3>1, <3>3, InsertEffects, Zenon
    <3>5. entries' \in Seq(EntryRecs) /\ Len(entries') <= MaxBlockNum /\ Kept /\ Filled' /\ Holds(m, b)' /\ m \in DataBlocks
      BY <3>2, <3>3, <3>4, NewKept, Zenon DEF ShowInv
    <3>6. cow' \in [Threads -> Cows] /\ cow'[t].blk = m /\ cow'[t].b = b /\ \A w \in Threads : w # t => cow'[w] = cow[w]
      BY <3>3, <3>4, <3>5, Sizes DEF CowTypes, Cows, DataBlocks
    <3>7. CowTypes'
      BY <3>3, <3>4, <3>5, <3>6, Zenon DEF CowTypes
    <3>8. OthersStay(t)
      BY <3>3, <3>4, <3>6, Zenon DEF OthersStay
    <3>9. ThreadInv(t)'
      <4>1. Holds(cow[t].blk, tgt[t][1])'
        BY <3>1, <3>3, <3>5, <3>6, Zenon DEF Holds
      <4> QED BY <4>1, <3>4, Zenon DEF ThreadInv
    <3>10. ShowInv'
      <4>1. MapsInv' /\ TableInv'
        BY <3>3, <3>4, <3>5, <1>MapsKeep, <1>TableKeep, Zenon
      <4> QED BY <4>1, <3>3, <3>4, <3>5, <3>8, <3>9, <2>ShowStep, Zenon
    <3>11. ListedInv'
      <4>1. \A c : Listed(c)' <=> Listed(c)
        BY <3>3, ListedSame, Zenon
      <4>2. pc'[t] \in Copying /\ WorkInv(t)'
        BY <3>1, <3>3, <3>4, <3>6, Zenon DEF Copying, WorkInv
      <4> QED BY <4>1, <4>2, <3>1, <3>3, <3>4, <3>8, <2>LockedStep, Zenon
    <3> QED BY <3>7, <3>10, <3>11, Zenon DEF RunInv
  \* insert_ht puts the block at the head of its bucket.
  <2>InsertHtStep.
    ASSUME RunInv, NEW t \in Threads, InsertHt(t)
    PROVE  RunInv'
    <3> USE <2>InsertHtStep
    <3>1. PICK b : b = tgt[t][1]
      BY Zenon
    <3>2. PICK n : n = BucketOf(b)
      BY Zenon
    <3>3. /\ Goto(t, "entry", "copy") /\ cow' = [cow EXCEPT ![t].ent = EntryFound] /\ ht' = [ht EXCEPT ![n] = <<cow'[t]>> \o ht[n]]
          /\ UNCHANGED <<maps, data, entries, last, tgt, buf, monitor>>
      BY <3>1, <3>2, Zenon DEF InsertHt, memVars
    <3>4. CowTypes /\ ShowInv /\ ListedInv /\ b \in Blocks
      BY <3>1, Target, Zenon DEF RunInv
    <3>5. /\ pc' \in [Threads -> Places] /\ pc[t] = "entry" /\ pc'[t] = "copy" /\ \A w \in Threads : w # t => pc'[w] = pc[w]
      BY <3>3, <3>4, Going, Zenon DEF Places, Copying
    <3>6. Locks(t) /\ Holds(cow[t].blk, b)
      BY <3>1, <3>4, <3>5, Zenon DEF Locks, Copying, ShowInv, ThreadInv
    <3>7. EntryFound \in Nat
      <4>1. PICK l \in Nat : l = Len(entries)
        BY <3>4, SeqIs, Zenon DEF CowTypes
      <4>2. l - 1 \in Nat
        BY <4>1, <3>4, <3>6, HeldBlock
      <4>3. PICK q \in Nat : q = (l - 1) \div MaxPerSeg
        BY <4>2, Sizes
      <4>4. q * BlockSize * BlockSize \in Nat
        BY <4>3, Sizes
      <4>5. PICK i \in Nat : i = (q * BlockSize * BlockSize) % IntSpan
        BY <4>4, Sizes
      <4>6. PICK j \in Nat : j = (l - 1) % MaxPerSeg
        BY <4>2, Sizes
      <4>7. i * MaxPerSeg + j + 1 \in Nat
        BY <4>5, <4>6, Sizes
      <4>8. EntryFound = i * MaxPerSeg + j + 1
        BY <4>1, <4>3, <4>5, <4>6, Zenon DEF EntryFound
      <4> QED BY <4>7, <4>8, Zenon
    <3>8. PICK e : e = [cow[t] EXCEPT !.ent = EntryFound]
      BY Zenon
    <3>9. e \in Cows /\ e.blk = cow[t].blk /\ e.b = cow[t].b
      BY <3>4, <3>7, <3>8, Zenon DEF CowTypes, Cows
    <3>10. cow' \in [Threads -> Cows] /\ cow'[t] = e /\ \A w \in Threads : w # t => cow'[w] = cow[w]
      BY <3>3, <3>4, <3>8, <3>9, Zenon DEF CowTypes
    <3>11. n \in Buckets /\ ht[n] \in Seq(Cows) /\ Len(ht[n]) \in Nat /\ DOMAIN ht[n] = 1..Len(ht[n])
      BY <3>2, <3>4, BucketIs, Zenon
    <3>12. PICK s : s = <<e>> \o ht[n]
      BY Zenon
    <3>13. <<e>> \in Seq(Cows) /\ Len(<<e>>) = 1 /\ <<e>>[1] = e
      BY <3>9
    <3>14. /\ s \in Seq(Cows) /\ Len(s) = 1 + Len(ht[n]) /\ DOMAIN s = 1..(1 + Len(ht[n]))
           /\ \A i \in 1..(1 + Len(ht[n])) : s[i] = IF i <= 1 THEN <<e>>[i] ELSE ht[n][i - 1]
      BY <3>11, <3>12, <3>13, ConcatIs, SeqIs
    <3>15. s[1] = e /\ 1 \in DOMAIN s /\ \A i \in DOMAIN ht[n] : i + 1 \in DOMAIN s /\ s[i + 1] = ht[n][i]
      BY <3>11, <3>13, <3>14
    <3>16. \A i \in DOMAIN s : s[i] = e \/ \E j \in DOMAIN ht[n] : s[i] = ht[n][j]
      <4> TAKE i \in DOMAIN s
      <4>1. CASE i = 1
        BY <4>1, <3>15, Zenon
      <4>2. CASE i # 1
        <5>1. i - 1 \in DOMAIN ht[n] /\ s[i] = ht[n][i - 1]
          BY <4>2, <3>11, <3>14
        <5> QED BY <5>1, Zenon
      <4> QED BY <4>1, <4>2, Zenon
    <3>17. ht' \in [Buckets -> Seq(Cows)] /\ ht'[n] = s /\ \A m \in Buckets : m # n => ht'[m] = ht[m]
      BY <3>3, <3>4, <3>10, <3>11, <3>12, <3>14, Zenon DEF CowTypes
    <3>18. CowTypes' /\ OthersStay(t)
      BY <3>3, <3>4, <3>5, <3>10, <3>17, Zenon DEF CowTypes, OthersStay
    <3>19. Kept /\ Filled' /\ \A k, c : Holds(k, c)' <=> Holds(k, c)
      BY <3>3, <3>4, <1>SameKept, Zenon DEF ShowInv, Holds
    <3>20. TableInv'
      <4>1. Holds(e.blk, e.b)'
        <5>1. Holds(e.blk, b)
          BY <3>6, <3>9, Zenon
        <5>2. e.b = b
          BY <3>1, <3>4, <3>5, <3>9, Zenon DEF ListedInv, WorkInv
        <5> QED BY <5>1, <5>2, <3>19, Zenon
      <4>2. ASSUME NEW m \in Buckets, NEW i \in DOMAIN ht'[m]
            PROVE  ht'[m][i] = e \/ \E k \in DOMAIN ht[m] : ht'[m][i] = ht[m][k]
        BY <3>16, <3>17
      <4>3. \A m \in Buckets : \A k \in DOMAIN ht[m] : Holds(ht[m][k].blk, ht[m][k].b)
        BY <3>4, Zenon DEF ShowInv, TableInv
      <4> QED BY <4>1, <4>2, <4>3, <3>19 DEF TableInv
    <3>21. ThreadInv(t)'
      <4>1. Holds(cow[t].blk, tgt[t][1])'
        BY <3>1, <3>3, <3>6, <3>9, <3>10, Zenon DEF Holds
      <4> QED BY <4>1, <3>5, Zenon DEF ThreadInv
    <3>22. ShowInv'
      <4>1. MapsInv'
        BY <3>3, <3>4, <3>19, <1>MapsKeep, Zenon
      <4> QED BY <4>1, <3>3, <3>4, <3>18, <3>19, <3>20, <3>21, <2>ShowStep, Zenon
    <3>23. ListedInv'
      <4>1. \A c \in Blocks : Listed(c) => Listed(c)'
        <5> TAKE c \in Blocks
        <5> HAVE Listed(c)
        <5>1. PICK m \in Buckets : \E i \in DOMAIN ht[m] : ht[m][i].b = c
          BY Zenon DEF Listed
        <5>2. PICK i \in DOMAIN ht[m] : ht[m][i].b = c
          BY <5>1, Zenon
        <5>3. \E j \in DOMAIN ht'[m] : ht'[m][j] = ht[m][i]
          BY <3>15, <3>17, Zenon
        <5> QED BY <5>2, <5>3, Zenon DEF Listed
      <4>2. Listed(tgt[t][1])'
        <5>1. 1 \in DOMAIN ht'[n] /\ ht'[n][1].b = tgt'[t][1]
          BY <3>1, <3>3, <3>4, <3>5, <3>9, <3>15, <3>17, Zenon DEF ListedInv, WorkInv
        <5> QED BY <5>1, <3>11, Zenon DEF Listed
      <4>3. WorkInv(t)' /\ pc'[t] \in Copying
        BY <4>2, <3>5, Zenon DEF WorkInv, Copying
      <4> QED BY <4>1, <4>3, <3>1, <3>3, <3>4, <3>6, <3>18, <2>LockedStep, Zenon
    <3> QED BY <3>18, <3>22, <3>23, Zenon DEF RunInv
  \* A step of a handler between insert_ht and its end.
  <2>CopyStep.
    ASSUME RunInv, NEW t \in Threads, NEW b, b = tgt[t][1], NEW from \in Copying, NEW to \in Places, Goto(t, from, to),
           UNCHANGED <<last, ht, tgt, cow, monitor>>, \A w \in Threads : w # t => buf'[w] = buf[w],
           buf' \in [Threads -> Nat \X Marks], data' \in [DataBlocks -> [Units -> Marks]], entries' \in Seq(EntryRecs),
           Len(entries') <= MaxBlockNum, maps' \in [Blocks -> [Units -> {Absent, ReadOnly} \cup DataBlocks]],
           \A c \in Blocks : c # b => maps'[c] = maps[c], Kept, Filled', MapsInv', ThreadInv(t)', WorkInv(t)',
           to \in Copying \/ Listed(b) \/ AllMapped(b)'
    PROVE  RunInv'
    <3> USE <2>CopyStep
    <3>1. CowTypes /\ ShowInv /\ ListedInv /\ b \in Blocks
      BY Target, Zenon DEF RunInv
    <3>2. pc' \in [Threads -> Places] /\ pc[t] = from /\ pc'[t] = to /\ \A w \in Threads : w # t => pc'[w] = pc[w]
      BY <3>1, Going, Zenon
    <3>3. CowTypes'
      BY <3>1, <3>2, Zenon DEF CowTypes
    <3>4. OthersStay(t)
      BY <3>2, Zenon DEF OthersStay
    <3>5. ShowInv'
      <4>1. TableInv'
        BY <3>1, <1>TableKeep, Zenon
      <4> QED BY <4>1, <3>1, <3>4, <2>ShowStep, Zenon
    <3>6. \A c : Listed(c)' <=> Listed(c)
      BY ListedSame, Zenon
    <3>7. InPart(b)' => ~AllMapped(b)'
      BY Sizes DEF InPart, AllMapped, DataBlocks, ReadOnly
    <3>8. ListedInv'
      <4>1. Locks(t)
        BY <3>2, Zenon DEF Locks
      <4>2. InPart(b)' => Listed(b)' \/ pc'[t] \in Copying
        BY <3>2, <3>6, <3>7, Zenon
      <4>3. \A c \in Blocks : c # b => maps'[c] = maps[c] /\ (Listed(c) => Listed(c)')
        BY <3>6, Zenon
      <4>4. tgt' = tgt
        BY Zenon
      <4> QED BY <4>1, <4>2, <4>3, <4>4, <3>1, <3>4, <2>LockedStep, Zenon
    <3> QED BY <3>3, <3>5, <3>8, Zenon DEF RunInv
  <2>CopyUnitStep.
    ASSUME RunInv, NEW t \in Threads, CopyUnit(t), tgt[t][2] \notin holes[cow[t].blk]
    PROVE  RunInv'
    <3> USE <2>CopyUnitStep
    <3>1. PICK b, u, k : b = tgt[t][1] /\ u = tgt[t][2] /\ k = cow[t].blk
      BY Zenon
    <3>2. /\ Goto(t, "copy", "remap") /\ data' = [data EXCEPT ![k][u] = View(b, u)]
          /\ UNCHANGED <<maps, entries, last, ht, tgt, cow, buf, monitor>>
      BY <3>1, Zenon DEF CopyUnit, cowVars
    <3>3. pc[t] = "copy" /\ pc[t] \in Copying
      BY <3>2, Zenon DEF Goto, Copying
    <3>4. /\ CowTypes /\ ShowInv /\ ListedInv /\ ThreadInv(t) /\ WorkInv(t)
          /\ b \in Blocks /\ u \in Units /\ Holds(k, b) /\ k \in DataBlocks
      BY <3>1, <3>3, AtWork, Zenon
    <3>5. data' \in [DataBlocks -> [Units -> Marks]] /\ Filled' /\ AddrsKept /\ GoodKept /\ Good(k, b, u)'
      <4>1. View(b, u) \in Marks /\ Shows(b, u, View(b, u))
        BY <3>4, ViewShows, Zenon
      <4>2. entries' = entries
        BY <3>2, Zenon
      <4> QED BY <4>1, <4>2, <3>2, <3>4, <2>DataStep, Zenon
    <3>6. Kept /\ MapsInv'
      BY <3>2, <3>4, <3>5, <1>MapsKeep, Zenon DEF Kept
    <3>7. pc'[t] = "remap" /\ "remap" \in Places /\ "copy" \in Copying /\ "remap" \in Copying
      BY <3>2, <3>4, Zenon DEF Goto, CowTypes, Places, Copying
    <3>8. ThreadInv(t)'
      <4>1. Holds(cow[t].blk, tgt[t][1])'
        BY <3>1, <3>2, <3>4, Zenon DEF Holds
      <4>2. Good(cow[t].blk, tgt[t][1], tgt[t][2])'
        BY <3>1, <3>2, <3>5, Zenon DEF Good, Holds, Shows, Original
      <4> QED BY <4>1, <4>2, <3>7, Zenon DEF ThreadInv
    <3>9. WorkInv(t)'
      BY <3>2, <3>3, <3>4, <3>7, Zenon DEF WorkInv, Listed
    <3> QED BY <3>1, <3>2, <3>4, <3>5, <3>6, <3>7, <3>8, <3>9, <2>CopyStep, Zenon DEF CowTypes
  <2>RemapUnitStep.
    ASSUME RunInv, NEW t \in Threads, RemapUnit(t)
    PROVE  RunInv'
    <3> USE <2>RemapUnitStep
    <3>1. PICK b, u, k : b = tgt[t][1] /\ u = tgt[t][2] /\ k = cow[t].blk
      BY Zenon
    <3>2. /\ Goto(t, "remap", "bits") /\ maps' = [maps EXCEPT ![b][u] = k]
          /\ UNCHANGED <<data, entries, last, ht, tgt, cow, buf, monitor>>
      BY <3>1, Zenon DEF RemapUnit
    <3>3. pc[t] = "remap" /\ pc[t] \in Copying
      BY <3>2, Zenon DEF Goto, Copying
    <3>4. /\ CowTypes /\ ShowInv /\ ListedInv /\ ThreadInv(t) /\ WorkInv(t)
          /\ b \in Blocks /\ u \in Units /\ Holds(k, b) /\ k \in DataBlocks
      BY <3>1, <3>3, AtWork, Zenon
    <3>5. Kept /\ Filled'
      BY <3>2, <3>4, <1>SameKept, Zenon DEF ShowInv
    <3>6. /\ maps' \in [Blocks -> [Units -> {Absent, ReadOnly} \cup DataBlocks]] /\ maps'[b][u] = k
          /\ \A c \in Blocks, v \in Units : c # b \/ v # u => maps'[c][v] = maps[c][v]
          /\ \A c \in Blocks : c # b => maps'[c] = maps[c]
      BY <3>2, <3>4, Zenon DEF CowTypes
    <3>7. MapsInv'
      <4>1. Good(k, b, u)
        BY <3>1, <3>3, <3>4, Zenon DEF ThreadInv
      <4>2. \A j, c : \A v \in Units : Good(j, c, v) => Good(j, c, v)'
        BY <3>5, Zenon DEF Kept, GoodKept
      <4>3. \A c \in Blocks, v \in Units : (maps[c][v] \in DataBlocks => Good(maps[c][v], c, v)) /\ (maps[c][v] = Absent => c \in Missing)
        BY <3>4, Zenon DEF ShowInv, MapsInv
      <4>4. k # Absent
        BY <3>4, Sizes DEF DataBlocks, Absent
      <4>5. ASSUME NEW c \in Blocks, NEW v \in Units
            PROVE  /\ maps'[c][v] \in DataBlocks => Good(maps[c][v], c, v)'
                   /\ maps'[c][v] = Absent => c \in Missing
        <5>1. CASE c = b /\ v = u
          <6>1. Good(k, c, v)'
            BY <5>1, <4>1, <4>2, <3>4, Zenon
          <6>2. Good(maps[c][v], c, v)'
            BY <6>1, <5>1, <3>6, Zenon DEF Good, Holds, Shows, Original
          <6> QED BY <6>2, <5>1, <4>4, <3>6, Zenon
        <5>2. CASE c # b \/ v # u
          <6>1. maps'[c][v] = maps[c][v]
            BY <5>2, <3>6, Zenon
          <6>2. maps[c][v] \in DataBlocks => Good(maps[c][v], c, v)'
            BY <6>1, <4>2, <4>3, <3>2 DEF Good, Holds, Shows, Original
          <6> QED BY <6>1, <6>2, <4>3, Zenon
        <5> QED BY <5>1, <5>2, Zenon
      <4> QED BY <4>5, Zenon DEF MapsInv
    <3>8. pc'[t] = "bits" /\ "bits" \in Places /\ "remap" \in Copying /\ "bits" \in Copying
      BY <3>2, <3>4, Zenon DEF Goto, CowTypes, Places, Copying
    <3>9. ThreadInv(t)'
      <4>1. Holds(cow[t].blk, tgt[t][1])'
        BY <3>1, <3>2, <3>4, Zenon DEF Holds
      <4> QED BY <4>1, <3>8, Zenon DEF ThreadInv
    <3>10. WorkInv(t)'
      BY <3>2, <3>3, <3>4, <3>8, Zenon DEF WorkInv, Listed
    <3> QED BY <3>1, <3>2, <3>4, <3>5, <3>6, <3>7, <3>8, <3>9, <3>10, <2>CopyStep, Zenon DEF CowTypes
  <2>SetBitStep.
    \A t \in Threads :
      /\ RunInv
      /\ SetBit(t) \/ ClearBits(t)
    => RunInv'
    \* The end of a handler: it writes the bits of an entry.
    <3>BitsStep.
      \A t \in Threads : \A from \in {"bits", "clear"} : \A e : \A bits \in SUBSET Units :
        /\ RunInv
        /\ Goto(t, from, "store")
        /\ entries' = [entries EXCEPT ![e].bits = bits]
        /\ UNCHANGED <<maps, data, last, ht, tgt, cow, buf, monitor>>
      => RunInv'
      \* Entries that keep their addresses: the bits of one are written.
      <4>BitsKept.
        \A e : \A bits \in SUBSET Units :
          CowTypes /\ entries' = [entries EXCEPT ![e].bits = bits] /\ data' = data
        => entries' \in Seq(EntryRecs) /\ Len(entries') <= MaxBlockNum /\ Kept /\ (Filled => Filled') /\ \A k, b : Holds(k, b)' <=> Holds(k, b)
        <5>SeqMade.
          ASSUME NEW S, NEW n \in Nat, NEW s \in [1..n -> S]
          PROVE  s \in Seq(S) /\ Len(s) = n
          BY <5>SeqMade
        <5> SUFFICES ASSUME CowTypes, NEW e, NEW bits \in SUBSET Units, entries' = [entries EXCEPT ![e].bits = bits],
                            data' = data
                     PROVE  entries' \in Seq(EntryRecs) /\ Len(entries') <= MaxBlockNum /\ Kept /\ (Filled => Filled') /\ \A k, b : Holds(k, b)' <=> Holds(k, b)
          BY Zenon
        <5>1. entries \in Seq(EntryRecs) /\ Len(entries) \in Nat /\ DOMAIN entries = 1..Len(entries) /\ entries \in [1..Len(entries) -> EntryRecs]
          BY SeqIs, Zenon DEF CowTypes
        <5>2. entries' \in [1..Len(entries) -> EntryRecs] /\ \A k \in 1..Len(entries) : entries'[k].addr = entries[k].addr
          BY <5>1, Zenon DEF EntryRecs
        <5>3. entries' \in Seq(EntryRecs) /\ DOMAIN entries' = DOMAIN entries
          BY <5>1, <5>2, <5>SeqMade, Zenon
        <5>4. Len(entries') = Len(entries)
          BY <5>1, <5>2, <5>3, SeqIs
        <5>5. \A k, b : Holds(k, b)' <=> Holds(k, b)
          BY <5>1, <5>2, <5>3, Zenon DEF Holds
        <5>6. \A k, b, u : Good(k, b, u)' <=> Good(k, b, u)
          BY <5>5 DEF Good, Shows, Original
        <5>7. Filled => Filled'
          BY <5>1, <5>2, <5>3 DEF Filled, Shows, Original
        <5> QED BY <5>3, <5>4, <5>5, <5>6, <5>7, Zenon DEF Kept, AddrsKept, GoodKept, CowTypes
      <4> SUFFICES ASSUME RunInv, NEW t \in Threads, NEW from \in {"bits", "clear"}, Goto(t, from, "store"), NEW e,
                          NEW bits \in SUBSET Units, entries' = [entries EXCEPT ![e].bits = bits],
                          UNCHANGED <<maps, data, last, ht, tgt, cow, buf, monitor>>
                   PROVE  RunInv'
        BY Zenon
      <4>1. PICK b : b = tgt[t][1]
        BY Zenon
      <4>2. pc[t] = from /\ pc[t] \in Copying /\ from \in Copying /\ "store" \in Places
        BY Zenon DEF Goto, Copying, Places
      <4>3. CowTypes /\ ShowInv /\ ListedInv /\ ThreadInv(t) /\ WorkInv(t) /\ b \in Blocks
        BY <4>1, <4>2, AtWork, Zenon
      <4>4. entries' \in Seq(EntryRecs) /\ Len(entries') <= MaxBlockNum /\ Kept /\ Filled'
        BY <4>3, <4>BitsKept, Zenon DEF ShowInv
      <4>5. MapsInv'
        BY <4>3, <4>4, <1>MapsKeep, Zenon
      <4>6. pc'[t] = "store"
        BY <4>3, Zenon DEF Goto, CowTypes
      <4>7. ThreadInv(t)' /\ WorkInv(t)'
        BY <4>6, Zenon DEF ThreadInv, WorkInv, Copying
      <4>8. Listed(b) \/ AllMapped(b)'
        <5>1. CASE from = "bits"
          BY <5>1, <4>1, <4>2, <4>3, Zenon DEF WorkInv
        <5>2. CASE from = "clear"
          BY <5>2, <4>1, <4>2, <4>3, Zenon DEF WorkInv, AllMapped
        <5> QED BY <5>1, <5>2, Zenon
      <4> QED BY <4>1, <4>2, <4>3, <4>4, <4>5, <4>7, <4>8, <2>CopyStep, Zenon DEF CowTypes
    <3> SUFFICES ASSUME RunInv, NEW t \in Threads, SetBit(t) \/ ClearBits(t)
                 PROVE  RunInv'
      BY Zenon
    <3>1. CowTypes
      BY Zenon DEF RunInv
    <3>2. PICK e, u : e = cow[t].ent /\ u = tgt[t][2]
      BY Zenon
    <3>3. u \in Units
      BY <3>1, <3>2, Target, Zenon
    <3>4. CASE ClearBits(t)
      <4>1. /\ Goto(t, "clear", "store") /\ entries' = [entries EXCEPT ![e].bits = {}]
            /\ UNCHANGED <<maps, data, last, ht, tgt, cow, buf, monitor>>
        BY <3>2, <3>4, Zenon DEF ClearBits
      <4>2. PICK bits \in SUBSET Units : entries' = [entries EXCEPT ![e].bits = bits]
        BY <4>1, Zenon
      <4> QED BY <4>1, <4>2, <3>BitsStep, Zenon
    <3>5. CASE SetBit(t)
      <4>1. /\ Goto(t, "bits", "store") /\ entries' = [entries EXCEPT ![e].bits = @ \cup {u}]
            /\ UNCHANGED <<maps, data, last, ht, tgt, cow, buf, monitor>>
        BY <3>2, <3>5, Zenon DEF SetBit
      <4>2. entries \in Seq(EntryRecs) /\ DOMAIN entries = 1..Len(entries)
        BY <3>1, SeqIs, Zenon DEF CowTypes
      <4>3. PICK bits \in SUBSET Units : entries' = [entries EXCEPT ![e].bits = bits]
        <5>1. CASE e \in DOMAIN entries
          <6>1. entries[e] \in EntryRecs
            BY <5>1, <4>2, SeqIs, Zenon
          <6>2. entries[e].bits \cup {u} \in SUBSET Units
            BY <6>1, <3>3, Zenon DEF EntryRecs
          <6> QED BY <6>2, <4>1, Zenon
        <5>2. CASE e \notin DOMAIN entries
          <6>1. entries' = [entries EXCEPT ![e].bits = {}]
            BY <5>2, <4>1, Zenon
          <6> QED BY <6>1, Zenon
        <5> QED BY <5>1, <5>2, Zenon
      <4> QED BY <4>1, <4>3, <3>BitsStep, Zenon
    <3> QED BY <3>4, <3>5, Zenon
  <2>CopyReadStep.
    ASSUME RunInv, NEW t \in Threads, CopyRead(t)
    PROVE  RunInv'
    <3> USE <2>CopyReadStep
    <3>1. PICK b, v : b = tgt[t][1] /\ v = buf[t][1]
      BY Zenon
    <3>2. /\ Goto(t, "read", "write") /\ buf' = [buf EXCEPT ![t] = <<v, View(b, v)>>]
          /\ UNCHANGED <<maps, data, entries, last, ht, tgt, cow, monitor>>
      BY <3>1, Zenon DEF CopyRead, memVars, cowVars
    <3>3. pc[t] = "read" /\ pc[t] \in Copying
      BY <3>2, Zenon DEF Goto, Copying
    <3>4. CowTypes /\ ShowInv /\ ListedInv /\ ThreadInv(t) /\ WorkInv(t) /\ b \in Blocks /\ Holds(cow[t].blk, b)
      BY <3>1, <3>3, AtWork, Zenon
    <3>5. v \in Units /\ v \in Nat /\ \A u \in Units : u < v => Good(cow[t].blk, b, u)
      BY <3>1, <3>3, <3>4, Target, Zenon DEF ThreadInv
    <3>6. View(b, v) \in Marks /\ Shows(b, v, View(b, v))
      BY <3>4, <3>5, ViewShows, Zenon
    <3>7. /\ buf' \in [Threads -> Nat \X Marks] /\ buf'[t][1] = v /\ buf'[t][2] = View(b, v)
          /\ \A w \in Threads : w # t => buf'[w] = buf[w]
      BY <3>2, <3>4, <3>5, <3>6, Zenon DEF CowTypes
    <3>8. Kept /\ Filled' /\ MapsInv'
      BY <3>2, <3>4, <1>SameKept, <1>MapsKeep, Zenon DEF ShowInv
    <3>9. pc'[t] = "write" /\ "write" \in Places /\ "read" \in Copying /\ "write" \in Copying
      BY <3>2, <3>4, Zenon DEF Goto, CowTypes, Places, Copying
    <3>10. ThreadInv(t)'
      <4>1. Holds(cow[t].blk, tgt[t][1])'
        BY <3>1, <3>2, <3>4, Zenon DEF Holds
      <4>2. \A u \in Units : u < buf'[t][1] => Good(cow[t].blk, tgt[t][1], u)'
        BY <3>1, <3>2, <3>5, <3>7, Zenon DEF Good, Holds, Shows, Original
      <4>3. Shows(tgt[t][1], buf[t][1], buf[t][2])'
        BY <3>1, <3>2, <3>6, <3>7, Zenon DEF Shows, Original
      <4> QED BY <4>1, <4>2, <4>3, <3>5, <3>7, <3>9, Zenon DEF ThreadInv
    <3>11. WorkInv(t)'
      BY <3>9, Zenon DEF WorkInv
    <3> QED BY <3>1, <3>2, <3>4, <3>7, <3>8, <3>9, <3>10, <3>11, <2>CopyStep, Zenon DEF CowTypes
  <2>CopyWriteStep.
    ASSUME RunInv, NEW t \in Threads, CopyWrite(t)
    PROVE  RunInv'
    <3> USE <2>CopyWriteStep
    <3>1. PICK b, v, k, x : b = tgt[t][1] /\ v = buf[t][1] /\ k = cow[t].blk /\ x = buf[t][2]
      BY Zenon
    <3>2. PICK to : to = IF v + 1 \in Units THEN "read" ELSE "remapAll"
      BY Zenon
    <3>3. /\ Goto(t, "write", to) /\ buf' = [buf EXCEPT ![t] = <<v + 1, Zero>>] /\ data' = [data EXCEPT ![k][v] = x]
          /\ UNCHANGED <<maps, entries, last, ht, tgt, cow, monitor>>
      BY <3>1, <3>2, Zenon DEF CopyWrite, cowVars
    <3>4. pc[t] = "write" /\ pc[t] \in Copying
      BY <3>3, Zenon DEF Goto, Copying
    <3>5. CowTypes /\ ShowInv /\ ListedInv /\ ThreadInv(t) /\ WorkInv(t) /\ b \in Blocks /\ Holds(k, b) /\ k \in DataBlocks
      BY <3>1, <3>4, AtWork, Zenon
    <3>6. v \in Units /\ v \in Nat /\ x \in Marks /\ Shows(b, v, x) /\ \A u \in Units : u < v => Good(k, b, u)
      BY <3>1, <3>4, <3>5, Target, Zenon DEF ThreadInv
    <3>7. data' \in [DataBlocks -> [Units -> Marks]] /\ Filled' /\ AddrsKept /\ GoodKept /\ Good(k, b, v)'
      <4>1. entries' = entries
        BY <3>3, Zenon
      <4> QED BY <4>1, <3>3, <3>5, <3>6, <2>DataStep, Zenon
    <3>8. /\ buf' \in [Threads -> Nat \X Marks] /\ buf'[t][1] = v + 1
          /\ \A w \in Threads : w # t => buf'[w] = buf[w]
      BY <3>3, <3>5, <3>6 DEF CowTypes, Marks
    <3>9. Kept /\ MapsInv'
      BY <3>3, <3>5, <3>7, <1>MapsKeep, Zenon DEF Kept
    <3>10. to \in {"read", "remapAll"} /\ to \in Places /\ "write" \in Copying /\ to \in Copying
      BY <3>2, Zenon DEF Places, Copying
    <3>11. pc'[t] = to
      BY <3>3, <3>5, Zenon DEF Goto, CowTypes
    <3>12. \A u \in Units : u < v + 1 => Good(k, b, u)'
      <4> TAKE u \in Units
      <4>1. u < v + 1 => u < v \/ u = v
        BY <3>6, Sizes DEF Units
      <4>2. u < v => Good(k, b, u)'
        BY <3>6, <3>7, Zenon DEF GoodKept
      <4> QED BY <4>1, <4>2, <3>7, Zenon
    <3>13. to = "remapAll" => \A u \in Units : u < v + 1
      BY <3>2, <3>6, Sizes DEF Units
    <3>14. to = "read" => v + 1 \in Units
      BY <3>2, Zenon
    <3>15. ThreadInv(t)'
      <4>1. Holds(cow[t].blk, tgt[t][1])'
        BY <3>1, <3>3, <3>5, Zenon DEF Holds
      <4>2. \A u \in Units : u < v + 1 => Good(cow[t].blk, tgt[t][1], u)'
        BY <3>1, <3>3, <3>12 DEF Good, Holds, Shows, Original
      <4>3. CASE to = "read"
        BY <4>1, <4>2, <4>3, <3>8, <3>11, <3>14, Zenon DEF ThreadInv
      <4>4. CASE to = "remapAll"
        BY <4>1, <4>2, <4>4, <3>11, <3>13, Zenon DEF ThreadInv
      <4> QED BY <4>3, <4>4, <3>10, Zenon
    <3>16. WorkInv(t)'
      BY <3>10, <3>11, Zenon DEF WorkInv
    <3>17. maps' = maps /\ UNCHANGED <<last, ht, tgt, cow, monitor>> /\ entries' = entries
      BY <3>3, Zenon
    <3> QED BY <3>1, <3>3, <3>5, <3>7, <3>8, <3>9, <3>10, <3>15, <3>16, <3>17, <2>CopyStep, ZenonT(60) DEF CowTypes
  <2>RemapBlockStep.
    ASSUME RunInv, NEW t \in Threads, RemapBlock(t)
    PROVE  RunInv'
    <3> USE <2>RemapBlockStep
    <3>1. PICK b, k : b = tgt[t][1] /\ k = cow[t].blk
      BY Zenon
    <3>2. /\ Goto(t, "remapAll", "clear") /\ maps' = [maps EXCEPT ![b] = [u \in Units |-> k]] /\ buf' = [buf EXCEPT ![t] = <<0, Zero>>]
          /\ UNCHANGED <<data, entries, last, ht, tgt, cow, monitor>>
      BY <3>1, Zenon DEF RemapBlock, cowVars
    <3>3. pc[t] = "remapAll" /\ pc[t] \in Copying
      BY <3>2, Zenon DEF Goto, Copying
    <3>4. CowTypes /\ ShowInv /\ ListedInv /\ ThreadInv(t) /\ WorkInv(t) /\ b \in Blocks /\ Holds(k, b)
      BY <3>1, <3>3, AtWork, Zenon
    <3>5. Kept /\ Filled'
      BY <3>2, <3>4, <1>SameKept, Zenon DEF ShowInv
    <3>6. /\ maps' \in [Blocks -> [Units -> {Absent, ReadOnly} \cup DataBlocks]]
          /\ \A c \in Blocks : c # b => maps'[c] = maps[c]
          /\ MapsInv' /\ AllMapped(b)'
      <4>1. \A u \in Units : Good(k, b, u)
        BY <3>1, <3>3, <3>4, Zenon DEF ThreadInv
      <4>2. UNCHANGED <<data, entries>>
        BY <3>2, Zenon
      <4> QED BY <4>1, <4>2, <3>2, <3>4, <1>MapBlock, Zenon
    <3>7. buf' \in [Threads -> Nat \X Marks] /\ \A w \in Threads : w # t => buf'[w] = buf[w]
      BY <3>2, <3>4, Zenon DEF CowTypes, Marks
    <3>8. pc'[t] = "clear" /\ "clear" \in Places /\ "remapAll" \in Copying /\ "clear" \in Copying
      BY <3>2, <3>4, Zenon DEF Goto, CowTypes, Places, Copying
    <3>9. ThreadInv(t)'
      <4>1. Holds(cow[t].blk, tgt[t][1])'
        BY <3>1, <3>2, <3>4, Zenon DEF Holds
      <4> QED BY <4>1, <3>8, Zenon DEF ThreadInv
    <3>10. WorkInv(t)'
      <4>1. AllMapped(tgt[t][1])'
        BY <3>1, <3>2, <3>6, Zenon DEF AllMapped
      <4> QED BY <4>1, <3>8, Zenon DEF WorkInv
    <3> QED BY <3>1, <3>2, <3>4, <3>5, <3>6, <3>7, <3>8, <3>9, <3>10, <2>CopyStep, Zenon DEF CowTypes
  <2> SUFFICES ASSUME NatLeast, RunInv, NEW t \in Threads, Commit(t) \/ TouchAbsent(t) \/ Handler(t)
               PROVE  RunInv' \/ (process' # "running" /\ UNCHANGED <<maps, data, entries, ht, pc, tgt>>)
    BY Zenon
  <2>1. CASE Commit(t)
    BY <2>1, <2>CommitStep, Zenon
  <2>2. CASE TouchAbsent(t) \/ Fault(t) \/ InList(t) \/ LockBlock(t) \/ AlreadyListed(t)
    BY <2>2, <2>EarlySteps, Zenon
  <2>3. CASE Refault(t)
    BY <2>3, <1>Stutter, Zenon DEF Refault
  <2>4. CASE InsertListWhole(t) \/ InsertListUnit(t) \/ InsertHt(t)
    BY <2>4, <2>InsertWholeStep, <2>InsertUnitStep, <2>InsertHtStep, Zenon
  <2>5. CASE InsertListNew(t)
    <3>1. CASE OutOfRange
      BY <2>5, <3>1, Zenon DEF InsertListNew, Exit
    <3>2. CASE ~OutOfRange
      BY <2>5, <3>2, <2>InsertNewStep, Zenon
    <3> QED BY <3>1, <3>2, Zenon
  <2>6. CASE CopyUnit(t)
    <3>1. CASE tgt[t][2] \in holes[cow[t].blk]
      BY <2>6, <3>1, Zenon DEF CopyUnit, cowVars
    <3>2. CASE tgt[t][2] \notin holes[cow[t].blk]
      BY <2>6, <3>2, <2>CopyUnitStep, Zenon
    <3> QED BY <3>1, <3>2, Zenon
  <2>7. CASE RemapUnit(t) \/ SetBit(t) \/ CopyRead(t) \/ CopyWrite(t) \/ RemapBlock(t) \/ ClearBits(t)
    BY <2>7, <2>RemapUnitStep, <2>SetBitStep, <2>CopyReadStep, <2>CopyWriteStep, <2>RemapBlockStep, Zenon
  <2>8. CASE UseFreedNode(t)
    BY <2>8, Zenon DEF UseFreedNode, memVars, cowVars, threadVars
  <2> QED BY <2>1, <2>2, <2>3, <2>4, <2>5, <2>6, <2>7, <2>8, Zenon DEF Handler
<1>MonitorSteps.
    RunInv /\ Monitor
  => RunInv' \/ (process' # "running" /\ UNCHANGED <<maps, data, entries, ht, pc, tgt>>)
  <2>MonitorReadStep.
    ASSUME RunInv, NEW t \in Threads, MonitorRead(t)
    PROVE  RunInv'
    <3> USE <2>MonitorReadStep
    <3>1. CowTypes /\ ShowInv /\ ListedInv /\ tgt[t][1] \in Blocks
      BY Target, Zenon DEF RunInv
    <3>2. /\ pc[t] = "uffd" /\ monitor' = [pc |-> "new", b |-> tgt[t][1], blk |-> 0]
          /\ UNCHANGED <<maps, data, entries, last, ht, pc, tgt, cow, buf>>
      BY Zenon DEF MonitorRead, memVars, cowVars, threadVars
    <3>3. monitor' \in [pc : {"poll", "new", "map", "wake"}, b : Blocks, blk : Nat] /\ monitor'.pc = "new" /\ monitor'.b = tgt[t][1]
      BY <3>1, <3>2, Zenon
    <3>4. MonitorInv'
      BY <3>1, <3>2, <3>3, Zenon DEF ShowInv, ThreadInv, MonitorInv
    <3>5. Kept /\ Filled' /\ MapsInv'
      BY <3>1, <3>2, <1>SameKept, <1>MapsKeep, Zenon DEF ShowInv
    <3>6. \A c : (AllMapped(c)' <=> AllMapped(c)) /\ (InPart(c)' <=> InPart(c))
      BY <3>2, MappedSame, Zenon
    <3> QED BY <3>1, <3>2, <3>3, <3>4, <3>5, <3>6, <1>MonitorStep, Zenon DEF CowTypes
  <2>MonitorNewStep.
    ASSUME RunInv, MonitorNewBlock, ~OutOfRange
    PROVE  RunInv'
    <3> USE <2>MonitorNewStep
    <3>1. CowTypes /\ ShowInv /\ ListedInv
      BY Zenon DEF RunInv
    <3>2. PICK m, b : m = Len(entries) + 1 /\ b = monitor.b
      BY Zenon
    <3>3. /\ monitor.pc = "new" /\ NewBlock(b) /\ monitor' = [monitor EXCEPT !.pc = "map", !.blk = m]
          /\ UNCHANGED <<maps, data, last, ht, pc, tgt, cow, buf>>
      BY <3>2, Zenon DEF MonitorNewBlock, cowVars, threadVars
    <3>4. b \in Blocks /\ b \in Missing
      BY <3>1, <3>2, <3>3, Zenon DEF CowTypes, ShowInv, MonitorInv
    <3>5. entries' \in Seq(EntryRecs) /\ Len(entries') <= MaxBlockNum /\ Kept /\ Filled' /\ Holds(m, b)' /\ m \in DataBlocks
      BY <3>1, <3>2, <3>3, <3>4, NewKept, Zenon DEF ShowInv
    <3>6. m \in Nat
      BY <3>5, Sizes DEF DataBlocks
    <3>7. /\ monitor' \in [pc : {"poll", "new", "map", "wake"}, b : Blocks, blk : Nat]
          /\ monitor'.pc = "map" /\ monitor'.b = b /\ monitor'.blk = m
      BY <3>1, <3>2, <3>3, <3>6, Zenon DEF CowTypes
    <3>8. MonitorInv'
      BY <3>4, <3>5, <3>7, Zenon DEF MonitorInv, Holds
    <3>9. MapsInv'
      BY <3>1, <3>3, <3>5, <1>MapsKeep, Zenon
    <3>10. \A c : (AllMapped(c)' <=> AllMapped(c)) /\ (InPart(c)' <=> InPart(c))
      BY <3>3, MappedSame, Zenon
    <3> QED BY <3>1, <3>3, <3>5, <3>7, <3>8, <3>9, <3>10, <1>MonitorStep, Zenon DEF CowTypes
  <2>MonitorMapStep.
    ASSUME RunInv, MonitorMap
    PROVE  RunInv'
    <3> USE <2>MonitorMapStep
    <3>1. CowTypes /\ ShowInv /\ ListedInv
      BY Zenon DEF RunInv
    <3>2. PICK k, b : k = monitor.blk /\ b = monitor.b
      BY Zenon
    <3>3. /\ monitor.pc = "map" /\ maps' = [maps EXCEPT ![b] = [u \in Units |-> k]] /\ monitor' = [monitor EXCEPT !.pc = "wake"]
          /\ UNCHANGED <<data, entries, last, ht, pc, tgt, cow, buf>>
      BY <3>2, Zenon DEF MonitorMap, cowVars, threadVars
    <3>4. b \in Blocks /\ b \in Missing /\ Holds(k, b)
      BY <3>1, <3>2, <3>3, Zenon DEF CowTypes, ShowInv, MonitorInv
    <3>5. \A u \in Units : Good(k, b, u)
      <4> TAKE u \in Units
      <4>1. data[k][u] = Zero \/ Shows(b, u, data[k][u])
        BY <3>1, <3>4, Zenon DEF ShowInv, Filled, Holds
      <4>2. Shows(b, u, Zero)
        BY <3>4, Zenon DEF Shows, Original
      <4> QED BY <4>1, <4>2, <3>4, Zenon DEF Good
    <3>6. /\ maps' \in [Blocks -> [Units -> {Absent, ReadOnly} \cup DataBlocks]]
          /\ \A c \in Blocks : c # b => maps'[c] = maps[c]
          /\ MapsInv' /\ AllMapped(b)'
      <4>1. UNCHANGED <<data, entries>>
        BY <3>3, Zenon
      <4> QED BY <4>1, <3>1, <3>3, <3>4, <3>5, <1>MapBlock, Zenon
    <3>7. Kept /\ Filled'
      BY <3>1, <3>3, <1>SameKept, Zenon DEF ShowInv
    <3>8. /\ monitor' \in [pc : {"poll", "new", "map", "wake"}, b : Blocks, blk : Nat]
          /\ monitor'.pc = "wake" /\ monitor'.b = b
      BY <3>1, <3>2, <3>3, Zenon DEF CowTypes
    <3>9. MonitorInv'
      BY <3>4, <3>8, Zenon DEF MonitorInv
    <3>10. \A c \in Blocks : (AllMapped(c) => AllMapped(c)') /\ (InPart(c)' => InPart(c))
      <4> TAKE c \in Blocks
      <4>1. CASE c = b
        <5>1. ~InPart(b)'
          BY <3>6, Sizes DEF InPart, AllMapped, DataBlocks, ReadOnly
        <5> QED BY <4>1, <5>1, <3>6, Zenon
      <4>2. CASE c # b
        <5>1. maps'[c] = maps[c]
          BY <4>2, <3>6, Zenon
        <5> QED BY <5>1, Zenon DEF AllMapped, InPart
      <4> QED BY <4>1, <4>2, Zenon
    <3> QED BY <3>1, <3>3, <3>6, <3>7, <3>8, <3>9, <3>10, <1>MonitorStep, Zenon DEF CowTypes
  <2>MonitorWakeStep.
    ASSUME RunInv, MonitorWake
    PROVE  RunInv'
    <3> USE <2>MonitorWakeStep
    <3>1. CowTypes /\ ShowInv /\ ListedInv
      BY Zenon DEF RunInv
    <3>2. /\ pc' = [t \in Threads |-> IF pc[t] = "uffd" /\ tgt[t][1] = monitor.b THEN "store" ELSE pc[t]]
          /\ monitor' = [pc |-> "poll", b |-> 0, blk |-> 0]
          /\ UNCHANGED <<maps, data, entries, last, ht, tgt, cow, buf>>
      BY Zenon DEF MonitorWake, memVars, cowVars
    <3>3. /\ \A w \in Threads : pc'[w] = pc[w] \/ (pc[w] = "uffd" /\ pc'[w] = "store")
          /\ pc' \in [Threads -> Places]
      BY <3>1, <3>2, Zenon DEF CowTypes, Places
    <3>4. monitor' \in [pc : {"poll", "new", "map", "wake"}, b : Blocks, blk : Nat] /\ monitor'.pc = "poll"
      BY <3>2, Sizes DEF Blocks
    <3>5. MonitorInv'
      BY <3>4, Zenon DEF MonitorInv
    <3>6. Kept /\ Filled' /\ MapsInv'
      BY <3>1, <3>2, <1>SameKept, <1>MapsKeep, Zenon DEF ShowInv
    <3>7. \A c : (AllMapped(c)' <=> AllMapped(c)) /\ (InPart(c)' <=> InPart(c))
      BY <3>2, MappedSame, Zenon
    <3> QED BY <3>1, <3>2, <3>3, <3>4, <3>5, <3>6, <3>7, <1>MonitorStep DEF CowTypes
  <2> SUFFICES ASSUME RunInv, Monitor
               PROVE  RunInv' \/ (process' # "running" /\ UNCHANGED <<maps, data, entries, ht, pc, tgt>>)
    BY Zenon
  <2>1. ASSUME NEW t \in Threads, MonitorRead(t) PROVE RunInv'
    BY <2>1, <2>MonitorReadStep, Zenon
  <2>2. CASE MonitorNewBlock
    <3>1. CASE OutOfRange
      BY <2>2, <3>1, Zenon DEF MonitorNewBlock, Exit, cowVars, threadVars
    <3>2. CASE ~OutOfRange
      BY <2>2, <3>2, <2>MonitorNewStep, Zenon
    <3> QED BY <3>1, <3>2, Zenon
  <2>3. CASE MonitorMap \/ MonitorWake
    BY <2>3, <2>MonitorMapStep, <2>MonitorWakeStep, Zenon
  <2> QED BY <2>1, <2>2, <2>3, Zenon DEF Monitor
<1> SUFFICES ASSUME NatLeast, CowInvariant, [Next]_vars
             PROVE  CowInvariant'
  BY Zenon
<1>1. CASE UNCHANGED vars
  <2>1. NothingForeign' /\ UncompletedListed'
    BY <1>1, <1>Stopped, Zenon DEF CowInvariant, vars, memVars, cowVars, threadVars
  <2>2. (process = "running" => RunInv)'
    <3>1. process' = process
      BY <1>1, Zenon DEF vars
    <3> QED BY <1>1, <3>1, <1>Stutter, Zenon DEF CowInvariant
  <2> QED BY <2>1, <2>2, Zenon DEF CowInvariant
<1>2. CASE process = "running" /\ Next
  <2>1. RunInv /\ NothingForeign /\ UncompletedListed
    BY <1>2, Zenon DEF CowInvariant
  <2>2. ASSUME RunInv' \/ (process' # "running" /\ UNCHANGED <<maps, data, entries, ht, pc, tgt>>) PROVE CowInvariant'
    <3>1. CASE RunInv'
      <4>1. NothingForeign'
        BY <3>1, Foreign, PTL
      <4>2. UncompletedListed'
        BY <3>1, Partly, PTL
      <4> QED BY <3>1, <4>1, <4>2, Zenon DEF CowInvariant
    <3>2. CASE process' # "running" /\ UNCHANGED <<maps, data, entries, ht, pc, tgt>>
      BY <3>2, <2>1, <1>Stopped, Zenon DEF CowInvariant
    <3> QED BY <2>2, <3>1, <3>2, Zenon
  <2>3. ASSUME NEW t \in Threads, Guest(t) PROVE CowInvariant'
    BY <2>1, <2>2, <2>3, <1>GuestStep, Zenon DEF Guest
  <2>4. ASSUME NEW t \in Threads, NEW a \in Addresses(t), Begin(t, a) PROVE CowInvariant'
    BY <2>1, <2>2, <2>4, <1>BeginStep, Zenon
  <2>5. CASE Monitor
    BY <2>1, <2>2, <2>5, <1>MonitorSteps, Zenon
  <2>6. CASE Fmunmap
    <3>1. process' # "running"
      BY <2>6, Zenon DEF Fmunmap
    <3> QED BY <3>1, <2>1, <2>6, <1>FmunmapStep, Zenon DEF CowInvariant
  <2> QED BY <1>2, <2>3, <2>4, <2>5, <2>6, Zenon DEF Next, Ended
<1> QED BY <1>1, <1>2, Zenon DEF Next, Ended, Guest, Monitor
=============================================================================
