----------------------------- MODULE CowProofs -----------------------------
(***************************************************************************)
(* What copy-on-write guarantees. CowSafe and its consequences hold for    *)
(* any guest: units show nothing foreign, and a block copied in part is    *)
(* listed for final_cow.                                                   *)
(*                                                                         *)
(* The others hold for a guest whose threads do not store to the same      *)
(* block of a read-only layer (Private): the guest reads what it stored, a *)
(* crash at any moment loses no store, and no block gets two entries.      *)
(* Without Private these three are false, as the runs cow_lost_store and   *)
(* cow_two_entries show. Their invariant, AloneInv, adds to RunInv that    *)
(* each handler works on a unit that is still read-only (OwnThread), that  *)
(* blocks of no layer are mapped by uf_monitor alone and at once           *)
(* (LayerInv), that a block with an entry is mapped, listed or being       *)
(* filled by somebody (Known: so a handler that finds none of these is the *)
(* first to allocate, EntryInv), and that a copy shows what the guest      *)
(* reads as far as it has come (CopiedInv).                                *)
(***************************************************************************)
EXTENDS CowSteps

\* Where a handler of a read-only unit is before it maps the copy, and while
\* the copy is being filled.
Handling == {"inList", "lock", "insert", "entry", "copy", "remap", "read", "write", "remapAll"}
Filling == {"entry", "read", "write", "remapAll"}
Busy(t) == pc[t] \in Handling \cup {"bits", "clear"}

\* A thread stores to its blocks; its handler works on a read-only unit; a
\* waiting thread will be woken.
OwnThread(t) ==
  /\ pc[t] # "idle" => tgt[t][1] \in Touches[t]
  /\ pc[t] \in Handling => maps[tgt[t][1]][tgt[t][2]] = ReadOnly
  /\ pc[t] \in {"bits", "clear"} => tgt[t][1] \notin Missing
  /\ pc[t] = "uffd" => maps[tgt[t][1]][tgt[t][2]] = Absent \/ (monitor.pc = "wake" /\ monitor.b = tgt[t][1])

\* Read-only units and nodes are of blocks of the layers; blocks of no layer
\* are mapped as a whole.
LayerInv ==
  /\ \A b \in Blocks, u \in Units : maps[b][u] = ReadOnly => b \notin Missing
  /\ \A b \in Missing : \A u, v \in Units : maps[b][u] = Absent => maps[b][v] = Absent
  /\ monitor.pc \in {"new", "map"} => \A u \in Units : maps[monitor.b][u] = Absent
  /\ \A n \in Buckets : \A i \in DOMAIN ht[n] : BucketOf(ht[n][i].b) = n /\ ht[n][i].b \notin Missing

\* A block is mapped as a whole, listed, or being filled by uf_monitor or by a
\* handler.
Known(b) ==
  \/ AllMapped(b)
  \/ Listed(b)
  \/ b \in Missing /\ monitor.pc = "map" /\ monitor.b = b
  \/ \E t \in Threads : pc[t] \in Filling /\ tgt[t][1] = b
\* A block has at most one entry, and has one only if somebody knows it.
EntryInv ==
  /\ \A j, k \in DOMAIN entries : entries[j].addr = entries[k].addr => j = k
  /\ \A k \in DOMAIN entries : Known(entries[k].addr)

\* What the handler of t has copied so far is what the guest reads.
CopiedInv(t) ==
  /\ pc[t] = "remap" => data[cow[t].blk][tgt[t][2]] = View(tgt[t][1], tgt[t][2])
  /\ pc[t] \in {"read", "write"} => \A u \in Units : u < buf[t][1] => data[cow[t].blk][u] = View(tgt[t][1], u)
  /\ pc[t] = "write" => buf[t][2] = View(tgt[t][1], buf[t][1])
  /\ pc[t] = "remapAll" => \A u \in Units : data[cow[t].blk][u] = View(tgt[t][1], u)
\* uf_monitor maps a block of zeros.
FreshInv == monitor.pc = "map" => \A u \in Units : data[monitor.blk][u] = Zero

\* The inductive invariant under Private, on top of RunInv.
AloneInv ==
  /\ LayerInv /\ EntryInv /\ FreshInv /\ GuestCoherent
  /\ \A t \in Threads : OwnThread(t) /\ CopiedInv(t)

-----------------------------------------------------------------------------
\* The guest reads the same while mapping and content stay the same.
LEMMA ViewKeeps ==
  ASSUME CowTypes, ShowInv, NEW b \in Blocks, NEW u \in Units, maps'[b][u] = maps[b][u],
         \A k : Holds(k, b) => data'[k][u] = data[k][u]
  PROVE  View(b, u)' = View(b, u)
<1>1. CASE maps[b][u] \in DataBlocks
  <2>1. Holds(maps[b][u], b)
    BY <1>1, Zenon DEF ShowInv, MapsInv, Good
  <2> QED BY <1>1, <2>1, Zenon DEF View
<1>2. CASE maps[b][u] \notin DataBlocks
  BY <1>2, Zenon DEF View, Original
<1> QED BY <1>1, <1>2, Zenon

\* A handler works on blocks of the layers.
LEMMA BusyOwn ==
  ASSUME CowTypes, AloneInv, NEW t \in Threads, Busy(t)
  PROVE  tgt[t][1] \notin Missing /\ pc[t] # "idle" /\ tgt[t][1] \in Blocks
<1>1. LayerInv /\ OwnThread(t) /\ tgt[t][1] \in Blocks /\ tgt[t][2] \in Units
  BY Target, Zenon DEF AloneInv
<1>2. CASE pc[t] \in Handling
  BY <1>1, <1>2, Zenon DEF OwnThread, LayerInv, Handling
<1>3. CASE pc[t] \in {"bits", "clear"}
  BY <1>1, <1>3, Zenon DEF OwnThread
<1> QED BY <1>2, <1>3, Zenon DEF Busy

\* Two threads meet on blocks of no layer only: this is where Private is used.
LEMMA Met ==
  ASSUME Private, AloneInv, NEW t \in Threads, NEW w \in Threads, t # w, pc[t] # "idle", pc[w] # "idle", tgt[t][1] = tgt[w][1]
  PROVE  tgt[t][1] \in Missing
<1>1. tgt[t][1] \in Touches[t] /\ tgt[w][1] \in Touches[w]
  BY Zenon DEF AloneInv, OwnThread
<1> QED BY <1>1, Zenon DEF Private

\* The handler of w keeps its progress while its block stays the same.
LEMMA CopiedKeeps ==
  ASSUME NEW w \in Threads, CopiedInv(w), pc'[w] = pc[w], tgt'[w] = tgt[w], cow'[w] = cow[w], buf'[w] = buf[w],
         NEW b, b = tgt[w][1], tgt[w][2] \in Units, pc[w] \in {"read", "write"} => buf[w][1] \in Units,
         pc[w] \in Copying => \A u \in Units : View(b, u)' = View(b, u) /\ data'[cow[w].blk][u] = data[cow[w].blk][u]
  PROVE  CopiedInv(w)'
<1>1. CASE pc[w] \notin {"remap", "read", "write", "remapAll"}
  BY <1>1, Zenon DEF CopiedInv
<1>2. CASE pc[w] \in {"remap", "read", "write", "remapAll"}
  <2>1. \A u \in Units : View(b, u)' = View(b, u) /\ data'[cow[w].blk][u] = data[cow[w].blk][u]
    BY <1>2, Zenon DEF Copying
  <2>2. \A u : View(tgt[w][1], u)' = View(b, u)'
    BY Zenon DEF View, Original
  <2>3. /\ pc[w] = "remap" => data[cow[w].blk][tgt[w][2]] = View(b, tgt[w][2])
        /\ pc[w] \in {"read", "write"} => \A u \in Units : u < buf[w][1] => data[cow[w].blk][u] = View(b, u)
        /\ pc[w] = "write" => buf[w][2] = View(b, buf[w][1])
        /\ pc[w] = "remapAll" => \A u \in Units : data[cow[w].blk][u] = View(b, u)
    BY Zenon DEF CopiedInv
  <2>4. /\ pc'[w] = "remap" => data'[cow'[w].blk][tgt'[w][2]] = View(tgt[w][1], tgt[w][2])'
        /\ pc'[w] \in {"read", "write"} => \A u \in Units : u < buf'[w][1] => data'[cow'[w].blk][u] = View(tgt[w][1], u)'
        /\ pc'[w] = "write" => buf'[w][2] = View(tgt[w][1], buf[w][1])'
        /\ pc'[w] = "remapAll" => \A u \in Units : data'[cow'[w].blk][u] = View(tgt[w][1], u)'
    <3>1. View(tgt[w][1], tgt[w][2])' = View(b, tgt[w][2])' /\ View(tgt[w][1], buf[w][1])' = View(b, buf[w][1])'
      BY Zenon DEF View, Original
    <3>2. \A v : v = tgt[w][2] => View(b, v)' = View(b, tgt[w][2])'
      BY Zenon DEF View, Original
    <3>3. \A v : v = buf[w][1] => View(b, v)' = View(b, buf[w][1])'
      BY Zenon DEF View, Original
    <3> QED BY <2>1, <2>2, <2>3, <3>1, <3>2, <3>3
  <2> QED BY <2>4, Zenon DEF CopiedInv
<1> QED BY <1>1, <1>2, Zenon

\* What a step of thread t on block b does to the others.
LEMMA OthersAlone ==
  ASSUME Private, RunInv, AloneInv, NEW t \in Threads, OthersStay(t), NEW b \in Blocks, monitor' = monitor,
         \A c \in Blocks : c # b => maps'[c] = maps[c],
         \A k, c : Holds(k, c) /\ c # b => data'[k] = data[k],
         UNCHANGED <<maps, data>> \/ (pc[t] # "idle" /\ tgt[t][1] = b),
         b \in Missing => maps' = maps
  PROVE  /\ \A w \in Threads : w # t => OwnThread(w)' /\ CopiedInv(w)'
         /\ \A c \in Blocks, u \in Units : c # b => View(c, u)' = View(c, u)
<1>1. CowTypes /\ ShowInv
  BY Zenon DEF RunInv
<1>2. \A c \in Blocks, u \in Units : c # b \/ UNCHANGED <<maps, data>> => View(c, u)' = View(c, u)
  BY <1>1, ViewKeeps
<1>3. ASSUME NEW w \in Threads, w # t PROVE OwnThread(w)' /\ CopiedInv(w)'
  <2>1. pc'[w] = pc[w] /\ tgt'[w] = tgt[w] /\ cow'[w] = cow[w] /\ buf'[w] = buf[w] /\ OwnThread(w) /\ CopiedInv(w)
    BY <1>3, Zenon DEF OthersStay, AloneInv
  <2>2. PICK c \in Blocks : c = tgt[w][1]
    BY <1>1, Target, Zenon
  <2>3. tgt[w][2] \in Units
    BY <1>1, Target, Zenon
  <2>4. pc[w] # "idle" => maps'[c] = maps[c]
    BY <1>3, <2>2, Met
  <2>5. OwnThread(w)'
    BY <2>1, <2>2, <2>4, Zenon DEF OwnThread, Handling
  <2>6. ASSUME pc[w] \in Copying PROVE \A u \in Units : View(c, u)' = View(c, u) /\ data'[cow[w].blk][u] = data[cow[w].blk][u]
    <3>1. pc[w] # "idle" /\ Busy(w)
      BY <2>6, Zenon DEF Copying, Busy, Handling
    <3>2. c \notin Missing
      BY <3>1, <1>1, <2>2, BusyOwn, Zenon
    <3>3. c # b \/ UNCHANGED <<maps, data>>
      BY <3>1, <3>2, <1>3, <2>2, Met, Zenon
    <3>4. Holds(cow[w].blk, c)
      BY <1>1, <2>2, <2>6, Zenon DEF ShowInv, ThreadInv
    <3> QED BY <3>3, <3>4, <1>2, Zenon
  <2>7. pc[w] \in {"read", "write"} => buf[w][1] \in Units
    BY <1>1, Zenon DEF ShowInv, ThreadInv
  <2> QED BY <2>1, <2>2, <2>3, <2>5, <2>6, <2>7, CopiedKeeps
<1> QED BY <1>2, <1>3, Zenon

\* The block uf_monitor is about to map stays all zeros.
LEMMA FreshKeeps ==
  ASSUME RunInv, AloneInv, monitor' = monitor, NEW b,
         \A k, c : Holds(k, c) /\ c # b => data'[k] = data[k],
         data' = data \/ b \notin Missing \/ \E u \in Units : maps[b][u] # Absent
  PROVE  FreshInv'
<1> SUFFICES ASSUME monitor.pc = "map", NEW u \in Units PROVE data'[monitor.blk][u] = Zero
  BY Zenon DEF FreshInv
<1>1. data[monitor.blk][u] = Zero /\ monitor.b \in Missing /\ Holds(monitor.blk, monitor.b) /\ \A v \in Units : maps[monitor.b][v] = Absent
  BY Zenon DEF RunInv, ShowInv, MonitorInv, AloneInv, FreshInv, LayerInv
<1>2. data' = data \/ monitor.b # b
  BY <1>1, Zenon
<1> QED BY <1>1, <1>2, Zenon

\* Mapping units of a block of the layers keeps LayerInv.
LEMMA LayerKeeps ==
  ASSUME RunInv, LayerInv, monitor' = monitor,
         \A c \in Blocks : maps'[c] = maps[c] \/ (c \notin Missing /\ \A u \in Units : maps'[c][u] = maps[c][u] \/ maps'[c][u] \in DataBlocks),
         \A n \in Buckets : \A i \in DOMAIN ht'[n] : BucketOf(ht'[n][i].b) = n /\ ht'[n][i].b \notin Missing
  PROVE  LayerInv'
<1>1. Missing \subseteq Blocks /\ ReadOnly \notin DataBlocks
  BY CowAssumption, Sizes DEF Blocks, ReadOnly, DataBlocks
<1>2. monitor.pc \in {"new", "map"} => monitor.b \in Missing
  BY Zenon DEF RunInv, ShowInv, MonitorInv
<1>3. \A c \in Missing : maps'[c] = maps[c]
  BY <1>1, Zenon
<1>4. \A b \in Blocks, u \in Units : maps'[b][u] = ReadOnly => b \notin Missing
  BY <1>1, Zenon DEF LayerInv
<1> QED BY <1>2, <1>3, <1>4 DEF LayerInv

\* Which entries there are, told by the blocks they hold.
LEMMA Singles ==
  ASSUME CowTypes, EntryInv
  PROVE  /\ \A j, k, c : Holds(j, c) /\ Holds(k, c) => j = k
         /\ \A k, c : Holds(k, c) => Known(c)
BY Zenon DEF EntryInv, Holds

\* A step that allocates nothing keeps the entries distinct.
LEMMA EntryKeeps ==
  ASSUME CowTypes, EntryInv, \A k, c : Holds(k, c)' <=> Holds(k, c), \A c \in Blocks : Known(c) => Known(c)'
  PROVE  EntryInv'
<1>1. \A j, k, c : Holds(j, c) /\ Holds(k, c) => j = k
  BY Singles, Zenon
<1>2. \A k, c : Holds(k, c) => Known(c) /\ c \in Blocks
  BY Singles, HeldBlock, Zenon
<1>3. ASSUME NEW j \in DOMAIN entries', NEW k \in DOMAIN entries', entries'[j].addr = entries'[k].addr PROVE j = k
  <2>1. PICK c : c = entries'[j].addr
    BY Zenon
  <2>2. Holds(j, c)' /\ Holds(k, c)'
    BY <1>3, <2>1, Zenon DEF Holds
  <2> QED BY <2>2, <1>1, Zenon
<1>4. ASSUME NEW k \in DOMAIN entries' PROVE Known(entries[k].addr)'
  <2>1. PICK c : c = entries'[k].addr
    BY Zenon
  <2>2. Holds(k, c)'
    BY <2>1, Zenon DEF Holds
  <2>3. Known(c)'
    BY <2>2, <1>2, Zenon
  <2> QED BY <2>1, <2>3, Zenon DEF Known, AllMapped, Listed
<1> QED BY <1>3, <1>4, Zenon DEF EntryInv

\* A block that is known stays known, by the handler of t or by what that leaves.
LEMMA KnownKeeps ==
  ASSUME NEW t \in Threads, OthersStay(t), monitor' = monitor, NEW b, b = tgt[t][1],
         \A c \in Blocks : AllMapped(c) => AllMapped(c)',
         \A c \in Blocks : Listed(c) => Listed(c)' \/ (c = b /\ pc'[t] \in Filling /\ tgt'[t] = tgt[t]),
         pc[t] \in Filling => (pc'[t] \in Filling /\ tgt'[t] = tgt[t]) \/ Listed(b)' \/ AllMapped(b)'
  PROVE  \A c \in Blocks : Known(c) => Known(c)'
<1> SUFFICES ASSUME NEW c \in Blocks, Known(c) PROVE Known(c)'
  BY Zenon
<1>1. CASE AllMapped(c)
  BY <1>1, Zenon DEF Known
<1>2. CASE Listed(c)
  BY <1>2, Zenon DEF Known
<1>3. CASE c \in Missing /\ monitor.pc = "map" /\ monitor.b = c
  BY <1>3, Zenon DEF Known
<1>4. ASSUME NEW w \in Threads, pc[w] \in Filling, tgt[w][1] = c PROVE Known(c)'
  <2>1. CASE w = t
    BY <1>4, <2>1, Zenon DEF Known
  <2>2. CASE w # t
    BY <1>4, <2>2, Zenon DEF Known, OthersStay
  <2> QED BY <2>1, <2>2, Zenon
<1> QED BY <1>1, <1>2, <1>3, <1>4, Zenon DEF Known

\* A step of t that writes neither memory nor entries nor the buckets.
LEMMA CalmStep ==
  ASSUME Private, RunInv, AloneInv, NEW t \in Threads, OthersStay(t), UNCHANGED <<maps, data, last, ht, monitor>>,
         \A k, c : Holds(k, c)' <=> Holds(k, c),
         pc[t] \in Filling => (pc'[t] \in Filling /\ tgt'[t] = tgt[t]) \/ AllMapped(tgt[t][1]),
         OwnThread(t)', CopiedInv(t)'
  PROVE  AloneInv'
<1>1. CowTypes /\ ShowInv /\ LayerInv /\ EntryInv /\ GuestCoherent /\ tgt[t][1] \in Blocks
  BY Target, Zenon DEF RunInv, AloneInv
<1>2. PICK b \in Blocks : b = tgt[t][1]
  BY <1>1, Zenon
<1>3. /\ \A w \in Threads : w # t => OwnThread(w)' /\ CopiedInv(w)'
  BY <1>2, OthersAlone, Zenon
<1>4. FreshInv'
  BY <1>2, FreshKeeps, Zenon
<1>5. LayerInv'
  BY <1>1, LayerKeeps, Zenon DEF LayerInv
<1>6. \A c : (Listed(c)' <=> Listed(c)) /\ (AllMapped(c)' <=> AllMapped(c))
  BY ListedSame, MappedSame, Zenon
<1>7. \A c \in Blocks : Known(c) => Known(c)'
  BY <1>2, <1>6, KnownKeeps, Zenon
<1>8. EntryInv'
  BY <1>1, <1>7, EntryKeeps, Zenon
<1>9. GuestCoherent'
  BY <1>1, Zenon DEF GuestCoherent, View, Original
<1> QED BY <1>3, <1>4, <1>5, <1>8, <1>9, Zenon DEF AloneInv

\* The guest begins a store.
LEMMA BeginAlone ==
  ASSUME Private, RunInv, AloneInv, NEW t \in Threads, NEW a \in Addresses(t), Begin(t, a)
  PROVE  AloneInv'
<1>1. CowTypes
  BY Zenon DEF RunInv
<1>2. /\ Goto(t, "idle", "store") /\ tgt' = [tgt EXCEPT ![t] = a] /\ UNCHANGED <<maps, data, entries, last, ht, cow, buf, monitor>>
  BY Zenon DEF Begin, memVars, cowVars
<1>3. pc[t] = "idle" /\ pc'[t] = "store" /\ tgt'[t] = a /\ OthersStay(t)
  BY <1>1, <1>2, Zenon DEF Goto, CowTypes, OthersStay
<1>4. a[1] \in Touches[t]
  BY Zenon DEF Addresses
<1>5. OwnThread(t)' /\ CopiedInv(t)'
  BY <1>3, <1>4, Zenon DEF OwnThread, CopiedInv, Handling
<1>6. \A k, c : Holds(k, c)' <=> Holds(k, c)
  BY <1>2, Zenon DEF Holds
<1>7. pc[t] \notin Filling
  BY <1>3, Zenon DEF Filling
<1> QED BY <1>2, <1>3, <1>5, <1>6, <1>7, CalmStep, Zenon

\* A copy within a block changes nothing that is shown.
Copies(k, b, u) == data' = [data EXCEPT ![k][u] = View(b, u)]

\* A block gets its entry when nobody knows it.
LEMMA NewEntry ==
  ASSUME CowTypes, Filled, EntryInv, NEW b \in Blocks, ~OutOfRange, NewBlock(b), data' = data, ~Known(b), Known(b)',
         \A c \in Blocks : Known(c) => Known(c)'
  PROVE  EntryInv'
<1>1. PICK m : m = Len(entries) + 1
  BY Zenon
<1>2. \A k, c : Holds(k, c)' => Holds(k, c) \/ (k = m /\ c = b)
  BY <1>1, NewKept, Zenon
<1>3. \A j, k, c : Holds(j, c) /\ Holds(k, c) => j = k
  BY Singles, Zenon
<1>4. \A k, c : Holds(k, c) => Known(c) /\ c \in Blocks
  BY Singles, HeldBlock, Zenon
<1>5. ASSUME NEW j \in DOMAIN entries', NEW k \in DOMAIN entries', entries'[j].addr = entries'[k].addr PROVE j = k
  <2>1. PICK c : c = entries'[j].addr
    BY Zenon
  <2>2. Holds(j, c)' /\ Holds(k, c)'
    BY <1>5, <2>1, Zenon DEF Holds
  <2>3. Holds(j, c) \/ (j = m /\ c = b)
    BY <2>2, <1>2, Zenon
  <2>4. Holds(k, c) \/ (k = m /\ c = b)
    BY <2>2, <1>2, Zenon
  <2> QED BY <2>3, <2>4, <1>3, <1>4, Zenon
<1>6. ASSUME NEW k \in DOMAIN entries' PROVE Known(entries[k].addr)'
  <2>1. PICK c : c = entries'[k].addr
    BY Zenon
  <2>2. Holds(k, c)'
    BY <2>1, Zenon DEF Holds
  <2>3. Known(c)'
    BY <2>2, <1>2, <1>4, Zenon
  <2> QED BY <2>1, <2>3, Zenon DEF Known, AllMapped, Listed
<1> QED BY <1>5, <1>6, Zenon DEF EntryInv

\* A step of the monitor, on a block of no layer.
LEMMA MonitorAlone ==
  ASSUME RunInv, AloneInv, UNCHANGED <<data, last, ht, tgt, cow, buf>>,
         \A w \in Threads : pc'[w] = pc[w] \/ (pc[w] = "uffd" /\ pc'[w] = "store"),
         \A c \in Blocks : c \notin Missing => maps'[c] = maps[c],
         \A c \in Blocks, u \in Units : View(c, u)' = View(c, u),
         \A w \in Threads : pc'[w] = "uffd" => maps'[tgt[w][1]][tgt[w][2]] = Absent \/ (monitor'.pc = "wake" /\ monitor'.b = tgt[w][1]),
         LayerInv', EntryInv', FreshInv'
  PROVE  AloneInv'
<1>1. CowTypes /\ ShowInv /\ GuestCoherent
  BY Zenon DEF RunInv, AloneInv
<1>2. ASSUME NEW w \in Threads PROVE OwnThread(w)' /\ CopiedInv(w)'
  <2>1. OwnThread(w) /\ CopiedInv(w) /\ tgt'[w] = tgt[w] /\ tgt[w][1] \in Blocks /\ tgt[w][2] \in Units
    BY <1>1, Target, Zenon DEF AloneInv
  <2>2. CASE pc'[w] # pc[w]
    <3>1. pc[w] # "idle" /\ pc'[w] = "store"
      BY <2>2, Zenon
    <3> QED BY <3>1, <2>1, Zenon DEF OwnThread, CopiedInv, Handling
  <2>3. CASE pc'[w] = pc[w]
    <3>1. pc[w] \in Handling => maps'[tgt[w][1]] = maps[tgt[w][1]]
      BY <1>1, <2>1, BusyOwn, Zenon DEF Busy
    <3>2. OwnThread(w)'
      BY <2>1, <2>3, <3>1, Zenon DEF OwnThread
    <3>3. PICK b \in Blocks : b = tgt[w][1]
      BY <2>1, Zenon
    <3>4. pc[w] \in {"read", "write"} => buf[w][1] \in Units
      BY <1>1, Zenon DEF ShowInv, ThreadInv
    <3>5. CopiedInv(w)'
      BY <2>1, <2>3, <3>3, <3>4, CopiedKeeps
    <3> QED BY <3>2, <3>5, Zenon
  <2> QED BY <2>2, <2>3, Zenon
<1>3. GuestCoherent'
  BY <1>1 DEF GuestCoherent
<1> QED BY <1>2, <1>3, Zenon DEF AloneInv

\* What holds always under Private.
AloneInvariant == CowInvariant /\ (process = "running" => AloneInv) /\ GuestCoherent /\ OneEntryPerBlock

\* AloneInv holds when the image has just been mapped.
LEMMA AloneInit == ASSUME Init PROVE AloneInv
<1>1. /\ \A b \in Blocks, u \in Units : maps[b][u] = (IF b \in Missing THEN Absent ELSE ReadOnly) /\ last[b][u] = Original(b, u)
      /\ DOMAIN entries = {} /\ monitor.pc = "poll" /\ (\A n \in Buckets : DOMAIN ht[n] = {})
      /\ \A t \in Threads : pc[t] = "idle"
  BY DEF Init, Buckets
<1>2. Absent \notin DataBlocks /\ ReadOnly \notin DataBlocks /\ Absent # ReadOnly /\ Missing \subseteq Blocks
  BY Sizes, CowAssumption DEF Absent, ReadOnly, DataBlocks, Blocks
<1>3. LayerInv
  BY <1>1, <1>2 DEF LayerInv
<1>4. EntryInv /\ FreshInv
  BY <1>1, Zenon DEF EntryInv, FreshInv
<1>5. GuestCoherent
  BY <1>1, <1>2, Zenon DEF GuestCoherent, View
<1>6. \A t \in Threads : OwnThread(t) /\ CopiedInv(t)
  BY <1>1, Zenon DEF OwnThread, CopiedInv, Handling
<1> QED BY <1>3, <1>4, <1>5, <1>6, Zenon DEF AloneInv

\* AloneInv holds after a stutter.
LEMMA AloneStutter == ASSUME RunInv, AloneInv, UNCHANGED vars PROVE AloneInv'
<1>1. UNCHANGED <<maps, data, entries, last, ht, pc, tgt, cow, buf, monitor>>
  BY Zenon DEF vars, memVars, cowVars, threadVars
<1>2. CowTypes /\ LayerInv /\ EntryInv /\ FreshInv
  BY Zenon DEF RunInv, AloneInv
<1>3. LayerInv' /\ FreshInv'
  BY <1>1, <1>2, Zenon DEF LayerInv, FreshInv
<1>4. \A c : Known(c) => Known(c)'
  BY <1>1, Zenon DEF Known, AllMapped, Listed
<1>5. \A k, c : Holds(k, c)' <=> Holds(k, c)
  BY <1>1, Zenon DEF Holds
<1>6. EntryInv'
  BY <1>2, <1>4, <1>5, EntryKeeps, Zenon
<1>7. \A c \in Blocks, u \in Units : View(c, u)' = View(c, u)
  BY <1>1, Zenon DEF View, Original
<1>8. \A w \in Threads : pc'[w] = "uffd" => maps'[tgt[w][1]][tgt[w][2]] = Absent \/ (monitor'.pc = "wake" /\ monitor'.b = tgt[w][1])
  BY <1>1, Zenon DEF AloneInv, OwnThread
<1> QED BY <1>1, <1>3, <1>6, <1>7, <1>8, MonitorAlone, Zenon

\* AloneInv implies that the guest reads what it stored and that entries are
\* distinct.
LEMMA OneEntry == ASSUME AloneInv PROVE GuestCoherent /\ OneEntryPerBlock
BY Zenon DEF AloneInv, EntryInv, OneEntryPerBlock

\* AloneInv implies that the next fmmap shows every store.
LEMMA Durable == ASSUME NatLeast, RunInv, AloneInv PROVE StoresDurable
<1>1. CowTypes /\ ShowInv /\ EntryInv /\ GuestCoherent
  BY Zenon DEF RunInv, AloneInv
<1>2. ASSUME NEW b \in Blocks, NEW u \in Units, last[b][u] # Original(b, u) PROVE Remapped(b, u) = last[b][u]
  <2>1. View(b, u) = last[b][u]
    BY <1>1, Zenon DEF GuestCoherent
  <2>2. PICK k : k = maps[b][u]
    BY Zenon
  <2>3. k \in DataBlocks /\ View(b, u) = data[k][u]
    BY <2>1, <2>2, <1>2, Zenon DEF View
  <2>4. Holds(k, b)
    BY <2>2, <2>3, <1>1, Zenon DEF ShowInv, MapsInv, Good
  <2>5. PICK j : Holds(j, b) /\ Remapped(b, u) = data[j][u]
    BY <2>4, <1>1, RemappedIs, Zenon
  <2>6. j = k
    BY <2>4, <2>5, <1>1, Singles, Zenon
  <2> QED BY <2>1, <2>3, <2>5, <2>6, Zenon
<1> QED BY <1>2, Zenon DEF StoresDurable

\* Nothing changes in the file when the process ends.
LEMMA Halted ==
  ASSUME GuestCoherent, OneEntryPerBlock, UNCHANGED <<maps, data, entries, last>>
  PROVE  GuestCoherent' /\ OneEntryPerBlock'
<1>1. \A b, u : View(b, u)' = View(b, u)
  BY Zenon DEF View, Original
<1>2. GuestCoherent'
  BY <1>1, Zenon DEF GuestCoherent
<1> QED BY <1>2, Zenon DEF OneEntryPerBlock

\* final_cow writes to a block what the guest sees of it.
LEMMA FmunmapAlone == ASSUME RunInv, AloneInv, Fmunmap PROVE GuestCoherent' /\ OneEntryPerBlock'
<1>1. CowTypes /\ ShowInv /\ EntryInv /\ GuestCoherent
  BY Zenon DEF RunInv, AloneInv
<1>2. UNCHANGED <<maps, last, ht>>
  BY Zenon DEF Fmunmap, cowVars
<1>3. ASSUME NEW e \in Uncompleted PROVE Holds(e.blk, e.b)
  <2>1. PICK n \in DOMAIN ht : e \in Range(ht[n])
    BY Zenon DEF Uncompleted
  <2>2. PICK i \in DOMAIN ht[n] : e = ht[n][i]
    BY <2>1, Zenon DEF Range
  <2>3. n \in Buckets
    BY <1>1, Zenon DEF CowTypes
  <2> QED BY <2>2, <2>3, <1>1, Zenon DEF ShowInv, TableInv
<1>4. ASSUME NEW k \in DataBlocks, NEW b, Holds(k, b), NEW u \in Units
      PROVE  data'[k][u] = data[k][u] \/ data'[k][u] = View(b, u)
  <2>1. CASE \E e \in Uncompleted : e.blk = k
    <3>1. PICK d : d = CHOOSE e \in Uncompleted : e.blk = k
      BY Zenon
    <3>2. d \in Uncompleted /\ d.blk = k
      BY <3>1, <2>1, Zenon
    <3>3. d.b = b
      BY <3>2, <1>3, <1>4, Zenon DEF Holds
    <3>4. data'[k] = [v \in Units |-> View((CHOOSE e \in Uncompleted : e.blk = k).b, v)]
      BY <2>1, Zenon DEF Fmunmap
    <3>5. data'[k] = [v \in Units |-> View(d.b, v)]
      BY <3>1, <3>4, Zenon
    <3> QED BY <3>3, <3>5, Zenon
  <2>2. CASE ~\E e \in Uncompleted : e.blk = k
    BY <2>2, Zenon DEF Fmunmap
  <2> QED BY <2>1, <2>2, Zenon
<1>5. ASSUME NEW b \in Blocks, NEW u \in Units PROVE View(b, u)' = last'[b][u]
  <2>1. View(b, u)' = View(b, u)
    <3>1. CASE maps[b][u] \in DataBlocks
      <4>1. PICK k \in DataBlocks : k = maps[b][u]
        BY <3>1, Zenon
      <4>2. Holds(k, b) /\ View(b, u) = data[k][u] /\ View(b, u)' = data'[k][u]
        BY <1>1, <1>2, <4>1, Zenon DEF ShowInv, MapsInv, Good, View
      <4> QED BY <4>2, <1>4, Zenon
    <3>2. CASE maps[b][u] \notin DataBlocks
      BY <3>2, <1>2, Zenon DEF View, Original
    <3> QED BY <3>1, <3>2, Zenon
  <2> QED BY <2>1, <1>1, <1>2, Zenon DEF GuestCoherent
<1>6. GuestCoherent'
  BY <1>5, Zenon DEF GuestCoherent
<1>7. OneEntryPerBlock'
  <2> SUFFICES ASSUME NEW j \in DOMAIN entries', NEW k \in DOMAIN entries', entries'[j].addr = entries'[k].addr, entries'[j].addr # AllOnes
               PROVE  j = k
    BY Zenon DEF OneEntryPerBlock
  <2>1. DOMAIN entries' = DOMAIN entries /\ DOMAIN entries = 1..Len(entries) /\ \A i \in DOMAIN entries : entries[i] \in EntryRecs
    BY <1>1, SeqIs DEF CowTypes, Fmunmap
  <2>2. \A i \in DOMAIN entries : entries'[i] = entries[i] \/ entries'[i].addr = AllOnes
    BY <2>1, Zenon DEF Fmunmap, EntryRecs
  <2>3. entries[j].addr = entries[k].addr
    BY <2>1, <2>2, Zenon
  <2> QED BY <2>1, <2>3, <1>1, Zenon DEF EntryInv
<1> QED BY <1>6, <1>7, Zenon

\* The steps of cow_handler keep AloneInv, or end the process.
LEMMA GuestAlone ==
  \A t \in Threads :
    /\ NatLeast
    /\ Private
    /\ RunInv
    /\ AloneInv
    /\ Commit(t) \/ TouchAbsent(t) \/ Handler(t)
  => AloneInv' \/ (process' # "running" /\ UNCHANGED <<maps, data, entries, last>>)
<1>CalmSteps.
  ASSUME Private, RunInv, AloneInv, NEW t \in Threads,
         \/ TouchAbsent(t) \/ Fault(t) \/ InList(t) \/ LockBlock(t) \/ AlreadyListed(t) \/ CopyRead(t) \/ SetBit(t) \/ ClearBits(t)
  PROVE  AloneInv'
  <2> USE <1>CalmSteps
  <2>1. CowTypes /\ ShowInv /\ ListedInv /\ LayerInv /\ OwnThread(t) /\ CopiedInv(t)
    BY Zenon DEF RunInv, AloneInv
  <2>2. /\ UNCHANGED <<maps, data, last, ht, tgt, cow, monitor>>
        /\ \A w \in Threads : w # t => pc'[w] = pc[w] /\ buf'[w] = buf[w]
    <3>1. CASE TouchAbsent(t) \/ Fault(t) \/ InList(t) \/ LockBlock(t) \/ AlreadyListed(t)
      BY <3>1, <2>1, Zenon DEF TouchAbsent, Fault, InList, LockBlock, AlreadyListed, memVars, cowVars, Goto, CowTypes
    <3>2. CASE CopyRead(t) \/ SetBit(t) \/ ClearBits(t)
      BY <3>2, <2>1, Zenon DEF CopyRead, SetBit, ClearBits, memVars, cowVars, Goto, CowTypes
    <3> QED BY <3>1, <3>2, Zenon
  <2>3. OthersStay(t)
    BY <2>2, Zenon DEF OthersStay
  <2>4. \A k, c : Holds(k, c)' <=> Holds(k, c)
    <3>1. CASE entries' = entries
      BY <3>1, Zenon DEF Holds
    <3>2. ASSUME NEW e, NEW bits, entries' = [entries EXCEPT ![e].bits = bits] PROVE \A k, c : Holds(k, c)' <=> Holds(k, c)
      <4>1. entries \in Seq(EntryRecs) /\ DOMAIN entries = 1..Len(entries)
        BY <2>1, SeqIs, Zenon DEF CowTypes
      <4>2. \A k \in DOMAIN entries : entries[k] \in EntryRecs
        BY <4>1, SeqIs, Zenon
      <4>3. DOMAIN entries' = DOMAIN entries /\ \A k \in DOMAIN entries : entries'[k].addr = entries[k].addr
        BY <3>2, <4>1, <4>2, Zenon DEF EntryRecs
      <4> QED BY <4>3, Zenon DEF Holds
    <3>3. CASE SetBit(t)
      BY <3>3, <3>2, Zenon DEF SetBit
    <3>4. CASE ClearBits(t)
      BY <3>4, <3>2, Zenon DEF ClearBits
    <3>5. entries' = entries \/ SetBit(t) \/ ClearBits(t)
      BY Zenon DEF TouchAbsent, Fault, InList, LockBlock, AlreadyListed, CopyRead, memVars
    <3> QED BY <3>1, <3>3, <3>4, <3>5, Zenon
  <2>5. /\ pc[t] \in {"store", "inList", "lock", "insert", "read", "bits", "clear"}
        /\ pc'[t] \in {"store", "inList", "lock", "insert", "write", "uffd"}
        /\ pc'[t] \in {"lock", "insert"} => pc[t] \in {"inList", "lock"}
        /\ pc'[t] = "write" <=> pc[t] = "read"
        /\ pc'[t] = "inList" => maps[tgt[t][1]][tgt[t][2]] = ReadOnly
        /\ pc'[t] = "uffd" => maps[tgt[t][1]][tgt[t][2]] = Absent
        /\ pc'[t] = "write" => buf'[t] = <<buf[t][1], View(tgt[t][1], buf[t][1])>>
    <3>1. CASE TouchAbsent(t) \/ Fault(t)
      BY <3>1, <2>1, Zenon DEF TouchAbsent, Fault, Goto, CowTypes, Faults
    <3>2. CASE InList(t) \/ LockBlock(t) \/ AlreadyListed(t)
      BY <3>2, <2>1, Zenon DEF InList, LockBlock, AlreadyListed, Goto, CowTypes
    <3>3. CASE CopyRead(t)
      BY <3>3, <2>1, Zenon DEF CopyRead, Goto, CowTypes
    <3>4. CASE SetBit(t) \/ ClearBits(t)
      BY <3>4, <2>1, Zenon DEF SetBit, ClearBits, Goto, CowTypes
    <3> QED BY <3>1, <3>2, <3>3, <3>4, Zenon
  <2>6. OwnThread(t)'
    BY <2>1, <2>2, <2>5, Zenon DEF OwnThread, Handling
  <2>7. \A c, u : View(c, u)' = View(c, u)
    BY <2>2, Zenon DEF View, Original
  <2>8. CopiedInv(t)'
    <3>1. CASE pc'[t] # "write"
      BY <3>1, <2>5, Zenon DEF CopiedInv
    <3>2. CASE pc'[t] = "write"
      <4>1. pc[t] = "read" /\ buf'[t][1] = buf[t][1] /\ buf'[t][2] = View(tgt[t][1], buf[t][1])
        BY <3>2, <2>5
      <4>2. \A u \in Units : u < buf[t][1] => data[cow[t].blk][u] = View(tgt[t][1], u)
        BY <4>1, <2>1, Zenon DEF CopiedInv
      <4>3. \A c, u : c = tgt[t][1] => View(tgt[t][1], u)' = View(c, u)
        BY <2>2, Zenon DEF View, Original
      <4>4. View(tgt[t][1], buf[t][1])' = View(tgt[t][1], buf[t][1])
        BY <2>2, <4>1, Zenon DEF View, Original
      <4> QED BY <3>2, <4>1, <4>2, <4>3, <4>4, <2>2 DEF CopiedInv
    <3> QED BY <3>1, <3>2, Zenon
  <2>9. pc[t] \in Filling => pc'[t] \in Filling /\ tgt'[t] = tgt[t]
    BY <2>2, <2>5, Zenon DEF Filling
  <2> QED BY <2>2, <2>3, <2>4, <2>6, <2>8, <2>9, CalmStep, Zenon
\* A step of t on the memory of the block it stores to.
<1>WorkStep.
  ASSUME Private, RunInv, AloneInv, NEW t \in Threads, OthersStay(t), NEW b \in Blocks, b = tgt[t][1], tgt' = tgt,
         pc[t] # "idle", ht' = ht, entries' = entries, monitor' = monitor,
         \A c \in Blocks : c # b => maps'[c] = maps[c] /\ last'[c] = last[c],
         maps' = maps \/ (b \notin Missing /\ \A u \in Units : maps'[b][u] = maps[b][u] \/ maps'[b][u] \in DataBlocks),
         \A k, c : Holds(k, c) /\ c # b => data'[k] = data[k],
         data' = data \/ b \notin Missing \/ \E u \in Units : maps[b][u] # Absent,
         \A u \in Units : View(b, u)' = last'[b][u], pc[t] \in Filling => pc'[t] \in Filling \/ AllMapped(b)',
         OwnThread(t)', CopiedInv(t)'
  PROVE  AloneInv'
  <2> USE <1>WorkStep
  <2>1. CowTypes /\ ShowInv /\ LayerInv /\ EntryInv /\ GuestCoherent
    BY Zenon DEF RunInv, AloneInv
  <2>2. /\ \A w \in Threads : w # t => OwnThread(w)' /\ CopiedInv(w)'
        /\ \A c \in Blocks, u \in Units : c # b => View(c, u)' = View(c, u)
    BY OthersAlone, Zenon
  <2>3. FreshInv'
    BY FreshKeeps
  <2>4. LayerInv'
    <3>1. \A c \in Blocks : maps'[c] = maps[c] \/ (c \notin Missing /\ \A u \in Units : maps'[c][u] = maps[c][u] \/ maps'[c][u] \in DataBlocks)
      BY Zenon
    <3>2. \A n \in Buckets : \A i \in DOMAIN ht'[n] : BucketOf(ht'[n][i].b) = n /\ ht'[n][i].b \notin Missing
      BY <2>1, Zenon DEF LayerInv
    <3> QED BY <2>1, <3>1, <3>2, LayerKeeps, Zenon
  <2>5. \A c : Listed(c)' <=> Listed(c)
    BY ListedSame, Zenon
  <2>6. \A c \in Blocks : AllMapped(c) => AllMapped(c)'
    BY Zenon DEF AllMapped
  <2>7. \A c \in Blocks : Known(c) => Known(c)'
    BY <2>5, <2>6, KnownKeeps, Zenon
  <2>8. EntryInv'
    <3>1. \A k, c : Holds(k, c)' <=> Holds(k, c)
      BY Zenon DEF Holds
    <3> QED BY <3>1, <2>1, <2>7, EntryKeeps, Zenon
  <2>9. GuestCoherent'
    BY <2>1, <2>2 DEF GuestCoherent
  <2> QED BY <2>2, <2>3, <2>4, <2>8, <2>9, Zenon DEF AloneInv
<1>CommitAlone.
  ASSUME Private, RunInv, AloneInv, NEW t \in Threads, Commit(t)
  PROVE  AloneInv'
  <2> USE <1>CommitAlone
  <2>1. CowTypes /\ ShowInv /\ tgt[t][1] \in Blocks /\ tgt[t][2] \in Units
    BY Target, Zenon DEF RunInv
  <2>2. PICK b \in Blocks, u \in Units : b = tgt[t][1] /\ u = tgt[t][2]
    BY <2>1, Zenon
  <2>3. PICK k, x : k = maps[b][u] /\ x = Stored(b, u)
    BY Zenon
  <2>4. /\ k \in DataBlocks /\ Goto(t, "store", "idle")
        /\ data' = [data EXCEPT ![k][u] = x] /\ last' = [last EXCEPT ![b][u] = x]
        /\ UNCHANGED <<maps, entries, ht, tgt, cow, buf, monitor>>
    BY <2>2, <2>3, Zenon DEF Commit, cowVars
  <2>5. Holds(k, b) /\ x \in Marks
    BY <2>1, <2>3, <2>4, StoredShows DEF ShowInv, MapsInv, Good, CowTypes
  <2>6. pc[t] = "store" /\ pc'[t] = "idle" /\ OthersStay(t)
    BY <2>1, <2>4, Zenon DEF Goto, CowTypes, OthersStay
  <2>7. /\ data'[k][u] = x
        /\ \A j \in DataBlocks, w \in Units : j # k \/ w # u => data'[j][w] = data[j][w]
    BY <2>1, <2>4, <2>5, Written, ZenonT(60)
  <2>8. last'[b][u] = x /\ (\A w \in Units : w # u => last'[b][w] = last[b][w]) /\ \A c \in Blocks : c # b => last'[c] = last[c]
    BY <2>1, <2>4, Zenon DEF CowTypes
  <2>9. \A j, c : Holds(j, c) /\ c # b => data'[j] = data[j]
    <3> SUFFICES ASSUME NEW j, NEW c, Holds(j, c), c # b PROVE data'[j] = data[j]
      BY Zenon
    <3>1. j # k /\ j \in DataBlocks
      BY <2>1, <2>5, HeldBlock, Zenon DEF Holds
    <3> QED BY <3>1, <2>1, <2>4, Zenon DEF CowTypes
  <2>10. \A w \in Units : View(b, w)' = last'[b][w]
    <3> TAKE w \in Units
    <3>1. CASE w = u
      BY <3>1, <2>3, <2>4, <2>7, <2>8, Zenon DEF View
    <3>2. CASE w # u
      <4>1. \A j : Holds(j, b) => data'[j][w] = data[j][w]
        BY <3>2, <2>1, <2>7, HeldBlock, Zenon
      <4>2. View(b, w)' = View(b, w)
        BY <4>1, <2>1, <2>4, ViewKeeps, Zenon
      <4> QED BY <3>2, <4>2, <2>8, Zenon DEF AloneInv, GuestCoherent
    <3> QED BY <3>1, <3>2, Zenon
  <2>11. OwnThread(t)' /\ CopiedInv(t)'
    BY <2>6, Zenon DEF OwnThread, CopiedInv, Handling
  <2>12. pc[t] \notin Filling /\ pc[t] # "idle"
    BY <2>6, Zenon DEF Filling
  <2>13. maps[b][u] # Absent
    BY <2>3, <2>4, Sizes DEF DataBlocks, Absent
  <2> QED BY <2>2, <2>4, <2>6, <2>8, <2>9, <2>10, <2>11, <2>12, <2>13, <1>WorkStep
<1>SameView.
  ASSUME CowTypes, ShowInv, NEW b \in Blocks, NEW u \in Units, NEW k, Holds(k, b), Copies(k, b, u), maps' = maps
  PROVE  /\ \A c \in Blocks, v \in Units : View(c, v)' = View(c, v)
         /\ data'[k][u] = View(b, u) /\ \A v \in Units : v # u => data'[k][v] = data[k][v]
         /\ \A j, c : Holds(j, c) /\ c # b => data'[j] = data[j]
  <2> USE <1>SameView
  <2>0. PICK x : x = View(b, u) /\ data' = [data EXCEPT ![k][u] = x]
    BY Zenon DEF Copies
  <2>1. k \in DataBlocks /\ x \in Marks
    BY <2>0, HeldBlock, ViewShows, Zenon
  <2>2. /\ data'[k][u] = x
        /\ \A j \in DataBlocks, w \in Units : j # k \/ w # u => data'[j][w] = data[j][w]
    BY <2>0, <2>1, Written, ZenonT(60)
  <2>3. \A j, c : Holds(j, c) /\ c # b => data'[j] = data[j]
    <3> SUFFICES ASSUME NEW j, NEW c, Holds(j, c), c # b PROVE data'[j] = data[j]
      BY Zenon
    <3>1. j # k /\ j \in DataBlocks
      BY HeldBlock, Zenon DEF Holds
    <3> QED BY <2>0, <3>1, Zenon DEF CowTypes
  <2>4. ASSUME NEW c \in Blocks, NEW v \in Units PROVE View(c, v)' = View(c, v)
    <3>1. CASE c = b /\ v = u /\ maps[c][v] = k
      BY <3>1, <2>0, <2>1, <2>2, Zenon DEF View
    <3>2. CASE c = b /\ v = u /\ maps[c][v] # k
      <4>1. CASE maps[c][v] \in DataBlocks
        BY <3>2, <4>1, <2>2, Zenon DEF View
      <4>2. CASE maps[c][v] \notin DataBlocks
        BY <4>2, Zenon DEF View, Original
      <4> QED BY <4>1, <4>2, Zenon
    <3>3. CASE c # b \/ v # u
      <4>1. \A j : Holds(j, c) => data'[j][v] = data[j][v]
        BY <3>3, <2>2, <2>3, HeldBlock, Zenon
      <4> QED BY <4>1, ViewKeeps, Zenon
    <3> QED BY <3>1, <3>2, <3>3, Zenon
  <2> QED BY <2>0, <2>1, <2>2, <2>3, <2>4, Zenon
<1>CopyUnitAlone.
  ASSUME Private, RunInv, AloneInv, NEW t \in Threads, CopyUnit(t), tgt[t][2] \notin holes[cow[t].blk]
  PROVE  AloneInv'
  <2> USE <1>CopyUnitAlone
  <2>1. PICK b, u, k : b = tgt[t][1] /\ u = tgt[t][2] /\ k = cow[t].blk
    BY Zenon
  <2>2. PICK x : x = View(b, u)
    BY Zenon
  <2>3. /\ Goto(t, "copy", "remap") /\ data' = [data EXCEPT ![k][u] = x]
        /\ UNCHANGED <<maps, entries, last, ht, tgt, cow, buf, monitor>>
    BY <2>1, <2>2, Zenon DEF CopyUnit, cowVars
  <2>4. pc[t] = "copy" /\ pc[t] \in Copying /\ Busy(t) /\ pc[t] # "idle" /\ pc[t] \notin Filling
    BY <2>3, Zenon DEF Goto, Copying, Busy, Handling, Filling
  <2>5. CowTypes /\ ShowInv /\ b \in Blocks /\ u \in Units /\ Holds(k, b)
    BY <2>1, <2>4, AtWork, Zenon
  <2>6. b \notin Missing /\ OwnThread(t) /\ GuestCoherent
    BY <2>1, <2>4, <2>5, BusyOwn, Zenon DEF AloneInv
  <2>7. pc'[t] = "remap" /\ OthersStay(t)
    BY <2>3, <2>5, Zenon DEF Goto, CowTypes, OthersStay
  <2>8. /\ \A c \in Blocks, v \in Units : View(c, v)' = View(c, v)
        /\ data'[k][u] = View(b, u)
        /\ \A j, c : Holds(j, c) /\ c # b => data'[j] = data[j]
    <3>1. maps' = maps /\ Copies(k, b, u)
      BY <2>2, <2>3, Zenon DEF Copies
    <3> QED BY <3>1, <2>5, <1>SameView
  <2>9. OwnThread(t)'
    BY <2>3, <2>4, <2>6, <2>7, Zenon DEF OwnThread, Handling
  <2>10. CopiedInv(t)'
    <3>1. View(tgt[t][1], tgt[t][2])' = View(b, u)'
      BY <2>1, <2>3 DEF View, Original
    <3>2. data'[cow'[t].blk][tgt'[t][2]] = View(tgt[t][1], tgt[t][2])'
      BY <3>1, <2>1, <2>2, <2>3, <2>5, <2>8, Zenon
    <3> QED BY <3>2, <2>7, Zenon DEF CopiedInv
  <2>11. \A v \in Units : View(b, v)' = last'[b][v]
    BY <2>3, <2>5, <2>6, <2>8, Zenon DEF GuestCoherent
  <2> QED BY <2>1, <2>3, <2>4, <2>5, <2>6, <2>7, <2>8, <2>9, <2>10, <2>11, <1>WorkStep
<1>RemapUnitAlone.
  ASSUME Private, RunInv, AloneInv, NEW t \in Threads, RemapUnit(t)
  PROVE  AloneInv'
  <2> USE <1>RemapUnitAlone
  <2>1. PICK b, u, k : b = tgt[t][1] /\ u = tgt[t][2] /\ k = cow[t].blk
    BY Zenon
  <2>2. /\ Goto(t, "remap", "bits") /\ maps' = [maps EXCEPT ![b][u] = k]
        /\ UNCHANGED <<data, entries, last, ht, tgt, cow, buf, monitor>>
    BY <2>1, Zenon DEF RemapUnit
  <2>3. pc[t] = "remap" /\ pc[t] \in Copying /\ Busy(t) /\ pc[t] # "idle" /\ pc[t] \notin Filling
    BY <2>2, Zenon DEF Goto, Copying, Busy, Handling, Filling
  <2>4. CowTypes /\ ShowInv /\ b \in Blocks /\ u \in Units /\ k \in DataBlocks
    BY <2>1, <2>3, AtWork, Zenon
  <2>5. b \notin Missing /\ OwnThread(t) /\ CopiedInv(t) /\ GuestCoherent
    BY <2>1, <2>3, <2>4, BusyOwn, Zenon DEF AloneInv
  <2>6. pc'[t] = "bits" /\ OthersStay(t)
    BY <2>2, <2>4, Zenon DEF Goto, CowTypes, OthersStay
  <2>7. /\ maps'[b][u] = k /\ (\A v \in Units : v # u => maps'[b][v] = maps[b][v])
        /\ \A c \in Blocks : c # b => maps'[c] = maps[c]
    BY <2>2, <2>4, Zenon DEF CowTypes
  <2>8. OwnThread(t)' /\ CopiedInv(t)'
    BY <2>1, <2>2, <2>3, <2>5, <2>6, Zenon DEF OwnThread, CopiedInv, Handling
  <2>9. \A v \in Units : View(b, v)' = last'[b][v]
    <3> TAKE v \in Units
    <3>1. View(b, v)' = View(b, v)
      <4>1. CASE v = u
        <5>1. data[k][u] = View(b, u)
          BY <2>1, <2>3, <2>5, Zenon DEF CopiedInv
        <5> QED BY <5>1, <4>1, <2>2, <2>4, <2>7, Zenon DEF View
      <4>2. CASE v # u
        BY <4>2, <2>2, <2>4, <2>7, ViewKeeps, Zenon
      <4> QED BY <4>1, <4>2, Zenon
    <3> QED BY <3>1, <2>2, <2>4, <2>5, Zenon DEF GuestCoherent
  <2>10. \A v \in Units : maps'[b][v] = maps[b][v] \/ maps'[b][v] \in DataBlocks
    BY <2>4, <2>7, Zenon
  <2> QED BY <2>1, <2>2, <2>3, <2>4, <2>5, <2>6, <2>7, <2>8, <2>9, <2>10, <1>WorkStep
<1>CopyWriteAlone.
  ASSUME Private, RunInv, AloneInv, NEW t \in Threads, CopyWrite(t)
  PROVE  AloneInv'
  <2> USE <1>CopyWriteAlone
  <2>1. PICK b, v, k, x : b = tgt[t][1] /\ v = buf[t][1] /\ k = cow[t].blk /\ x = buf[t][2]
    BY Zenon
  <2>2. PICK to : to = IF v + 1 \in Units THEN "read" ELSE "remapAll"
    BY Zenon
  <2>3. /\ Goto(t, "write", to) /\ buf' = [buf EXCEPT ![t] = <<v + 1, Zero>>] /\ data' = [data EXCEPT ![k][v] = x]
        /\ UNCHANGED <<maps, entries, last, ht, tgt, cow, monitor>>
    BY <2>1, <2>2, Zenon DEF CopyWrite, cowVars
  <2>4. pc[t] = "write" /\ pc[t] \in Copying /\ Busy(t) /\ pc[t] # "idle"
    BY <2>3, Zenon DEF Goto, Copying, Busy, Handling
  <2>5. CowTypes /\ ShowInv /\ ThreadInv(t) /\ b \in Blocks /\ Holds(k, b)
    BY <2>1, <2>4, AtWork, Zenon
  <2>6. b \notin Missing /\ OwnThread(t) /\ CopiedInv(t) /\ GuestCoherent
    BY <2>1, <2>4, <2>5, BusyOwn, Zenon DEF AloneInv
  <2>7. v \in Units /\ v \in Nat /\ x = View(b, v) /\ \A u \in Units : u < v => data[k][u] = View(b, u)
    BY <2>1, <2>4, <2>5, <2>6, Target, Zenon DEF ThreadInv, CopiedInv
  <2>8. /\ to \in {"read", "remapAll"} /\ pc'[t] = to /\ buf'[t][1] = v + 1 /\ OthersStay(t)
    BY <2>2, <2>3, <2>5, <2>7, Zenon DEF Goto, CowTypes, OthersStay
  <2>9. /\ \A c \in Blocks, u \in Units : View(c, u)' = View(c, u)
        /\ data'[k][v] = View(b, v) /\ \A u \in Units : u # v => data'[k][u] = data[k][u]
        /\ \A j, c : Holds(j, c) /\ c # b => data'[j] = data[j]
    <3>1. maps' = maps /\ Copies(k, b, v)
      BY <2>3, <2>7, Zenon DEF Copies
    <3> QED BY <3>1, <2>5, <2>7, <1>SameView, Zenon
  <2>10. OwnThread(t)'
    BY <2>3, <2>4, <2>6, <2>8, Zenon DEF OwnThread, Handling
  <2>11. CopiedInv(t)'
    <3>1. \A u \in Units : u < v + 1 => data'[k][u] = View(b, u)
      <4> TAKE u \in Units
      <4>1. u < v + 1 => u < v \/ u = v
        BY <2>7, Sizes DEF Units
      <4>2. u < v => u # v
        BY <2>7, Sizes DEF Units
      <4> QED BY <4>1, <4>2, <2>7, <2>9, Zenon
    <3>2. \A u \in Units : View(tgt[t][1], u)' = View(b, u)'
      BY <2>1, <2>3 DEF View, Original
    <3>3. \A u \in Units : u < v + 1 => data'[cow'[t].blk][u] = View(tgt[t][1], u)'
      BY <3>1, <3>2, <2>1, <2>3, <2>5, <2>9
    <3>4. to = "remapAll" => \A u \in Units : u < v + 1
      BY <2>2, <2>7, Sizes DEF Units
    <3> QED BY <3>3, <3>4, <2>8, Zenon DEF CopiedInv
  <2>12. \A u \in Units : View(b, u)' = last'[b][u]
    BY <2>3, <2>5, <2>6, <2>9 DEF GuestCoherent
  <2>13. pc'[t] \in Filling
    BY <2>8, Zenon DEF Filling
  <2>14. \A c \in Blocks : c # b => maps'[c] = maps[c] /\ last'[c] = last[c]
    BY <2>3, Zenon
  <2> QED BY <2>1, <2>3, <2>4, <2>5, <2>6, <2>8, <2>9, <2>10, <2>11, <2>12, <2>13, <2>14, <1>WorkStep
<1>RemapBlockAlone.
  ASSUME Private, RunInv, AloneInv, NEW t \in Threads, RemapBlock(t)
  PROVE  AloneInv'
  <2> USE <1>RemapBlockAlone
  <2>1. PICK b, k : b = tgt[t][1] /\ k = cow[t].blk
    BY Zenon
  <2>2. /\ Goto(t, "remapAll", "clear") /\ maps' = [maps EXCEPT ![b] = [u \in Units |-> k]] /\ buf' = [buf EXCEPT ![t] = <<0, Zero>>]
        /\ UNCHANGED <<data, entries, last, ht, tgt, cow, monitor>>
    BY <2>1, Zenon DEF RemapBlock, cowVars
  <2>3. pc[t] = "remapAll" /\ pc[t] \in Copying /\ Busy(t) /\ pc[t] # "idle"
    BY <2>2, Zenon DEF Goto, Copying, Busy, Handling
  <2>4. CowTypes /\ ShowInv /\ b \in Blocks /\ k \in DataBlocks
    BY <2>1, <2>3, AtWork, Zenon
  <2>5. b \notin Missing /\ OwnThread(t) /\ CopiedInv(t) /\ GuestCoherent
    BY <2>1, <2>3, <2>4, BusyOwn, Zenon DEF AloneInv
  <2>6. pc'[t] = "clear" /\ OthersStay(t)
    BY <2>2, <2>4, Zenon DEF Goto, CowTypes, OthersStay
  <2>7. (\A u \in Units : maps'[b][u] = k) /\ \A c \in Blocks : c # b => maps'[c] = maps[c]
    BY <2>2, <2>4, Zenon DEF CowTypes
  <2>8. OwnThread(t)' /\ CopiedInv(t)'
    BY <2>1, <2>2, <2>3, <2>5, <2>6, Zenon DEF OwnThread, CopiedInv, Handling
  <2>9. \A u \in Units : View(b, u)' = last'[b][u]
    <3> TAKE u \in Units
    <3>1. data[k][u] = View(b, u)
      BY <2>1, <2>3, <2>5, Zenon DEF CopiedInv
    <3>2. View(b, u)' = View(b, u)
      BY <3>1, <2>2, <2>4, <2>7, Zenon DEF View
    <3> QED BY <3>2, <2>2, <2>4, <2>5, Zenon DEF GuestCoherent
  <2>10. AllMapped(b)' /\ \A u \in Units : maps'[b][u] \in DataBlocks
    BY <2>4, <2>7, Zenon DEF AllMapped
  <2> QED BY <2>1, <2>2, <2>3, <2>4, <2>5, <2>6, <2>7, <2>8, <2>9, <2>10, <1>WorkStep
\* A step of t on the hash table and the entries, with the lock on its block.
<1>TableStep.
  ASSUME Private, RunInv, AloneInv, NEW t \in Threads, OthersStay(t), NEW b \in Blocks, b = tgt[t][1],
         UNCHANGED <<maps, data, last, tgt, monitor>>,
         \A n \in Buckets : \A i \in DOMAIN ht'[n] : BucketOf(ht'[n][i].b) = n /\ ht'[n][i].b \notin Missing,
         \A c \in Blocks : Listed(c) => Listed(c)' \/ (c = b /\ pc'[t] \in Filling), pc[t] \in Filling => Listed(b)',
         OwnThread(t)', CopiedInv(t)'
  PROVE  /\ \A c \in Blocks : Known(c) => Known(c)'
         /\ EntryInv' => AloneInv'
  <2> USE <1>TableStep
  <2>1. CowTypes /\ ShowInv /\ LayerInv /\ EntryInv /\ GuestCoherent
    BY Zenon DEF RunInv, AloneInv
  <2>2. \A w \in Threads : w # t => OwnThread(w)' /\ CopiedInv(w)'
    BY OthersAlone, Zenon
  <2>3. FreshInv'
    BY FreshKeeps, Zenon
  <2>4. LayerInv'
    BY <2>1, LayerKeeps, Zenon
  <2>5. \A c : AllMapped(c)' <=> AllMapped(c)
    BY MappedSame, Zenon
  <2>6. \A c \in Blocks : Known(c) => Known(c)'
    BY <2>5, KnownKeeps
  <2>7. GuestCoherent'
    BY <2>1, Zenon DEF GuestCoherent, View, Original
  <2> QED BY <2>2, <2>3, <2>4, <2>6, <2>7, Zenon DEF AloneInv
<1>InsertWholeAlone.
  ASSUME NatLeast, Private, RunInv, AloneInv, NEW t \in Threads, InsertListWhole(t)
  PROVE  AloneInv'
  <2> USE <1>InsertWholeAlone
  <2>1. PICK b : b = tgt[t][1]
    BY Zenon
  <2>2. PICK r : r = Min(Ranks(t))
    BY Zenon
  <2>3. PICK n : n = BucketOf(b)
    BY Zenon
  <2>4. /\ Goto(t, "insert", "read") /\ Ranks(t) # {} /\ cow' = [cow EXCEPT ![t] = Bucket(t)[r]] /\ buf' = [buf EXCEPT ![t] = <<0, Zero>>]
        /\ ht' = [ht EXCEPT ![n] = Unlink(ht[n], r)]
        /\ UNCHANGED <<maps, data, entries, last, tgt, monitor>>
    BY <2>1, <2>2, <2>3, Zenon DEF InsertListWhole, memVars
  <2>5. /\ CowTypes /\ b \in Blocks
        /\ pc'[t] = "read" /\ \A w \in Threads : w # t => pc'[w] = pc[w]
    BY <2>1, <2>4, InsertEffects, Zenon
  <2>6. n \in Buckets /\ ht[n] \in Seq(Cows) /\ Len(ht[n]) \in Nat /\ DOMAIN ht[n] = 1..Len(ht[n]) /\ Bucket(t) = ht[n]
    BY <2>1, <2>3, <2>5, BucketIs, Zenon DEF Bucket
  <2>7. r \in DOMAIN ht[n] /\ ht[n][r].b = b
    BY <2>1, <2>2, <2>4, <2>5, <2>6, RankIs, Zenon
  <2>8. PICK s : s = Unlink(ht[n], r)
    BY Zenon
  <2>9. /\ \A j \in DOMAIN s : \E k \in DOMAIN ht[n] : s[j] = ht[n][k]
        /\ \A k \in DOMAIN ht[n] : k # r => \E j \in DOMAIN s : s[j] = ht[n][k]
    <3>1. r \in 1..Len(ht[n])
      BY <2>6, <2>7, Zenon
    <3>2. ht[n] \in Seq(Cows)
      BY <2>6, Zenon
    <3> QED BY <3>1, <3>2, <2>8, Removed
  <2>10. ht'[n] = s /\ \A m \in Buckets : m # n => ht'[m] = ht[m]
    BY <2>4, <2>5, <2>6, <2>8, Zenon DEF CowTypes
  <2>11. OthersStay(t) /\ buf'[t][1] = 0
    BY <2>4, <2>5, Zenon DEF CowTypes, OthersStay
  <2>12. pc[t] = "insert" /\ OwnThread(t) /\ LayerInv /\ EntryInv
    BY <2>4, Zenon DEF Goto, AloneInv
  <2>13. OwnThread(t)'
    BY <2>4, <2>5, <2>12, Zenon DEF OwnThread, Handling
  <2>14. CopiedInv(t)'
    <3>1. \A u \in Units : ~(u < 0)
      BY Sizes DEF Units
    <3> QED BY <3>1, <2>5, <2>11, Zenon DEF CopiedInv
  <2>15. \A m \in Buckets : \A i \in DOMAIN ht'[m] : BucketOf(ht'[m][i].b) = m /\ ht'[m][i].b \notin Missing
    <3>1. ASSUME NEW m \in Buckets, NEW i \in DOMAIN ht'[m] PROVE \E k \in DOMAIN ht[m] : ht'[m][i] = ht[m][k]
      BY <2>9, <2>10
    <3> QED BY <3>1, <2>12 DEF LayerInv
  <2>16. ASSUME NEW c \in Blocks, c # b, Listed(c) PROVE Listed(c)'
    <3>1. PICK m \in Buckets : \E i \in DOMAIN ht[m] : ht[m][i].b = c
      BY <2>16, Zenon DEF Listed
    <3>2. PICK i \in DOMAIN ht[m] : ht[m][i].b = c
      BY <3>1, Zenon
    <3>3. \E j \in DOMAIN ht'[m] : ht'[m][j] = ht[m][i]
      <4>1. CASE m = n
        BY <4>1, <3>2, <2>16, <2>7, <2>9, <2>10, Zenon
      <4>2. CASE m # n
        BY <4>2, <2>10, Zenon
      <4> QED BY <4>1, <4>2, Zenon
    <3> QED BY <3>2, <3>3, Zenon DEF Listed
  <2>17. pc'[t] \in Filling /\ pc[t] \notin Filling
    BY <2>5, <2>12, Zenon DEF Filling
  <2>18. (\A c \in Blocks : Known(c) => Known(c)') /\ (EntryInv' => AloneInv')
    BY <2>1, <2>4, <2>5, <2>11, <2>13, <2>14, <2>15, <2>16, <2>17, <1>TableStep
  <2>19. \A k, c : Holds(k, c)' <=> Holds(k, c)
    BY <2>4, Zenon DEF Holds
  <2>20. EntryInv'
    BY <2>5, <2>12, <2>18, <2>19, EntryKeeps, Zenon
  <2> QED BY <2>18, <2>20, Zenon
<1>InsertUnitAlone.
  ASSUME Private, RunInv, AloneInv, NEW t \in Threads, InsertListUnit(t)
  PROVE  AloneInv'
  <2> USE <1>InsertUnitAlone
  <2>1. /\ Goto(t, "insert", "copy") /\ \A w \in Threads : w # t => cow'[w] = cow[w]
        /\ UNCHANGED <<maps, data, entries, last, ht, tgt, buf, monitor>>
    BY Zenon DEF InsertListUnit, memVars, RunInv, CowTypes
  <2>2. CowTypes /\ OwnThread(t)
    BY Zenon DEF RunInv, AloneInv
  <2>3. pc[t] = "insert" /\ pc'[t] = "copy" /\ OthersStay(t)
    BY <2>1, <2>2, Zenon DEF Goto, CowTypes, OthersStay
  <2>4. OwnThread(t)' /\ CopiedInv(t)'
    BY <2>1, <2>2, <2>3, Zenon DEF OwnThread, CopiedInv, Handling
  <2>5. \A k, c : Holds(k, c)' <=> Holds(k, c)
    BY <2>1, Zenon DEF Holds
  <2>6. pc[t] \notin Filling
    BY <2>3, Zenon DEF Filling
  <2> QED BY <2>1, <2>3, <2>4, <2>5, <2>6, CalmStep, Zenon
<1>InsertNewAlone.
  ASSUME Private, RunInv, AloneInv, NEW t \in Threads, InsertListNew(t), ~OutOfRange
  PROVE  AloneInv'
  <2> USE <1>InsertNewAlone
  <2>1. PICK b : b = tgt[t][1]
    BY Zenon
  <2>2. /\ Goto(t, "insert", "entry") /\ NewBlock(b) /\ Ranks(t) = {} /\ (\A w \in Threads : w # t => cow'[w] = cow[w])
        /\ UNCHANGED <<maps, data, last, ht, tgt, buf, monitor>>
    BY <2>1, Zenon DEF InsertListNew, RunInv, CowTypes
  <2>3. CowTypes /\ ShowInv /\ b \in Blocks /\ tgt[t][2] \in Units /\ OwnThread(t) /\ LayerInv /\ EntryInv
    BY <2>1, Target, Zenon DEF RunInv, AloneInv
  <2>4. pc[t] = "insert" /\ pc'[t] = "entry" /\ OthersStay(t)
    BY <2>2, <2>3, Zenon DEF Goto, CowTypes, OthersStay
  <2>5. OwnThread(t)' /\ CopiedInv(t)'
    BY <2>2, <2>3, <2>4, Zenon DEF OwnThread, CopiedInv, Handling
  <2>6. pc[t] \notin Filling /\ pc'[t] \in Filling /\ Busy(t)
    BY <2>4, Zenon DEF Filling, Busy, Handling
  <2>7. \A c : Listed(c)' <=> Listed(c)
    BY <2>2, ListedSame, Zenon
  <2>8. \A n \in Buckets : \A i \in DOMAIN ht'[n] : BucketOf(ht'[n][i].b) = n /\ ht'[n][i].b \notin Missing
    BY <2>2, <2>3, Zenon DEF LayerInv
  <2>9. (\A c \in Blocks : Known(c) => Known(c)') /\ (EntryInv' => AloneInv')
    BY <2>1, <2>2, <2>3, <2>4, <2>5, <2>6, <2>7, <2>8, <1>TableStep
  <2>10. b \notin Missing
    BY <2>1, <2>3, <2>6, BusyOwn, Zenon
  <2>11. ~Known(b)
    <3>1. ~AllMapped(b)
      <4>1. maps[b][tgt[t][2]] = ReadOnly
        BY <2>1, <2>3, <2>4, Zenon DEF OwnThread, Handling
      <4>2. ReadOnly \notin DataBlocks
        BY Sizes DEF ReadOnly, DataBlocks
      <4> QED BY <4>1, <4>2, <2>3, Zenon DEF AllMapped
    <3>2. ~Listed(b)
      <4> SUFFICES ASSUME NEW n \in Buckets, NEW i \in DOMAIN ht[n], ht[n][i].b = b PROVE FALSE
        BY Zenon DEF Listed
      <4>1. BucketOf(b) = n
        BY <2>3, Zenon DEF LayerInv
      <4> QED BY <4>1, <2>1, <2>2, Zenon DEF Ranks, Bucket
    <3>3. ASSUME NEW w \in Threads, pc[w] \in Filling, tgt[w][1] = b PROVE FALSE
      <4>1. w # t /\ pc[w] # "idle" /\ pc[t] # "idle"
        BY <3>3, <2>4, Zenon DEF Filling
      <4> QED BY <4>1, <3>3, <2>1, <2>10, Met, Zenon
    <3> QED BY <3>1, <3>2, <3>3, <2>10, Zenon DEF Known
  <2>12. Known(b)'
    BY <2>1, <2>2, <2>6, Zenon DEF Known
  <2>13. EntryInv'
    BY <2>2, <2>3, <2>9, <2>11, <2>12, NewEntry, Zenon DEF ShowInv
  <2> QED BY <2>9, <2>13, Zenon
<1>InsertHtAlone.
  ASSUME Private, RunInv, AloneInv, NEW t \in Threads, InsertHt(t)
  PROVE  AloneInv'
  <2> USE <1>InsertHtAlone
  <2>1. PICK b : b = tgt[t][1]
    BY Zenon
  <2>2. PICK n, e : n = BucketOf(b) /\ e = [cow[t] EXCEPT !.ent = EntryFound]
    BY Zenon
  <2>3. CowTypes /\ ShowInv /\ ListedInv /\ b \in Blocks /\ OwnThread(t) /\ LayerInv /\ EntryInv
    BY <2>1, Target, Zenon DEF RunInv, AloneInv
  <2>4. /\ Goto(t, "entry", "copy") /\ cow'[t] = e /\ (\A w \in Threads : w # t => cow'[w] = cow[w])
        /\ ht' = [ht EXCEPT ![n] = <<e>> \o ht[n]]
        /\ UNCHANGED <<maps, data, entries, last, tgt, buf, monitor>>
    BY <2>1, <2>2, <2>3, Zenon DEF InsertHt, memVars, CowTypes
  <2>5. pc[t] = "entry" /\ pc'[t] = "copy" /\ OthersStay(t)
    BY <2>3, <2>4, Zenon DEF Goto, CowTypes, OthersStay
  <2>6. e.b = b /\ b \notin Missing
    <3>1. cow[t] \in Cows /\ cow[t].b = b /\ Busy(t)
      BY <2>1, <2>3, <2>5, Target, Zenon DEF ListedInv, WorkInv, Busy, Handling
    <3> QED BY <3>1, <2>1, <2>2, <2>3, BusyOwn, Zenon DEF Cows
  <2>7. n \in Buckets /\ ht[n] \in Seq(Cows) /\ Len(ht[n]) \in Nat /\ DOMAIN ht[n] = 1..Len(ht[n])
    BY <2>2, <2>3, BucketIs, Zenon
  <2>8. PICK s : s = <<e>> \o ht[n]
    BY Zenon
  <2>9. PICK l \in Nat : l = Len(ht[n]) /\ DOMAIN ht[n] = 1..l
    BY <2>7, Zenon
  <2>10. DOMAIN s = 1..(1 + l) /\ \A i \in 1..(1 + l) : s[i] = IF i <= 1 THEN e ELSE ht[n][i - 1]
    <3>1. <<e>> \in Seq({e} \cup Cows) /\ Len(<<e>>) = 1 /\ <<e>>[1] = e /\ ht[n] \in Seq({e} \cup Cows)
      BY <2>7
    <3>2. /\ DOMAIN s = 1..(1 + l)
          /\ \A i \in 1..(1 + l) : s[i] = IF i <= 1 THEN <<e>>[i] ELSE ht[n][i - 1]
      BY <3>1, <2>8, <2>9, Joined
    <3>3. \A i \in 1..(1 + l) : i <= 1 => i = 1
      OBVIOUS
    <3> QED BY <3>1, <3>2, <3>3, Zenon
  <2>11. 1 \in DOMAIN s /\ s[1] = e /\ \A i \in DOMAIN ht[n] : i + 1 \in DOMAIN s /\ s[i + 1] = ht[n][i]
    BY <2>9, <2>10
  <2>12. \A i \in DOMAIN s : s[i] = e \/ \E j \in DOMAIN ht[n] : s[i] = ht[n][j]
    <3> TAKE i \in DOMAIN s
    <3>1. CASE i = 1
      BY <3>1, <2>11, Zenon
    <3>2. CASE i # 1
      <4>1. i - 1 \in DOMAIN ht[n] /\ s[i] = ht[n][i - 1]
        BY <3>2, <2>9, <2>10
      <4> QED BY <4>1, Zenon
    <3> QED BY <3>1, <3>2, Zenon
  <2>13. ht'[n] = s /\ \A m \in Buckets : m # n => ht'[m] = ht[m]
    BY <2>3, <2>4, <2>7, <2>8, Zenon DEF CowTypes
  <2>14. \A m \in Buckets : \A i \in DOMAIN ht'[m] : BucketOf(ht'[m][i].b) = m /\ ht'[m][i].b \notin Missing
    <3>1. ASSUME NEW m \in Buckets, NEW i \in DOMAIN ht'[m]
          PROVE  (m = n /\ ht'[m][i] = e) \/ \E k \in DOMAIN ht[m] : ht'[m][i] = ht[m][k]
      BY <2>12, <2>13
    <3>2. \A m \in Buckets : \A k \in DOMAIN ht[m] : BucketOf(ht[m][k].b) = m /\ ht[m][k].b \notin Missing
      BY <2>3, Zenon DEF LayerInv
    <3>3. BucketOf(e.b) = n /\ e.b \notin Missing
      BY <2>2, <2>6, Zenon
    <3> QED BY <3>1, <3>2, <3>3
  <2>15. \A c \in Blocks : Listed(c) => Listed(c)'
    <3> TAKE c \in Blocks
    <3> HAVE Listed(c)
    <3>1. PICK m \in Buckets : \E i \in DOMAIN ht[m] : ht[m][i].b = c
      BY Zenon DEF Listed
    <3>2. PICK i \in DOMAIN ht[m] : ht[m][i].b = c
      BY <3>1, Zenon
    <3>3. \E j \in DOMAIN ht'[m] : ht'[m][j] = ht[m][i]
      BY <2>11, <2>13, Zenon
    <3> QED BY <3>2, <3>3, Zenon DEF Listed
  <2>16. Listed(b)'
    BY <2>6, <2>7, <2>11, <2>13, Zenon DEF Listed
  <2>17. OwnThread(t)' /\ CopiedInv(t)'
    BY <2>3, <2>4, <2>5, Zenon DEF OwnThread, CopiedInv, Handling
  <2>18. (\A c \in Blocks : Known(c) => Known(c)') /\ (EntryInv' => AloneInv')
    BY <2>1, <2>3, <2>4, <2>5, <2>14, <2>15, <2>16, <2>17, <1>TableStep
  <2>19. \A k, c : Holds(k, c)' <=> Holds(k, c)
    BY <2>4, Zenon DEF Holds
  <2>20. EntryInv'
    BY <2>3, <2>18, <2>19, EntryKeeps, Zenon
  <2> QED BY <2>18, <2>20, Zenon
<1> SUFFICES ASSUME NatLeast, Private, RunInv, AloneInv, NEW t \in Threads,
                    Commit(t) \/ TouchAbsent(t) \/ Handler(t)
             PROVE  AloneInv' \/ (process' # "running" /\ UNCHANGED <<maps, data, entries, last>>)
  BY Zenon
<1>1. CASE Commit(t) \/ CopyWrite(t) \/ RemapUnit(t) \/ RemapBlock(t)
  BY <1>1, <1>CommitAlone, <1>CopyWriteAlone, <1>RemapUnitAlone, <1>RemapBlockAlone, Zenon
<1>2. CASE TouchAbsent(t) \/ Fault(t) \/ InList(t) \/ LockBlock(t) \/ AlreadyListed(t) \/ CopyRead(t) \/ SetBit(t) \/ ClearBits(t)
  BY <1>2, <1>CalmSteps, Zenon
<1>3. CASE Refault(t)
  BY <1>3, AloneStutter, Zenon DEF Refault
<1>4. CASE InsertListWhole(t) \/ InsertListUnit(t) \/ InsertHt(t)
  BY <1>4, <1>InsertWholeAlone, <1>InsertUnitAlone, <1>InsertHtAlone, Zenon
<1>5. CASE InsertListNew(t)
  <2>1. CASE OutOfRange
    BY <1>5, <2>1, Zenon DEF InsertListNew, Exit
  <2>2. CASE ~OutOfRange
    BY <1>5, <2>2, <1>InsertNewAlone, Zenon
  <2> QED BY <2>1, <2>2, Zenon
<1>6. CASE CopyUnit(t)
  <2>1. CASE tgt[t][2] \in holes[cow[t].blk]
    BY <1>6, <2>1, Zenon DEF CopyUnit
  <2>2. CASE tgt[t][2] \notin holes[cow[t].blk]
    BY <1>6, <2>2, <1>CopyUnitAlone, Zenon
  <2> QED BY <2>1, <2>2, Zenon
<1>7. CASE UseFreedNode(t)
  BY <1>7, Zenon DEF UseFreedNode, memVars
<1> QED BY <1>1, <1>2, <1>3, <1>4, <1>5, <1>6, <1>7, Zenon DEF Handler

\* The steps of uf_monitor keep AloneInv, or end the process.
LEMMA MonitorAlones ==
    RunInv /\ AloneInv /\ Monitor
  => AloneInv' \/ (process' # "running" /\ UNCHANGED <<maps, data, entries, last>>)
<1>MonitorReadAlone.
  ASSUME RunInv, AloneInv, NEW t \in Threads, MonitorRead(t)
  PROVE  AloneInv'
  <2> USE <1>MonitorReadAlone
  <2>1. CowTypes /\ ShowInv /\ LayerInv /\ EntryInv /\ OwnThread(t) /\ tgt[t][1] \in Blocks /\ tgt[t][2] \in Units
    BY Target, Zenon DEF RunInv, AloneInv
  <2>2. /\ pc[t] = "uffd" /\ monitor.pc = "poll" /\ monitor' = [pc |-> "new", b |-> tgt[t][1], blk |-> 0]
        /\ UNCHANGED <<maps, data, entries, last, ht, pc, tgt, cow, buf>>
    BY Zenon DEF MonitorRead, memVars, cowVars, threadVars
  <2>3. \A u \in Units : maps[tgt[t][1]][u] = Absent
    <3>1. maps[tgt[t][1]][tgt[t][2]] = Absent /\ tgt[t][1] \in Missing
      BY <2>1, <2>2, Zenon DEF OwnThread, ShowInv, ThreadInv
    <3> QED BY <3>1, <2>1, Zenon DEF LayerInv
  <2>4. LayerInv' /\ FreshInv'
    BY <2>1, <2>2, <2>3, Zenon DEF LayerInv, FreshInv
  <2>5. \A c : (Listed(c)' <=> Listed(c)) /\ (AllMapped(c)' <=> AllMapped(c))
    BY <2>2, ListedSame, MappedSame, Zenon
  <2>6. EntryInv'
    <3>1. \A c \in Blocks : Known(c) => Known(c)'
      BY <2>2, <2>5, Zenon DEF Known
    <3>2. \A k, c : Holds(k, c)' <=> Holds(k, c)
      BY <2>2, Zenon DEF Holds
    <3> QED BY <3>1, <3>2, <2>1, EntryKeeps, Zenon
  <2>7. \A c \in Blocks, u \in Units : View(c, u)' = View(c, u)
    BY <2>2, Zenon DEF View, Original
  <2>8. \A w \in Threads : pc[w] = "uffd" => maps[tgt[w][1]][tgt[w][2]] = Absent
    BY <2>2, Zenon DEF AloneInv, OwnThread
  <2> QED BY <2>2, <2>4, <2>6, <2>7, <2>8, MonitorAlone, Zenon
<1>MonitorNewAlone.
  ASSUME RunInv, AloneInv, MonitorNewBlock, ~OutOfRange
  PROVE  AloneInv'
  <2> USE <1>MonitorNewAlone
  <2>1. CowTypes /\ ShowInv /\ LayerInv /\ EntryInv
    BY Zenon DEF RunInv, AloneInv
  <2>2. PICK m, b : m = Len(entries) + 1 /\ b = monitor.b
    BY Zenon
  <2>3. /\ monitor.pc = "new" /\ NewBlock(b) /\ monitor' = [monitor EXCEPT !.pc = "map", !.blk = m]
        /\ UNCHANGED <<maps, data, last, ht, pc, tgt, cow, buf>>
    BY <2>2, Zenon DEF MonitorNewBlock, cowVars, threadVars
  <2>4. b \in Blocks /\ b \in Missing
    BY <2>1, <2>2, <2>3, Zenon DEF CowTypes, ShowInv, MonitorInv
  <2>5. \A u \in Units : data[m][u] = Zero
    BY <2>1, <2>2, <2>3, <2>4, NewKept, Zenon DEF ShowInv
  <2>6. monitor'.pc = "map" /\ monitor'.b = b /\ monitor'.blk = m
    BY <2>1, <2>2, <2>3, Zenon DEF CowTypes
  <2>7. \A u \in Units : maps[b][u] = Absent
    BY <2>1, <2>2, <2>3, Zenon DEF LayerInv
  <2>8. LayerInv' /\ FreshInv'
    BY <2>1, <2>3, <2>5, <2>6, <2>7, Zenon DEF LayerInv, FreshInv
  <2>9. \A c : (Listed(c)' <=> Listed(c)) /\ (AllMapped(c)' <=> AllMapped(c))
    BY <2>3, ListedSame, MappedSame, Zenon
  <2>10. ~Known(b)
    <3>1. ~AllMapped(b)
      <4>1. 0 \in Units /\ Absent \notin DataBlocks
        BY Sizes DEF Units, Absent, DataBlocks
      <4> QED BY <4>1, <2>7, Zenon DEF AllMapped
    <3>2. ~Listed(b)
      BY <2>1, <2>4, Zenon DEF Listed, LayerInv
    <3>3. ASSUME NEW w \in Threads, pc[w] \in Filling, tgt[w][1] = b PROVE FALSE
      <4>1. Busy(w)
        BY <3>3, Zenon DEF Filling, Busy, Handling
      <4> QED BY <4>1, <3>3, <2>1, <2>4, BusyOwn, Zenon
    <3> QED BY <3>1, <3>2, <3>3, <2>3, Zenon DEF Known
  <2>11. EntryInv'
    <3>1. \A c \in Blocks : Known(c) => Known(c)'
      BY <2>3, <2>9, Zenon DEF Known
    <3>2. Known(b)'
      BY <2>4, <2>6, Zenon DEF Known
    <3> QED BY <3>1, <3>2, <2>1, <2>3, <2>4, <2>10, NewEntry, Zenon DEF ShowInv
  <2>12. \A c \in Blocks, u \in Units : View(c, u)' = View(c, u)
    BY <2>3, Zenon DEF View, Original
  <2>13. \A w \in Threads : pc[w] = "uffd" => maps[tgt[w][1]][tgt[w][2]] = Absent
    BY <2>3, Zenon DEF AloneInv, OwnThread
  <2> QED BY <2>3, <2>8, <2>11, <2>12, <2>13, MonitorAlone, Zenon
<1>MonitorMapAlone.
  ASSUME RunInv, AloneInv, MonitorMap
  PROVE  AloneInv'
  <2> USE <1>MonitorMapAlone
  <2>1. CowTypes /\ ShowInv /\ LayerInv /\ EntryInv
    BY Zenon DEF RunInv, AloneInv
  <2>2. PICK k, b : k = monitor.blk /\ b = monitor.b
    BY Zenon
  <2>3. /\ monitor.pc = "map" /\ maps' = [maps EXCEPT ![b] = [u \in Units |-> k]] /\ monitor' = [monitor EXCEPT !.pc = "wake"]
        /\ UNCHANGED <<data, entries, last, ht, pc, tgt, cow, buf>>
    BY <2>2, Zenon DEF MonitorMap, cowVars, threadVars
  <2>4. b \in Blocks /\ b \in Missing /\ Holds(k, b) /\ k \in DataBlocks
    BY <2>1, <2>2, <2>3, HeldBlock, Zenon DEF CowTypes, ShowInv, MonitorInv
  <2>5. monitor'.pc = "wake" /\ monitor'.b = b
    BY <2>1, <2>2, <2>3, Zenon DEF CowTypes
  <2>6. (\A u \in Units : maps'[b][u] = k) /\ \A c \in Blocks : c # b => maps'[c] = maps[c]
    BY <2>1, <2>3, <2>4, Zenon DEF CowTypes
  <2>7. \A u \in Units : data[k][u] = Zero /\ maps[b][u] = Absent
    BY <2>1, <2>2, <2>3, Zenon DEF AloneInv, FreshInv, LayerInv
  <2>8. Absent \notin DataBlocks /\ ReadOnly \notin DataBlocks
    BY Sizes DEF Absent, ReadOnly, DataBlocks
  <2>9. \A c \in Blocks, u \in Units : View(c, u)' = View(c, u)
    <3> TAKE c \in Blocks, u \in Units
    <3>1. CASE c = b
      BY <3>1, <2>3, <2>4, <2>6, <2>7, <2>8 DEF View, Original
    <3>2. CASE c # b
      BY <3>2, <2>3, <2>6 DEF View, Original
    <3> QED BY <3>1, <3>2, Zenon
  <2>10. LayerInv' /\ FreshInv'
    <3>1. Missing \subseteq Blocks
      BY CowAssumption, Zenon DEF Blocks
    <3>2. \A c \in Blocks, u \in Units : maps'[c][u] = ReadOnly => c \notin Missing
      BY <2>1, <2>4, <2>6, <2>8, Zenon DEF LayerInv
    <3>3. \A c \in Missing : \A u, v \in Units : maps'[c][u] = Absent => maps'[c][v] = Absent
      BY <3>1, <2>1, <2>4, <2>6, <2>8 DEF LayerInv
    <3> QED BY <3>2, <3>3, <2>1, <2>3, <2>5, Zenon DEF LayerInv, FreshInv
  <2>11. EntryInv'
    <3>1. \A c : Listed(c)' <=> Listed(c)
      BY <2>3, ListedSame, Zenon
    <3>2. AllMapped(b)' /\ \A c \in Blocks : AllMapped(c) => AllMapped(c)'
      BY <2>4, <2>6, Zenon DEF AllMapped
    <3>3. \A c \in Blocks : Known(c) => Known(c)'
      BY <3>1, <3>2, <2>2, <2>3, Zenon DEF Known
    <3>4. \A j, c : Holds(j, c)' <=> Holds(j, c)
      BY <2>3, Zenon DEF Holds
    <3> QED BY <3>3, <3>4, <2>1, EntryKeeps, Zenon
  <2>12. ASSUME NEW w \in Threads, pc[w] = "uffd"
         PROVE  maps'[tgt[w][1]][tgt[w][2]] = Absent \/ tgt[w][1] = b
    <3>1. maps[tgt[w][1]][tgt[w][2]] = Absent /\ tgt[w][1] \in Blocks
      BY <2>12, <2>1, <2>3, Target, Zenon DEF AloneInv, OwnThread
    <3> QED BY <3>1, <2>6, Zenon
  <2> QED BY <2>3, <2>4, <2>5, <2>6, <2>9, <2>10, <2>11, <2>12, MonitorAlone, Zenon
<1>MonitorWakeAlone.
  ASSUME RunInv, AloneInv, MonitorWake
  PROVE  AloneInv'
  <2> USE <1>MonitorWakeAlone
  <2>1. CowTypes /\ ShowInv /\ LayerInv /\ EntryInv
    BY Zenon DEF RunInv, AloneInv
  <2>2. /\ monitor.pc = "wake" /\ pc' = [t \in Threads |-> IF pc[t] = "uffd" /\ tgt[t][1] = monitor.b THEN "store" ELSE pc[t]]
        /\ monitor' = [pc |-> "poll", b |-> 0, blk |-> 0]
        /\ UNCHANGED <<maps, data, entries, last, ht, tgt, cow, buf>>
    BY Zenon DEF MonitorWake, memVars, cowVars
  <2>3. \A w \in Threads : (pc'[w] = pc[w] /\ (pc[w] = "uffd" => tgt[w][1] # monitor.b)) \/ (pc[w] = "uffd" /\ pc'[w] = "store")
    BY <2>1, <2>2, Zenon DEF CowTypes
  <2>4. LayerInv' /\ FreshInv'
    BY <2>1, <2>2, Zenon DEF LayerInv, FreshInv
  <2>5. \A c : (Listed(c)' <=> Listed(c)) /\ (AllMapped(c)' <=> AllMapped(c))
    BY <2>2, ListedSame, MappedSame, Zenon
  <2>6. EntryInv'
    <3>1. \A w \in Threads : pc[w] \in Filling => pc'[w] = pc[w]
      BY <2>3, Zenon DEF Filling
    <3>2. \A c \in Blocks : Known(c) => Known(c)'
      BY <3>1, <2>2, <2>5, Zenon DEF Known
    <3>3. \A k, c : Holds(k, c)' <=> Holds(k, c)
      BY <2>2, Zenon DEF Holds
    <3> QED BY <3>2, <3>3, <2>1, EntryKeeps, Zenon
  <2>7. \A c \in Blocks, u \in Units : View(c, u)' = View(c, u)
    BY <2>2, Zenon DEF View, Original
  <2>8. \A w \in Threads : pc'[w] = "uffd" => maps[tgt[w][1]][tgt[w][2]] = Absent
    BY <2>3, Zenon DEF AloneInv, OwnThread
  <2> QED BY <2>2, <2>3, <2>4, <2>6, <2>7, <2>8, MonitorAlone, Zenon
<1> SUFFICES ASSUME RunInv, AloneInv, Monitor
             PROVE  AloneInv' \/ (process' # "running" /\ UNCHANGED <<maps, data, entries, last>>)
  BY Zenon
<1>1. ASSUME NEW t \in Threads, MonitorRead(t) PROVE AloneInv'
  BY <1>1, <1>MonitorReadAlone, Zenon
<1>2. CASE MonitorNewBlock
  <2>1. CASE OutOfRange
    BY <1>2, <2>1, Zenon DEF MonitorNewBlock, Exit
  <2>2. CASE ~OutOfRange
    BY <1>2, <2>2, <1>MonitorNewAlone, Zenon
  <2> QED BY <2>1, <2>2, Zenon
<1>3. CASE MonitorMap \/ MonitorWake
  BY <1>3, <1>MonitorMapAlone, <1>MonitorWakeAlone, Zenon
<1> QED BY <1>1, <1>2, <1>3, Zenon DEF Monitor

\* Every step keeps what holds under Private.
LEMMA AloneNext == ASSUME NatLeast, Private, AloneInvariant, [Next]_vars PROVE AloneInvariant'
<1>1. CowInvariant'
  BY CowNext, Zenon DEF AloneInvariant
<1>2. CASE UNCHANGED vars
  <2>1. UNCHANGED <<maps, data, entries, last, process>>
    BY <1>2, Zenon DEF vars, memVars
  <2>2. GuestCoherent' /\ OneEntryPerBlock'
    BY <2>1, Halted, Zenon DEF AloneInvariant
  <2>3. process' = "running" => AloneInv'
    BY <2>1, <1>2, AloneStutter, Zenon DEF AloneInvariant, CowInvariant
  <2> QED BY <1>1, <2>2, <2>3, Zenon DEF AloneInvariant
<1>3. CASE process = "running" /\ Next
  <2>1. RunInv /\ AloneInv /\ GuestCoherent /\ OneEntryPerBlock
    BY <1>3, Zenon DEF AloneInvariant, CowInvariant
  <2>2. ASSUME AloneInv' \/ (process' # "running" /\ UNCHANGED <<maps, data, entries, last>>) PROVE AloneInvariant'
    <3>1. CASE AloneInv'
      <4>1. (GuestCoherent /\ OneEntryPerBlock)'
        BY <3>1, OneEntry, PTL
      <4> QED BY <3>1, <4>1, <1>1, Zenon DEF AloneInvariant
    <3>2. CASE process' # "running" /\ UNCHANGED <<maps, data, entries, last>>
      BY <3>2, <2>1, <1>1, Halted, Zenon DEF AloneInvariant
    <3> QED BY <2>2, <3>1, <3>2, Zenon
  <2>3. ASSUME NEW t \in Threads, Guest(t) PROVE AloneInvariant'
    BY <2>1, <2>2, <2>3, GuestAlone, Zenon DEF Guest
  <2>4. ASSUME NEW t \in Threads, NEW a \in Addresses(t), Begin(t, a) PROVE AloneInvariant'
    BY <2>1, <2>2, <2>4, BeginAlone, Zenon
  <2>5. CASE Monitor
    BY <2>1, <2>2, <2>5, MonitorAlones, Zenon
  <2>6. CASE Fmunmap
    <3>1. process' # "running"
      BY <2>6, Zenon DEF Fmunmap
    <3> QED BY <3>1, <1>1, <2>1, <2>6, FmunmapAlone, Zenon DEF AloneInvariant
  <2> QED BY <1>3, <2>3, <2>4, <2>5, <2>6, Zenon DEF Next, Ended
<1> QED BY <1>2, <1>3, Zenon DEF Next, Ended, Guest, Monitor

LOCAL INSTANCE WellFoundedInduction

\* Sets of numbers have least elements.
LEMMA NatLeastHolds == NatLeast
<1> SUFFICES ASSUME NEW S \in SUBSET Nat, S # {} PROVE \E r \in S : \A i \in S : r <= i
  BY Zenon DEF NatLeast
<1>1. PICK r \in S : \A i \in S : ~(<<i, r>> \in OpToRel(<, Nat))
  BY NatLessThanWellFounded, WFMin, Zenon
<1>2. \A i \in S : ~(i < r)
  BY <1>1, Zenon DEF OpToRel
<1> QED BY <1>2

\* Whatever the guest stores and however handlers and uf_monitor interleave,
\* the invariant of CowSteps holds.
THEOREM CowSafe == Spec => []CowInvariant
<1>1. Init => CowInvariant
  BY RunInit, NatLeastHolds, Foreign, Partly, Zenon DEF CowInvariant
<1>2. CowInvariant /\ [Next]_vars => CowInvariant'
  BY NatLeastHolds, CowNext, Zenon
<1> QED BY <1>1, <1>2, PTL DEF Spec

\* No unit ever shows what was stored elsewhere, now or after a crash:
\* cow_handler copies into data blocks of the right block only, and
\* do_writable_fmmap maps them to where they belong.
THEOREM UnitsShowTheirOwn == Spec => []NothingForeign
<1>1. CowInvariant => NothingForeign
  BY Zenon DEF CowInvariant
<1> QED BY <1>1, CowSafe, PTL

\* A block of which cow_handler has copied some units but not all is in the
\* hash table, so final_cow completes it, or its handler is still at work.
THEOREM PartialBlocksAreListed == Spec => []UncompletedListed
<1>1. CowInvariant => UncompletedListed
  BY Zenon DEF CowInvariant
<1> QED BY <1>1, CowSafe, PTL

\* For threads that do not share blocks of the layers the stronger invariant
\* holds.
THEOREM AloneSafe == ASSUME Private PROVE Spec => []AloneInvariant
<1>1. Init => AloneInvariant
  BY RunInit, NatLeastHolds, Foreign, Partly, AloneInit, OneEntry, Zenon DEF AloneInvariant, CowInvariant
<1>2. AloneInvariant /\ [Next]_vars => AloneInvariant'
  BY NatLeastHolds, AloneNext, Zenon
<1> QED BY <1>1, <1>2, PTL DEF Spec

\* The guest reads at any moment what it last stored, while cow_handler copies
\* and remaps under it.
THEOREM GuestSeesItsStores == ASSUME Private PROVE Spec => []GuestCoherent
<1>1. AloneInvariant => GuestCoherent
  BY Zenon DEF AloneInvariant
<1> QED BY <1>1, AloneSafe, PTL

\* The data block that do_writable_fmmap maps after a crash has every store
\* that was made, wherever the handlers were.
THEOREM StoresSurviveACrash == ASSUME Private PROVE Spec => []StoresDurable
<1>1. AloneInvariant => StoresDurable
  BY NatLeastHolds, Durable, Zenon DEF AloneInvariant, CowInvariant, StoresDurable
<1> QED BY <1>1, AloneSafe, PTL

\* new_block is called once for a block: insert_ht never enters a block of the
\* guest twice.
THEOREM BlocksHaveOneEntry == ASSUME Private PROVE Spec => []OneEntryPerBlock
<1>1. AloneInvariant => OneEntryPerBlock
  BY Zenon DEF AloneInvariant
<1> QED BY <1>1, AloneSafe, PTL
=============================================================================
