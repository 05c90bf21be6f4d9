----------------------------- MODULE MemAccess ------------------------------
(***************************************************************************)
(* An access to an address space: the dispatch of its view is built and    *)
(* compacted, then threads read and write through it.  flatview_read and   *)
(* flatview_write split an access into pieces, one region and one size at  *)
(* a time; memory_region_dispatch_* splits those again for the device and  *)
(* orders their bytes.  A value is the sequence of its bytes, the lowest   *)
(* first; the target is little endian.  Writes that the kernel coalesces   *)
(* wait in a ring until an access to a region that asks for it.            *)
(***************************************************************************)
EXTENDS PhysMap

CONSTANTS
  Layouts,      \* views: sequences of [start, size, mr, off]
  RegionKind,   \* of every region, what is declared of it
  Cpus,         \* threads that make accesses
  AccessesOf,   \* the accesses a thread may make: sets of [a, n, write]
  AccessLayouts, \* the views they are made through
  Coalescing,   \* <<t, cell>>: the guest's writes that the kernel puts in the ring
  kvm_eventfds_enabled

VARIABLES
  flat,         \* the ranges of the view
  dispatch,     \* its dispatch
  built,        \* ranges that are in it; Len(flat) + 1 once it is compacted
  mru_section,  \* the section looked up last
  store,        \* the bytes of every region
  coalesced,    \* the writes in the ring: [by, x]
  bql,          \* who holds the iothread lock
  cpu           \* what the threads do

accessVars == <<flat, dispatch, built, mru_section, store, coalesced, bql, cpu>>

NoCpu == "nobody"
Zero == <<"zero", 0>>
NoAccess == [at |-> "out", a |-> 0, n |-> 0, pos |-> 0, write |-> FALSE, mr |-> "unassigned",
         xlat |-> 0, l |-> 0, release |-> FALSE, had |-> FALSE, got |-> <<>>, rang |-> FALSE, done |-> FALSE]
Ready == built = Len(flat) + 1

is_ram(mr) == RegionKind[mr].ram
Rams == {mr \in DOMAIN RegionKind : is_ram(mr)}

\* memory_access_is_direct; there are no RAM devices and no ROM devices here
access_is_direct(mr, write) == is_ram(mr) /\ ~(write /\ RegionKind[mr].readonly)

\* A cell of store, Zero where a region has none
Cell(mr, off) == IF <<mr, off>> \in DOMAIN store THEN store[<<mr, off>>] ELSE Zero

-----------------------------------------------------------------------------
(* generate_memory_topology puts the ranges of a view into its dispatch *)

AddRange ==
  /\ built < Len(flat)
  /\ LET fr == flat[built + 1]
     IN dispatch' = flatview_add_to_dispatch(dispatch, Section(fr.mr, fr.start, fr.size, fr.off, FALSE))
  /\ built' = built + 1
  /\ UNCHANGED <<flat, mru_section, store, coalesced, bql, cpu>>

Compact ==
  /\ built = Len(flat)
  /\ dispatch' = address_space_dispatch_compact(dispatch)
  /\ built' = built + 1
  /\ UNCHANGED <<flat, mru_section, store, coalesced, bql, cpu>>

\* A lookup that is no access, through the other views: it leaves its section
\* in mru_section.
LookupRegion(a) ==
  /\ Ready /\ flat \notin AccessLayouts
  /\ mru_section' = lookup_region(dispatch, mru_section, a)
  /\ UNCHANGED <<flat, dispatch, built, store, coalesced, bql, cpu>>

-----------------------------------------------------------------------------
(* The device's side of a piece *)

\* The mistake of not looking at the alignment of the address.
memory_access_size_unaligned(mr, l, addr) ==
  LET most == IF RegionKind[mr].max = 0 THEN 4 ELSE RegionKind[mr].max
  IN Max({p \in {1, 2, 4, 8} : p <= Min({l, most})})

\* memory_access_size: bounded by what is declared and by alignment, a power of two
memory_access_size(mr, l, addr) ==
  LET most == IF RegionKind[mr].max = 0 THEN 4 ELSE RegionKind[mr].max
      align == Max({p \in {1, 2, 4, 8} : addr % p = 0})
      bound == IF RegionKind[mr].unaligned \/ addr = 0 THEN most ELSE Min({most, align})
  IN Max({p \in {1, 2, 4, 8} : p <= Min({l, bound})})

access_valid(mr, addr, size) ==
  /\ RegionKind[mr].valid_unaligned \/ addr % size = 0
  /\ RegionKind[mr].accepts

adjust_endianness(mr, value) == IF RegionKind[mr].big THEN Reverse(value) ELSE value

\* The pieces access_with_adjusted_size makes of an access: their width, which
\* is more than the access where the device implements nothing as narrow, and
\* the shift in bytes that goes with an offset.  For a big endian device and an
\* access narrower than that the shift is below zero, as an unsigned number
\* beyond 64 bits: undefined, and taken modulo 64 bits by the host.
AdjustedSize(mr, size) ==
  LET min == IF RegionKind[mr].implMin = 0 THEN 1 ELSE RegionKind[mr].implMin
      max == IF RegionKind[mr].implMax = 0 THEN 4 ELSE RegionKind[mr].implMax
  IN Max({Min({size, max}), min})

shift(mr, size, i) == IF RegionKind[mr].big THEN (size - AdjustedSize(mr, size) - i) % 8 ELSE i

\* How a device lays out a value it is given: in its own order
Bytes(mr, value) == IF RegionKind[mr].big THEN Reverse(value) ELSE value

(* What the accessors of all three kinds pass to a device, and get from it: *)
(* asize bytes, of the value those from shift on, and beyond it zeros.      *)
memory_region_write_accessor(mr, value, asize, sh) ==
  Bytes(mr, [k \in 1..asize |-> IF sh + k <= Len(value) THEN value[sh + k] ELSE Zero])

memory_region_read_accessor(mr, addr, asize) == Bytes(mr, [k \in 1..asize |-> Cell(mr, addr + k - 1)])

\* memory_region_dispatch_write_eventfds: an ioeventfd of just this address and
\* size, and of this value if it asks for one
dispatch_write_eventfds(mr, addr, data) ==
  \E f \in RegionKind[mr].eventfds :
    f.addr = addr /\ f.size = Len(data) /\ (f.match_data => f.data = data)

\* memory_region_dispatch_write signals an ioeventfd and leaves the device alone
Rings(mr, addr, value) ==
  /\ access_valid(mr, addr, Len(value))
  /\ ~kvm_eventfds_enabled
  /\ dispatch_write_eventfds(mr, addr, adjust_endianness(mr, value))

\* What a device holds after memory_region_dispatch_write of value at addr
Written(mr, addr, value) ==
  LET size == Len(value)
      asize == AdjustedSize(mr, size)
      data == adjust_endianness(mr, value)
      Part(i) == memory_region_write_accessor(mr, data, asize, shift(mr, size, i))
  IN  IF ~access_valid(mr, addr, size) \/ Rings(mr, addr, value) THEN store
      ELSE [c \in DOMAIN store |->
              IF c[1] = mr /\ c[2] \in addr..(addr + Max({size, asize}) - 1)
              THEN LET i == ((c[2] - addr) \div asize) * asize IN Part(i)[c[2] - addr - i + 1]
              ELSE store[c]]

\* What memory_region_dispatch_read of size bytes at addr gives
ReadValue(mr, addr, size) ==
  LET asize == AdjustedSize(mr, size)
      Part(i) == memory_region_read_accessor(mr, addr + i, asize)
      From(b) == {i \in 0..(size - 1) : i % asize = 0 /\ b - shift(mr, size, i) \in 1..asize}
      value == [b \in 1..size |-> IF From(b) = {} THEN Zero
                                 ELSE LET i == Max(From(b)) IN Part(i)[b - shift(mr, size, i)]]
  IN  IF ~access_valid(mr, addr, size) THEN [b \in 1..size |-> Zero]
      ELSE adjust_endianness(mr, value)

-----------------------------------------------------------------------------
(* flatview_read and flatview_write *)

\* flatview_translate for what is left of an access
Translated(c, m) ==
  LET t == translate_internal(dispatch, m, c.a, c.n, Rams)
  IN [c EXCEPT !.at = "piece", !.mr = t.mr, !.xlat = t.xlat, !.l = t.plen]

Sent(t) == [i \in 1..cpu[t].l |-> <<t, cpu[t].pos + i>>]

BeginAccess(t, acc) ==
  LET c == [NoAccess EXCEPT !.a = acc.a, !.n = acc.n, !.write = acc.write, !.had = (bql = t)]
  IN  /\ Ready /\ flat \in AccessLayouts
      /\ cpu[t].at = "out" /\ ~cpu[t].done
      /\ cpu' = [cpu EXCEPT ![t] = Translated(c, mru_section)]
      /\ mru_section' = lookup_region(dispatch, mru_section, acc.a)
      /\ UNCHANGED <<flat, dispatch, built, store, coalesced, bql>>

RamPiece(t) ==
  LET c == cpu[t] IN
  /\ c.at = "piece" /\ access_is_direct(c.mr, c.write)
  /\ cpu' = [cpu EXCEPT ![t].at = "advance",
               ![t].got = IF c.write THEN <<>> ELSE [i \in 1..c.l |-> Cell(c.mr, c.xlat + i - 1)]]
  /\ store' = IF ~c.write THEN store
              ELSE [x \in DOMAIN store |->
                      IF x[1] = c.mr /\ x[2] \in c.xlat..(c.xlat + c.l - 1)
                      THEN Sent(t)[x[2] - c.xlat + 1] ELSE store[x]]
  /\ UNCHANGED <<flat, dispatch, built, mru_section, coalesced, bql>>

\* What the writes in the ring make of the devices
Flushed == FoldLeft(LAMBDA bytes, w : [bytes EXCEPT ![w.x] = <<w.by, 0>>], store, coalesced)

\* prepare_mmio_access and memory_access_size: who takes the iothread lock, to
\* keep it or only to flush the ring, and whether it is to be given back
Prepared(t, take, release, flush) ==
  LET c == cpu[t]
  IN  /\ c.at = "piece" /\ ~access_is_direct(c.mr, c.write)
      /\ take \/ flush => bql \in {NoCpu, t}
      /\ bql' = IF take THEN t ELSE bql
      /\ store' = IF flush THEN Flushed ELSE store
      /\ coalesced' = IF flush THEN <<>> ELSE coalesced
      /\ cpu' = [cpu EXCEPT ![t].at = "dispatch", ![t].release = release,
                            ![t].l = memory_access_size(c.mr, c.l, c.xlat)]
      /\ UNCHANGED <<flat, dispatch, built, mru_section>>

TakesLock(t) == bql # t /\ RegionKind[cpu[t].mr].global_locking

\* The mistake of flushing only with a lock that is held anyway.
Flushes_held(t) == RegionKind[cpu[t].mr].flush_coalesced_mmio /\ (bql = t \/ TakesLock(t))

Flushes(t) == RegionKind[cpu[t].mr].flush_coalesced_mmio

\* The mistake of taking the lock and not remembering it.
PrepareMmio_forget(t) == Prepared(t, TakesLock(t), FALSE, Flushes(t))

PrepareMmio(t) == Prepared(t, TakesLock(t), TakesLock(t), Flushes(t))

DevicePiece(t) ==
  LET c == cpu[t] IN
  /\ c.at = "dispatch"
  /\ cpu' = [cpu EXCEPT ![t].at = "advance",
               ![t].rang = c.write /\ Rings(c.mr, c.xlat, Sent(t)),
               ![t].got = IF c.write THEN <<>> ELSE ReadValue(c.mr, c.xlat, c.l)]
  /\ store' = IF c.write THEN Written(c.mr, c.xlat, Sent(t)) ELSE store
  /\ UNCHANGED <<flat, dispatch, built, mru_section, coalesced, bql>>

\* The end of a round of the loop: the lock goes back, the next piece is translated
Advance(t) ==
  LET c == cpu[t]
      rest == [c EXCEPT !.a = @ + c.l, !.n = @ - c.l, !.pos = @ + c.l,
                        !.release = FALSE, !.got = <<>>, !.rang = FALSE]
  IN  /\ c.at = "advance"
      /\ bql' = IF c.release THEN NoCpu ELSE bql
      /\ IF rest.n = 0
         THEN cpu' = [cpu EXCEPT ![t] = [NoAccess EXCEPT !.done = TRUE, !.had = c.had]] /\ UNCHANGED mru_section
         ELSE /\ cpu' = [cpu EXCEPT ![t] = Translated(rest, mru_section)]
              /\ mru_section' = lookup_region(dispatch, mru_section, rest.a)
      /\ UNCHANGED <<flat, dispatch, built, store, coalesced>>

\* The guest writes where the kernel coalesces: the write waits in the ring.
Coalesce(t, x) ==
  /\ Ready /\ flat \in AccessLayouts
  /\ cpu[t].at = "out" /\ ~cpu[t].done
  /\ \E i \in DOMAIN flat : flat[i].mr = x[1]
  /\ \A i \in DOMAIN coalesced : coalesced[i].by # t
  /\ coalesced' = Append(coalesced, [by |-> t, x |-> x])
  /\ UNCHANGED <<flat, dispatch, built, mru_section, store, bql, cpu>>

\* A thread takes or drops the iothread lock around what it does.
LockIothread(t) ==
  /\ Ready /\ flat \in AccessLayouts
  /\ cpu[t].at = "out" /\ ~cpu[t].done /\ bql = NoCpu
  /\ bql' = t
  /\ UNCHANGED <<flat, dispatch, built, mru_section, store, coalesced, cpu>>

UnlockIothread(t) ==
  /\ cpu[t].at = "out" /\ cpu[t].done /\ bql = t
  /\ bql' = NoCpu
  /\ cpu' = [cpu EXCEPT ![t].had = FALSE]
  /\ UNCHANGED <<flat, dispatch, built, mru_section, store, coalesced>>

-----------------------------------------------------------------------------
AccessInit ==
  /\ flat \in Layouts
  /\ dispatch = address_space_dispatch_new
  /\ built = 0
  /\ mru_section = 0
  /\ store = [c \in UNION {{<<m, i>> : i \in 0..(RegionKind[m].size - 1)} : m \in DOMAIN RegionKind}
                |-> Zero]
  /\ coalesced = <<>>
  /\ bql = NoCpu
  /\ cpu = [t \in Cpus |-> NoAccess]

AccessNext ==
  \/ AddRange \/ Compact
  \/ \E a \in 0..(AddressSpan - 1) : LookupRegion(a)
  \/ \E t \in Cpus :
       \/ \E acc \in AccessesOf[t] : BeginAccess(t, acc)
       \/ RamPiece(t) \/ PrepareMmio(t) \/ DevicePiece(t) \/ Advance(t)
       \/ LockIothread(t) \/ UnlockIothread(t)
  \/ \E w \in Coalescing : Coalesce(w[1], w[2])

AccessSpec == AccessInit /\ [][AccessNext]_accessVars

-----------------------------------------------------------------------------
\* What the view has at an address: [mr, off], unassigned where it has nothing
Shown(a) ==
  LET at == {i \in 1..Len(flat) : flat[i].start <= a /\ a < flat[i].start + flat[i].size}
  IN  IF at = {} THEN [mr |-> "unassigned", off |-> a]
      ELSE LET fr == flat[Min(at)] IN [mr |-> fr.mr, off |-> fr.off + (a - fr.start)]

\* Whatever was looked up before, a lookup ends in the section that the view
\* has at that address: building the radix tree, splitting at pages, compacting
\* and the cached mru_section change nothing. What translate grants of a RAM
\* section stays inside it.
LookupExact ==
  Ready =>
    \A a \in 0..(AddressSpan - 1) :
      LET t == translate_internal(dispatch, mru_section, a, AddressSpan - a, Rams)
      IN  /\ t.mr = Shown(a).mr /\ t.xlat = Shown(a).off
          /\ is_ram(t.mr) =>
               \A i \in 0..(t.plen - 1) : Shown(a + i) = [mr |-> t.mr, off |-> t.xlat + i]

\* Every step that moves bytes moves at least one, and exactly those that the
\* view has at the addresses of the piece, in the guest's order whatever the
\* order and the widths of the device.  A write that signals an ioeventfd of
\* just its addresses reaches no device.  A device that implements nothing as
\* narrow as the piece may change up to that width, and for a big endian one
\* the bytes are undefined.  Nothing else in the machine changes.
PieceStep ==
  \A t \in Cpus :
    (cpu[t].at \in {"piece", "dispatch"} /\ cpu'[t].at = "advance") =>
      LET c == cpu'[t]
          cell(i) == Shown(c.a + i)
          kind == RegionKind[cell(0).mr]
          into == {<<cell(i).mr, cell(i).off>> : i \in {j \in 0..(c.l - 1) : ~RegionKind[cell(j).mr].readonly}}
          beside == {<<cell(0).mr, cell(0).off + i>> : i \in c.l..(kind.implMin - 1)}
          defined == ~kind.big \/ beside = {}
      IN  /\ c.l \in 1..c.n
          /\ c.rang => c.write /\ \E f \in kind.eventfds : f.addr = cell(0).off /\ f.size = c.l
          /\ c.write /\ ~c.rang /\ defined =>
               \A i \in 0..(c.l - 1) :
                 LET x == <<cell(i).mr, cell(i).off>> IN
                 (x \in into /\ x \in DOMAIN store) => store'[x] = <<t, c.pos + i + 1>>
          /\ \A x \in DOMAIN store :
               store'[x] # store[x] => c.write /\ ~c.rang /\ x \in into \union beside
          /\ ~c.write /\ defined =>
               \A i \in 0..(c.l - 1) : c.got[i + 1] = Cell(cell(i).mr, cell(i).off)

\* exec/memory.h, memory_region_set_flush_coalesced: "Ensure that pending
\* coalesced MMIO request are flushed before the memory region is accessed".
\* A thread that calls such a device has no write of its own in the ring.
FlushedFirst ==
  \A t \in Cpus :
    (cpu[t].at = "dispatch" /\ RegionKind[cpu[t].mr].flush_coalesced_mmio) =>
      \A i \in DOMAIN coalesced : coalesced[i].by # t

\* A device that wants the iothread lock is only ever called by its holder.
DeviceLocked ==
  \A t \in Cpus : (cpu[t].at = "dispatch" /\ RegionKind[cpu[t].mr].global_locking) => bql = t

\* After an access a thread holds the iothread lock exactly if it did before.
LockReturned ==
  \A t \in Cpus : (cpu[t].at = "out" /\ cpu[t].done) => ((bql = t) = cpu[t].had)
=============================================================================
