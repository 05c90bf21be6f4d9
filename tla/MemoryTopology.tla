--------------------------- MODULE MemoryTopology ---------------------------
(***************************************************************************)
(* memory.c: regions are changed inside transactions, the outermost commit *)
(* renders them again, tells the listener of every address space what went *)
(* and what came, and publishes the new flat views to threads that hold no *)
(* lock. The thread with the iothread lock does one step per call of a     *)
(* listener.                                                               *)
(***************************************************************************)
EXTENDS FlatRanges, FiniteSets

CONSTANTS
  StartRegions, \* the tables of regions the machine may come up with
  RootOf,       \* root of every address space
  StartSpaces,  \* the spaces that exist from the start, in order
  Movable,      \* regions callers add, remove, move, resize, ...
  Offsets, Sizes, Priorities,   \* what callers pass
  EventFds,     \* ioeventfds callers register: [start, size, e]
  EventRegion,  \* the region they register them with
  Readers,      \* threads that look at flat views
  MaxDepth,     \* bound: explicit transactions inside each other
  StartListeners, \* the space a listener listens to from the start, or "none"
  Budgets       \* bounds: how many calls of each kind a behaviour has

VARIABLES
  region,       \* the MemoryRegions
  spaces,       \* address_spaces, in order
  current,      \* as->current_map of the spaces that are not freed
  fds,          \* as->ioeventfds of those
  views,        \* ranges of every FlatView made
  ref,          \* view->ref
  flat_views,   \* the hash table: region -> view
  dying,        \* pending call_rcu: [kind, what, wait]
  gone,         \* views destroyed
  depth, update_pending, ioeventfd_pending,
  walk,         \* where the outermost commit is
  listener,     \* a MemoryListener: the space it listens to, what it was told
  dirtylog,     \* [on: global_dirty_log, deferred: vmstate_change, running, wanted]
  reader,
  left          \* of the budget

topoVars == <<region, spaces, current, fds, views, ref, flat_views, dying, gone, depth,
              update_pending, ioeventfd_pending, walk, listener, dirtylog, reader, left>>

EmptyView == 1
AtRest == [at |-> "rest", i |-> 0, adding |-> FALSE, iold |-> 0, inew |-> 0,
           old |-> 0, new |-> 0, full |-> FALSE, stop |-> FALSE]
Unregistered == [as |-> "none", told |-> {}, fds |-> <<>>, late |-> FALSE, global |-> FALSE]
Outside == [at |-> "outside", as |-> "none", view |-> 0]
Spend(kind) == left[kind] > 0 /\ left' = [left EXCEPT ![kind] = @ - 1]

Spaces == DOMAIN RootOf
physmr(R, as) == get_flatview_root(R, RootOf[as])

-----------------------------------------------------------------------------
(* The life of flat views *)

InView == {t \in Readers : reader[t].at = "loaded"}

\* call_rcu(view, flatview_destroy) for the views whose count becomes zero in r
Buried(r) == {[kind |-> "view", what |-> v, wait |-> InView] :
                v \in {w \in DOMAIN ref : ref[w] > 0 /\ r[w] = 0}}

\* flatview_unref of v, n times
Unref(v, n) ==
  LET r == [ref EXCEPT ![v] = @ - n]
  IN ref' = r /\ dying' = dying \union Buried(r)

\* A thread leaves its read-side critical section.
Released(t) == {[d EXCEPT !.wait = @ \ {t}] : d \in dying}

\* The view for the root of a space, rendered unless the table has it
WithView(R, global, s, as) ==
  LET mr == physmr(R, as)
  IN  IF mr \in DOMAIN s.table THEN s
      ELSE [views |-> Append(s.views, generate_memory_topology(R, global, mr)),
            ref |-> Append(s.ref, 1),
            table |-> (mr :> Len(s.views) + 1) @@ s.table]

flatviews_reset(R, global) ==
  LET old == {flat_views[m] : m \in DOMAIN flat_views} \ {EmptyView}
      kept == [v \in DOMAIN ref |-> IF v \in old THEN ref[v] - 1 ELSE ref[v]]
      Render(s, as) == WithView(R, global, s, as)
      new == FoldLeft(Render, [views |-> views, ref |-> kept, table |-> NoRegion :> EmptyView],
                      spaces)
  IN  /\ views' = new.views
      /\ ref' = new.ref
      /\ flat_views' = new.table
      /\ dying' = dying \union Buried(kept)

flatview_destroy(d) ==
  /\ d \in dying /\ d.kind = "view" /\ d.wait = {}
  /\ dying' = dying \ {d}
  /\ gone' = gone \union {d.what}
  /\ views' = [views EXCEPT ![d.what] = <<>>]
  /\ UNCHANGED <<region, spaces, current, fds, ref, flat_views, depth, update_pending,
                 ioeventfd_pending, walk, listener, dirtylog, reader, left>>

-----------------------------------------------------------------------------
(* Transactions *)

\* What memory_region_transaction_commit does when the last one ends.
Outermost(R, global, update, events, stop) ==
  \/ /\ update
     /\ flatviews_reset(R, global)
     /\ walk' = [AtRest EXCEPT !.at = "space", !.i = 1, !.full = TRUE, !.stop = stop]
     /\ update_pending' = TRUE
     /\ ioeventfd_pending' = events
  \/ /\ ~update /\ events
     /\ walk' = [AtRest EXCEPT !.at = "fds", !.i = 1]
     /\ ioeventfd_pending' = TRUE
     /\ UNCHANGED <<views, ref, flat_views, dying, update_pending>>
  \/ /\ ~update /\ ~events
     /\ UNCHANGED <<views, ref, flat_views, dying, update_pending, ioeventfd_pending, walk>>

\* A call that makes the regions R and commits, marking what has to be updated.
Change(kind, R, update, events) ==
  /\ walk.at = "rest" /\ Spend(kind)
  /\ region' = R
  /\ IF depth = 0
     THEN Outermost(R, dirtylog.on, update, events, FALSE)
     ELSE /\ update_pending' = (update_pending \/ update)
          /\ ioeventfd_pending' = (ioeventfd_pending \/ events)
          /\ UNCHANGED <<views, ref, flat_views, dying, walk>>
  /\ UNCHANGED <<spaces, current, fds, gone, depth, listener, dirtylog, reader>>

\* The ring of coalesced writes that this flushes has no part in the views.
transaction_begin ==
  /\ walk.at = "rest" /\ depth < MaxDepth
  /\ \E kind \in DOMAIN left \ {"reads"} : left[kind] > 0
  /\ depth' = depth + 1
  /\ UNCHANGED <<region, spaces, current, fds, views, ref, flat_views, dying, gone,
                 update_pending, ioeventfd_pending, walk, listener, dirtylog, reader, left>>

transaction_commit ==
  /\ walk.at = "rest" /\ depth > 0
  /\ depth' = depth - 1
  /\ IF depth = 1
     THEN Outermost(region, dirtylog.on, update_pending, ioeventfd_pending, FALSE)
     ELSE UNCHANGED <<views, ref, flat_views, dying, update_pending, ioeventfd_pending, walk>>
  /\ UNCHANGED <<region, spaces, current, fds, gone, listener, dirtylog, reader, left>>

-----------------------------------------------------------------------------
(* Calls that change regions *)

Unlinked(R, s) ==
  LET c == R[s].container
  IN [R EXCEPT ![s].container = NoRegion,
               ![c].subregions = SelectSeq(@, LAMBDA x : x # s)]

\* memory_region_update_container_subregions: before the first that is not above
Linked(R, s, c) ==
  LET subs == R[c].subregions
      n == Cardinality({i \in 1..Len(subs) : R[s].priority < R[subs[i]].priority})
  IN [R EXCEPT ![s].container = c, ![c].subregions = InsertAt(@, n + 1, s)]

Containers == {m \in DOMAIN region : region[m].alias = NoRegion /\ ~region[m].terminates}

add_subregion(c, s, off, prio) ==
  /\ region[s].container = NoRegion
  /\ Change("changes", Linked([region EXCEPT ![s].addr = off, ![s].priority = prio], s, c),
            region[c].enabled /\ region[s].enabled, FALSE)

\* The mistake of leaving the update to the next call.
del_subregion_quiet(s) ==
  region[s].container # NoRegion /\ Change("changes", Unlinked(region, s), FALSE, FALSE)

del_subregion(s) ==
  /\ region[s].container # NoRegion
  /\ Change("changes", Unlinked(region, s),
            region[region[s].container].enabled /\ region[s].enabled, FALSE)

set_enabled(s) ==
  Change("changes", [region EXCEPT ![s].enabled = ~@], TRUE, FALSE)

set_size(s, n) ==
  /\ n # region[s].size
  /\ Change("changes", [region EXCEPT ![s].size = n], TRUE, FALSE)

\* With memory_region_readd_subregion: the region moves before its equals.
set_address(s, a) ==
  LET moved == [region EXCEPT ![s].addr = a]
      c == region[s].container
  IN  /\ a # region[s].addr
      /\ IF c = NoRegion THEN Change("changes", moved, FALSE, FALSE)
         ELSE Change("changes", Linked(Unlinked(moved, s), s, c),
                     region[c].enabled /\ region[s].enabled, FALSE)

set_alias_offset(s, a) ==
  /\ region[s].alias # NoRegion /\ a # region[s].alias_offset
  /\ Change("changes", [region EXCEPT ![s].alias_offset = a], region[s].enabled, FALSE)

set_readonly(s) ==
  Change("changes", [region EXCEPT ![s].readonly = ~@], region[s].enabled, FALSE)

rom_device_set_romd(s) ==
  Change("changes", [region EXCEPT ![s].romd_mode = ~@], region[s].enabled, FALSE)

\* memory_region_set_log counts its callers; the first and the last change the mask.
set_log(s, on) ==
  LET n == region[s].vga_logging_count + (IF on THEN 1 ELSE -1)
      counted == [region EXCEPT ![s].vga_logging_count = n]
  IN  /\ n \in 0..2
      /\ IF (n = 0) = (region[s].vga_logging_count = 0) THEN Change("changes", counted, FALSE, FALSE)
         ELSE Change("changes", [counted EXCEPT ![s].log = IF on THEN {VGA} ELSE {}],
                     region[s].enabled, FALSE)

\* Fault: what is signalled does not count.
FdBefore_place(f, g) == f.start < g.start \/ (f.start = g.start /\ f.size < g.size)

FdBefore(f, g) ==
  \/ f.start < g.start
  \/ f.start = g.start /\ f.size < g.size
  \/ f.start = g.start /\ f.size = g.size /\ f.e < g.e

add_eventfd(f) ==
  LET list == region[EventRegion].ioeventfds
      n == Cardinality({i \in 1..Len(list) : ~\E j \in 1..i : FdBefore(f, list[j])})
  IN  /\ ~Contains(list, f)
      /\ Change("events", [region EXCEPT ![EventRegion].ioeventfds = InsertAt(@, n + 1, f)],
                FALSE, region[EventRegion].enabled)

del_eventfd(f) ==
  /\ Contains(region[EventRegion].ioeventfds, f)
  /\ Change("events", [region EXCEPT ![EventRegion].ioeventfds = Remove(@, f)],
            FALSE, region[EventRegion].enabled)

-----------------------------------------------------------------------------
(* The global dirty log *)

ToldGlobal(on) == IF listener.as = "none" THEN listener ELSE [listener EXCEPT !.global = on]

\* memory_global_dirty_log_do_stop; log_global_stop follows the commit
DoStop(log) ==
  /\ dirtylog' = [log EXCEPT !.on = FALSE]
  /\ IF depth = 0
     THEN Outermost(region, FALSE, TRUE, FALSE, TRUE) /\ UNCHANGED listener
     ELSE /\ update_pending' = TRUE
          /\ listener' = ToldGlobal(FALSE)
          /\ UNCHANGED <<views, ref, flat_views, dying, ioeventfd_pending, walk>>

LogStarted(deferred) ==
  /\ walk.at = "rest" /\ Spend("logs") /\ ~dirtylog.wanted
  /\ dirtylog' = [dirtylog EXCEPT !.deferred = deferred, !.on = TRUE, !.wanted = TRUE]
  /\ listener' = ToldGlobal(TRUE)
  /\ IF depth = 0
     THEN Outermost(region, TRUE, TRUE, FALSE, FALSE)
     ELSE /\ update_pending' = TRUE
          /\ UNCHANGED <<views, ref, flat_views, dying, ioeventfd_pending, walk>>
  /\ UNCHANGED <<region, spaces, current, fds, gone, depth, reader>>

\* The mistake of leaving a deferred stop in place.
global_dirty_log_start_deferred == LogStarted(dirtylog.deferred)

\* vmstate_change is taken back, then the log starts.
global_dirty_log_start == LogStarted(FALSE)

\* A stop while the machine is paused waits for it to run.
global_dirty_log_stop ==
  /\ walk.at = "rest" /\ Spend("logs") /\ dirtylog.wanted
  /\ IF dirtylog.running THEN DoStop([dirtylog EXCEPT !.wanted = FALSE])
     ELSE /\ dirtylog' = [dirtylog EXCEPT !.deferred = TRUE, !.wanted = FALSE]
          /\ UNCHANGED <<views, ref, flat_views, dying, update_pending, ioeventfd_pending,
                         walk, listener>>
  /\ UNCHANGED <<region, spaces, current, fds, gone, depth, reader>>

\* vm_start or vm_stop, with memory_vm_change_state_handler
vm_change_state ==
  LET log == [dirtylog EXCEPT !.running = ~@]
  IN  /\ walk.at = "rest" /\ Spend("logs")
      /\ IF log.running /\ log.deferred THEN DoStop([log EXCEPT !.deferred = FALSE])
         ELSE /\ dirtylog' = log
              /\ UNCHANGED <<views, ref, flat_views, dying, update_pending,
                             ioeventfd_pending, walk, listener>>
      /\ UNCHANGED <<region, spaces, current, fds, gone, depth, reader>>
-----------------------------------------------------------------------------
(* The update of every address space by the outermost commit *)

Cur == spaces[walk.i]
ranges(v) == IF v = 0 THEN <<>> ELSE views[v]

\* flatrange_equal: all but what is logged
SameRange(r, s) == [r EXCEPT !.log = {}] = [s EXCEPT !.log = {}]

\* address_space_set_flatview up to its passes, the first of which is not adding
set_flatview ==
  LET new == flat_views[physmr(region, Cur)]
      old == current[Cur]
      held == [ref EXCEPT ![old] = @ + 1]
  IN  /\ walk.at = "space" /\ walk.i <= Len(spaces)
      /\ IF old = new THEN walk' = [walk EXCEPT !.at = "fds"] /\ UNCHANGED ref
         ELSE /\ ref' = [held EXCEPT ![new] = @ + 1]
              /\ walk' = [walk EXCEPT !.at = IF listener.as = Cur THEN "pass" ELSE "publish",
                                      !.adding = FALSE, !.iold = 1, !.inew = 1,
                                      !.old = old, !.new = new]
      /\ UNCHANGED <<region, spaces, current, fds, views, flat_views, dying, gone, depth,
                     update_pending, ioeventfd_pending, listener, dirtylog, reader, left>>

\* One round of the loop of address_space_update_topology_pass
update_topology_pass ==
  LET olds == ranges(walk.old)
      news == ranges(walk.new)
      isOld == walk.iold <= Len(olds)
      isNew == walk.inew <= Len(news)
      frold == olds[walk.iold]
      frnew == news[walk.inew]
      goes == isOld /\ (isNew => \/ frold.start < frnew.start
                                 \/ frold.start = frnew.start /\ ~SameRange(frold, frnew))
      stays == ~goes /\ isOld /\ isNew /\ SameRange(frold, frnew)
      Told(S) == listener' = [listener EXCEPT !.told = S]
  IN  /\ walk.at = "pass"
      /\ \/ /\ goes
            /\ IF walk.adding THEN UNCHANGED listener
               ELSE Told({x \in listener.told : ~SameRange(x, frold)})
            /\ walk' = [walk EXCEPT !.iold = @ + 1]
         \/ /\ stays
            /\ IF ~walk.adding THEN UNCHANGED listener
               ELSE Told({IF SameRange(x, frnew) THEN [x EXCEPT !.log = frnew.log] ELSE x : x \in listener.told})
            /\ walk' = [walk EXCEPT !.iold = @ + 1, !.inew = @ + 1]
         \/ /\ ~goes /\ ~stays /\ isNew
            /\ IF walk.adding THEN Told(listener.told \union {frnew}) ELSE UNCHANGED listener
            /\ walk' = [walk EXCEPT !.inew = @ + 1]
         \/ /\ ~isOld /\ ~isNew
            /\ walk' = IF walk.adding THEN [walk EXCEPT !.at = "publish"]
                       ELSE [walk EXCEPT !.adding = TRUE, !.iold = 1, !.inew = 1]
            /\ UNCHANGED listener
      /\ UNCHANGED <<region, spaces, current, fds, views, ref, flat_views, dying, gone, depth,
                     update_pending, ioeventfd_pending, dirtylog, reader, left>>

\* The rest of address_space_set_flatview: current_map is set, and both
\* references of the old view are given up.
publish_flatview ==
  /\ walk.at = "publish"
  /\ current' = [current EXCEPT ![Cur] = walk.new]
  /\ Unref(walk.old, 2)
  /\ walk' = [walk EXCEPT !.at = "fds", !.adding = FALSE, !.iold = 0, !.inew = 0,
                          !.old = 0, !.new = 0]
  /\ UNCHANGED <<region, spaces, fds, views, flat_views, gone, depth, update_pending,
                 ioeventfd_pending, listener, dirtylog, reader, left>>

\* The ioeventfds of a view, at the addresses where it shows them
Collected(R, view) ==
  LET Of(fr) == LET At(f) == [f EXCEPT !.start = @ + (fr.start - fr.off)]
                    shown == [i \in DOMAIN R[fr.mr].ioeventfds |-> At(R[fr.mr].ioeventfds[i])]
                IN SelectSeq(shown, LAMBDA f : Meet(fr, f))
  IN FlattenSeq([i \in DOMAIN view |-> Of(view[i])])

\* How often a listener was told of each ioeventfd, f being told once more or less
Counted(b, f, n) ==
  LET c == [g \in DOMAIN b \union {f} |->
              (IF g \in DOMAIN b THEN b[g] ELSE 0) + (IF g = f THEN n ELSE 0)]
  IN [g \in {h \in DOMAIN c : c[h] # 0} |-> c[g]]

\* address_space_add_del_ioeventfds: what a listener holding b has afterwards
RECURSIVE AddDel(_, _, _)
AddDel(b, olds, news) ==
  IF olds = <<>> /\ news = <<>> THEN b
  ELSE IF olds # <<>> /\ (news = <<>> \/ FdBefore(Head(olds), Head(news)))
  THEN AddDel(Counted(b, Head(olds), -1), Tail(olds), news)
  ELSE IF news # <<>> /\ (olds = <<>> \/ FdBefore(Head(news), Head(olds)))
  THEN AddDel(Counted(b, Head(news), 1), olds, Tail(news))
  ELSE AddDel(b, Tail(olds), Tail(news))

update_ioeventfds ==
  LET new == Collected(region, views[current[Cur]])
  IN  /\ walk.at = "fds" /\ walk.i <= Len(spaces)
      /\ fds' = [fds EXCEPT ![Cur] = new]
      /\ listener' = IF listener.as # Cur THEN listener
                     ELSE [listener EXCEPT !.fds = AddDel(@, fds[Cur], new)]
      /\ walk' = [walk EXCEPT !.i = @ + 1, !.at = IF walk.full THEN "space" ELSE "fds"]
      /\ UNCHANGED <<region, spaces, current, views, ref, flat_views, dying, gone, depth,
                     update_pending, ioeventfd_pending, dirtylog, reader, left>>

\* The end of the commit, with log_global_stop when it was part of a stop
commit_done ==
  /\ walk.at \in {"space", "fds"} /\ walk.i > Len(spaces)
  /\ update_pending' = FALSE /\ ioeventfd_pending' = FALSE
  /\ listener' = IF walk.stop THEN ToldGlobal(FALSE) ELSE listener
  /\ walk' = AtRest
  /\ UNCHANGED <<region, spaces, current, fds, views, ref, flat_views, dying, gone, depth,
                 dirtylog, reader, left>>

-----------------------------------------------------------------------------
(* Listeners and address spaces come and go *)

\* What a listener is told of the ranges of a space it is to listen to, or that
\* it is to leave
listener_add_address_space(as) == listener.told \union ToSet(views[current[as]])
listener_del_address_space(as) ==
  {x \in listener.told : ~\E fr \in ToSet(views[current[as]]) : SameRange(x, fr)}

\* There is one listener, so that the lists it is put into are empty.
listener_register(as) ==
  /\ walk.at = "rest" /\ Spend("others")
  /\ listener.as = "none" /\ Contains(spaces, as)
  /\ listener' = [as |-> as, told |-> listener_add_address_space(as),
                  fds |-> <<>>, late |-> fds[as] # <<>>, global |-> dirtylog.on]
  /\ UNCHANGED <<region, spaces, current, fds, views, ref, flat_views, dying, gone, depth,
                 update_pending, ioeventfd_pending, walk, dirtylog, reader>>

listener_unregister ==
  /\ walk.at = "rest" /\ Spend("others")
  /\ listener.as # "none"
  /\ listener' = [Unregistered EXCEPT !.told = listener_del_address_space(listener.as)]
  /\ UNCHANGED <<region, spaces, current, fds, views, ref, flat_views, dying, gone, depth,
                 update_pending, ioeventfd_pending, walk, dirtylog, reader>>

\* With address_space_update_topology: the table may have the view already
address_space_init(as) ==
  LET s == WithView(region, dirtylog.on, [views |-> views, ref |-> ref, table |-> flat_views], as)
      new == s.table[physmr(region, as)]
  IN  /\ walk.at = "rest" /\ Spend("others")
      /\ as \notin DOMAIN current
      /\ spaces' = Append(spaces, as)
      /\ views' = s.views /\ flat_views' = s.table
      /\ ref' = [s.ref EXCEPT ![new] = @ + 1]
      /\ current' = (as :> new) @@ current
      /\ fds' = (as :> Collected(region, s.views[new])) @@ fds
      /\ UNCHANGED <<region, dying, gone, depth, update_pending, ioeventfd_pending, walk,
                     listener, dirtylog, reader>>

\* Setting as->root to NULL marks nothing, so the commit in it updates nothing.
address_space_destroy(as) ==
  /\ walk.at = "rest" /\ Spend("others")
  /\ Contains(spaces, as) /\ listener.as # as
  /\ spaces' = Remove(spaces, as)
  /\ dying' = dying \union {[kind |-> "space", what |-> as, wait |-> InView]}
  /\ UNCHANGED <<region, current, fds, views, ref, flat_views, gone, depth, update_pending,
                 ioeventfd_pending, walk, listener, dirtylog, reader>>

do_address_space_destroy(d) ==
  LET v == current[d.what]
      r == [ref EXCEPT ![v] = @ - 1]
      Left(f) == [as \in DOMAIN f \ {d.what} |-> f[as]]
  IN  /\ d \in dying /\ d.kind = "space" /\ d.wait = {}
      /\ ref' = r
      /\ dying' = (dying \ {d}) \union Buried(r)
      /\ current' = Left(current) /\ fds' = Left(fds)
      /\ UNCHANGED <<region, spaces, views, flat_views, gone, depth, update_pending,
                     ioeventfd_pending, walk, listener, dirtylog, reader, left>>

-----------------------------------------------------------------------------
(* Threads without the iothread lock *)

readerUnchanged == UNCHANGED <<region, spaces, current, fds, views, flat_views, gone, depth,
                               update_pending, ioeventfd_pending, walk, listener, dirtylog>>

\* rcu_read_lock and address_space_to_flatview
to_flatview(t, as) ==
  /\ reader[t].at = "outside" /\ Spend("reads") /\ Contains(spaces, as)
  /\ reader' = [reader EXCEPT ![t] = [at |-> "loaded", as |-> as, view |-> current[as]]]
  /\ UNCHANGED <<ref, dying>> /\ readerUnchanged

\* rcu_read_unlock after the view was used in place
read_unlock(t) ==
  /\ reader[t].at = "loaded"
  /\ reader' = [reader EXCEPT ![t] = Outside]
  /\ dying' = Released(t)
  /\ UNCHANGED <<ref, left>> /\ readerUnchanged

\* The mistake of a reference that does not look whether any is left.
get_flatview_blind(t) ==
  /\ reader[t].at = "loaded"
  /\ ref' = [ref EXCEPT ![reader[t].view] = @ + 1]
  /\ reader' = [reader EXCEPT ![t].at = "held"]
  /\ dying' = Released(t)
  /\ UNCHANGED left /\ readerUnchanged

\* The loop of address_space_get_flatview
get_flatview(t) ==
  LET v == reader[t].view
  IN  /\ reader[t].at = "loaded"
      /\ IF ref[v] > 0
         THEN /\ ref' = [ref EXCEPT ![v] = @ + 1]
              /\ reader' = [reader EXCEPT ![t].at = "held"]
              /\ dying' = Released(t)
         ELSE /\ reader' = [reader EXCEPT ![t].view = current[reader[t].as]]
              /\ UNCHANGED <<ref, dying>>
      /\ UNCHANGED left /\ readerUnchanged

put_flatview(t) ==
  /\ reader[t].at = "held"
  /\ Unref(reader[t].view, 1)
  /\ reader' = [reader EXCEPT ![t] = Outside]
  /\ UNCHANGED left /\ readerUnchanged

-----------------------------------------------------------------------------
TopoInit ==
  /\ region \in StartRegions
  /\ spaces = StartSpaces
  /\ LET Render(s, as) == WithView(region, FALSE, s, as)
         s == FoldLeft(Render, [views |-> << <<>> >>, ref |-> <<2>>,
                                table |-> NoRegion :> EmptyView], StartSpaces)
         Of(as) == s.table[physmr(region, as)]
     IN  /\ views = s.views /\ flat_views = s.table
         /\ current = [as \in ToSet(StartSpaces) |-> Of(as)]
         /\ fds = [as \in ToSet(StartSpaces) |-> Collected(region, s.views[Of(as)])]
         /\ ref = [v \in DOMAIN s.ref |->
                     s.ref[v] + Cardinality({as \in ToSet(StartSpaces) : Of(as) = v})]
  /\ dying = {} /\ gone = {}
  /\ depth = 0 /\ update_pending = FALSE /\ ioeventfd_pending = FALSE
  /\ walk = AtRest
  /\ \E as \in StartListeners :
       listener = IF as = "none" THEN Unregistered
                  ELSE [Unregistered EXCEPT !.as = as, !.told = ToSet(views[current[as]])]
  /\ dirtylog = [on |-> FALSE, deferred |-> FALSE, running |-> TRUE, wanted |-> FALSE]
  /\ reader = [t \in Readers |-> Outside]
  /\ left \in Budgets

Update == set_flatview \/ update_topology_pass \/ publish_flatview \/ update_ioeventfds
          \/ commit_done

TopoNext ==
  \/ transaction_begin \/ transaction_commit
  \/ \E s \in Movable :
       \/ \E c \in Containers, a \in Offsets, p \in Priorities : add_subregion(c, s, a, p)
       \/ del_subregion(s) \/ set_enabled(s) \/ set_readonly(s) \/ rom_device_set_romd(s)
       \/ \E n \in Sizes : set_size(s, n)
       \/ \E a \in Offsets : set_address(s, a) \/ set_alias_offset(s, a)
       \/ \E on \in BOOLEAN : set_log(s, on)
  \/ \E f \in EventFds : add_eventfd(f) \/ del_eventfd(f)
  \/ global_dirty_log_start \/ global_dirty_log_stop \/ vm_change_state
  \/ Update
  \/ \E as \in Spaces : listener_register(as) \/ address_space_init(as) \/ address_space_destroy(as)
  \/ listener_unregister
  \/ \E d \in dying : flatview_destroy(d) \/ do_address_space_destroy(d)
  \/ \E t \in Readers : \/ \E as \in Spaces : to_flatview(t, as)
                        \/ read_unlock(t) \/ get_flatview(t) \/ put_flatview(t)

TopoSpec == TopoInit /\ [][TopoNext]_topoVars

-----------------------------------------------------------------------------
Settled == walk.at = "rest" /\ depth = 0

\* Whenever no transaction is open, every address of every space leads where
\* the tree of regions says it does, with the attributes the tree gives it:
\* no change is missed by the conditions on memory_region_update_pending, and
\* filling the gaps, merging and sharing of views change nothing. Where
\* memory_region_get_flatview_root skips regions that say more than it passes
\* on, the view is that of the region it ends at.
ViewsCurrent ==
  Settled =>
    \A i \in 1..Len(spaces) :
      LET as == spaces[i]
          top == physmr(region, as)
          from == IF top = NoRegion \/ top = RootOf[as] \/ SkipsExactly(region, RootOf[as], top)
                  THEN RootOf[as] ELSE top
      IN \A a \in 0..(AddrEnd - 1) :
           Holds(views[current[as]], a) = Resolve(region, dirtylog.on, from, 0, a, FALSE)

\* What the listener has been told adds up to the view of its space whenever
\* no transaction is open, logging included; and to nothing once it is
\* unregistered (address_space_update_topology_pass, listener_add_address_space).
ListenerInSync ==
  Settled =>
    /\ listener.told = IF listener.as = "none" THEN {} ELSE ToSet(views[current[listener.as]])
    /\ listener.as # "none" => listener.global = dirtylog.on

\* At no moment of an update has the listener been told of two ranges that
\* overlap: all that goes, goes before anything comes.
NeverTwice == \A r, s \in listener.told : Meet(r, s) => r = s

\* A listener registered before any ioeventfd has been told of each one as
\* often as its space shows it, no more and no less: the merge of old and new
\* lists takes no two for the same that differ in anything.
EventfdsInSync ==
  (Settled /\ listener.as # "none" /\ ~listener.late) =>
    LET list == Collected(region, views[current[listener.as]])
    IN listener.fds = [f \in ToSet(list) |-> Cardinality({i \in DOMAIN list : list[i] = f})]

Holders(v) ==
  {<<"as", as>> : as \in {x \in DOMAIN current : current[x] = v}}
  \union {<<"table", m>> : m \in {x \in DOMAIN flat_views : flat_views[x] = v}}
  \union {<<"reader", t>> : t \in {x \in Readers : reader[x].at = "held" /\ reader[x].view = v}}
  \union {<<"old">> : x \in {x \in {1} : walk.old = v}}
  \union {<<"new">> : x \in {x \in {1} : walk.new = v}}
  \union {<<"static">> : x \in {x \in {1} : v = EmptyView}}

\* The count of a view is the number of its holders, and a view without one is
\* destroyed or about to be: no view leaks, none goes while somebody holds it.
RefsExact ==
  \A v \in DOMAIN ref :
    /\ ref[v] = Cardinality(Holders(v))
    /\ (ref[v] = 0) = (v \in gone \/ \E d \in dying : d.kind = "view" /\ d.what = v)

\* No thread looks at a view that was destroyed, whether it holds a reference
\* or is only in a read-side critical section, and no space shows one.
NoDeadView ==
  /\ \A t \in Readers : reader[t].at # "outside" => reader[t].view \notin gone
  /\ \A as \in DOMAIN current : current[as] \notin gone

\* Dirty pages are logged from memory_global_dirty_log_start to the matching
\* stop, however the machine is paused and resumed in between, and a stop takes
\* effect once the machine runs.
LoggingKept ==
  /\ dirtylog.wanted => dirtylog.on
  /\ (dirtylog.running /\ ~dirtylog.wanted) => ~dirtylog.on
=============================================================================
