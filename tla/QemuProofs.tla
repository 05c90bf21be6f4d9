---------------------------- MODULE QemuProofs ------------------------------
(***************************************************************************)
(* Theorems about primitives of the threads of QEMU and about its NUMA     *)
(* nodes, each for any number of threads, devices, regions, signals,       *)
(* pages, nodes and CPUs.                                                  *)
(*                                                                         *)
(* QemuEvent loses no wakeup. With one consumer nothing but its own reset  *)
(* takes the event away from EV_SET, so once it has looked for work and    *)
(* found none, work that comes later finds the event set, or a setter that *)
(* has yet to pass the event (Pending): the induction hypothesis of        *)
(* WorkNoticed.                                                            *)
(*                                                                         *)
(* qemu_fork: the child keeps the mask of all signals it was forked with   *)
(* while it has a handler (ForkInv).                                       *)
(*                                                                         *)
(* os_mem_prealloc: the portions of the threads cover the pages, each      *)
(* thread has touched its portion up to where it is or has failed          *)
(* (TouchInv), and the caller waits for every thread it has created        *)
(* (CallerInv).                                                            *)
(*                                                                         *)
(* The bounce buffer has one owner and forgets no client; every region has *)
(* as many references as mappings.                                         *)
(*                                                                         *)
(* QemuSemaphore loses no post and strands none, in both builds.           *)
(*                                                                         *)
(* Tables of distances between NUMA nodes are complete.                    *)
(***************************************************************************)
EXTENDS QemuEvent, QemuSemaphore, MemPrealloc, QemuFork, Bounce, Numa, TLAPS, FiniteSetTheorems

-----------------------------------------------------------------------------
(* QemuEvent.                                                              *)

\* Where a consumer is once it has found no work.
Waiting == {"wait", "cas", "futex", "asleep"}

\* What is in the store buffer of a setter leaves it at the barrier of
\* qemu_event_set.
Draining == \A s \in buffered : epc[s] = "barrier"

\* Work that the consumer has not seen: the event is set, or its setter has yet
\* to set it.
Pending ==
  \A c \in Consumers : active = {c} /\ epc[c] \in Waiting /\ work =>
    value = EV_SET \/ \E s \in Setters : epc[s] \in {"barrier", "load", "xchg"}

\* A consumer that is not active takes no step.
Alone == \A c \in Consumers : c \notin active => epc[c] = "off"

\* The inductive invariant of QemuEvent.
EventInv == EventTypeOK /\ NoLostWakeup /\ Draining /\ Alone /\ Pending

\* Every step of setters and consumers keeps it.
LEMMA EventInvStep ==
  EventInv /\ [EventNext]_eventVars => EventInv'
(* The steps of the threads keep the types.                                *)
<1>EventTypeStep.
  EventTypeOK /\ [EventNext]_eventVars => EventTypeOK'
  <2> SUFFICES ASSUME EventTypeOK, [EventNext]_eventVars PROVE EventTypeOK'
    BY Zenon
  <2> USE DEF EventTypeOK, SetPlaces, ConsumePlaces, Goto, EV_SET, EV_FREE, EV_BUSY
  <2>1. ASSUME NEW s \in Setters, Post(s) PROVE EventTypeOK'
    BY <2>1, EventAssumption DEF Post
  <2>2. ASSUME NEW s \in Setters, Drain(s) PROVE EventTypeOK'
    BY <2>2, Zenon DEF Drain
  <2>3. ASSUME NEW s \in Setters, Set(s) PROVE EventTypeOK'
    <3>1. CASE SetBarrier(s) BY <3>1, EventAssumption, Zenon DEF SetBarrier
    <3>2. CASE SetLoad(s) BY <3>2, EventAssumption, Zenon DEF SetLoad
    <3>3. CASE SetXchg(s) BY <3>3, EventAssumption, Zenon DEF SetXchg
    <3>4. CASE SetWake(s) BY <3>4, EventAssumption, Zenon DEF SetWake
    <3> QED
      BY <2>3, <3>1, <3>2, <3>3, <3>4, Zenon DEF Set
  <2>4. ASSUME NEW c \in Consumers, Consume(c) PROVE EventTypeOK'
    <3>1. CASE ResetLoad(c) BY <3>1, EventAssumption, Zenon DEF ResetLoad
    <3>2. CASE ResetOr(c) BY <3>2, EventAssumption, Zenon DEF ResetOr
    <3>3. CASE Check(c) BY <3>3, EventAssumption, Zenon DEF Check
    <3>4. CASE WaitLoad(c) BY <3>4, EventAssumption, Zenon DEF WaitLoad
    <3>5. CASE WaitCas(c) BY <3>5, EventAssumption, Zenon DEF WaitCas
    <3>6. CASE FutexWait(c) BY <3>6, EventAssumption, Zenon DEF FutexWait
    <3> QED
      BY <2>4, <3>1, <3>2, <3>3, <3>4, <3>5, <3>6 DEF Consume, Wait
  <2>5. ASSUME NEW c \in Consumers, Interrupt(c) PROVE EventTypeOK'
    BY <2>5, EventAssumption, Zenon DEF Interrupt
  <2>6. CASE UNCHANGED eventVars
    BY <2>6, Zenon DEF eventVars
  <2> QED
    BY <2>1, <2>2, <2>3, <2>4, <2>5, <2>6, Zenon DEF EventNext
<1> SUFFICES ASSUME EventInv, [EventNext]_eventVars PROVE EventInv'
  BY Zenon
<1>0. EventTypeOK'
  BY <1>EventTypeStep, Zenon DEF EventInv
<1> USE DEF Goto, EV_SET, EV_FREE, EV_BUSY, EventInv, EventTypeOK, SetPlaces, ConsumePlaces, NoLostWakeup, Draining, Alone,
        Pending, Waiting
<1>1. ASSUME NEW s \in Setters, Post(s) PROVE EventInv'
  BY <1>0, <1>1, EventAssumption, Zenon DEF Post
<1>2. ASSUME NEW s \in Setters, Drain(s) PROVE EventInv'
  BY <1>0, <1>2, EventAssumption, Zenon DEF Drain
<1>3. ASSUME NEW s \in Setters, Set(s) PROVE EventInv'
  <2>1. CASE SetBarrier(s) BY <1>0, <2>1, EventAssumption DEF SetBarrier
  <2>2. CASE SetLoad(s) BY <1>0, <2>2, EventAssumption, Zenon DEF SetLoad
  <2>3. CASE SetXchg(s) BY <1>0, <2>3, EventAssumption, Zenon DEF SetXchg
  <2>4. CASE SetWake(s) BY <1>0, <2>4, EventAssumption DEF SetWake
  <2> QED
    BY <1>3, <2>1, <2>2, <2>3, <2>4, Zenon DEF Set
<1>4. ASSUME NEW c \in Consumers, Consume(c) PROVE EventInv'
  <2>1. CASE ResetLoad(c) BY <1>0, <2>1, EventAssumption, Zenon DEF ResetLoad
  <2>2. CASE ResetOr(c) BY <1>0, <2>2, EventAssumption DEF ResetOr
  <2>3. CASE Check(c) BY <1>0, <2>3, EventAssumption, Zenon DEF Check
  <2>4. CASE WaitLoad(c) BY <1>0, <2>4, EventAssumption, Zenon DEF WaitLoad
  <2>5. CASE WaitCas(c) BY <1>0, <2>5, EventAssumption DEF WaitCas
  <2>6. CASE FutexWait(c) BY <1>0, <2>6, EventAssumption DEF FutexWait
  <2> QED
    BY <1>4, <2>1, <2>2, <2>3, <2>4, <2>5, <2>6, Zenon DEF Consume, Wait
<1>5. ASSUME NEW c \in Consumers, Interrupt(c) PROVE EventInv'
  BY <1>0, <1>5, EventAssumption, Zenon DEF Interrupt
<1>6. CASE UNCHANGED eventVars
  BY <1>6, Zenon DEF eventVars
<1> QED
  BY <1>1, <1>2, <1>3, <1>4, <1>5, <1>6, Zenon DEF EventNext

\* Hence it always holds.
LEMMA EventInvariant ==
  EventSpec => []EventInv
<1>EventInvInit.
  ASSUME NEW initial \in BOOLEAN, NEW consumers \in SUBSET Consumers, EventInit(initial, consumers)
  PROVE  EventInv
  <2> USE <1>EventInvInit
  <2>1. \A s \in Setters : epc[s] = "idle"
    BY Zenon DEF EventInit
  <2>2. \A c \in Consumers : epc[c] \in {"reset", "off"} /\ (c \notin active => epc[c] = "off")
    BY EventAssumption, Zenon DEF EventInit
  <2>3. EventTypeOK
    <3>1. epc \in [Setters \cup Consumers -> SetPlaces \cup ConsumePlaces]
      BY Zenon DEF EventInit, SetPlaces, ConsumePlaces
    <3>2. value \in {EV_SET, EV_FREE, EV_BUSY}
      BY Zenon DEF EventInit
    <3>3. work \in BOOLEAN /\ buffered \subseteq Setters /\ active \subseteq Consumers
      BY Zenon DEF EventInit
    <3>4. posts \in 0..MaxPosts
      BY EventAssumption DEF EventInit
    <3> QED
      BY <2>1, <2>2, <3>1, <3>2, <3>3, <3>4, Zenon DEF EventTypeOK, SetPlaces, ConsumePlaces
  <2>4. NoLostWakeup /\ Draining /\ Alone /\ Pending
    BY <2>2, Zenon DEF EventInit, NoLostWakeup, Draining, Alone, Pending, Waiting
  <2> QED
    BY <2>3, <2>4, Zenon DEF EventInv
<1>1. (\E initial \in BOOLEAN, consumers \in SUBSET Consumers : EventInit(initial, consumers)) => EventInv
  BY <1>EventInvInit, Zenon
<1> QED
  BY <1>1, EventInvStep, PTL DEF EventSpec

(* Whoever sleeps in qemu_event_wait is woken by the next qemu_event_set or*)
(* by one already on its way, for any threads that reset and wait.         *)
THEOREM WakeupCorrect == EventSpec => []NoLostWakeup
BY EventInvariant, PTL DEF EventInv

(* With a single consumer no work is left behind while it sleeps, thanks to*)
(* the barrier that qemu_event_set starts with.                            *)
THEOREM WorkNoticedCorrect == EventSpec => []WorkNoticed
<1>1. EventInv => WorkNoticed
  BY EventAssumption DEF EventInv, EventTypeOK, SetPlaces, NoLostWakeup, Pending, WorkNoticed, Waiting,
     EV_SET, EV_BUSY
<1> QED
  BY <1>1, EventInvariant, PTL

(* The transition busy->free cannot happen, as the comment above           *)
(* qemu_event_init claims.                                                 *)
THEOREM BusyStays == EventSpec => NoBusyToFree
<1>1. EventInv /\ [EventNext]_eventVars => [value = EV_BUSY => value' # EV_FREE]_eventVars
  <2> SUFFICES ASSUME EventInv, EventNext, value = EV_BUSY PROVE value' # EV_FREE
    BY Zenon
  <2> QED
    BY DEF EventNext, Post, Drain, Set, SetBarrier, SetLoad, SetXchg, SetWake, Consume, ResetLoad,
       ResetOr, Check, Wait, WaitLoad, WaitCas, FutexWait, Interrupt, EV_SET, EV_FREE, EV_BUSY
<1> QED
  BY <1>1, EventInvariant, PTL DEF EventSpec, NoBusyToFree

-----------------------------------------------------------------------------
(* qemu_fork.                                                              *)

\* The types of the signal state of parent and child.
ForkTypes ==
  /\ forkPc \in [Processes -> {"none", "block", "fork", "restore", "clear", "return"}]
  /\ mask \in [Processes -> SUBSET Signals] /\ pending \in [Processes -> SUBSET Signals]
  /\ action \in [Processes -> [Signals -> {"handler", "default"}]]
  /\ oldmask \in SUBSET Signals

\* The child exists from fork() on and inherits a mask of all signals.  It keeps
\* this mask while it has handlers, so that none of them can run.
ForkInv ==
  /\ ForkTypes
  /\ forkPc["parent"] \in {"block", "fork"} => forkPc["child"] = "none"
  /\ forkPc["parent"] = "fork" => mask["parent"] = Signals
  /\ forkPc["child"] = "none" => pending["child"] = {}
  /\ forkPc["child"] \in {"none", "clear", "return"}
  /\ forkPc["child"] = "clear" => mask["child"] = Signals
  /\ forkPc["child"] = "return" => \A s \in Signals : action["child"][s] = "default"
  /\ ChildRunsNoHandler

\* The parent starts with any mask and any handlers.
LEMMA ForkInvInit == ASSUME NEW blocked \in SUBSET Signals, NEW handled, ForkInit(blocked, handled) PROVE ForkInv
BY Zenon DEF ForkInit, ForkInv, ForkTypes, Processes, ChildRunsNoHandler

\* Every step of qemu_fork, and every signal that arrives, keeps the invariant.
LEMMA ForkInvNext == ASSUME ForkInv, [ForkNext]_forkVars PROVE ForkInv'
<1> USE DEF ForkInv, ForkTypes, Processes, ChildRunsNoHandler, Step
<1>1. CASE BlockSignals
  BY <1>1, Zenon DEF BlockSignals
<1>2. CASE Fork
  BY <1>2, Zenon DEF Fork
<1>3. CASE ForkFails
  BY <1>3, Zenon DEF ForkFails
<1>4. CASE RestoreMask
  BY <1>4, Zenon DEF RestoreMask
<1>5. CASE UnblockSignals
  BY <1>5, Zenon DEF UnblockSignals
<1>6. ASSUME NEW s \in Signals, ClearHandler(s) PROVE ForkInv'
  BY <1>6, Zenon DEF ClearHandler
<1>7. ASSUME NEW s \in Signals, NEW p \in Processes, Arrive(p, s) PROVE ForkInv'
  BY <1>7, Zenon DEF Arrive
<1>8. ASSUME NEW s \in Signals, NEW p \in Processes, Deliver(p, s) PROVE ForkInv'
  BY <1>8, Zenon DEF Deliver
<1>9. CASE UNCHANGED forkVars
  BY <1>9, Zenon DEF forkVars
<1> QED BY <1>1, <1>2, <1>3, <1>4, <1>5, <1>6, <1>7, <1>8, <1>9, Zenon DEF ForkNext

\* No handler of the parent ever runs in the child of qemu_fork: all signals
\* are blocked before fork() and the child unblocks them only after it has
\* reset its handlers.
THEOREM ForkIsSafe == ForkSpec => []ChildRunsNoHandler
<1>1. (\E blocked, handled \in SUBSET Signals : ForkInit(blocked, handled)) => ForkInv
  BY ForkInvInit, Zenon
<1>2. ForkInv /\ [ForkNext]_forkVars => ForkInv'
  BY ForkInvNext, Zenon
<1>3. ForkInv => ChildRunsNoHandler
  BY Zenon DEF ForkInv
<1> QED BY <1>1, <1>2, <1>3, PTL DEF ForkSpec

-----------------------------------------------------------------------------
(* os_mem_prealloc.                                                        *)

\* Where the caller of touch_all_pages and its threads can be.
MPlaces == {"install", "create", "known", "join", "restore", "return"}
TPlaces == {"none", "start", "touch", "done"}

\* The types of the variables.
PreallocTypes ==
  /\ numpages \in Nat /\ threads \in 1..MAX_MEM_PREALLOC_THREAD_COUNT
  /\ lacking \in SUBSET (0..(numpages - 1)) /\ touched \in SUBSET (0..(numpages - 1))
  /\ mpc \in MPlaces /\ nth \in 0..(threads - 1)
  /\ tpc \in [Ids -> TPlaces] /\ next \in [Ids -> Nat]
  /\ failed \in BOOLEAN

\* The threads that exist, and what of them the handler can find.
Created(i) == \/ mpc = "create" /\ i < nth
              \/ mpc = "known" /\ i <= nth
              \/ mpc \in {"join", "restore", "return"} /\ i < threads
CallerInv ==
  /\ \A i \in Ids : tpc[i] # "none" <=> Created(i)
  /\ mpc = "install" => nth = 0
  /\ mpc \in {"create", "known", "join"} => handler = "sigbus_handler"
  /\ mpc \in {"create", "known"} => table = 0..(nth - 1)
  /\ mpc = "join" => table = 0..(threads - 1)
  /\ mpc = "join" => \A i \in Ids : i < nth => tpc[i] = "done"
  /\ mpc \in {"restore", "return"} => \A i \in Ids : i < threads => tpc[i] = "done"

\* A thread has touched the pages from its first on.  When it is done it has
\* touched all its pages, or has reported that there is no memory.
Touches(i) ==
  tpc[i] # "none" =>
    /\ next[i] \in First(i)..Upto(i) /\ First(i)..(next[i] - 1) \subseteq touched
    /\ tpc[i] = "done" => next[i] = Upto(i) \/ failed
TouchInv ==
  /\ touched \cap lacking = {}
  /\ failed => lacking # {}
  /\ \A i \in Ids : Touches(i)

\* The inductive invariant of os_mem_prealloc.
PreallocInv == PreallocTypes /\ CallerInv /\ TouchInv

-----------------------------------------------------------------------------
(* How the pages are divided.                                              *)
LEMMA Share ==
  ASSUME NEW n \in Nat, NEW k \in Nat \ {0}, NEW d, d = n \div k
  PROVE  d \in Nat /\ k * d <= n
OBVIOUS

\* There is at least one thread, and threads have numbers.
LEMMA PreallocSizes == ASSUME PreallocTypes PROVE threads \in Nat \ {0} /\ numpages \in Nat /\ 0..(threads - 1) \subseteq Ids
BY PreallocAssumption DEF PreallocTypes, Ids

\* The portion of a thread is an interval of pages.
LEMMA Portion ==
  \A i \in 0..(threads - 1) :
    PreallocTypes
  => First(i) \in Nat /\ Upto(i) \in Nat /\ First(i) <= Upto(i) /\ Upto(i) <= numpages
<1>Products.
  ASSUME NEW i \in Nat, NEW j \in Nat, NEW d \in Nat, i <= j
  PROVE  i * d <= j * d /\ i * d \in Nat /\ j * d \in Nat
  BY <1>Products
<1> SUFFICES ASSUME PreallocTypes, NEW i \in 0..(threads - 1)
             PROVE  First(i) \in Nat /\ Upto(i) \in Nat /\ First(i) <= Upto(i) /\ Upto(i) <= numpages
  BY Zenon
<1>1. PICK d \in Nat : d = numpages \div threads /\ threads * d <= numpages
  BY PreallocSizes, Share, Zenon
<1>2. threads \in Nat \ {0} /\ numpages \in Nat /\ i \in Nat /\ i + 1 \in Nat /\ i <= i + 1 /\ i + 1 <= threads
  BY PreallocSizes
<1>3. /\ i * d <= (i + 1) * d /\ i * d \in Nat /\ (i + 1) * d \in Nat
      /\ (i + 1) * d <= threads * d /\ threads * d \in Nat
  BY <1>2, <1>Products, Zenon
<1>4. First(i) = i * d /\ Upto(i) = IF i = threads - 1 THEN numpages ELSE (i + 1) * d
  BY <1>1, Zenon DEF First, Upto
<1> QED BY <1>1, <1>2, <1>3, <1>4

-----------------------------------------------------------------------------
\* The invariant holds before the threads are created.
LEMMA PreallocInvInit ==
  ASSUME NEW n \in Nat, NEW cpus \in 1..MaxCpus, NEW bad \in SUBSET (0..(n - 1)), PreallocInit(n, cpus, bad)
  PROVE  PreallocInv
<1>1. get_memset_num_threads(cpus) \in 1..MAX_MEM_PREALLOC_THREAD_COUNT
  BY PreallocAssumption DEF get_memset_num_threads, Min2
<1>2. PreallocTypes
  <2>1. numpages \in Nat /\ threads \in 1..MAX_MEM_PREALLOC_THREAD_COUNT /\ lacking \in SUBSET (0..(numpages - 1))
    BY <1>1, Zenon DEF PreallocInit
  <2>2. touched \in SUBSET (0..(numpages - 1)) /\ mpc \in MPlaces /\ failed \in BOOLEAN
    BY Zenon DEF PreallocInit, MPlaces
  <2>3. nth \in 0..(threads - 1)
    BY <2>1, PreallocAssumption DEF PreallocInit
  <2>4. tpc \in [Ids -> TPlaces] /\ next \in [Ids -> Nat]
    BY Zenon DEF PreallocInit, TPlaces
  <2> QED BY <2>1, <2>2, <2>3, <2>4, Zenon DEF PreallocTypes
<1>3. CallerInv
  BY Zenon DEF PreallocInit, CallerInv, Created
<1>4. TouchInv
  BY Zenon DEF PreallocInit, TouchInv, Touches
<1> QED BY <1>2, <1>3, <1>4, Zenon DEF PreallocInv

\* Every step of the caller, of the threads and of the SIGBUS handler keeps it.
LEMMA PreallocInvNext ==
    PreallocInv /\ [PreallocNext]_preallocVars
  => PreallocInv'
\* A step that leaves the pages and the threads alone.
<1>TouchSame.
  ASSUME TouchInv, UNCHANGED <<numpages, threads, lacking, tpc, next, touched, failed>>
  PROVE  TouchInv'
  BY <1>TouchSame, Zenon DEF TouchInv, Touches, First, Upto
<1>CallerNext.
    PreallocInv /\ CallerRuns
  => PreallocInv'
  <2>NextNth.
    ASSUME NEW i \in Nat, NEW k \in Nat \ {0}, i < k
    PROVE  (i + 1) % k \in 0..(k - 1) /\ (IF i + 1 < k THEN (i + 1) % k = i + 1 ELSE (i + 1) % k = 0 /\ i = k - 1)
    <3> USE <2>NextNth
    <3>1. CASE i + 1 < k
      BY <3>1
    <3>2. CASE ~(i + 1 < k)
      <4>1. i + 1 = k /\ k % k = 0
        BY <3>2
      <4> QED BY <3>2, <4>1
    <3> QED BY <3>1, <3>2, Zenon
  <2> SUFFICES ASSUME PreallocInv, CallerRuns
               PROVE  PreallocInv'
    BY Zenon
  <2>1. /\ PreallocTypes /\ CallerInv /\ TouchInv /\ threads \in Nat \ {0} /\ numpages \in Nat /\ 0..(threads - 1) \subseteq Ids
        /\ nth \in Nat /\ nth \in Ids /\ nth < threads /\ nth \in 0..(threads - 1)
    <3>1. PreallocTypes /\ CallerInv /\ TouchInv
      BY Zenon DEF PreallocInv
    <3>2. threads \in Nat \ {0} /\ numpages \in Nat /\ 0..(threads - 1) \subseteq Ids
      BY <3>1, PreallocSizes, Zenon
    <3>3. nth \in 0..(threads - 1)
      BY <3>1, Zenon DEF PreallocTypes
    <3> QED BY <3>1, <3>2, <3>3
  <2>2. CASE InstallHandler
    <3>1. TouchInv'
      BY <2>1, <2>2, <1>TouchSame, Zenon DEF InstallHandler
    <3>2. PreallocTypes'
      BY <2>1, <2>2, Zenon DEF InstallHandler, PreallocTypes, MPlaces
    <3>3. CallerInv'
      BY <2>1, <2>2 DEF InstallHandler, CallerInv, Created, Ids
    <3> QED BY <3>1, <3>2, <3>3, Zenon DEF PreallocInv
  <2>3. CASE CreateThread
    <3>1. /\ mpc = "create" /\ mpc' = "known" /\ tpc' = [tpc EXCEPT ![nth] = "start"] /\ next' = [next EXCEPT ![nth] = First(nth)]
          /\ UNCHANGED <<numpages, threads, lacking, nth, handler, table, touched, failed>>
      BY <2>3, Zenon DEF CreateThread
    <3>2. First(nth) \in Nat /\ Upto(nth) \in Nat /\ First(nth) <= Upto(nth)
      BY <2>1, Portion, Zenon
    <3>3. /\ tpc' \in [Ids -> TPlaces] /\ next' \in [Ids -> Nat] /\ tpc'[nth] = "start" /\ next'[nth] = First(nth)
          /\ \A j \in Ids \ {nth} : tpc'[j] = tpc[j] /\ next'[j] = next[j]
      BY <2>1, <3>1, <3>2, Zenon DEF PreallocTypes, TPlaces
    <3>4. PreallocTypes'
      BY <2>1, <3>1, <3>3, Zenon DEF PreallocTypes, MPlaces
    <3>5. CallerInv'
      BY <2>1, <3>1, <3>3 DEF CallerInv, Created, Ids
    <3>6. \A j : First(j)' = First(j) /\ Upto(j)' = Upto(j)
      BY <3>1, Zenon DEF First, Upto
    <3>7. ASSUME NEW j \in Ids PROVE Touches(j)'
      <4>1. CASE j = nth
        <5>1. First(nth)..(First(nth) - 1) = {} /\ First(nth) \in First(nth)..Upto(nth)
          BY <3>2
        <5> QED BY <3>1, <3>3, <3>6, <4>1, <5>1, Zenon DEF Touches
      <4>2. CASE j # nth
        BY <2>1, <3>1, <3>3, <3>6, <4>2, Zenon DEF Touches, TouchInv
      <4> QED BY <4>1, <4>2, Zenon
    <3>8. TouchInv'
      BY <2>1, <3>1, <3>7, Zenon DEF TouchInv
    <3> QED BY <3>4, <3>5, <3>8, Zenon DEF PreallocInv
  <2>4. CASE ThreadKnown
    <3>1. /\ mpc = "known" /\ table' = table \cup {nth} /\ nth' = (nth + 1) % threads
          /\ mpc' = IF nth + 1 < threads THEN "create" ELSE "join"
          /\ UNCHANGED <<numpages, threads, lacking, handler, tpc, next, touched, failed>>
      BY <2>4, Zenon DEF ThreadKnown
    <3>2. nth' \in 0..(threads - 1) /\ IF nth + 1 < threads THEN nth' = nth + 1 ELSE nth' = 0 /\ nth = threads - 1
      BY <2>1, <3>1, <2>NextNth, Zenon
    <3>3. TouchInv'
      BY <2>1, <3>1, <1>TouchSame, Zenon
    <3>4. PreallocTypes'
      BY <2>1, <3>1, <3>2, Zenon DEF PreallocTypes, MPlaces
    <3>5. table' = 0..nth
      BY <2>1, <3>1 DEF CallerInv
    <3>6. CallerInv'
      <4>1. CASE nth + 1 < threads
        BY <2>1, <3>1, <3>2, <3>5, <4>1 DEF CallerInv, Created, Ids
      <4>2. CASE ~(nth + 1 < threads)
        BY <2>1, <3>1, <3>2, <3>5, <4>2 DEF CallerInv, Created, Ids
      <4> QED BY <4>1, <4>2, Zenon
    <3> QED BY <3>3, <3>4, <3>6, Zenon DEF PreallocInv
  <2>5. CASE Join
    <3>1. /\ mpc = "join" /\ tpc[nth] = "done" /\ nth' = (nth + 1) % threads
          /\ IF nth + 1 < threads THEN UNCHANGED <<mpc, table>> ELSE mpc' = "restore" /\ table' = NoTable
          /\ UNCHANGED <<numpages, threads, lacking, handler, tpc, next, touched, failed>>
      BY <2>5, Zenon DEF Join
    <3>2. nth' \in 0..(threads - 1) /\ IF nth + 1 < threads THEN nth' = nth + 1 ELSE nth' = 0 /\ nth = threads - 1
      BY <2>1, <3>1, <2>NextNth, Zenon
    <3>3. TouchInv'
      BY <2>1, <3>1, <1>TouchSame, Zenon
    <3>4. PreallocTypes'
      BY <2>1, <3>1, <3>2, Zenon DEF PreallocTypes, MPlaces
    <3>5. CallerInv'
      <4>1. CASE nth + 1 < threads
        BY <2>1, <3>1, <3>2, <4>1 DEF CallerInv, Created, Ids
      <4>2. CASE ~(nth + 1 < threads)
        BY <2>1, <3>1, <3>2, <4>2 DEF CallerInv, Created, Ids
      <4> QED BY <4>1, <4>2, Zenon
    <3> QED BY <3>3, <3>4, <3>5, Zenon DEF PreallocInv
  <2>6. CASE RestoreHandler
    <3>1. TouchInv'
      BY <2>1, <2>6, <1>TouchSame, Zenon DEF RestoreHandler
    <3>2. PreallocTypes'
      BY <2>1, <2>6, Zenon DEF RestoreHandler, PreallocTypes, MPlaces
    <3>3. CallerInv'
      BY <2>1, <2>6, Zenon DEF RestoreHandler, CallerInv, Created
    <3> QED BY <3>1, <3>2, <3>3, Zenon DEF PreallocInv
  <2> QED BY <2>2, <2>3, <2>4, <2>5, <2>6, Zenon DEF CallerRuns
<1>TouchNext.
  \A i \in Ids :
    PreallocInv /\ ThreadRuns(i)
  => PreallocInv'
  \* A step of thread i at pages that others do not touch.
  <2>ThreadStep.
    ASSUME PreallocTypes, CallerInv, TouchInv, NEW i \in Ids, tpc[i] \in {"start", "touch"},
           NEW w \in {"touch", "done"}, tpc' = [tpc EXCEPT ![i] = w],
           UNCHANGED <<numpages, threads, lacking, mpc, nth, handler, table>>, NEW n \in Nat,
           next' = [next EXCEPT ![i] = n], touched \subseteq touched', touched' \in SUBSET (0..(numpages - 1)),
           touched' \cap lacking = {}, failed' \in BOOLEAN, failed => failed', failed' => lacking # {},
           n \in First(i)..Upto(i), First(i)..(n - 1) \subseteq touched', w = "done" => n = Upto(i) \/ failed'
    PROVE  PreallocInv'
    <3> USE <2>ThreadStep
    <3>1. /\ tpc' \in [Ids -> TPlaces] /\ next' \in [Ids -> Nat] /\ tpc'[i] = w /\ next'[i] = n
          /\ \A j \in Ids \ {i} : tpc'[j] = tpc[j] /\ next'[j] = next[j]
      BY Zenon DEF PreallocTypes, TPlaces
    <3>2. PreallocTypes'
      BY <3>1, Zenon DEF PreallocTypes
    <3>3. CallerInv'
      BY <3>1, Zenon DEF CallerInv, Created
    <3>4. \A j : First(j)' = First(j) /\ Upto(j)' = Upto(j)
      BY Zenon DEF First, Upto
    <3>5. ASSUME NEW j \in Ids PROVE Touches(j)'
      <4>1. CASE j = i
        BY <3>1, <3>4, <4>1, Zenon DEF Touches
      <4>2. CASE j # i
        BY <3>1, <3>4, <4>2, Zenon DEF Touches, TouchInv
      <4> QED BY <4>1, <4>2, Zenon
    <3>6. TouchInv'
      BY <3>5, Zenon DEF TouchInv
    <3> QED BY <3>2, <3>3, <3>6, Zenon DEF PreallocInv
  <2> SUFFICES ASSUME PreallocInv, NEW i \in Ids, ThreadRuns(i)
               PROVE  PreallocInv'
    BY Zenon
  <2>1. /\ PreallocTypes /\ CallerInv /\ TouchInv /\ threads \in Nat \ {0} /\ numpages \in Nat /\ failed \in BOOLEAN
        /\ next[i] \in Nat /\ next \in [Ids -> Nat] /\ touched \in SUBSET (0..(numpages - 1)) /\ tpc \in [Ids -> TPlaces]
    BY PreallocSizes, Zenon DEF PreallocInv, PreallocTypes
  <2>2. tpc[i] \in {"start", "touch"}
    BY Zenon DEF ThreadRuns, UnblockSigbus, TouchPage, Sigbus
  <2>3. i \in 0..(threads - 1)
    <3>1. Created(i) /\ i \in Nat /\ nth \in 0..(threads - 1)
      BY <2>1, <2>2, PreallocAssumption DEF CallerInv, Ids, PreallocTypes
    <3> QED BY <2>1, <3>1 DEF Created
  <2>4. First(i) \in Nat /\ Upto(i) \in Nat /\ First(i) <= Upto(i) /\ Upto(i) <= numpages
    BY <2>1, <2>3, Portion, Zenon
  <2>5. /\ next[i] \in First(i)..Upto(i) /\ First(i)..(next[i] - 1) \subseteq touched
        /\ touched \cap lacking = {} /\ (failed => lacking # {})
    BY <2>1, <2>2, Zenon DEF TouchInv, Touches
  <2>6. next = [next EXCEPT ![i] = next[i]] /\ tpc = [tpc EXCEPT ![i] = tpc[i]]
    BY <2>1, Zenon
  <2>7. CASE UnblockSigbus(i)
    <3>1. tpc' = [tpc EXCEPT ![i] = "touch"] /\ UNCHANGED <<numpages, threads, lacking, mpc, nth, handler, table, next, touched, failed>>
      BY <2>7, Zenon DEF UnblockSigbus
    <3> QED BY <2>1, <2>2, <2>5, <2>6, <3>1, <2>ThreadStep, Zenon
  <2>8. CASE TouchPage(i) /\ next[i] < Upto(i)
    <3>1. /\ tpc[i] = "touch" /\ next[i] \notin lacking /\ touched' = touched \cup {next[i]} /\ next' = [next EXCEPT ![i] = next[i] + 1]
          /\ UNCHANGED <<numpages, threads, lacking, mpc, nth, handler, table, tpc, failed>>
      BY <2>8, Zenon DEF TouchPage
    <3>2. PICK n \in Nat : n = next[i] + 1
      BY <2>1
    <3>3. n \in First(i)..Upto(i)
      BY <2>1, <2>4, <2>5, <2>8, <3>2
    <3>4. First(i)..(n - 1) \subseteq touched'
      BY <2>1, <2>4, <2>5, <3>1, <3>2
    <3>5. touched' \in SUBSET (0..(numpages - 1)) /\ touched' \cap lacking = {}
      <4>1. next[i] \in 0..(numpages - 1)
        BY <2>1, <2>4, <2>8
      <4>2. touched \in SUBSET (0..(numpages - 1)) /\ touched' = touched \cup {next[i]} /\ next[i] \notin lacking /\ touched \cap lacking = {}
        BY <2>1, <2>5, <3>1, Zenon
      <4> QED BY <4>1, <4>2, Zenon
    <3>6. tpc' = [tpc EXCEPT ![i] = "touch"] /\ next' = [next EXCEPT ![i] = n] /\ touched \subseteq touched'
      BY <2>6, <3>1, <3>2, Zenon
    <3> QED BY <2>1, <2>2, <2>5, <3>1, <3>3, <3>4, <3>5, <3>6, <2>ThreadStep, Zenon
  <2>9. CASE TouchPage(i) /\ ~(next[i] < Upto(i))
    <3>1. tpc' = [tpc EXCEPT ![i] = "done"] /\ UNCHANGED <<numpages, threads, lacking, mpc, nth, handler, table, next, touched, failed>>
      BY <2>9, Zenon DEF TouchPage
    <3>2. next[i] = Upto(i)
      BY <2>1, <2>4, <2>5, <2>9
    <3> QED BY <2>1, <2>2, <2>5, <2>6, <3>1, <3>2, <2>ThreadStep, Zenon
  <2>10. CASE Sigbus(i)
    <3>1. /\ tpc' = [tpc EXCEPT ![i] = "done"] /\ failed' = TRUE /\ lacking # {}
          /\ UNCHANGED <<numpages, threads, lacking, mpc, nth, handler, table, next, touched>>
      BY <2>10, Zenon DEF Sigbus
    <3> QED BY <2>1, <2>2, <2>5, <2>6, <3>1, <2>ThreadStep, Zenon
  <2> QED BY <2>7, <2>8, <2>9, <2>10, Zenon DEF ThreadRuns
<1> SUFFICES ASSUME PreallocInv, [PreallocNext]_preallocVars
             PROVE  PreallocInv'
  BY Zenon
<1>1. CASE UNCHANGED preallocVars
  <2>1. PreallocTypes' /\ CallerInv'
    BY <1>1, Zenon DEF preallocVars, PreallocInv, PreallocTypes, CallerInv, Created
  <2>2. TouchInv'
    BY <1>1, <1>TouchSame, Zenon DEF preallocVars, PreallocInv
  <2> QED BY <2>1, <2>2, Zenon DEF PreallocInv
<1> QED BY <1>1, <1>CallerNext, <1>TouchNext, Zenon DEF PreallocNext

\* The invariant implies that an os_mem_prealloc without error has touched
\* every page.
LEMMA Honest ==
    PreallocInv
  => PreallocHonest
\* Every page is a page of some thread.
<1>Shared.
  ASSUME PreallocTypes, NEW p \in 0..(numpages - 1)
  PROVE  \E i \in 0..(threads - 1) : First(i) <= p /\ p < Upto(i)
  <2> USE <1>Shared
  <2>1. PICK d \in Nat : d = numpages \div threads
    BY PreallocSizes, Share, Zenon
  <2>2. threads \in Nat \ {0} /\ numpages \in Nat /\ p \in Nat /\ p < numpages
    BY PreallocSizes
  <2>3. \A i : First(i) = i * d /\ Upto(i) = IF i = threads - 1 THEN numpages ELSE (i + 1) * d
    BY <2>1, Zenon DEF First, Upto
  <2>4. PICK l \in Nat : l = threads - 1
    BY <2>2
  <2>5. CASE l * d <= p
    <3>1. l \in 0..(threads - 1) /\ First(l) <= p /\ p < Upto(l)
      BY <2>2, <2>3, <2>4, <2>5
    <3> QED BY <3>1, Zenon
  <2>6. CASE p < l * d
    <3>1. d # 0
      BY <2>2, <2>4, <2>6
    <3>2. PICK q \in Nat : q = p \div d
      BY <2>2, <3>1
    <3>3. d * q <= p /\ p < d * (q + 1)
      BY <2>2, <3>1, <3>2
    <3>4. q < l
      <4>1. d * q < d * l
        BY <2>2, <2>6, <3>3
      <4> QED BY <3>1, <4>1
    <3>5. First(q) = d * q /\ Upto(q) = d * (q + 1)
      BY <2>3, <2>4, <3>4
    <3>6. q \in 0..(threads - 1)
      BY <2>2, <2>4, <3>4
    <3> QED BY <3>3, <3>5, <3>6, Zenon
  <2> QED BY <2>2, <2>5, <2>6
<1> SUFFICES ASSUME PreallocInv
             PROVE  PreallocHonest
  BY Zenon
<1>1. PreallocTypes /\ CallerInv /\ TouchInv /\ threads \in Nat \ {0} /\ 0..(threads - 1) \subseteq Ids /\ numpages \in Nat
  BY PreallocSizes, Zenon DEF PreallocInv
<1>2. ASSUME mpc = "return", ~failed PROVE touched = 0..(numpages - 1)
  <2>1. ASSUME NEW p \in 0..(numpages - 1) PROVE p \in touched
    <3>1. PICK i \in 0..(threads - 1) : First(i) <= p /\ p < Upto(i)
      BY <1>1, <1>Shared, Zenon
    <3>2. First(i) \in Nat /\ Upto(i) \in Nat
      BY <1>1, Portion, Zenon
    <3>3. tpc[i] = "done"
      BY <1>1, <1>2 DEF CallerInv
    <3>4. next[i] = Upto(i) /\ First(i)..(next[i] - 1) \subseteq touched
      BY <1>1, <1>2, <3>3, Zenon DEF TouchInv, Touches
    <3>5. p \in First(i)..(Upto(i) - 1)
      BY <1>1, <3>1, <3>2
    <3> QED BY <3>4, <3>5, Zenon
  <2> QED BY <1>1, <2>1, Zenon DEF PreallocTypes
<1>3. mpc = "return" => (failed <=> lacking # {})
  BY <1>1, <1>2, Zenon DEF TouchInv, PreallocTypes
<1>4. ASSUME NEW i \in Ids, tpc[i] \in {"start", "touch"}
      PROVE  handler = "sigbus_handler" /\ (i \in table \/ (mpc = "known" /\ nth = i))
  <2>1. Created(i) /\ i \in Nat /\ nth \in 0..(threads - 1) /\ mpc \in MPlaces
    BY <1>1, <1>4, PreallocAssumption DEF CallerInv, Ids, PreallocTypes
  <2>2. i < threads
    BY <1>1, <2>1 DEF Created
  <2>3. mpc \in {"create", "known", "join"}
    BY <1>1, <1>4, <2>1, <2>2, Zenon DEF CallerInv, Created
  <2>4. handler = "sigbus_handler"
    BY <1>1, <2>3, Zenon DEF CallerInv
  <2>5. CASE mpc = "create"
    BY <1>1, <2>1, <2>5 DEF CallerInv, Created
  <2>6. CASE mpc = "known"
    BY <1>1, <2>1, <2>6 DEF CallerInv, Created
  <2>7. CASE mpc = "join"
    BY <1>1, <2>1, <2>2, <2>7 DEF CallerInv
  <2> QED BY <2>3, <2>4, <2>5, <2>6, <2>7, Zenon
<1> QED BY <1>2, <1>3, <1>4, Zenon DEF PreallocHonest

\* os_mem_prealloc returns without an error only if every page is there: the
\* portions of its threads leave no page out, and a SIGBUS in any of them is
\* reported.
THEOREM PreallocIsHonest == PreallocSpec => []PreallocHonest
<1>1. (\E n \in 0..MaxPages, cpus \in 1..MaxCpus : \E bad \in SUBSET (0..(n - 1)) : PreallocInit(n, cpus, bad)) => PreallocInv
  BY PreallocInvInit, PreallocAssumption
<1>2. PreallocInv /\ [PreallocNext]_preallocVars => PreallocInv'
  BY PreallocInvNext, Zenon
<1>3. PreallocInv => PreallocHonest
  BY Honest, Zenon
<1> QED BY <1>1, <1>2, <1>3, PTL DEF PreallocSpec

\* Where devices are, and what they ask for.
BounceTypes ==
  /\ dpc \in [Devices -> DevicePlaces]
  /\ request \in [Devices -> Regions]
  /\ in_use \in BOOLEAN

\* in_use is set only while somebody owns the buffer.
SomeOwner == in_use => \E d \in Devices : Owns(d)

\* The inductive invariant of the bounce buffer.
BounceInv == BounceTypes /\ BounceOwned /\ SomeOwner /\ NoForgottenClient

\* It holds before anything is mapped.
LEMMA BounceInvInit == BounceInit => BounceInv
<1> SUFFICES ASSUME BounceInit PROVE BounceInv
  BY Zenon
<1>1. dpc = [d \in Devices |-> "idle"] /\ in_use = FALSE /\ clients = {}
  BY Zenon DEF BounceInit
<1>2. BounceTypes
  <2>1. request \in [Devices -> Regions]
    BY Zenon DEF BounceInit, Regions
  <2> QED BY <1>1, <2>1, Zenon DEF BounceTypes, DevicePlaces
<1>3. \A d \in Devices : dpc[d] = "idle"
  BY <1>1, Zenon
<1>4. BounceOwned
  BY <1>3, Zenon DEF BounceOwned, Owns
<1> QED BY <1>1, <1>2, <1>4, Zenon DEF BounceInv, SomeOwner, NoForgottenClient

\* The places after a step of device d.
LEMMA Moved ==
  ASSUME BounceTypes, NEW d \in Devices, NEW where \in DevicePlaces, DeviceGoes(d, where)
  PROVE  /\ dpc' \in [Devices -> DevicePlaces]
         /\ dpc'[d] = where
         /\ \A e \in Devices : e # d => dpc'[e] = dpc[e]
<1>1. dpc \in [Devices -> DevicePlaces]
  BY Zenon DEF BounceTypes
<1>2. dpc' = [dpc EXCEPT ![d] = where]
  BY Zenon DEF DeviceGoes
<1> QED BY <1>1, <1>2, Zenon

\* Every step of address_space_map and address_space_unmap keeps it.
LEMMA BounceInvNext ==
  BounceInv /\ [BounceNext]_bounceVars => BounceInv'
\* A step of a device that neither owns the buffer nor comes to own it.
<1>QuietStep.
  ASSUME BounceInv, NEW d \in Devices, NEW where \in DevicePlaces, DeviceGoes(d, where), ~Owns(d),
         where \notin {"fill", "mapped", "release"}, in_use' = in_use, bounce' = bounce,
         request' \in [Devices -> Regions], \A e \in Devices : e # d => request'[e] = request[e]
  PROVE  /\ BounceTypes' /\ BounceOwned' /\ SomeOwner'
         /\ \A e \in Devices : Owns(e)' <=> Owns(e)
         /\ dpc'[d] = where /\ \A e \in Devices : e # d => dpc'[e] = dpc[e]
  <2> USE <1>QuietStep
  <2>1. BounceTypes /\ SomeOwner
    BY Zenon DEF BounceInv
  <2>2. /\ dpc' \in [Devices -> DevicePlaces] /\ dpc'[d] = where
        /\ \A e \in Devices : e # d => dpc'[e] = dpc[e]
    BY <2>1, Moved, Zenon
  <2>3. \A e \in Devices : Owns(e)' <=> Owns(e)
    <3> TAKE e \in Devices
    <3>1. CASE e = d
      <4>1. ~Owns(d)'
        BY <2>2, Zenon DEF Owns
      <4> QED BY <3>1, <4>1, Zenon
    <3>2. CASE e # d
      BY <3>2, <2>2, Zenon DEF Owns
    <3> QED BY <3>1, <3>2, Zenon
  <2>4. BounceTypes'
    BY <2>1, <2>2, Zenon DEF BounceTypes
  <2>5. SomeOwner'
    BY <2>1, <2>3, Zenon DEF SomeOwner
  <2>6. BounceOwned'
    <3>1. \A e, f \in Devices : Owns(e)' /\ Owns(f)' => e = f
      <4>1. \A e, f \in Devices : Owns(e) /\ Owns(f) => e = f
        BY Zenon DEF BounceInv, BounceOwned
      <4> QED BY <4>1, <2>3, Zenon
    <3>2. \A e \in Devices : Owns(e)' => in_use'
      <4>1. \A e \in Devices : Owns(e) => in_use
        BY Zenon DEF BounceInv, BounceOwned
      <4> QED BY <4>1, <2>3, Zenon
    <3>3. \A e \in Devices : dpc'[e] = "mapped" => bounce' = [mr |-> {request'[e]}, addr |-> {e}, buffer |-> {e}]
      <4>1. \A e \in Devices : dpc[e] = "mapped" => bounce = [mr |-> {request[e]}, addr |-> {e}, buffer |-> {e}]
        BY Zenon DEF BounceInv, BounceOwned
      <4> SUFFICES ASSUME NEW e \in Devices, dpc'[e] = "mapped"
                   PROVE  bounce' = [mr |-> {request'[e]}, addr |-> {e}, buffer |-> {e}]
        BY Zenon
      <4>2. e # d
        BY <2>2, Zenon
      <4>3. dpc[e] = "mapped" /\ request'[e] = request[e]
        BY <4>2, <2>2, Zenon
      <4> QED BY <4>1, <4>3, Zenon
    <3> QED BY <3>1, <3>2, <3>3, Zenon DEF BounceOwned
  <2> QED BY <2>2, <2>3, <2>4, <2>5, <2>6, Zenon
\* A step of the device that owns the buffer, or has just taken it.
<1>OwnerStep.
  ASSUME BounceInv, NEW d \in Devices, NEW where \in {"fill", "mapped", "release"}, DeviceGoes(d, where),
         Owns(d) \/ ~in_use, in_use' = TRUE, request' = request,
         where = "mapped" => bounce' = [mr |-> {request[d]}, addr |-> {d}, buffer |-> {d}]
  PROVE  BounceInv'
  <2> USE <1>OwnerStep
  <2>1. BounceTypes
    BY Zenon DEF BounceInv
  <2>2. /\ dpc' \in [Devices -> DevicePlaces] /\ dpc'[d] = where
        /\ \A e \in Devices : e # d => dpc'[e] = dpc[e]
    BY <2>1, Moved, Zenon DEF DevicePlaces
  <2>3. \A e \in Devices : e # d => ~Owns(e)
    <3>1. \A e, f \in Devices : Owns(e) /\ Owns(f) => e = f
      BY Zenon DEF BounceInv, BounceOwned
    <3>2. \A e \in Devices : Owns(e) => in_use
      BY Zenon DEF BounceInv, BounceOwned
    <3> QED BY <3>1, <3>2, Zenon
  <2>4. \A e \in Devices : Owns(e)' <=> e = d
    <3> TAKE e \in Devices
    <3>1. CASE e = d
      BY <3>1, <2>2, Zenon DEF Owns
    <3>2. CASE e # d
      BY <3>2, <2>2, <2>3, Zenon DEF Owns
    <3> QED BY <3>1, <3>2, Zenon
  <2>5. BounceTypes'
    BY <2>1, <2>2, Zenon DEF BounceTypes
  <2>6. SomeOwner' /\ NoForgottenClient'
    BY <2>4, Zenon DEF SomeOwner, NoForgottenClient
  <2>7. BounceOwned'
    <3>1. \A e \in Devices : dpc'[e] = "mapped" => bounce' = [mr |-> {request'[e]}, addr |-> {e}, buffer |-> {e}]
      <4> SUFFICES ASSUME NEW e \in Devices, dpc'[e] = "mapped"
                   PROVE  bounce' = [mr |-> {request'[e]}, addr |-> {e}, buffer |-> {e}]
        BY Zenon
      <4>1. Owns(e)'
        BY Zenon DEF Owns
      <4>2. e = d
        BY <4>1, <2>4, Zenon
      <4> QED BY <4>2, <2>2, Zenon
    <3> QED BY <3>1, <2>4, Zenon DEF BounceOwned
  <2> QED BY <2>5, <2>6, <2>7, Zenon DEF BounceInv
<1> SUFFICES ASSUME BounceInv, [BounceNext]_bounceVars PROVE BounceInv'
  BY Zenon
<1>p. dpc \in [Devices -> DevicePlaces] /\ request \in [Devices -> Regions] /\ in_use \in BOOLEAN
  BY Zenon DEF BounceInv, BounceTypes
<1>s. SomeOwner
  BY Zenon DEF BounceInv
<1>n. NoForgottenClient
  BY Zenon DEF BounceInv
<1>r. request' = request => request' \in [Devices -> Regions] /\ \A e \in Devices : request'[e] = request[e]
  BY <1>p, Zenon
<1>1. ASSUME NEW d \in Devices, NEW r \in Regions, Map(d, r) PROVE BounceInv'
  <2>1. DeviceGoes(d, "map") /\ dpc[d] = "idle" /\ in_use' = in_use /\ bounce' = bounce /\ clients' = clients
    BY <1>1, Zenon DEF Map, DeviceAt
  <2>2. ~Owns(d)
    BY <2>1, Zenon DEF Owns
  <2>3. request' \in [Devices -> Regions] /\ \A e \in Devices : e # d => request'[e] = request[e]
    BY <1>1, <1>p, Zenon DEF Map
  <2>4. /\ BounceTypes' /\ BounceOwned' /\ SomeOwner'
        /\ \A e \in Devices : Owns(e)' <=> Owns(e)
        /\ dpc'[d] = "map" /\ \A e \in Devices : e # d => dpc'[e] = dpc[e]
    BY <2>1, <2>2, <2>3, <1>QuietStep, Zenon DEF DevicePlaces
  <2>5. NoForgottenClient'
    BY <1>n, <2>1, <2>4, Zenon DEF NoForgottenClient
  <2> QED BY <2>4, <2>5, Zenon DEF BounceInv
<1>2. ASSUME NEW d \in Devices, MapDirect(d) PROVE BounceInv'
  <2>1. DeviceGoes(d, "direct") /\ dpc[d] = "map" /\ in_use' = in_use /\ bounce' = bounce /\ clients' = clients /\ request' = request
    BY <1>2, Zenon DEF MapDirect, DeviceAt
  <2>2. ~Owns(d)
    BY <2>1, Zenon DEF Owns
  <2>3. request' \in [Devices -> Regions] /\ \A e \in Devices : e # d => request'[e] = request[e]
    BY <2>1, <1>r, Zenon
  <2>4. /\ BounceTypes' /\ BounceOwned' /\ SomeOwner'
        /\ \A e \in Devices : Owns(e)' <=> Owns(e)
        /\ dpc'[d] = "direct" /\ \A e \in Devices : e # d => dpc'[e] = dpc[e]
    BY <2>1, <2>2, <2>3, <1>QuietStep, Zenon DEF DevicePlaces
  <2>5. NoForgottenClient'
    BY <1>n, <2>1, <2>4, Zenon DEF NoForgottenClient
  <2> QED BY <2>4, <2>5, Zenon DEF BounceInv
<1>3. ASSUME NEW d \in Devices, RegisterClient(d) PROVE BounceInv'
  <2>1. DeviceGoes(d, "check") /\ dpc[d] = "refused" /\ in_use' = in_use /\ bounce' = bounce /\ request' = request
    BY <1>3, Zenon DEF RegisterClient, DeviceAt
  <2>2. ~Owns(d)
    BY <2>1, Zenon DEF Owns
  <2>3. request' \in [Devices -> Regions] /\ \A e \in Devices : e # d => request'[e] = request[e]
    BY <2>1, <1>r, Zenon
  <2>4. /\ BounceTypes' /\ BounceOwned' /\ SomeOwner'
        /\ \A e \in Devices : Owns(e)' <=> Owns(e)
        /\ dpc'[d] = "check" /\ \A e \in Devices : e # d => dpc'[e] = dpc[e]
    BY <2>1, <2>2, <2>3, <1>QuietStep, Zenon DEF DevicePlaces
  <2>5. NoForgottenClient'
    BY <2>4, Zenon DEF NoForgottenClient
  <2> QED BY <2>4, <2>5, Zenon DEF BounceInv
<1>4. ASSUME NEW d \in Devices, CheckInUse(d) PROVE BounceInv'
  <2>1. DeviceGoes(d, "waiting") /\ dpc[d] = "check" /\ in_use' = in_use /\ bounce' = bounce /\ request' = request
    BY <1>4, Zenon DEF CheckInUse, DeviceAt
  <2>2. ~Owns(d)
    BY <2>1, Zenon DEF Owns
  <2>3. request' \in [Devices -> Regions] /\ \A e \in Devices : e # d => request'[e] = request[e]
    BY <2>1, <1>r, Zenon
  <2>4. /\ BounceTypes' /\ BounceOwned' /\ SomeOwner'
        /\ \A e \in Devices : Owns(e)' <=> Owns(e)
        /\ dpc'[d] = "waiting" /\ \A e \in Devices : e # d => dpc'[e] = dpc[e]
    BY <2>1, <2>2, <2>3, <1>QuietStep, Zenon DEF DevicePlaces
  <2>5. NoForgottenClient'
    <3>1. CASE in_use
      <4>1. PICK e \in Devices : Owns(e)
        BY <3>1, <1>s, Zenon DEF SomeOwner
      <4> QED BY <4>1, <2>4, Zenon DEF NoForgottenClient
    <3>2. CASE ~in_use
      <4>1. clients' = {}
        BY <1>4, <3>2, Zenon DEF CheckInUse
      <4> QED BY <4>1, Zenon DEF NoForgottenClient
    <3> QED BY <3>1, <3>2, Zenon
  <2> QED BY <2>4, <2>5, Zenon DEF BounceInv
<1>5. ASSUME NEW d \in Devices, RunBh(d) PROVE BounceInv'
  <2>1. DeviceGoes(d, "map") /\ dpc[d] = "waiting" /\ in_use' = in_use /\ bounce' = bounce /\ request' = request /\ clients' = clients
    BY <1>5, Zenon DEF RunBh, DeviceAt
  <2>2. ~Owns(d)
    BY <2>1, Zenon DEF Owns
  <2>3. request' \in [Devices -> Regions] /\ \A e \in Devices : e # d => request'[e] = request[e]
    BY <2>1, <1>r, Zenon
  <2>4. /\ BounceTypes' /\ BounceOwned' /\ SomeOwner'
        /\ \A e \in Devices : Owns(e)' <=> Owns(e)
        /\ dpc'[d] = "map" /\ \A e \in Devices : e # d => dpc'[e] = dpc[e]
    BY <2>1, <2>2, <2>3, <1>QuietStep, Zenon DEF DevicePlaces
  <2>5. NoForgottenClient'
    BY <1>n, <2>1, <2>4, Zenon DEF NoForgottenClient
  <2> QED BY <2>4, <2>5, Zenon DEF BounceInv
<1>6. ASSUME NEW d \in Devices, Cancel(d) PROVE BounceInv'
  <2>1. DeviceGoes(d, "idle") /\ dpc[d] = "waiting" /\ in_use' = in_use /\ bounce' = bounce /\ request' = request /\ clients' = clients \ {d}
    BY <1>6, Zenon DEF Cancel, DeviceAt
  <2>2. ~Owns(d)
    BY <2>1, Zenon DEF Owns
  <2>3. request' \in [Devices -> Regions] /\ \A e \in Devices : e # d => request'[e] = request[e]
    BY <2>1, <1>r, Zenon
  <2>4. /\ BounceTypes' /\ BounceOwned' /\ SomeOwner'
        /\ \A e \in Devices : Owns(e)' <=> Owns(e)
        /\ dpc'[d] = "idle" /\ \A e \in Devices : e # d => dpc'[e] = dpc[e]
    BY <2>1, <2>2, <2>3, <1>QuietStep, Zenon DEF DevicePlaces
  <2>5. NoForgottenClient'
    <3>1. clients # {} => \E e \in Devices : Owns(e) \/ dpc[e] \in {"notify", "check"}
      BY <1>n, Zenon DEF NoForgottenClient
    <3>2. clients' # {} => clients # {}
      BY <2>1, Zenon
    <3> QED BY <3>1, <3>2, <2>1, <2>4, Zenon DEF NoForgottenClient
  <2> QED BY <2>4, <2>5, Zenon DEF BounceInv
<1>7. ASSUME NEW d \in Devices, UnmapDirect(d) PROVE BounceInv'
  <2>1. DeviceGoes(d, "idle") /\ dpc[d] = "direct" /\ in_use' = in_use /\ bounce' = bounce /\ request' = request /\ clients' = clients
    BY <1>7, Zenon DEF UnmapDirect, DeviceAt
  <2>2. ~Owns(d)
    BY <2>1, Zenon DEF Owns
  <2>3. request' \in [Devices -> Regions] /\ \A e \in Devices : e # d => request'[e] = request[e]
    BY <2>1, <1>r, Zenon
  <2>4. /\ BounceTypes' /\ BounceOwned' /\ SomeOwner'
        /\ \A e \in Devices : Owns(e)' <=> Owns(e)
        /\ dpc'[d] = "idle" /\ \A e \in Devices : e # d => dpc'[e] = dpc[e]
    BY <2>1, <2>2, <2>3, <1>QuietStep, Zenon DEF DevicePlaces
  <2>5. NoForgottenClient'
    BY <1>n, <2>1, <2>4, Zenon DEF NoForgottenClient
  <2> QED BY <2>4, <2>5, Zenon DEF BounceInv
<1>8. ASSUME NEW d \in Devices, NotifyClients(d) PROVE BounceInv'
  <2>1. DeviceGoes(d, "idle") /\ dpc[d] = "notify" /\ in_use' = in_use /\ bounce' = bounce /\ request' = request /\ clients' = {}
    BY <1>8, Zenon DEF NotifyClients, DeviceAt
  <2>2. ~Owns(d)
    BY <2>1, Zenon DEF Owns
  <2>3. request' \in [Devices -> Regions] /\ \A e \in Devices : e # d => request'[e] = request[e]
    BY <2>1, <1>r, Zenon
  <2>4. /\ BounceTypes' /\ BounceOwned' /\ SomeOwner'
        /\ \A e \in Devices : Owns(e)' <=> Owns(e)
        /\ dpc'[d] = "idle" /\ \A e \in Devices : e # d => dpc'[e] = dpc[e]
    BY <2>1, <2>2, <2>3, <1>QuietStep, Zenon DEF DevicePlaces
  <2>5. NoForgottenClient'
    BY <2>1, Zenon DEF NoForgottenClient
  <2> QED BY <2>4, <2>5, Zenon DEF BounceInv
<1>9. ASSUME NEW d \in Devices, TakeBounce(d), in_use PROVE BounceInv'
  <2>1. DeviceGoes(d, "refused") /\ dpc[d] = "map" /\ in_use' = in_use /\ bounce' = bounce /\ request' = request /\ clients' = clients
    BY <1>9, Zenon DEF TakeBounce, DeviceAt
  <2>2. ~Owns(d)
    BY <2>1, Zenon DEF Owns
  <2>3. request' \in [Devices -> Regions] /\ \A e \in Devices : e # d => request'[e] = request[e]
    BY <2>1, <1>r, Zenon
  <2>4. /\ BounceTypes' /\ BounceOwned' /\ SomeOwner'
        /\ \A e \in Devices : Owns(e)' <=> Owns(e)
        /\ dpc'[d] = "refused" /\ \A e \in Devices : e # d => dpc'[e] = dpc[e]
    BY <2>1, <2>2, <2>3, <1>QuietStep, Zenon DEF DevicePlaces
  <2>5. NoForgottenClient'
    BY <1>n, <2>1, <2>4, Zenon DEF NoForgottenClient
  <2> QED BY <2>4, <2>5, Zenon DEF BounceInv
<1>10. ASSUME NEW d \in Devices, TakeBounce(d), ~in_use PROVE BounceInv'
  <2>1. DeviceGoes(d, "fill") /\ dpc[d] = "map" /\ request' = request
    BY <1>10, Zenon DEF TakeBounce, DeviceAt
  <2>2. in_use' = TRUE
    BY <1>10, Zenon DEF TakeBounce
  <2> QED BY <1>10, <2>1, <2>2, <1>OwnerStep, Zenon
<1>11. ASSUME NEW d \in Devices, FillBounce(d) PROVE BounceInv'
  <2>1. DeviceGoes(d, "mapped") /\ dpc[d] = "fill" /\ request' = request
    BY <1>11, Zenon DEF FillBounce, DeviceAt
  <2>2. Owns(d)
    BY <2>1, Zenon DEF Owns
  <2>3. in_use' = TRUE
    <3>1. in_use' = in_use
      BY <1>11, Zenon DEF FillBounce
    <3>2. in_use
      BY <2>2, Zenon DEF BounceInv, BounceOwned
    <3> QED BY <3>1, <3>2, Zenon
  <2>4. bounce' = [mr |-> {request[d]}, addr |-> {d}, buffer |-> {d}]
    BY <1>11, Zenon DEF FillBounce
  <2> QED BY <2>1, <2>2, <2>3, <2>4, <1>OwnerStep, Zenon
<1>12. ASSUME NEW d \in Devices, UnmapBounce(d) PROVE BounceInv'
  <2>1. DeviceGoes(d, "release") /\ dpc[d] = "mapped" /\ request' = request
    BY <1>12, Zenon DEF UnmapBounce, DeviceAt
  <2>2. Owns(d)
    BY <2>1, Zenon DEF Owns
  <2>3. in_use' = TRUE
    <3>1. in_use' = in_use
      BY <1>12, Zenon DEF UnmapBounce
    <3>2. in_use
      BY <2>2, Zenon DEF BounceInv, BounceOwned
    <3> QED BY <3>1, <3>2, Zenon
  <2> QED BY <2>1, <2>2, <2>3, <1>OwnerStep, Zenon
<1>13. ASSUME NEW d \in Devices, ReleaseBounce(d) PROVE BounceInv'
  <2>1. DeviceGoes(d, "notify") /\ dpc[d] = "release" /\ in_use' = FALSE /\ request' = request
    BY <1>13, Zenon DEF ReleaseBounce, DeviceAt
  <2>2. /\ dpc' \in [Devices -> DevicePlaces] /\ dpc'[d] = "notify"
        /\ \A e \in Devices : e # d => dpc'[e] = dpc[e]
    <3>1. BounceTypes
      BY Zenon DEF BounceInv
    <3> QED BY <2>1, <3>1, Moved, Zenon DEF DevicePlaces
  <2>3. \A e \in Devices : ~Owns(e)'
    <3>1. \A e \in Devices : Owns(e) => e = d
      <4>1. Owns(d)
        BY <2>1, Zenon DEF Owns
      <4> QED BY <4>1, Zenon DEF BounceInv, BounceOwned
    <3> TAKE e \in Devices
    <3>2. CASE e = d
      BY <3>2, <2>2, Zenon DEF Owns
    <3>3. CASE e # d
      BY <3>1, <3>3, <2>2, Zenon DEF Owns
    <3> QED BY <3>2, <3>3, Zenon
  <2>4. \A e \in Devices : dpc'[e] # "mapped"
    BY <2>3, Zenon DEF Owns
  <2>5. BounceTypes'
    BY <2>1, <2>2, <1>p, Zenon DEF BounceTypes
  <2>6. BounceOwned'
    BY <2>3, <2>4, Zenon DEF BounceOwned
  <2>7. SomeOwner' /\ NoForgottenClient'
    BY <2>1, <2>2, Zenon DEF SomeOwner, NoForgottenClient
  <2> QED BY <2>5, <2>6, <2>7, Zenon DEF BounceInv
<1>14. CASE UNCHANGED bounceVars
  <2>1. dpc' = dpc /\ request' = request /\ in_use' = in_use /\ bounce' = bounce /\ clients' = clients
    BY <1>14, Zenon DEF bounceVars
  <2> QED BY <2>1, Zenon DEF BounceInv, BounceTypes, BounceOwned, SomeOwner, NoForgottenClient, Owns
<1>q. ASSUME BounceNext PROVE BounceInv'
  <2>1. PICK d \in Devices : \/ \E r \in Regions : Map(d, r)
                            \/ Cancel(d)
                            \/ DeviceRuns(d)
    BY <1>q, Zenon DEF BounceNext
  <2> QED BY <2>1, <1>1, <1>2, <1>3, <1>4, <1>5, <1>6, <1>7, <1>8, <1>9, <1>10, <1>11, <1>12, <1>13 DEF DeviceRuns
<1> QED BY <1>q, <1>14, Zenon

(* For any devices and regions the bounce buffer has at most one owner,    *)
(* and what it holds while mapped is the owner's.                          *)
THEOREM OwnedCorrect == BounceSpec => []BounceOwned
<1>1. BounceInv => BounceOwned
  BY Zenon DEF BounceInv
<1> QED BY <1>1, BounceInvInit, BounceInvNext, PTL DEF BounceSpec

(* For any devices, no client is on the list while the buffer is free and  *)
(* nobody is about to notify: cpu_register_map_client loses no wakeup.     *)
THEOREM ClientsCorrect == BounceSpec => []NoForgottenClient
<1>1. BounceInv => NoForgottenClient
  BY Zenon DEF BounceInv
<1> QED BY <1>1, BounceInvInit, BounceInvNext, PTL DEF BounceSpec

-----------------------------------------------------------------------------
(* QemuSemaphore.                                                          *)

\* The inductive invariant of QemuSemaphore.
SemInv ==
  /\ SemTypeOK
  /\ SemConserved
  /\ NoStrandedPost
  /\ build = "sem_t" => In("blocked") = {}

\* Every step of waiters and posters keeps it.
LEMMA SemStep ==
  SemInv /\ [SemNext]_semVars => SemInv'
(* One more, or one less, thread is woken.                                 *)
<1>WokenOne.
  ASSUME NEW w \in Waiters, spc \in [Waiters -> {"idle", "enter", "blocked", "woken"}],
         NEW place \in {"idle", "enter", "blocked", "woken"}, spc' = [spc EXCEPT ![w] = place]
  PROVE  /\ place = "woken" /\ spc[w] # "woken" =>
              Cardinality(In("woken")') = Cardinality(In("woken")) + 1
         /\ place # "woken" /\ spc[w] = "woken" =>
              Cardinality(In("woken")') = Cardinality(In("woken")) - 1
         /\ place # "woken" /\ spc[w] # "woken" => In("woken")' = In("woken")
         /\ Cardinality(In("woken")) \in Nat /\ Cardinality(In("woken")') \in Nat
  <2> USE <1>WokenOne
  <2>1. IsFiniteSet(In("woken")) /\ IsFiniteSet(In("woken")')
    BY FS_Subset, SemAssumption, Zenon DEF In
  <2>2. ASSUME place = "woken", spc[w] # "woken"
        PROVE  Cardinality(In("woken")') = Cardinality(In("woken")) + 1
    <3>1. In("woken")' = In("woken") \cup {w} /\ w \notin In("woken")
      BY <2>2, Zenon DEF In
    <3> QED
      BY <2>1, <3>1, FS_AddElement, Zenon
  <2>3. ASSUME place # "woken", spc[w] = "woken"
        PROVE  Cardinality(In("woken")') = Cardinality(In("woken")) - 1
    <3>1. In("woken")' = In("woken") \ {w} /\ w \in In("woken")
      BY <2>3, Zenon DEF In
    <3> QED
      BY <2>1, <3>1, FS_RemoveElement, Zenon
  <2>4. ASSUME place # "woken", spc[w] # "woken" PROVE In("woken")' = In("woken")
    BY <2>4, Zenon DEF In
  <2>5. Cardinality(In("woken")) \in Nat /\ Cardinality(In("woken")') \in Nat
    BY <2>1, FS_CardinalityType, Zenon
  <2> QED
    BY <2>2, <2>3, <2>4, <2>5, Zenon
<1> SUFFICES ASSUME SemInv, [SemNext]_semVars PROVE SemInv'
  BY Zenon
<1>0. /\ SemTypeOK /\ count \in Nat /\ taken \in Nat /\ posted \in Nat
      /\ count + taken = posted /\ Cardinality(In("woken")) \in Nat
  <2>1. IsFiniteSet(In("woken"))
    BY FS_Subset, SemAssumption, Zenon DEF In
  <2> QED
    BY <2>1, FS_CardinalityType, SemAssumption DEF SemInv, SemTypeOK, SemConserved
<1> USE SemAssumption DEF SemTypeOK, SemConserved, At
<1>1. CASE SemPost
  <2>1. CASE count = UINT_MAX
    BY <1>0, <1>1, <2>1, Zenon DEF SemPost, SemInv, NoStrandedPost, In
  <2>2. CASE count # UINT_MAX /\ (build = "sem_t" \/ In("blocked") = {})
    BY <1>0, <1>1, <2>2 DEF SemPost, SemInv, NoStrandedPost, In
  <2>3. CASE count # UINT_MAX /\ build # "sem_t" /\ In("blocked") # {}
    <3>1. PICK w \in In("blocked") : spc' = [spc EXCEPT ![w] = "woken"]
      BY <1>1, <2>3, Zenon DEF SemPost
    <3>2. w \in Waiters /\ spc[w] = "blocked"
      BY <3>1, Zenon DEF In
    <3>3. Cardinality(In("woken")') = Cardinality(In("woken")) + 1
      BY <1>0, <3>1, <3>2, <1>WokenOne, Zenon
    <3>4. /\ build' = build /\ count' = count + 1 /\ posted' = posted + 1
          /\ UNCHANGED <<timed, taken, running>>
      BY <1>1, <2>3, Zenon DEF SemPost
    <3>6. SemTypeOK' /\ SemConserved' /\ build' # "sem_t"
      BY <1>0, <2>3, <3>1, <3>2, <3>4
    <3>5. count <= Cardinality(In("woken"))
      BY <2>3, Zenon DEF SemInv, NoStrandedPost
    <3> QED
      BY <1>0, <3>3, <3>4, <3>5, <3>6 DEF SemInv, NoStrandedPost
  <2> QED
    BY <2>1, <2>2, <2>3, Zenon
<1>2. ASSUME NEW w \in Waiters, SemWait(w, TRUE) \/ SemWait(w, FALSE) PROVE SemInv'
  <2>1. spc' = [spc EXCEPT ![w] = "enter"] /\ spc[w] = "idle" /\ UNCHANGED <<build, count, posted, taken, running>>
    BY <1>2, Zenon DEF SemWait
  <2>2. SemTypeOK'
    BY <1>0, <1>2, <2>1, Zenon DEF SemWait
  <2>3. In("woken")' = In("woken")
    BY <1>0, <2>1, <1>WokenOne, Zenon
  <2>4. In("blocked")' = In("blocked")
    BY <1>0, <2>1, Zenon DEF In
  <2> QED
    BY <1>0, <2>1, <2>2, <2>3, <2>4, Zenon DEF SemInv, NoStrandedPost
<1>3. ASSUME NEW w \in Waiters, Take(w) PROVE SemInv'
  <2>1. /\ spc' = [spc EXCEPT ![w] = "idle"] /\ spc[w] \in {"enter", "woken"}
        /\ count > 0 /\ count' = count - 1 /\ taken' = taken + 1
        /\ UNCHANGED <<build, timed, posted, running>>
    BY <1>3, Zenon DEF Take
  <2>2. SemTypeOK' /\ SemConserved'
    BY <1>0, <2>1
  <2>3. Cardinality(In("woken")') \in Nat /\ Cardinality(In("woken")') >= Cardinality(In("woken")) - 1
    <3>1. CASE spc[w] = "woken"
      <4>1. /\ Cardinality(In("woken")') = Cardinality(In("woken")) - 1
            /\ Cardinality(In("woken")') \in Nat
        BY <1>0, <2>1, <3>1, <1>WokenOne, Zenon
      <4> QED
        BY <1>0, <4>1
    <3>2. CASE spc[w] # "woken"
      <4>1. In("woken")' = In("woken")
        BY <1>0, <2>1, <3>2, <1>WokenOne, Zenon
      <4> QED
        BY <1>0, <4>1
    <3> QED
      BY <3>1, <3>2, Zenon
  <2>4. In("blocked")' = In("blocked")
    BY <1>0, <2>1, Zenon DEF In
  <2> QED
    BY <1>0, <2>1, <2>2, <2>3, <2>4 DEF SemInv, NoStrandedPost
<1>4. ASSUME NEW w \in Waiters, CondWait(w) PROVE SemInv'
  <2>1. /\ spc' = [spc EXCEPT ![w] = "blocked"] /\ spc[w] \in {"enter", "woken"}
        /\ build = "cond" /\ count = 0 /\ UNCHANGED <<build, count, timed, posted, taken, running>>
    BY <1>4, Zenon DEF CondWait
  <2>2. Cardinality(In("woken")') \in Nat
    BY <1>0, <2>1, <1>WokenOne, Zenon
  <2> QED
    BY <1>0, <2>1, <2>2 DEF SemInv, NoStrandedPost
<1>5. ASSUME NEW w \in Waiters, TryWait(w) PROVE SemInv'
  BY <1>0, <1>5 DEF TryWait, SemInv, NoStrandedPost, In
<1>6. ASSUME NEW w \in Waiters, SpuriousWakeup(w) PROVE SemInv'
  <2>1. /\ spc' = [spc EXCEPT ![w] = "woken"] /\ spc[w] = "blocked"
        /\ UNCHANGED <<build, count, timed, posted, taken, running>>
    BY <1>6, Zenon DEF SpuriousWakeup
  <2>2. Cardinality(In("woken")') = Cardinality(In("woken")) + 1
    BY <1>0, <2>1, <1>WokenOne, Zenon
  <2>3. In("blocked") # {} /\ build # "sem_t"
    BY <2>1, Zenon DEF In, SemInv
  <2> QED
    BY <1>0, <2>1, <2>2, <2>3 DEF SemInv, NoStrandedPost
<1>7. ASSUME NEW w \in Waiters, TimeOut(w) PROVE SemInv'
  <2>1. /\ spc' = [spc EXCEPT ![w] = "idle"] /\ spc[w] \in {"enter", "blocked"}
        /\ UNCHANGED <<build, count, timed, posted, taken, running>>
    BY <1>7, Zenon DEF TimeOut
  <2>2. In("woken")' = In("woken")
    BY <1>0, <2>1, <1>WokenOne, Zenon
  <2>3. In("blocked")' \subseteq In("blocked")
    BY <1>0, <2>1, Zenon DEF In
  <2> QED
    BY <1>0, <2>1, <2>2, <2>3, Zenon DEF SemInv, NoStrandedPost
<1>8. CASE UNCHANGED semVars
  BY <1>8, Zenon DEF semVars, SemInv, NoStrandedPost, In
<1> QED
  BY <1>1, <1>2, <1>3, <1>4, <1>5, <1>6, <1>7, <1>8, Zenon DEF SemNext, SemRun

\* Hence it always holds.
LEMMA SemInvariant == SemSpec => []SemInv
<1>1. ASSUME NEW b \in {"sem_t", "cond"}, NEW n \in 0..UINT_MAX, SemInit(b, n) PROVE SemInv
  BY <1>1, SemAssumption DEF SemInit, SemInv, SemTypeOK, SemConserved, NoStrandedPost, In
<1>2. (\E b \in {"sem_t", "cond"}, n \in 0..UINT_MAX : SemInit(b, n)) => SemInv
  BY <1>1, Zenon
<1> QED
  BY <1>2, SemStep, PTL DEF SemSpec

(* Every post lets exactly one wait return: timeouts, spurious wakeups and *)
(* threads that overtake woken ones neither lose nor duplicate a unit.     *)
THEOREM ConservedCorrect == SemSpec => []SemConserved
BY SemInvariant, PTL DEF SemInv

(* While threads sleep on the condition variable, enough woken threads are *)
(* on their way to use up the count.                                       *)
THEOREM StrandedCorrect == SemSpec => []NoStrandedPost
BY SemInvariant, PTL DEF SemInv

\* The devices that have region r mapped.
Mappers(r) == {d \in Devices : dpc[d] \in {"mapped", "direct"} /\ request[d] = r}
RefsInv == refs \in [Regions -> Nat] /\ \A r \in Regions : refs[r] = Cardinality(Mappers(r))

\* What a step of device d leaves alone.
OthersStay(d) ==
  /\ dpc \in [Devices -> DevicePlaces] /\ dpc' \in [Devices -> DevicePlaces]
  /\ \A e \in Devices : e # d => dpc'[e] = dpc[e] /\ request'[e] = request[e]

\* No region is mapped at the start.
LEMMA RefsInit == BounceInit => RefsInv
<1> SUFFICES ASSUME BounceInit PROVE RefsInv
  BY Zenon
<1>1. refs = [r \in Regions |-> 0] /\ dpc = [d \in Devices |-> "idle"]
  BY Zenon DEF BounceInit
<1>2. \A r : Mappers(r) = {}
  BY <1>1, Zenon DEF Mappers
<1> QED BY <1>1, <1>2, FS_EmptySet, Zenon DEF RefsInv

\* Every step takes and drops references with mappings.
LEMMA RefsNext ==
  BounceInv /\ RefsInv /\ [BounceNext]_bounceVars => RefsInv'
<1>MappersFinite.
  \A r : IsFiniteSet(Mappers(r)) /\ Cardinality(Mappers(r)) \in Nat
  <2> TAKE r
  <2>1. Mappers(r) \subseteq Devices /\ IsFiniteSet(Devices)
    BY BounceAssumption, Zenon DEF Mappers
  <2>2. IsFiniteSet(Mappers(r))
    BY <2>1, FS_Subset, Zenon
  <2> QED BY <2>2, FS_CardinalityType, Zenon
\* A step of a device that has nothing mapped before or after it.
<1>RefsSame.
  ASSUME RefsInv, NEW d \in Devices, OthersStay(d), refs' = refs, dpc[d] \notin {"mapped", "direct"},
         dpc'[d] \notin {"mapped", "direct"}
  PROVE  RefsInv'
  <2> USE <1>RefsSame
  <2>1. ASSUME NEW r PROVE Mappers(r)' = Mappers(r)
    <3>1. ASSUME NEW e \in Devices
          PROVE  dpc'[e] \in {"mapped", "direct"} /\ request'[e] = r <=> dpc[e] \in {"mapped", "direct"} /\ request[e] = r
      <4>1. CASE e = d
        BY <4>1, Zenon
      <4>2. CASE e # d
        BY <4>2, Zenon DEF OthersStay
      <4> QED BY <4>1, <4>2, Zenon
    <3> QED BY <3>1, Zenon DEF Mappers
  <2> QED BY <2>1, Zenon DEF RefsInv
\* Device d maps its region, and takes a reference.
<1>RefsTaken.
  ASSUME RefsInv, NEW d \in Devices, OthersStay(d), request' = request, request[d] \in Regions,
         dpc[d] \notin {"mapped", "direct"}, dpc'[d] \in {"mapped", "direct"},
         refs' = [refs EXCEPT ![request[d]] = @ + 1]
  PROVE  RefsInv'
  <2> USE <1>RefsTaken
  <2>1. ASSUME NEW r, r # request[d] PROVE Mappers(r)' = Mappers(r)
    <3>1. ASSUME NEW e \in Devices
          PROVE  dpc'[e] \in {"mapped", "direct"} /\ request'[e] = r <=> dpc[e] \in {"mapped", "direct"} /\ request[e] = r
      <4>1. CASE e = d
        BY <4>1, <2>1, Zenon
      <4>2. CASE e # d
        BY <4>2, Zenon DEF OthersStay
      <4> QED BY <4>1, <4>2, Zenon
    <3> QED BY <3>1, Zenon DEF Mappers
  <2>2. Mappers(request[d])' = Mappers(request[d]) \cup {d} /\ d \notin Mappers(request[d])
    <3>1. ASSUME NEW e \in Devices
          PROVE  dpc'[e] \in {"mapped", "direct"} /\ request'[e] = request'[d] <=> e = d \/ (dpc[e] \in {"mapped", "direct"} /\ request[e] = request[d])
      <4>1. CASE e = d
        BY <4>1, Zenon
      <4>2. CASE e # d
        BY <4>2, Zenon DEF OthersStay
      <4> QED BY <4>1, <4>2, Zenon
    <3> QED BY <3>1, Zenon DEF Mappers
  <2>3. Cardinality(Mappers(request[d]) \cup {d}) = Cardinality(Mappers(request[d])) + 1
    BY <2>2, <1>MappersFinite, FS_AddElement, Zenon
  <2>4. refs' \in [Regions -> Nat] /\ refs'[request[d]] = refs[request[d]] + 1 /\ \A r \in Regions : r # request[d] => refs'[r] = refs[r]
    BY DEF RefsInv
  <2>5. ASSUME NEW r \in Regions PROVE refs'[r] = Cardinality(Mappers(r)')
    <3>1. CASE r = request[d]
      <4>1. Mappers(r)' = Mappers(request[d]) \cup {d}
        BY <2>2, <3>1, Zenon DEF Mappers
      <4> QED BY <4>1, <2>3, <2>4, <3>1, Zenon DEF RefsInv
    <3>2. CASE r # request[d]
      <4>1. Mappers(r)' = Mappers(r) /\ refs'[r] = refs[r]
        BY <2>1, <2>4, <3>2, Zenon
      <4> QED BY <4>1, Zenon DEF RefsInv
    <3> QED BY <3>1, <3>2, Zenon
  <2> QED BY <2>4, <2>5, Zenon DEF RefsInv
\* Device d lets go of its region, and of the reference.
<1>RefsDropped.
  ASSUME RefsInv, NEW d \in Devices, OthersStay(d), request' = request, request[d] \in Regions,
         dpc[d] \in {"mapped", "direct"}, dpc'[d] \notin {"mapped", "direct"},
         refs' = [refs EXCEPT ![request[d]] = @ - 1]
  PROVE  RefsInv'
  <2> USE <1>RefsDropped
  <2>1. ASSUME NEW r, r # request[d] PROVE Mappers(r)' = Mappers(r)
    <3>1. ASSUME NEW e \in Devices
          PROVE  dpc'[e] \in {"mapped", "direct"} /\ request'[e] = r <=> dpc[e] \in {"mapped", "direct"} /\ request[e] = r
      <4>1. CASE e = d
        BY <4>1, <2>1, Zenon
      <4>2. CASE e # d
        BY <4>2, Zenon DEF OthersStay
      <4> QED BY <4>1, <4>2, Zenon
    <3> QED BY <3>1, Zenon DEF Mappers
  <2>2. Mappers(request[d])' = Mappers(request[d]) \ {d} /\ d \in Mappers(request[d])
    <3>1. ASSUME NEW e \in Devices
          PROVE  dpc'[e] \in {"mapped", "direct"} /\ request'[e] = request'[d] <=> e # d /\ (dpc[e] \in {"mapped", "direct"} /\ request[e] = request[d])
      <4>1. CASE e = d
        BY <4>1, Zenon
      <4>2. CASE e # d
        BY <4>2, Zenon DEF OthersStay
      <4> QED BY <4>1, <4>2, Zenon
    <3> QED BY <3>1, Zenon DEF Mappers
  <2>3. Cardinality(Mappers(request[d]) \ {d}) = Cardinality(Mappers(request[d])) - 1
    BY <2>2, <1>MappersFinite, FS_RemoveElement, Zenon
  <2>4. Cardinality(Mappers(request[d]) \ {d}) \in Nat
    <3>1. IsFiniteSet(Mappers(request[d]) \ {d})
      BY <1>MappersFinite, FS_Subset, Zenon
    <3> QED BY <3>1, FS_CardinalityType, Zenon
  <2>5. refs[request[d]] - 1 \in Nat
    BY <2>3, <2>4, Zenon DEF RefsInv
  <2>6. refs' \in [Regions -> Nat] /\ refs'[request[d]] = refs[request[d]] - 1 /\ \A r \in Regions : r # request[d] => refs'[r] = refs[r]
    BY <2>5, Zenon DEF RefsInv
  <2>7. ASSUME NEW r \in Regions PROVE refs'[r] = Cardinality(Mappers(r)')
    <3>1. CASE r = request[d]
      <4>1. Mappers(r)' = Mappers(request[d]) \ {d}
        BY <2>2, <3>1, Zenon DEF Mappers
      <4> QED BY <4>1, <2>3, <2>6, <3>1, Zenon DEF RefsInv
    <3>2. CASE r # request[d]
      <4>1. Mappers(r)' = Mappers(r) /\ refs'[r] = refs[r]
        BY <2>1, <2>6, <3>2, Zenon
      <4> QED BY <4>1, Zenon DEF RefsInv
    <3> QED BY <3>1, <3>2, Zenon
  <2> QED BY <2>6, <2>7, Zenon DEF RefsInv
<1> SUFFICES ASSUME BounceInv, RefsInv, [BounceNext]_bounceVars PROVE RefsInv'
  BY Zenon
<1>p. BounceTypes /\ dpc \in [Devices -> DevicePlaces] /\ request \in [Devices -> Regions]
  BY Zenon DEF BounceInv, BounceTypes
<1>o. ASSUME NEW d \in Devices, NEW where \in DevicePlaces, DeviceGoes(d, where), \A e \in Devices : e # d => request'[e] = request[e]
      PROVE  OthersStay(d) /\ dpc'[d] = where
  BY <1>o, <1>p, Moved, Zenon DEF OthersStay
<1>1. ASSUME NEW d \in Devices, NEW r \in Regions, Map(d, r) PROVE RefsInv'
  <2>1. DeviceGoes(d, "map") /\ dpc[d] = "idle" /\ refs' = refs /\ \A e \in Devices : e # d => request'[e] = request[e]
    BY <1>1, <1>p, Zenon DEF Map, DeviceAt
  <2>2. OthersStay(d) /\ dpc'[d] = "map"
    BY <2>1, <1>o, Zenon DEF DevicePlaces
  <2> QED BY <2>1, <2>2, <1>RefsSame, Zenon
<1>2. ASSUME NEW d \in Devices, MapDirect(d) PROVE RefsInv'
  <2>1. /\ DeviceGoes(d, "direct") /\ dpc[d] = "map" /\ request' = request /\ request[d] \in Regions
        /\ refs' = [refs EXCEPT ![request[d]] = @ + 1]
    BY <1>2, <1>p, Zenon DEF MapDirect, DeviceAt
  <2>2. OthersStay(d) /\ dpc'[d] = "direct"
    BY <2>1, <1>o, Zenon DEF DevicePlaces
  <2> QED BY <2>1, <2>2, <1>RefsTaken, Zenon
<1>3. ASSUME NEW d \in Devices, FillBounce(d) PROVE RefsInv'
  <2>1. /\ DeviceGoes(d, "mapped") /\ dpc[d] = "fill" /\ request' = request /\ request[d] \in Regions
        /\ refs' = [refs EXCEPT ![request[d]] = @ + 1]
    BY <1>3, <1>p, Zenon DEF FillBounce, DeviceAt
  <2>2. OthersStay(d) /\ dpc'[d] = "mapped"
    BY <2>1, <1>o, Zenon DEF DevicePlaces
  <2> QED BY <2>1, <2>2, <1>RefsTaken, Zenon
<1>4. ASSUME NEW d \in Devices, UnmapDirect(d) PROVE RefsInv'
  <2>1. /\ DeviceGoes(d, "idle") /\ dpc[d] = "direct" /\ request' = request /\ request[d] \in Regions
        /\ refs' = [refs EXCEPT ![request[d]] = @ - 1]
    BY <1>4, <1>p, Zenon DEF UnmapDirect, DeviceAt
  <2>2. OthersStay(d) /\ dpc'[d] = "idle"
    BY <2>1, <1>o, Zenon DEF DevicePlaces
  <2> QED BY <2>1, <2>2, <1>RefsDropped, Zenon
<1>5. ASSUME NEW d \in Devices, UnmapBounce(d) PROVE RefsInv'
  <2>1. /\ DeviceGoes(d, "release") /\ dpc[d] = "mapped" /\ request' = request /\ request[d] \in Regions
        /\ refs' = [r \in Regions |-> IF r \in bounce.mr THEN refs[r] - 1 ELSE refs[r]]
    BY <1>5, <1>p, Zenon DEF UnmapBounce, DeviceAt
  <2>2. OthersStay(d) /\ dpc'[d] = "release"
    BY <2>1, <1>o, Zenon DEF DevicePlaces
  <2>3. bounce.mr = {request[d]}
    BY <2>1 DEF BounceInv, BounceOwned
  <2>4. refs' = [refs EXCEPT ![request[d]] = @ - 1]
    BY <2>1, <2>3, Zenon DEF RefsInv
  <2> QED BY <2>1, <2>2, <2>4, <1>RefsDropped, Zenon
<1>6. ASSUME NEW d \in Devices, TakeBounce(d) PROVE RefsInv'
  <2>1. PICK where \in {"refused", "fill"} : DeviceGoes(d, where)
    BY <1>6, Zenon DEF TakeBounce
  <2>2. dpc[d] = "map" /\ refs' = refs /\ request' = request
    BY <1>6, Zenon DEF TakeBounce, DeviceAt
  <2>3. OthersStay(d) /\ dpc'[d] = where
    BY <2>1, <2>2, <1>o, Zenon DEF DevicePlaces
  <2> QED BY <2>2, <2>3, <1>RefsSame, Zenon
<1>7. ASSUME NEW d \in Devices, RegisterClient(d) \/ CheckInUse(d) \/ RunBh(d) \/ Cancel(d) \/ ReleaseBounce(d) \/ NotifyClients(d) PROVE RefsInv'
  <2>1. PICK where \in {"check", "waiting", "map", "idle", "notify"} : DeviceGoes(d, where)
    BY <1>7, Zenon DEF RegisterClient, CheckInUse, RunBh, Cancel, ReleaseBounce, NotifyClients
  <2>2. dpc[d] \in {"refused", "check", "waiting", "release", "notify"} /\ refs' = refs /\ request' = request
    BY <1>7, Zenon DEF RegisterClient, CheckInUse, RunBh, Cancel, ReleaseBounce, NotifyClients, DeviceAt
  <2>3. OthersStay(d) /\ dpc'[d] = where
    BY <2>1, <2>2, <1>o, Zenon DEF DevicePlaces
  <2> QED BY <2>2, <2>3, <1>RefsSame, Zenon
<1>8. CASE UNCHANGED bounceVars
  BY <1>8, Zenon DEF bounceVars, RefsInv, Mappers
<1>q. ASSUME BounceNext PROVE RefsInv'
  <2>1. PICK d \in Devices : \/ \E r \in Regions : Map(d, r)
                            \/ Cancel(d)
                            \/ DeviceRuns(d)
    BY <1>q, Zenon DEF BounceNext
  <2> QED BY <2>1, <1>1, <1>2, <1>3, <1>4, <1>5, <1>6, <1>7 DEF DeviceRuns
<1> QED BY <1>q, <1>8, Zenon

(* For any devices and regions, every region is referenced once for each   *)
(* mapping of it that address_space_map handed out and address_space_unmap *)
(* has not taken back.                                                     *)
THEOREM RefsCorrect == BounceSpec => []RefsBalanced
<1>1. RefsInv => RefsBalanced
  BY Zenon DEF RefsInv, RefsBalanced, Mappers
<1> QED BY <1>1, BounceInvInit, BounceInvNext, RefsInit, RefsNext, PTL DEF BounceSpec

-----------------------------------------------------------------------------
(* NUMA nodes.                                                             *)

Phases == {"options", "preconfig", "configured", "allocated", "exit"}

NumaTypes ==
  /\ menu \in Menus /\ phase \in Phases
  /\ node = [i \in NodeIds |-> node[i]]
  /\ distance \in [NodeIds -> [NodeIds -> Nat]]
  /\ have_distance \in BOOLEAN

(* Distances as options may set them, before the table is completed.       *)
DistancesValid(D) ==
  /\ \A s, d \in NodeIds : D[s][d] = 0 \/ D[s][d] >= NUMA_DISTANCE_MIN
  /\ \A n \in NodeIds : D[n][n] \in {0, NUMA_DISTANCE_MIN}

NumaInv ==
  /\ NumaTypes
  /\ Open => DistancesValid(distance)
  /\ TableComplete

(* What complete_init_numa_distance makes of a table that passed           *)
(* validate_numa_distance is what TableComplete asks for.                  *)
LEMMA Completion ==
  ASSUME NEW D \in [NodeIds -> [NodeIds -> Nat]], NEW N \in SUBSET NodeIds,
         DistancesValid(D), validate_numa_distance(D, N)
  PROVE  LET C == complete_init_numa_distance(D, N)
             far == {p \in N \X N : p[1] # p[2]}
         IN  /\ C \in [NodeIds -> [NodeIds -> Nat]]
             /\ \A n \in N : C[n][n] = NUMA_DISTANCE_MIN
             /\ \A p \in far : C[p[1]][p[2]] >= NUMA_DISTANCE_MIN /\ D[p[1]][p[2]] \in {0, C[p[1]][p[2]]}
             /\ \/ \A p \in far : C[p[1]][p[2]] = C[p[2]][p[1]]
                \/ \A p \in far : D[p[1]][p[2]] # 0
<1> DEFINE C == complete_init_numa_distance(D, N)
           far == {p \in N \X N : p[1] # p[2]}
<1> USE NumaAssumption
<1>1. C \in [NodeIds -> [NodeIds -> Nat]]
  BY Zenon DEF complete_init_numa_distance
<1>2. \A s, d \in N : C[s][d] = IF D[s][d] # 0 THEN D[s][d]
                                ELSE IF s = d THEN NUMA_DISTANCE_MIN ELSE D[d][s]
  BY Zenon DEF complete_init_numa_distance
<1>3. \A n \in N : C[n][n] = NUMA_DISTANCE_MIN
  BY <1>2, Zenon DEF DistancesValid
<1>4. \A s, d \in N : s # d => C[s][d] >= NUMA_DISTANCE_MIN /\ D[s][d] \in {0, C[s][d]}
  BY <1>2 DEF DistancesValid, validate_numa_distance
<1>5. \/ \A s, d \in N : s # d => C[s][d] = C[d][s]
      \/ \A s, d \in N : s # d => D[s][d] # 0
  BY <1>2 DEF validate_numa_distance
<1> HIDE DEF C
<1>6. \A p \in far : p[1] \in N /\ p[2] \in N /\ p[1] # p[2]
  BY Zenon
<1> QED BY <1>1, <1>3, <1>4, <1>5, <1>6 DEF C

(* An empty numa_info satisfies the invariant.                             *)
LEMMA NumaInvInit == NumaInit => NumaInv
<1> SUFFICES ASSUME NumaInit PROVE NumaInv
  BY Zenon
<1> USE NumaAssumption DEF NumaInit
<1>1. distance \in [NodeIds -> [NodeIds -> Nat]]
  BY Zenon
<1>2. node = [i \in NodeIds |-> node[i]]
  BY Zenon
<1>3. NumaTypes
  BY <1>1, <1>2, Zenon DEF NumaTypes, Phases
<1>4. DistancesValid(distance)
  BY Zenon DEF DistancesValid
<1>5. TableComplete
  BY Zenon DEF TableComplete, Done
<1> QED BY <1>3, <1>4, <1>5, Zenon DEF NumaInv

(* parse_numa_node adds a node or none, and no distance.                   *)
LEMMA AddNodeKeeps ==
  ASSUME NumaInv, NEW o \in menu.nodes, AddNode(o)
  PROVE  NumaInv'
<1> USE DEF NumaInv, NumaTypes
<1> DEFINE n == IF o.nodeid = Absent THEN nb_numa_nodes ELSE o.nodeid
<1>1. UNCHANGED <<menu, distance, have_distance, given>> /\ Open
  BY Zenon DEF AddNode
<1>2. \/ phase' \in {phase, "exit"} /\ UNCHANGED node
      \/ phase' = phase /\ \E r : node' = [node EXCEPT ![n] = r]
  BY Zenon DEF AddNode, parse_numa_node, Refuse
<1> HIDE DEF n
<1>3. phase' \in {phase, "exit"} /\ node' = [i \in NodeIds |-> node'[i]]
  BY <1>2, Zenon
<1> QED BY <1>1, <1>3, Zenon DEF Phases, Open, TableComplete, Done

(* parse_numa_distance lets only valid distances in.                       *)
LEMMA DistanceKeeps ==
  ASSUME NumaInv, NEW t \in menu.distances, parse_numa_distance(t[1], t[2], t[3])
  PROVE  NumaInv'
<1> USE DEF NumaInv, NumaTypes
<1>1. t[1] \in Nat /\ t[2] \in Nat /\ t[3] \in Nat
  BY NumaAssumption, Zenon
<1>2. UNCHANGED <<menu, node, given>> /\ Open
  BY Zenon DEF parse_numa_distance
<1>3. CASE Refuse /\ UNCHANGED <<distance, have_distance>>
  BY <1>2, <1>3, Zenon DEF Refuse, Phases, Open, TableComplete, Done
<1>4. CASE ~(Refuse /\ UNCHANGED <<distance, have_distance>>)
  <2>1. /\ t[1] \in Present /\ t[2] \in Present
        /\ t[3] >= NUMA_DISTANCE_MIN /\ (t[1] = t[2] => t[3] = NUMA_DISTANCE_MIN)
        /\ distance' = [distance EXCEPT ![t[1]][t[2]] = t[3]]
        /\ have_distance' = TRUE /\ UNCHANGED phase
    BY <1>1, <1>4, NumaAssumption DEF parse_numa_distance
  <2>2. t[1] \in NodeIds /\ t[2] \in NodeIds
    BY <2>1, Zenon DEF Present
  <2>3. distance' \in [NodeIds -> [NodeIds -> Nat]] /\ DistancesValid(distance')
    BY <1>1, <1>2, <2>1, <2>2, NumaAssumption, Zenon DEF DistancesValid
  <2> QED BY <1>2, <2>1, <2>3, Zenon DEF Open, TableComplete, Done, Present, DistancesValid
<1> QED BY <1>3, <1>4, Zenon

(* set_numa_options for a CPU changes no node and no distance.             *)
LEMMA CpuKeeps ==
  ASSUME NumaInv, NEW t \in menu.cpus, set_numa_cpu(t[1], t[2])
  PROVE  NumaInv'
<1> USE DEF NumaInv, NumaTypes
<1>1. UNCHANGED <<menu, node, distance, have_distance, given>> /\ Open /\ phase' \in {phase, "exit"}
  BY Zenon DEF set_numa_cpu, Refuse
<1> QED BY <1>1, Zenon DEF Phases, Open, TableComplete, Done, Present

(* numa_complete_configuration completes the table.                        *)
LEMMA CompleteKeeps ==
  ASSUME NumaInv, numa_complete_configuration
  PROVE  NumaInv'
<1> USE DEF NumaInv, NumaTypes
<1>1. PICK N \in SUBSET NodeIds : Configured(N)
  <2>1. {0} \subseteq NodeIds /\ Present \subseteq NodeIds
    BY NumaAssumption DEF NodeIds, Present
  <2>2. Configured({0}) \/ Configured(Present)
    BY Zenon DEF numa_complete_configuration
  <2> QED BY <2>1, <2>2, Zenon
<1>2. UNCHANGED <<menu, have_distance>> /\ given' = distance /\ Open
  BY Zenon DEF numa_complete_configuration
<1>3. CASE phase' = "exit" /\ UNCHANGED <<node, distance>>
  BY <1>2, <1>3, Zenon DEF Phases, Open, TableComplete, Done
<1>4. CASE ~(phase' = "exit" /\ UNCHANGED <<node, distance>>)
  <2>1. /\ phase' = "configured"
        /\ have_distance => validate_numa_distance(distance, N)
        /\ distance' = IF have_distance THEN complete_init_numa_distance(distance, N) ELSE distance
    BY <1>1, <1>4, Zenon DEF Configured
  <2>2. node' = [i \in NodeIds |-> node'[i]] /\ \A i \in NodeIds : node'[i].present = (i \in N)
    BY <1>1, <1>4 DEF Configured
  <2>3. Present' = N
    BY <2>2, Zenon DEF Present
  <2>4. CASE have_distance
    <3> DEFINE C == complete_init_numa_distance(distance, N)
               far == {p \in N \X N : p[1] # p[2]}
    <3>1. /\ C \in [NodeIds -> [NodeIds -> Nat]]
          /\ \A n \in N : C[n][n] = NUMA_DISTANCE_MIN
          /\ \A p \in far : C[p[1]][p[2]] >= NUMA_DISTANCE_MIN /\ distance[p[1]][p[2]] \in {0, C[p[1]][p[2]]}
          /\ \/ \A p \in far : C[p[1]][p[2]] = C[p[2]][p[1]]
             \/ \A p \in far : distance[p[1]][p[2]] # 0
      <4>1. DistancesValid(distance) /\ validate_numa_distance(distance, N)
        BY <1>2, <2>1, <2>4, Zenon
      <4> QED BY <4>1, Completion, Zenon
    <3>2. distance' = C /\ given' = distance /\ Present' = N
      BY <1>2, <2>1, <2>3, <2>4, Zenon
    <3> HIDE DEF C
    <3>3. TableComplete'
      BY <3>1, <3>2, Zenon DEF TableComplete
    <3> QED BY <1>2, <2>1, <2>2, <3>1, <3>2, <3>3, Zenon DEF Phases, Open
  <2>5. CASE ~have_distance
    BY <1>2, <2>1, <2>2, <2>5, Zenon DEF Phases, Open, TableComplete
  <2> QED BY <2>4, <2>5, Zenon
<1> QED BY <1>3, <1>4, Zenon

(* Every step of numa.c keeps the invariant.                               *)
LEMMA NumaInvNext == NumaInv /\ [NumaNext]_numaVars => NumaInv'
<1> SUFFICES ASSUME NumaInv, [NumaNext]_numaVars PROVE NumaInv'
  BY Zenon
<1>1. CASE EnterPreconfig
  BY <1>1, Zenon DEF EnterPreconfig, NumaInv, NumaTypes, Phases, Open, TableComplete, Done, Present
<1>2. CASE allocate_system_memory
  <2>1. /\ UNCHANGED <<menu, node, distance, have_distance, given>>
        /\ phase = "configured" /\ phase' \in {"allocated", "exit"}
    BY <1>2, Zenon DEF allocate_system_memory, allocate_system_memory_nonnuma
  <2> QED BY <2>1, Zenon DEF NumaInv, NumaTypes, Phases, Open, TableComplete, Done, Present
<1>3. CASE UNCHANGED numaVars
  BY <1>3, Zenon DEF numaVars, NumaInv, NumaTypes, Open, TableComplete, Done, Present
<1> QED
  BY <1>1, <1>2, <1>3, AddNodeKeeps, DistanceKeeps, CpuKeeps, CompleteKeeps DEF NumaNext

(* validate_numa_distance lets only such tables pass that                  *)
(* complete_init_numa_distance can complete, whatever options and commands *)
(* came in whatever order.                                                 *)
THEOREM TableCorrect == NumaSpec => []TableComplete
<1>1. NumaInv => TableComplete
  BY Zenon DEF NumaInv
<1> QED BY <1>1, NumaInvInit, NumaInvNext, PTL DEF NumaSpec
=============================================================================
