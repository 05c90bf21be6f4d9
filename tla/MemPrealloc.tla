---------------------------- MODULE MemPrealloc -----------------------------
(***************************************************************************)
(* os_mem_prealloc of oslib-posix.c: threads touch every page of an area   *)
(* so that the kernel must find memory for it now.  A page for which there *)
(* is none raises SIGBUS in the thread that touches it; the handler finds  *)
(* the thread in memset_thread and jumps out of its loop.                  *)
(***************************************************************************)
EXTENDS Integers

CONSTANTS
  MaxPages,                        \* bound: pages of the area
  HostProcs,                       \* processors of the host, or -1
  MAX_MEM_PREALLOC_THREAD_COUNT,
  MaxCpus                          \* bound: smp_cpus

ASSUME PreallocAssumption ==
  /\ MaxPages \in Nat /\ HostProcs \in Int
  /\ MAX_MEM_PREALLOC_THREAD_COUNT \in Nat \ {0} /\ MaxCpus \in Nat \ {0}

VARIABLES
  numpages,  \* pages of the area
  threads,   \* memset_num_threads
  lacking,   \* pages the kernel has no memory for
  mpc,       \* where the caller is
  nth,       \* i, the thread the caller creates or joins
  handler,   \* action of SIGBUS
  table,     \* the slots of memset_thread whose pgthread is written; NoTable if it is NULL
  tpc,       \* where each thread is
  next,      \* the page each thread touches next
  touched,   \* pages touched
  failed     \* memset_thread_failed

preallocVars == <<numpages, threads, lacking, mpc, nth, handler, table, tpc, next, touched, failed>>

NoTable == {-1}
Ids == 0..(MAX_MEM_PREALLOC_THREAD_COUNT - 1)
Min2(a, b) == IF a < b THEN a ELSE b

get_memset_num_threads(smp_cpus) ==
  IF HostProcs > 0 THEN Min2(Min2(HostProcs, MAX_MEM_PREALLOC_THREAD_COUNT), smp_cpus) ELSE 1

\* Fault: the last thread gets no more pages than the others.
Upto_even(i) == (i + 1) * (numpages \div threads)

(* The pages of thread i are First(i)..Upto(i) - 1.                        *)
First(i) == i * (numpages \div threads)
Upto(i) == IF i = threads - 1 THEN numpages ELSE (i + 1) * (numpages \div threads)

PreallocInit(n, smp_cpus, bad) ==
  /\ numpages = n
  /\ threads = get_memset_num_threads(smp_cpus)
  /\ lacking = bad
  /\ mpc = "install" /\ nth = 0
  /\ handler = "old" /\ table = NoTable
  /\ tpc = [i \in Ids |-> "none"] /\ next = [i \in Ids |-> 0]
  /\ touched = {} /\ failed = FALSE

-----------------------------------------------------------------------------
(* The caller: os_mem_prealloc and touch_all_pages.  With these arguments  *)
(* sigaction has no reason to fail.                                        *)

InstallHandler ==
  /\ mpc = "install"
  /\ handler' = "sigbus_handler"
  /\ mpc' = "create" /\ table' = {}
  /\ UNCHANGED <<numpages, threads, lacking, nth, tpc, next, touched, failed>>

(* qemu_thread_create: the thread may run before its number is known.      *)
CreateThread ==
  /\ mpc = "create"
  /\ tpc' = [tpc EXCEPT ![nth] = "start"]
  /\ next' = [next EXCEPT ![nth] = First(nth)]
  /\ mpc' = "known"
  /\ UNCHANGED <<numpages, threads, lacking, nth, handler, table, touched, failed>>

ThreadKnown ==
  /\ mpc = "known"
  /\ table' = table \cup {nth}
  /\ nth' = (nth + 1) % threads
  /\ mpc' = IF nth + 1 < threads THEN "create" ELSE "join"
  /\ UNCHANGED <<numpages, threads, lacking, handler, tpc, next, touched, failed>>

(* qemu_thread_join, and after the last one g_free.                        *)
Join ==
  /\ mpc = "join" /\ tpc[nth] = "done"
  /\ nth' = (nth + 1) % threads
  /\ IF nth + 1 < threads
     THEN UNCHANGED <<mpc, table>>
     ELSE mpc' = "restore" /\ table' = NoTable
  /\ UNCHANGED <<numpages, threads, lacking, handler, tpc, next, touched, failed>>

RestoreHandler ==
  /\ mpc = "restore"
  /\ handler' = "old"
  /\ mpc' = "return"
  /\ UNCHANGED <<numpages, threads, lacking, nth, table, tpc, next, touched, failed>>

-----------------------------------------------------------------------------
(* The threads: do_touch_pages and sigbus_handler.                         *)

(* SIGBUS is blocked when the thread starts (qemu_thread_create).          *)
UnblockSigbus(i) ==
  /\ tpc[i] = "start"
  /\ tpc' = [tpc EXCEPT ![i] = "touch"]
  /\ UNCHANGED <<numpages, threads, lacking, mpc, nth, handler, table, next, touched, failed>>

TouchPage(i) ==
  /\ tpc[i] = "touch"
  /\ IF next[i] < Upto(i)
     THEN /\ next[i] \notin lacking
          /\ touched' = touched \cup {next[i]}
          /\ next' = [next EXCEPT ![i] = @ + 1]
          /\ UNCHANGED tpc
     ELSE tpc' = [tpc EXCEPT ![i] = "done"] /\ UNCHANGED <<next, touched>>
  /\ UNCHANGED <<numpages, threads, lacking, mpc, nth, handler, table, failed>>

(* A handler that does not find the thread returns, and the fault comes    *)
(* back until it does.  PreallocHonest says that it is always there.       *)
Sigbus(i) ==
  /\ tpc[i] = "touch" /\ next[i] < Upto(i) /\ next[i] \in lacking
  /\ handler = "sigbus_handler" /\ i \in table
  /\ tpc' = [tpc EXCEPT ![i] = "done"]
  /\ failed' = TRUE
  /\ UNCHANGED <<numpages, threads, lacking, mpc, nth, handler, table, next, touched>>

CallerRuns == InstallHandler \/ CreateThread \/ ThreadKnown \/ Join \/ RestoreHandler
ThreadRuns(i) == UnblockSigbus(i) \/ TouchPage(i) \/ Sigbus(i)

PreallocNext == CallerRuns \/ \E i \in Ids : ThreadRuns(i)
PreallocSpec ==
  /\ \E n \in 0..MaxPages, cpus \in 1..MaxCpus : \E bad \in SUBSET (0..(n - 1)) : PreallocInit(n, cpus, bad)
  /\ [][PreallocNext]_preallocVars
PreallocFairness == WF_preallocVars(CallerRuns) /\ \A i \in Ids : WF_preallocVars(ThreadRuns(i))

-----------------------------------------------------------------------------
(* When os_mem_prealloc returns it reports an error if and only if memory  *)
(* for some page was lacking, and if it reports none every page is there.  *)
(* Until then a SIGBUS of a touching thread finds sigbus_handler and the   *)
(* table with the thread, or a caller about to enter it there.             *)
PreallocHonest ==
  /\ mpc = "return" => /\ failed <=> lacking # {}
                       /\ failed \/ touched = 0..(numpages - 1)
  /\ \A i \in Ids : tpc[i] \in {"start", "touch"} =>
       /\ handler = "sigbus_handler"
       /\ i \in table \/ (mpc = "known" /\ nth = i)
=============================================================================
