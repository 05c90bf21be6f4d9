--------------------------- MODULE QemuSemaphore ----------------------------
(***************************************************************************)
(* QemuSemaphore of qemu-thread-posix.c in its two builds: on top of sem_t *)
(* (CONFIG_SEM_TIMEDWAIT) and of a mutex, a condition variable and a count.*)
(* What a thread does while it holds sem->lock is one step, up to the next *)
(* pthread_cond_wait.                                                      *)
(***************************************************************************)
EXTENDS Naturals, FiniteSets

CONSTANTS
  Waiters,    \* threads that call qemu_sem_wait or qemu_sem_timedwait
  UINT_MAX,   \* the largest count
  MaxSemPosts \* bound: calls of qemu_sem_post

ASSUME SemAssumption ==
  /\ UINT_MAX \in Nat \ {0} /\ MaxSemPosts \in Nat
  /\ IsFiniteSet(Waiters)

VARIABLES
  build,   \* "sem_t" or "cond"
  count,   \* sem->count, or the value of sem->sem
  spc,     \* where each waiter is
  timed,   \* the waiters that called qemu_sem_timedwait
  posted,  \* the initial count and the posts so far
  taken,   \* waits that returned 0
  running  \* FALSE once error_exit has ended the process

semVars == <<build, count, spc, timed, posted, taken, running>>

At(w, where) == running /\ spc[w] = where
In(where) == {w \in Waiters : spc[w] = where}

(* qemu_sem_init.                                                          *)
SemInit(b, n) ==
  /\ build = b
  /\ count = n
  /\ spc = [w \in Waiters |-> "idle"]
  /\ timed = {}
  /\ posted = n
  /\ taken = 0
  /\ running = TRUE

(* qemu_sem_post; pthread_cond_signal wakes one of the threads that wait.  *)
SemPost ==
  /\ running /\ posted < MaxSemPosts
  /\ IF count = UINT_MAX
     THEN running' = FALSE /\ UNCHANGED <<count, spc, posted>>
     ELSE /\ count' = count + 1
          /\ posted' = posted + 1
          /\ IF build = "sem_t" \/ In("blocked") = {}
             THEN UNCHANGED spc
             ELSE \E w \in In("blocked") : spc' = [spc EXCEPT ![w] = "woken"]
          /\ UNCHANGED running
  /\ UNCHANGED <<build, timed, taken>>

(* A call of qemu_sem_wait, or of qemu_sem_timedwait with ms > 0.          *)
SemWait(w, t) ==
  /\ At(w, "idle")
  /\ spc' = [spc EXCEPT ![w] = "enter"]
  /\ timed' = IF t THEN timed \cup {w} ELSE timed \ {w}
  /\ UNCHANGED <<build, count, posted, taken, running>>

(* sem_wait, or the loop on sem->count, finds a positive count.            *)
Take(w) ==
  /\ At(w, "enter") \/ At(w, "woken")
  /\ count > 0
  /\ count' = count - 1 /\ taken' = taken + 1
  /\ spc' = [spc EXCEPT ![w] = "idle"]
  /\ UNCHANGED <<build, timed, posted, running>>

(* pthread_cond_wait and pthread_cond_timedwait release the lock and sleep.*)
CondWait(w) ==
  /\ build = "cond"
  /\ At(w, "enter") \/ At(w, "woken")
  /\ count = 0
  /\ spc' = [spc EXCEPT ![w] = "blocked"]
  /\ UNCHANGED <<build, count, timed, posted, taken, running>>

(* pthread_cond_wait may return although nobody signalled.                 *)
SpuriousWakeup(w) ==
  /\ At(w, "blocked")
  /\ spc' = [spc EXCEPT ![w] = "woken"]
  /\ UNCHANGED <<build, count, timed, posted, taken, running>>

\* Fault: a waiter that was woken gives up at its deadline.
TimeOut_woken(w) ==
  /\ w \in timed
  /\ (build = "sem_t" /\ At(w, "enter") /\ count = 0) \/ At(w, "blocked") \/ At(w, "woken")
  /\ spc' = [spc EXCEPT ![w] = "idle"]
  /\ UNCHANGED <<build, count, timed, posted, taken, running>>

\* Fault: the count is taken at the deadline too.
TimeOut_takes(w) ==
  /\ w \in timed
  /\ (build = "sem_t" /\ At(w, "enter") /\ count = 0) \/ At(w, "blocked")
  /\ spc' = [spc EXCEPT ![w] = "idle"]
  /\ count' = count - 1
  /\ UNCHANGED <<build, timed, posted, taken, running>>

(* The deadline passes: ETIMEDOUT leaves the loop without taking.          *)
TimeOut(w) ==
  /\ w \in timed
  /\ (build = "sem_t" /\ At(w, "enter") /\ count = 0) \/ At(w, "blocked")
  /\ spc' = [spc EXCEPT ![w] = "idle"]
  /\ UNCHANGED <<build, count, timed, posted, taken, running>>

(* qemu_sem_timedwait with ms <= 0 on sem_t: it takes or returns -1.       *)
TryWait(w) ==
  /\ build = "sem_t" /\ At(w, "idle")
  /\ IF count > 0 THEN count' = count - 1 /\ taken' = taken + 1 ELSE UNCHANGED <<count, taken>>
  /\ UNCHANGED <<build, spc, timed, posted, running>>

SemRun(w) == Take(w) \/ CondWait(w) \/ TryWait(w)

SemNext ==
  \/ SemPost
  \/ \E w \in Waiters : SemWait(w, TRUE) \/ SemWait(w, FALSE) \/ SemRun(w) \/ SpuriousWakeup(w) \/ TimeOut(w)

SemSpec ==
  /\ \E b \in {"sem_t", "cond"}, n \in 0..UINT_MAX : SemInit(b, n)
  /\ [][SemNext]_semVars

(* A thread inside a wait that need not sleep goes on.                     *)
SemFairness == \A w \in Waiters : WF_semVars(Take(w) \/ CondWait(w))

-----------------------------------------------------------------------------
SemTypeOK ==
  /\ build \in {"sem_t", "cond"}
  /\ count \in 0..UINT_MAX
  /\ spc \in [Waiters -> {"idle", "enter", "blocked", "woken"}]
  /\ timed \subseteq Waiters
  /\ posted \in Nat /\ taken \in Nat
  /\ running \in BOOLEAN

(* Every post lets exactly one wait return, whatever timeouts and spurious *)
(* wakeups fall between: the count is neither lost nor used twice.         *)
SemConserved == count + taken = posted

(* A post is never stranded: while threads sleep on the condition variable *)
(* (build without sem_timedwait), there are at least as many woken threads *)
(* on their way to the count as the count has units.                       *)
NoStrandedPost == In("blocked") # {} => count <= Cardinality(In("woken"))

(* A positive count does not stay while a thread waits for it.             *)
PostsServed ==
  count > 0 /\ running /\ In("idle") # Waiters
    ~> count = 0 \/ ~running \/ In("idle") = Waiters
=============================================================================
