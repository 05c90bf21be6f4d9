----------------------------- MODULE MCThreads ------------------------------
(***************************************************************************)
(* The primitives of qemu-thread-posix.c and oslib-posix.c, and the bounce *)
(* buffer of exec.c.  They do not call each other, so each behaviour       *)
(* exercises one of them, from every way it can be initialised.            *)
(***************************************************************************)
EXTENDS QemuEvent, QemuSemaphore, MemPrealloc, QemuFork, Bounce

VARIABLE using

vars == <<eventVars, semVars, preallocVars, forkVars, bounceVars, using>>

\* The initial states of the parts that a behaviour does not exercise.
NoEvent == EventInit(TRUE, {})
NoSem == SemInit("cond", 0)
NoPrealloc == PreallocInit(0, 1, {})
NoFork == ForkInit({}, {})

Init ==
  \/ /\ using = "event"
     /\ \E initial \in BOOLEAN, c \in SUBSET Consumers : EventInit(initial, c)
     /\ NoSem /\ NoPrealloc /\ NoFork /\ BounceInit
  \/ /\ using = "semaphore"
     /\ \E b \in {"sem_t", "cond"}, n \in 0..UINT_MAX : SemInit(b, n)
     /\ NoEvent /\ NoPrealloc /\ NoFork /\ BounceInit
  \/ /\ using = "prealloc"
     /\ \E n \in 0..MaxPages, cpus \in 1..MaxCpus : \E bad \in SUBSET (0..(n - 1)) : PreallocInit(n, cpus, bad)
     /\ NoEvent /\ NoSem /\ NoFork /\ BounceInit
  \/ /\ using = "fork"
     /\ \E blocked, handled \in SUBSET Signals : ForkInit(blocked, handled)
     /\ NoEvent /\ NoSem /\ NoPrealloc /\ BounceInit
  \/ /\ using = "bounce"
     /\ NoEvent /\ NoSem /\ NoPrealloc /\ NoFork /\ BounceInit

Next ==
  /\ UNCHANGED using
  /\ \/ using = "event" /\ EventNext /\ UNCHANGED <<semVars, preallocVars, forkVars, bounceVars>>
     \/ using = "semaphore" /\ SemNext /\ UNCHANGED <<eventVars, preallocVars, forkVars, bounceVars>>
     \/ using = "prealloc" /\ PreallocNext /\ UNCHANGED <<eventVars, semVars, forkVars, bounceVars>>
     \/ using = "fork" /\ ForkNext /\ UNCHANGED <<eventVars, semVars, preallocVars, bounceVars>>
     \/ using = "bounce" /\ BounceNext /\ UNCHANGED <<eventVars, semVars, preallocVars, forkVars>>

\* In their initial states the other parts have nothing to do.
Fairness ==
  /\ EventFairness /\ SemFairness /\ BounceFairness
  /\ using = "prealloc" => PreallocFairness

Spec == Init /\ [][Next]_vars /\ Fairness

(* os_mem_prealloc returns, when it is called.                             *)
Returns == using = "prealloc" /\ mpc = "install" ~> mpc = "return"

(* No wait lasts for ever: work is noticed by the one consumer of an event *)
(* (qemu_event_wait), a count is used by those who wait for it             *)
(* (qemu_sem_wait), os_mem_prealloc returns, and a client of the bounce    *)
(* buffer is notified (cpu_register_map_client).                           *)
WaitsEnd == WorkDone /\ PostsServed /\ Returns /\ ClientNotified
=============================================================================
