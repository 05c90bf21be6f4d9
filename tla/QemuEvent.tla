----------------------------- MODULE QemuEvent ------------------------------
(***************************************************************************)
(* QemuEvent of qemu-thread-posix.c: a three-valued word that threads set, *)
(* reset and wait on without a lock, with the futex calls of Linux.        *)
(*                                                                         *)
(* The threads use it the way the thread behind call_rcu (which frees RAM  *)
(* blocks) uses it: setters store that there is work and then set the      *)
(* event; a consumer resets the event, looks for work and waits if there   *)
(* is none.  A store stays in the store buffer of its processor until the  *)
(* processor drains it, or a barrier or a locked instruction makes it.     *)
(***************************************************************************)
EXTENDS Naturals, FiniteSets

CONSTANTS
  Setters,    \* threads that call qemu_event_set
  Consumers,  \* threads that call qemu_event_reset and qemu_event_wait
  MaxPosts    \* bound: calls of qemu_event_set

ASSUME EventAssumption ==
  /\ Setters \cap Consumers = {}
  /\ MaxPosts \in Nat

VARIABLES
  value,     \* ev->value
  epc,       \* where each thread is
  work,      \* there is work, as memory shows it
  buffered,  \* the setters whose store of work is still in their store buffer
  active,    \* the consumers there are
  posts      \* calls of qemu_event_set so far

eventVars == <<value, epc, work, buffered, active, posts>>

EV_SET == 0
EV_FREE == 1
EV_BUSY == 2

SetPlaces == {"idle", "barrier", "load", "xchg", "wake"}
ConsumePlaces == {"off", "reset", "or", "check", "wait", "cas", "futex", "asleep"}

Goto(t, from, to) == epc[t] = from /\ epc' = [epc EXCEPT ![t] = to]

(* qemu_event_init.                                                        *)
EventInit(initial, consumers) ==
  /\ value = IF initial THEN EV_SET ELSE EV_FREE
  /\ epc = [t \in Setters \cup Consumers |->
              IF t \in Setters THEN "idle" ELSE IF t \in consumers THEN "reset" ELSE "off"]
  /\ work = FALSE
  /\ buffered = {}
  /\ active = consumers
  /\ posts = 0

-----------------------------------------------------------------------------
(* qemu_event_set.                                                         *)

(* The setter has work for the consumer and calls qemu_event_set.          *)
Post(s) ==
  /\ posts < MaxPosts
  /\ Goto(s, "idle", "barrier")
  /\ buffered' = buffered \cup {s}
  /\ posts' = posts + 1
  /\ UNCHANGED <<value, work, active>>

Drain(s) ==
  /\ s \in buffered
  /\ buffered' = buffered \ {s}
  /\ work' = TRUE
  /\ UNCHANGED <<value, epc, active, posts>>

\* Fault: there is no barrier.
SetBarrier_none(s) ==
  /\ Goto(s, "barrier", "load")
  /\ UNCHANGED <<value, work, buffered, active, posts>>

(* smp_mb().                                                               *)
SetBarrier(s) ==
  /\ s \notin buffered
  /\ Goto(s, "barrier", "load")
  /\ UNCHANGED <<value, work, buffered, active, posts>>

SetLoad(s) ==
  /\ Goto(s, "load", IF value = EV_SET THEN "idle" ELSE "xchg")
  /\ UNCHANGED <<value, work, buffered, active, posts>>

SetXchg(s) ==
  /\ s \notin buffered
  /\ Goto(s, "xchg", IF value = EV_BUSY THEN "wake" ELSE "idle")
  /\ value' = EV_SET
  /\ UNCHANGED <<work, buffered, active, posts>>

(* qemu_futex_wake(ev, INT_MAX): every waiter returns to its loop.         *)
SetWake(s) ==
  /\ epc[s] = "wake"
  /\ epc' = [t \in Setters \cup Consumers |->
               IF t = s THEN "idle" ELSE IF epc[t] = "asleep" THEN "reset" ELSE epc[t]]
  /\ UNCHANGED <<value, work, buffered, active, posts>>

Set(s) == SetBarrier(s) \/ SetLoad(s) \/ SetXchg(s) \/ SetWake(s)

-----------------------------------------------------------------------------
(* qemu_event_reset and qemu_event_wait.                                   *)

ResetLoad(c) ==
  /\ Goto(c, "reset", IF value = EV_SET THEN "or" ELSE "check")
  /\ UNCHANGED <<value, work, buffered, active, posts>>

(* atomic_or(&ev->value, EV_FREE) leaves EV_FREE and EV_BUSY as they are.  *)
ResetOr(c) ==
  /\ Goto(c, "or", "check")
  /\ value' = IF value = EV_SET THEN EV_FREE ELSE value
  /\ UNCHANGED <<work, buffered, active, posts>>

Check(c) ==
  /\ Goto(c, "check", IF work THEN "reset" ELSE "wait")
  /\ work' = FALSE
  /\ UNCHANGED <<value, buffered, active, posts>>

WaitLoad(c) ==
  /\ Goto(c, "wait", CASE value = EV_SET -> "reset"
                       [] value = EV_FREE -> "cas"
                       [] OTHER -> "futex")
  /\ UNCHANGED <<value, work, buffered, active, posts>>

WaitCas(c) ==
  /\ Goto(c, "cas", IF value = EV_SET THEN "reset" ELSE "futex")
  /\ value' = IF value = EV_FREE THEN EV_BUSY ELSE value
  /\ UNCHANGED <<work, buffered, active, posts>>

(* qemu_futex_wait(ev, EV_BUSY): the kernel compares, then sleeps.         *)
FutexWait(c) ==
  /\ Goto(c, "futex", IF value = EV_BUSY THEN "asleep" ELSE "reset")
  /\ UNCHANGED <<value, work, buffered, active, posts>>

(* A signal ends the sleep with EINTR and qemu_futex_wait starts over.     *)
Interrupt(c) ==
  /\ Goto(c, "asleep", "futex")
  /\ UNCHANGED <<value, work, buffered, active, posts>>

Wait(c) == WaitLoad(c) \/ WaitCas(c) \/ FutexWait(c)
Consume(c) == ResetLoad(c) \/ ResetOr(c) \/ Check(c) \/ Wait(c)

EventNext ==
  \/ \E s \in Setters : Post(s) \/ Drain(s) \/ Set(s)
  \/ \E c \in Consumers : Consume(c) \/ Interrupt(c)

EventSpec ==
  /\ \E initial \in BOOLEAN, consumers \in SUBSET Consumers : EventInit(initial, consumers)
  /\ [][EventNext]_eventVars

(* The threads run and store buffers drain; nobody need post, and signals  *)
(* need not come.                                                          *)
EventFairness ==
  /\ \A s \in Setters : WF_eventVars(Set(s)) /\ WF_eventVars(Drain(s))
  /\ \A c \in Consumers : WF_eventVars(Consume(c))

-----------------------------------------------------------------------------
EventTypeOK ==
  /\ value \in {EV_SET, EV_FREE, EV_BUSY}
  /\ epc \in [Setters \cup Consumers -> SetPlaces \cup ConsumePlaces]
  /\ \A s \in Setters : epc[s] \in SetPlaces
  /\ \A c \in Consumers : epc[c] \in ConsumePlaces
  /\ work \in BOOLEAN
  /\ buffered \subseteq Setters
  /\ active \subseteq Consumers
  /\ posts \in 0..MaxPosts

(* Whoever sleeps in qemu_event_wait will be woken by the next             *)
(* qemu_event_set, or by one that is about to call qemu_futex_wake, however*)
(* many threads reset the event and wait on it.                            *)
NoLostWakeup ==
  \A c \in Consumers : epc[c] = "asleep" =>
    value = EV_BUSY \/ \E s \in Setters : epc[s] = "wake"

(* "busy->free provably cannot happen" (qemu-thread-posix.c), which is why *)
(* qemu_event_wait need not retry its compare-and-swap.                    *)
NoBusyToFree == [][value = EV_BUSY => value' # EV_FREE]_eventVars

(* With one consumer, work that memory shows never waits behind a sleeping *)
(* consumer unless a setter is still inside qemu_event_set: what the full  *)
(* barrier at its start is for.                                            *)
WorkNoticed ==
  \A c \in Consumers : active = {c} /\ epc[c] = "asleep" /\ work =>
    \E s \in Setters : epc[s] # "idle"

(* With one consumer, work that is posted is eventually taken.             *)
WorkDone == Cardinality(active) = 1 /\ work ~> ~work
=============================================================================
