------------------------------ MODULE QemuFork ------------------------------
(***************************************************************************)
(* qemu_fork of oslib-posix.c: all signals are blocked around fork(), the  *)
(* parent gets its mask back, the child resets every signal to its default *)
(* action before it unblocks them all.  Signals may arrive at any moment.  *)
(***************************************************************************)
EXTENDS FiniteSets

CONSTANT Signals

VARIABLES
  forkPc,    \* where each process is
  mask,      \* blocked signals of each process
  action,    \* action of each signal in each process
  pending,   \* signals that have arrived and are blocked
  caught,    \* processes in which a handler of the parent ran during the call
  oldmask    \* the mask of the caller

forkVars == <<forkPc, mask, action, pending, caught, oldmask>>

Processes == {"parent", "child"}

ForkInit(blocked, handled) ==
  /\ forkPc = [p \in Processes |-> IF p = "parent" THEN "block" ELSE "none"]
  /\ mask = [p \in Processes |-> blocked]
  /\ action = [p \in Processes |-> [s \in Signals |-> IF s \in handled THEN "handler" ELSE "default"]]
  /\ pending = [p \in Processes |-> {}]
  /\ caught = {}
  /\ oldmask = blocked

Step(p, from, to) == forkPc[p] = from /\ forkPc' = [forkPc EXCEPT ![p] = to]

BlockSignals ==
  /\ Step("parent", "block", "fork")
  /\ mask' = [mask EXCEPT !["parent"] = Signals]
  /\ UNCHANGED <<action, pending, caught, oldmask>>

(* The child inherits mask and actions, and no pending signals.            *)
Fork ==
  /\ forkPc["parent"] = "fork"
  /\ forkPc' = [p \in Processes |-> IF p = "parent" THEN "restore" ELSE "clear"]
  /\ mask' = [mask EXCEPT !["child"] = mask["parent"]]
  /\ UNCHANGED <<action, pending, caught, oldmask>>

ForkFails ==
  /\ Step("parent", "fork", "restore")
  /\ UNCHANGED <<mask, action, pending, caught, oldmask>>

RestoreMask ==
  /\ Step("parent", "restore", "return")
  /\ mask' = [mask EXCEPT !["parent"] = oldmask]
  /\ UNCHANGED <<action, pending, caught, oldmask>>

(* One turn of the loop of sigaction calls.                                *)
ClearHandler(s) ==
  /\ forkPc["child"] = "clear"
  /\ action["child"][s] # "default"
  /\ action' = [action EXCEPT !["child"][s] = "default"]
  /\ UNCHANGED <<forkPc, mask, pending, caught, oldmask>>

\* Fault: the child unblocks signals before it resets their actions.
UnblockSignals_first ==
  /\ Step("child", "clear", "return")
  /\ mask' = [mask EXCEPT !["child"] = {}]
  /\ UNCHANGED <<action, pending, caught, oldmask>>

UnblockSignals ==
  /\ \A s \in Signals : action["child"][s] = "default"
  /\ Step("child", "clear", "return")
  /\ mask' = [mask EXCEPT !["child"] = {}]
  /\ UNCHANGED <<action, pending, caught, oldmask>>

Arrive(p, s) ==
  /\ forkPc[p] # "none"
  /\ pending' = [pending EXCEPT ![p] = @ \cup {s}]
  /\ UNCHANGED <<forkPc, mask, action, caught, oldmask>>

Deliver(p, s) ==
  /\ s \in pending[p] \ mask[p]
  /\ pending' = [pending EXCEPT ![p] = @ \ {s}]
  /\ caught' = IF action[p][s] = "handler" THEN caught \cup {p} ELSE caught
  /\ UNCHANGED <<forkPc, mask, action, oldmask>>

ForkNext ==
  \/ BlockSignals \/ Fork \/ ForkFails \/ RestoreMask \/ UnblockSignals
  \/ \E s \in Signals : ClearHandler(s) \/ \E p \in Processes : Arrive(p, s) \/ Deliver(p, s)

\* The caller may block any signals and handle any.
ForkSpec == (\E blocked, handled \in SUBSET Signals : ForkInit(blocked, handled)) /\ [][ForkNext]_forkVars

-----------------------------------------------------------------------------
(* "block signals now, so that child process can safely kill off caller's  *)
(* signal handlers without a race" (oslib-posix.c): no handler of the      *)
(* parent ever runs in the child.                                          *)
ChildRunsNoHandler == "child" \notin caught
=============================================================================
