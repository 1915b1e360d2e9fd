----------------------------- MODULE TaskSystem -----------------------------
(***************************************************************************)
(* What scheduler.h (lines 83-109) promises: one task runs at a time; a    *)
(* ready task runs in its turn; a task that yields or is preempted waits   *)
(* its turn again; a task that sleeps, blocks or exits is not rescheduled  *)
(* until its time has come, until it is unblocked, or ever.                *)
(***************************************************************************)
EXTENDS Integers, Sequences

CONSTANTS
  Task,
  Boot,      \* the task of the context the kernel starts in
  Nobody     \* not a task

VARIABLES
  running,   \* the task that owns the CPU, or Nobody
  ready,     \* the runnable tasks in the order in which they will run
  waiting,   \* the blocked tasks
  sleeping,  \* the sleeping tasks
  left       \* ticks each sleeping task still has to wait

vars == <<running, ready, waiting, sleeping, left>>

Runnable == {ready[i] : i \in DOMAIN ready}
Idle == Task \ ({running} \cup Runnable \cup waiting \cup sleeping)

Init ==
  /\ running = Boot
  /\ ready = <<>>
  /\ waiting = {}
  /\ sleeping = {}
  /\ left = [t \in Task |-> 0]

\* A new task is created, or the boot context is interrupted while idle.
Start(t) ==
  /\ t \in Idle
  /\ ready' = Append(ready, t)
  /\ UNCHANGED <<running, waiting, sleeping>>

Run ==
  /\ running = Nobody /\ ready # <<>>
  /\ running' = Head(ready)
  /\ ready' = Tail(ready)
  /\ UNCHANGED <<waiting, sleeping, left>>

\* do_yield() or preemption.
GiveUp ==
  /\ running # Nobody
  /\ running' = Nobody
  /\ ready' = Append(ready, running)
  /\ UNCHANGED <<waiting, sleeping>>

Exit ==
  /\ running # Nobody
  /\ running' = Nobody
  /\ UNCHANGED <<ready, waiting, sleeping, left>>

Block ==
  /\ running # Nobody
  /\ running' = Nobody
  /\ waiting' = waiting \cup {running}
  /\ UNCHANGED <<ready, sleeping, left>>

Unblock(t) ==
  /\ t \in waiting
  /\ waiting' = waiting \ {t}
  /\ ready' = Append(ready, t)
  /\ UNCHANGED <<running, sleeping, left>>

Sleep ==
  /\ running # Nobody
  /\ running' = Nobody
  /\ sleeping' = sleeping \cup {running}
  /\ left'[running] \in Nat \ {0}
  /\ left' = [left EXCEPT ![running] = left'[running]]
  /\ UNCHANGED <<ready, waiting>>

Wake(t) ==
  /\ t \in sleeping /\ left[t] = 0
  /\ sleeping' = sleeping \ {t}
  /\ ready' = Append(ready, t)
  /\ UNCHANGED <<running, waiting, left>>

Elapse == left' = [t \in Task |-> IF left[t] = 0 THEN 0 ELSE left[t] - 1]

\* A timer interrupt that creates work is one step with the passing of time.
Next ==
  \/ Run \/ Exit \/ Block \/ Sleep
  \/ GiveUp /\ (Elapse \/ UNCHANGED left)
  \/ Elapse /\ UNCHANGED <<running, ready, waiting, sleeping>>
  \/ \E t \in Task : Start(t) /\ (Elapse \/ UNCHANGED left)
  \/ \E t \in Task : Unblock(t) \/ Wake(t)

Spec == Init /\ [][Next]_vars
=============================================================================
