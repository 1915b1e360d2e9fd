------------------------------- MODULE MCSync -------------------------------
(* The instances of Sync that are checked: tasks that use one kind of object *)
(* in any way, and the programs of module Programs.                          *)
EXTENDS Programs

CONSTANTS t1, t2, t3, f1, f2, f3

PermitsOf == [s \in Semaphore |-> IF s \in {f1, f2, f3} THEN 1 ELSE 2]
AllTasks == [b \in Barrier |-> Cardinality(Task)]
Table == 0 .. 2
Philosophers == [id \in Table |-> <<t1, t2, t3>>[id + 1]]
ForksOnTable == [id \in Table |-> <<f1, f2, f3>>[id + 1]]

VARIABLE kind   \* what all tasks do: a choice made once

MCInit ==
  /\ Init
  /\ ProgramInit
  /\ kind \in {"locks", "semaphores", "barriers", "monitor", "barrier_test", "philosophers"}

FreeStep(t) ==
  /\ \/ kind \in {"locks", "semaphores", "barriers"} /\ GiveBack(t)
     \/ kind = "locks" /\ Acquire(t)
     \/ kind = "locks" /\ \E c \in Condition : ConditionSignal(t, c) \/ ConditionBroadcast(t, c)
     \/ kind = "semaphores" /\ \E s \in Semaphore \ {f1, f2, f3} : SemaphoreDown(t, s)
     \/ kind = "barriers" /\ Arrive(t)
  /\ UNCHANGED programVars

ProgramStep(t) ==
  \/ kind = "monitor" /\ MonitorStep(t)
  \/ kind = "barrier_test" /\ BarrierStep(t)
  \/ kind = "philosophers" /\ PhilosopherStep(t)

MCNext == (\E t \in Task : ReturnToProgram(t) \/ FreeStep(t) \/ ProgramStep(t)) /\ UNCHANGED kind

allVars == <<vars, programVars, kind>>
MCSpec ==
  /\ MCInit /\ [][MCNext]_allVars
  /\ Fairness /\ \A t \in Task : WF_allVars(ProgramStep(t) /\ UNCHANGED kind)
=============================================================================
