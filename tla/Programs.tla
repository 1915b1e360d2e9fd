------------------------------ MODULE Programs ------------------------------
(***************************************************************************)
(* The threads of project4_start_code that test sync.c, as its users: the  *)
(* monitor of th2.c, barrier_test.c and philosophers.c.  A step is a call  *)
(* of sync.c or what a thread does between two calls; do_yield(),          *)
(* do_sleep() and printing change nothing here, since any ready thread may *)
(* run between any two steps.                                              *)
(***************************************************************************)
EXTENDS Sync

CONSTANTS
  thread2, thread3,            \* th2.c
  l, c0mod3, cnot0mod3,
  Turns,                       \* bound: the 100 turns of thread3, half of those of thread2
  Signals,                     \* the 20 of th2.c: from there on it broadcasts
  BarrierThread, barrier1,     \* barrier_test.c
  barrier,
  NUM_ITERATIONS,              \* bound: 1000 in the code
  NUM_PHILOSOPHERS,            \* philosophers.c
  Philosopher, fork            \* functions of 0 .. NUM_PHILOSOPHERS - 1

ASSUME ProgramsAssumption ==
  /\ {thread2, thread3} \subseteq Task /\ thread2 # thread3
  /\ l \in Lock /\ {c0mod3, cnot0mod3} \subseteq Condition
  /\ barrier1 \in BarrierThread /\ BarrierThread \subseteq Task /\ barrier \in Barrier
  /\ Total[barrier] = Cardinality(BarrierThread)
  /\ IsFiniteSet(Task) /\ Turns \in Nat /\ NUM_ITERATIONS \in Nat
  /\ NUM_PHILOSOPHERS \in Nat \ {0, 1}
  /\ Philosopher \in [0 .. NUM_PHILOSOPHERS - 1 -> Task]
  /\ fork \in [0 .. NUM_PHILOSOPHERS - 1 -> Semaphore]
  /\ \A id, other \in 0 .. NUM_PHILOSOPHERS - 1 :
       /\ Philosopher[id] = Philosopher[other] \/ fork[id] = fork[other] => id = other
       /\ Permits[fork[id]] = 1

VARIABLES
  point,         \* where each thread is in its program
  initialized,   \* init, barrier_initialized or forks_initialized
  i,             \* the loop counter of each thread
  tmp, shared_var, exit_count,
  value,
  eating

monitor == <<tmp, shared_var, exit_count>>
programVars == <<point, initialized, i, monitor, value, eating>>

Goto(t, p) == point' = [point EXCEPT ![t] = p]
AtPoint(t, p) == point[t] = p /\ Runs(t, "none")

\* The thread that initialises the objects; the others yield until it has.
Start(t, initializer, first) ==
  /\ AtPoint(t, "start")
  /\ t = initializer \/ initialized
  /\ initialized' = TRUE
  /\ Goto(t, first)
  /\ UNCHANGED <<vars, i, monitor, value, eating>>

NextTurn(t, last, again, end) ==
  /\ i' = [i EXCEPT ![t] = @ + 1]
  /\ Goto(t, IF i[t] + 1 = last THEN end ELSE again)

-----------------------------------------------------------------------------
(* th2.c: thread2 increments shared_var when it is no multiple of 3,       *)
(* thread3 when it is one.                                                 *)

MonitorTurns(t) == IF t = thread2 THEN 2 * Turns ELSE Turns
MayUse(t) == (t = thread2) <=> (shared_var % 3 # 0)
Own(t) == IF t = thread2 THEN cnot0mod3 ELSE c0mod3
Other(t) == IF t = thread2 THEN c0mod3 ELSE cnot0mod3

Enter(t) ==
  /\ LockAcquire(t, l)
  /\ \/ AtPoint(t, "enter") /\ Goto(t, "test")
     \/ AtPoint(t, "enter_last") /\ Goto(t, "count")
  /\ UNCHANGED <<initialized, i, monitor, value, eating>>

\* The while loop around condition_wait().
AwaitTurn(t) ==
  /\ AtPoint(t, "test")
  /\ IF MayUse(t) THEN Goto(t, "read") /\ UNCHANGED vars
     ELSE ConditionRelease(t, l, Own(t)) /\ UNCHANGED point
  /\ UNCHANGED <<initialized, i, monitor, value, eating>>

Read(t) ==
  /\ AtPoint(t, "read")
  /\ tmp' = [tmp EXCEPT ![t] = shared_var]
  /\ Goto(t, "write")
  /\ UNCHANGED <<vars, initialized, i, shared_var, exit_count, value, eating>>

Write(t) ==
  /\ AtPoint(t, "write")
  /\ shared_var' = tmp[t] + 1
  /\ Goto(t, "signal")
  /\ UNCHANGED <<vars, initialized, i, tmp, exit_count, value, eating>>

CallsOther(t) == ~MayUse(t)

Call(t) ==
  /\ AtPoint(t, "signal")
  /\ IF CallsOther(t) /\ queue[Other(t)] # <<>>
     THEN IF shared_var < Signals THEN ConditionSignal(t, Other(t))
                                  ELSE ConditionBroadcast(t, Other(t))
     ELSE UNCHANGED vars
  /\ Goto(t, "leave")
  /\ UNCHANGED <<initialized, i, monitor, value, eating>>

Leave(t) ==
  /\ LockRelease(t, l)
  /\ \/ AtPoint(t, "leave") /\ NextTurn(t, MonitorTurns(t), "enter", "enter_last")
     \/ AtPoint(t, "leave_last") /\ Goto(t, "done") /\ UNCHANGED i
  /\ UNCHANGED <<initialized, monitor, value, eating>>

CountExit(t) ==
  /\ AtPoint(t, "count")
  /\ exit_count' = exit_count + 1
  /\ Goto(t, "leave_last")
  /\ UNCHANGED <<vars, initialized, i, tmp, shared_var, value, eating>>

MonitorStep(t) ==
  /\ t \in {thread2, thread3}
  /\ \/ Start(t, thread2, "enter") \/ Enter(t) \/ AwaitTurn(t) \/ Read(t) \/ Write(t) \/ Call(t)
     \/ Leave(t) \/ CountExit(t)

-----------------------------------------------------------------------------
(* barrier_test.c. *)

CountValue(t) ==
  /\ AtPoint(t, "add")
  /\ value' = [value EXCEPT ![t] = @ + 1]
  /\ Goto(t, "before")
  /\ UNCHANGED <<vars, initialized, i, monitor, eating>>

Synchronize(t) ==
  /\ BarrierWait(t, barrier)
  /\ \/ AtPoint(t, "before") /\ Goto(t, "compare") /\ UNCHANGED i
     \/ AtPoint(t, "after") /\ NextTurn(t, NUM_ITERATIONS, "add", "done")
  /\ UNCHANGED <<initialized, monitor, value, eating>>

\* do_sleep() and the loop that compares the values.
CompareOnce(t) ==   \* Mutant: the second barrier_wait() is left out
  /\ AtPoint(t, "compare")
  /\ NextTurn(t, NUM_ITERATIONS, "add", "done")
  /\ UNCHANGED <<vars, initialized, monitor, value, eating>>
Compare(t) ==
  /\ AtPoint(t, "compare")
  /\ Goto(t, "after")
  /\ UNCHANGED <<vars, initialized, i, monitor, value, eating>>

BarrierStep(t) ==
  /\ t \in BarrierThread
  /\ Start(t, barrier1, "add") \/ CountValue(t) \/ Synchronize(t) \/ Compare(t)

-----------------------------------------------------------------------------
(* philosophers.c. *)

Id(t) == CHOOSE id \in DOMAIN Philosopher : Philosopher[id] = t

\* The forks of a philosopher in the order in which they are taken: the first
\* philosopher reaches the other way round than the others.
ForksSymmetric(id) ==   \* Mutant
  <<fork[(id - 1) % NUM_PHILOSOPHERS], fork[id]>>
Forks(id) ==
  IF id = 0 THEN <<fork[0], fork[NUM_PHILOSOPHERS - 1]>> ELSE <<fork[id - 1], fork[id]>>

Think(t) ==
  /\ AtPoint(t, "thinking")
  /\ Goto(t, "hungry")
  /\ UNCHANGED <<vars, initialized, i, monitor, value, eating>>

TakeFork(t) ==
  /\ \/ AtPoint(t, "hungry") /\ SemaphoreDown(t, Forks(Id(t))[1]) /\ Goto(t, "one_fork")
     \/ AtPoint(t, "one_fork") /\ SemaphoreDown(t, Forks(Id(t))[2]) /\ Goto(t, "two_forks")
  /\ UNCHANGED <<initialized, i, monitor, value, eating>>

Eat(t) ==
  /\ \/ AtPoint(t, "two_forks") /\ eating' = [eating EXCEPT ![t] = TRUE] /\ Goto(t, "eating")
     \/ AtPoint(t, "eating") /\ eating' = [eating EXCEPT ![t] = FALSE] /\ Goto(t, "full")
  /\ UNCHANGED <<vars, initialized, i, monitor, value>>

PutFork(t) ==
  /\ \/ AtPoint(t, "full") /\ SemaphoreUp(t, Forks(Id(t))[1]) /\ Goto(t, "half_full")
     \/ AtPoint(t, "half_full") /\ SemaphoreUp(t, Forks(Id(t))[2]) /\ Goto(t, "thinking")
  /\ UNCHANGED <<initialized, i, monitor, value, eating>>

PhilosopherStep(t) ==
  /\ \E id \in DOMAIN Philosopher : t = Philosopher[id]
  /\ Start(t, Philosopher[0], "thinking") \/ Think(t) \/ TakeFork(t) \/ Eat(t) \/ PutFork(t)

-----------------------------------------------------------------------------
ProgramInit ==
  /\ point = [t \in Task |-> "start"]
  /\ initialized = FALSE
  /\ i = [t \in Task |-> 0]
  /\ tmp = [t \in Task |-> 0] /\ shared_var = 0 /\ exit_count = 0
  /\ value = [t \in Task |-> 0]
  /\ eating = [t \in Task |-> FALSE]

\* The rest of a function of sync.c, after its block().
ReturnToProgram(t) == Return(t) /\ UNCHANGED programVars

\* Each program on its own.
MonitorNext == \E t \in Task : ReturnToProgram(t) \/ MonitorStep(t)
BarrierNext == \E t \in Task : ReturnToProgram(t) \/ BarrierStep(t)
PhilosopherNext == \E t \in Task : ReturnToProgram(t) \/ PhilosopherStep(t)

MonitorSpec == Init /\ ProgramInit /\ [][MonitorNext]_<<vars, programVars>>
BarrierSpec == Init /\ ProgramInit /\ [][BarrierNext]_<<vars, programVars>>
PhilosopherSpec == Init /\ ProgramInit /\ [][PhilosopherNext]_<<vars, programVars>>

-----------------------------------------------------------------------------
(* Properties. *)

\* The ASSERTs of the three programs.  th2.c:58 and th2.c:113: who is in the
\* monitor past its wait has the turn and the value that it read is still that
\* of shared_var, and once both threads have finished no increment is lost
\* ("Both passed").  barrier_test.c:39: between the two barriers of a round all
\* values are equal.  philosophers.c:62: no neighbour of one who eats is eating.
MonitorAsserts ==
  /\ \A t \in {thread2, thread3} :
       /\ point[t] \in {"read", "write"} => MayUse(t)
       /\ point[t] = "write" => tmp[t] = shared_var
  /\ exit_count = 2 => shared_var = 3 * Turns
BarrierAsserts ==
  \A t, u \in BarrierThread :
    point[t] = "compare" /\ at[t] = "none" => value[u] = value[t]
PhilosopherAsserts ==
  \A id, other \in DOMAIN Philosopher :
    point[Philosopher[id]] = "eating" /\ (other - id) % NUM_PHILOSOPHERS \in {1, NUM_PHILOSOPHERS - 1}
      => ~eating[Philosopher[other]]
AssertsHold == MonitorAsserts /\ BarrierAsserts /\ PhilosopherAsserts

\* A thread of th2.c that waits in its condition although it has the turn is about
\* to be called by the other: no signal comes between the release and the wait of
\* condition_wait(), and none is spent on the wrong thread (sync.c:96-102,
\* th2.c:72-78).
NoSignalMissed ==
  \A t \in {thread2, thread3} :
    point[t] = "test" /\ InQueue(queue, Own(t), t) /\ MayUse(t) =>
      \E u \in {thread2, thread3} \ {t} : point[u] = "signal"

\* Every thread of the monitor and of the barrier test comes to its do_exit(),
\* and a hungry philosopher eats, whoever else is hungry.
ProgramsProgress ==
  /\ \A t \in Task : point[t] = "enter" ~> point[t] = "done"
  /\ \A t \in Task : point[t] = "add" ~> point[t] = "done"
  /\ \A t \in Task : point[t] = "hungry" ~> point[t] = "eating"
=============================================================================
