-------------------------------- MODULE Coop --------------------------------
(***************************************************************************)
(* The cooperative kernel of Project2-Non-Preemptive-Kernel/start_code:    *)
(* queue.c, scheduler.c and lock.c with SPIN = FALSE.  Nothing interrupts  *)
(* a task: an action is what it does up to its next yield, block or exit,  *)
(* or up to its next call.  All locks share one blocked_queue.             *)
(***************************************************************************)
EXTENDS Integers, Sequences, FiniteSets

CONSTANTS
  NUM_TASKS,    \* which is the capacity of both queues
  Locks, NULL

ASSUME CoopAssumption ==
  NUM_TASKS \in Nat \ {0} /\ NULL \notin Locks /\ NULL \notin 1 .. NUM_TASKS

Task == 1 .. NUM_TASKS

VARIABLES
  ready_queue, blocked_queue,   \* struct queue
  state,            \* of each pcb
  current,          \* current_running, NULL in the loop "no tasks"
  status,           \* of each lock
  wants, holds,     \* the lock that each task is in lock_acquire() for, or has
  requests          \* history: the tasks that asked for each lock, in order

queues == <<ready_queue, blocked_queue>>
vars == <<queues, state, current, status, wants, holds, requests>>

-----------------------------------------------------------------------------
(* queue.c: a ring buffer. *)

Full(q) == ~q.isEmpty /\ q.head = q.tail

Wrapped(n) == (n + 1) % NUM_TASKS

\* queue_push(), whose answer no caller looks at.
Push(q, t) ==
  IF Full(q) THEN q
  ELSE [q EXCEPT !.pcbs[q.tail] = t, !.tail = Wrapped(q.tail), !.isEmpty = FALSE]

PopNeverEmpty(q) == [q EXCEPT !.head = Wrapped(q.head)]   \* Mutant
Popped(q) ==
  [q EXCEPT !.head = Wrapped(q.head), !.isEmpty = Wrapped(q.head) = q.tail]

Front(q) == q.pcbs[q.head]

Size(q) ==
  IF q.isEmpty THEN 0
  ELSE IF q.head < q.tail THEN q.tail - q.head ELSE q.tail + NUM_TASKS - q.head

-----------------------------------------------------------------------------
(* scheduler.c. *)

\* scheduler(), with the ready queue and the states that the caller leaves.
Schedule(q, st) ==
  IF q.isEmpty
  THEN current' = NULL /\ ready_queue' = q /\ state' = st
  ELSE /\ current' = Front(q)
       /\ ready_queue' = Popped(q)
       /\ state' = [st EXCEPT ![Front(q)] = "PROCESS_RUNNING"]

\* A task calls what it likes, but where lock_acquire() blocked it, it goes on there.
MayCall == current # NULL /\ wants[current] = NULL

Yield ==
  /\ MayCall
  /\ Schedule(Push(ready_queue, current), [state EXCEPT ![current] = "PROCESS_READY"])
  /\ UNCHANGED <<blocked_queue, status, wants, holds, requests>>

\* Locks are released before exiting (lock.c:7).
Exit ==
  /\ MayCall /\ holds[current] = NULL
  /\ Schedule(ready_queue, [state EXCEPT ![current] = "PROCESS_EXITED"])
  /\ UNCHANGED <<blocked_queue, status, wants, holds, requests>>

-----------------------------------------------------------------------------
(* lock.c. *)

Request(l) ==
  /\ MayCall /\ holds[current] = NULL
  /\ wants' = [wants EXCEPT ![current] = l]
  /\ requests' = [requests EXCEPT ![l] = Append(@, current)]
  /\ UNCHANGED <<queues, state, current, status, holds>>

\* The test of the while loop.
MustBlockOnce(l) ==   \* Mutant: looked at when the task first asks only
  status[l] = "LOCKED" /\ requests[l][Len(requests[l])] = current
MustBlock(l) == status[l] = "LOCKED"

Block ==
  /\ current # NULL /\ wants[current] # NULL /\ MustBlock(wants[current])
  /\ blocked_queue' = Push(blocked_queue, current)
  /\ Schedule(ready_queue, [state EXCEPT ![current] = "PROCESS_BLOCKED"])
  /\ UNCHANGED <<status, wants, holds, requests>>

Acquire ==
  /\ current # NULL /\ wants[current] # NULL /\ ~MustBlock(wants[current])
  /\ LET l == wants[current] IN
       /\ status' = [status EXCEPT ![l] = "LOCKED"]
       /\ holds' = [holds EXCEPT ![current] = l]
       /\ requests' = [requests EXCEPT ![l] = SelectSeq(@, LAMBDA t : t # current)]
  /\ wants' = [wants EXCEPT ![current] = NULL]
  /\ UNCHANGED <<queues, state, current>>

\* unblock() of the first that is blocked, if blocked_tasks(), for whatever lock.
NobodyToWake == {}   \* Mutant
ToWake == {t \in Task : ~blocked_queue.isEmpty /\ t = Front(blocked_queue)}

Release ==
  /\ MayCall /\ holds[current] # NULL
  /\ IF ToWake = {} THEN UNCHANGED <<queues, state>>
     ELSE /\ blocked_queue' = Popped(blocked_queue)
          /\ ready_queue' = Push(ready_queue, Front(blocked_queue))
          /\ state' = [state EXCEPT ![Front(blocked_queue)] = "PROCESS_READY"]
  /\ status' = [status EXCEPT ![holds[current]] = "UNLOCKED"]
  /\ holds' = [holds EXCEPT ![current] = NULL]
  /\ UNCHANGED <<current, wants, requests>>

-----------------------------------------------------------------------------
\* _stat() pushed all tasks, and the first was scheduled.
Init ==
  /\ LET empty == [pcbs |-> [n \in 0 .. NUM_TASKS - 1 |-> n + 1],
                   head |-> 0, tail |-> 0, isEmpty |-> TRUE]
     IN /\ ready_queue = Popped([empty EXCEPT !.isEmpty = FALSE])
        /\ blocked_queue = empty
  /\ state = [t \in Task |-> IF t = 1 THEN "PROCESS_RUNNING" ELSE "PROCESS_READY"]
  /\ current = 1
  /\ status = [l \in Locks |-> "UNLOCKED"]
  /\ wants = [t \in Task |-> NULL] /\ holds = [t \in Task |-> NULL]
  /\ requests = [l \in Locks |-> << >>]

Next ==
  Yield \/ Exit \/ Block \/ Acquire \/ Release \/ \E l \in Locks : Request(l)

Spec == Init /\ [][Next]_vars

-----------------------------------------------------------------------------
(* Properties. *)

Contents(q) == [n \in 1 .. Size(q) |-> q.pcbs[(q.head + n - 1) % NUM_TASKS]]
In(q, t) == Cardinality({n \in 1 .. Size(q) : Contents(q)[n] = t})

\* One task at a time has a lock, through yields inside the critical section and
\* tasks that were woken but find the lock taken again (lock.c:37-41, th2.c:19-23).
MutualExclusion ==
  \A t, u \in Task : holds[t] # NULL /\ holds[t] = holds[u] => t = u

\* No task is lost or doubled by queues that wrap round and that nobody checks for
\* being full: a task is in the queue of its state, once (queue.c:7-39).
NoTaskLost ==
  \A t \in Task :
    /\ In(ready_queue, t) = (IF state[t] = "PROCESS_READY" THEN 1 ELSE 0)
    /\ In(blocked_queue, t) = (IF state[t] = "PROCESS_BLOCKED" THEN 1 ELSE 0)

\* With one lock, a task is blocked only while another has the lock or is on its
\* way to take it: no release is missed (lock.c:50-53).
NoLostWakeup ==
  \A t \in Task : state[t] = "PROCESS_BLOCKED" =>
    \/ \E u \in Task : holds[u] = wants[t]
    \/ \E u \in Task \ {t} : wants[u] = wants[t] /\ state[u] # "PROCESS_BLOCKED"

\* "Your solution must satisfy the FIFO fairness property" (lock.c:3).
FifoFairness ==
  [][ \A t \in Task : holds[t] = NULL /\ holds'[t] # NULL =>
        t = requests[wants[t]][1] ]_vars
=============================================================================
