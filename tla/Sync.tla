-------------------------------- MODULE Sync --------------------------------
(***************************************************************************)
(* sync.c of project4_start_code: locks, condition variables, semaphores   *)
(* and barriers.                                                           *)
(*                                                                         *)
(* Every operation is a critical section, so it runs alone up to its       *)
(* leave_critical(), or up to the scheduler_entry() inside block(); what   *)
(* it does after block() is an action of its own, taken when the task is   *)
(* scheduled again.  Any task that is not blocked may run next: module     *)
(* Scheduler gives the order, nothing here depends on it.                  *)
(* condition_wait() changes two objects in one critical section: its       *)
(* release and its block() are two actions, and "Undisturbed" says that    *)
(* no other task runs between them.                                        *)
(***************************************************************************)
EXTENDS Integers, Sequences, FiniteSets, Queues

CONSTANTS
  Task,
  Lock, Condition, Semaphore, Barrier,
  Permits,    \* the value that each semaphore is initialised with
  Total,      \* the number of tasks that each barrier is initialised for
  NULL

Object == Lock \cup Condition \cup Semaphore \cup Barrier

CallSite == {"none", "lock_acquire", "condition_wait", "semaphore_down", "barrier_wait"}

ASSUME SyncAssumption ==
  /\ NULL \notin Task \cup Object
  /\ Permits \in [Semaphore -> Nat]
  /\ Total \in [Barrier -> Nat \ {0}]
  /\ Lock \cap Condition = {} /\ Lock \cap Semaphore = {} /\ Lock \cap Barrier = {}
  /\ Condition \cap Semaphore = {} /\ Condition \cap Barrier = {}
  /\ Semaphore \cap Barrier = {}
  /\ Condition \cap CallSite = {}

VARIABLES
  lock_status, held_task, sem, count,   \* fields of lock_t, semaphore_t, barrier_t
  queue,          \* the wait_queue, c_queue, s_queue or b_queue of each object
  status,         \* READY or BLOCKED
  blocking_lock,
  at,             \* the call of block() the task returns from when it next runs,
                  \* or the condition that it is about to block on
  arg,            \* the lock or semaphore that the call was made for
  holds,          \* the locks and permits that the task's program has acquired
  round           \* the number of times that it has passed a barrier, modulo 4

objects == <<lock_status, held_task, sem, count>>
program == <<holds, round>>
vars == <<objects, queue, status, blocking_lock, at, arg, program>>


-----------------------------------------------------------------------------
(* block() and unblock_one(). *)

Block(t, x, site) ==
  /\ queue' = Enqueue(queue, x, t)
  /\ status' = [status EXCEPT ![t] = "BLOCKED"]
  /\ at' = [at EXCEPT ![t] = site]

\* Mutant: the last of the queue is taken.
UnblockOneLast(x) ==
  /\ queue' = [queue EXCEPT ![x] = SubSeq(@, 1, Len(@) - 1)]
  /\ status' = [status EXCEPT ![queue[x][Len(queue[x])]] = "READY"]
UnblockOne(x) ==
  /\ queue' = Dequeue(queue, x)
  /\ status' = [status EXCEPT ![Head(queue[x])] = "READY"]

\* Mutant: only the first task is made ready.
UnblockAllFirst(x) ==
  /\ queue' = Flush(queue, x)
  /\ status' = [t \in Task |-> IF queue[x] # <<>> /\ t = Head(queue[x])
                              THEN "READY" ELSE status[t]]
UnblockAll(x) ==
  /\ queue' = Flush(queue, x)
  /\ status' = [t \in Task |-> IF InQueue(queue, x, t) THEN "READY" ELSE status[t]]

\* The task is in its own code, or comes back from block() at site.
BackFrom(t, site) == status[t] = "READY" /\ at[t] = site

\* No task is inside the critical section of condition_wait().
UndisturbedNever == TRUE   \* Mutant: condition_wait() does not disable interrupts
Undisturbed == \A u \in Task : at[u] \notin Condition

\* It is scheduled there.
Runs(t, site) == BackFrom(t, site) /\ Undisturbed
Resume(t) == at' = [at EXCEPT ![t] = "none"] /\ UNCHANGED <<queue, status>>

-----------------------------------------------------------------------------
(* Locks. *)

\* The walk of lock_acquire_helper() from a task over the lock it waits for to
\* the task that holds it, until NULL; cycle says whether it comes back to t.
Holder(u, waits) ==
  IF u = NULL THEN NULL ELSE IF waits[u] = NULL THEN NULL ELSE held_task[waits[u]]
ClosesCycle(t, l) ==
  LET waits == [blocking_lock EXCEPT ![t] = l]
      walk[n \in 0 .. Cardinality(Task)] ==
        IF n = 0 THEN t ELSE Holder(walk[n - 1], waits)
  IN \E n \in 1 .. Cardinality(Task) : walk[n] = t

\* lock_acquire_helper() called by t at the given call site: the lock is taken,
\* or a deadlock is reported, or t waits.
LockAcquireHelper(t, l) ==
  IF lock_status[l] = "UNLOCKED"
  THEN /\ lock_status' = [lock_status EXCEPT ![l] = "LOCKED"]
       /\ holds' = [holds EXCEPT ![t] = @ \cup {l}]
       /\ Resume(t)
       /\ UNCHANGED blocking_lock
  ELSE /\ IF ClosesCycle(t, l)
          THEN Resume(t) /\ blocking_lock' = [blocking_lock EXCEPT ![t] = NULL]
          ELSE /\ Block(t, l, "lock_acquire")
               /\ blocking_lock' = [blocking_lock EXCEPT ![t] = l]
       /\ UNCHANGED <<lock_status, holds>>

LockAcquire(t, l) ==
  /\ Runs(t, "none")
  /\ LockAcquireHelper(t, l)
  /\ UNCHANGED <<held_task, sem, count, arg, round>>

\* The return from block(): the lock was handed over, it stayed LOCKED.
LockAcquired(t) ==
  /\ Runs(t, "lock_acquire")
  /\ Resume(t)
  /\ blocking_lock' = [blocking_lock EXCEPT ![t] = NULL]
  /\ holds' = [holds EXCEPT ![t] = @ \cup {blocking_lock[t]}]
  /\ UNCHANGED <<objects, arg, round>>

\* The status that a released lock gets: handed over, it stays LOCKED.
ReleasedAlways(l) == "UNLOCKED"         \* Mutant: woken tasks are not given the lock
ReleasedNever(l) == lock_status[l]      \* Mutant: a lock nobody waits for stays LOCKED
Released(l) == IF queue[l] = <<>> THEN "UNLOCKED" ELSE lock_status[l]

LockReleaseHelper(t, l) ==
  /\ held_task' = [held_task EXCEPT ![l] = NULL]
  /\ lock_status' = [lock_status EXCEPT ![l] = Released(l)]
  /\ holds' = [holds EXCEPT ![t] = @ \ {l}]

LockRelease(t, l) ==
  /\ Runs(t, "none") /\ l \in holds[t]
  /\ LockReleaseHelper(t, l)
  /\ IF queue[l] = <<>> THEN UNCHANGED <<queue, status>> ELSE UnblockOne(l)
  /\ UNCHANGED <<sem, count, blocking_lock, at, arg, round>>

-----------------------------------------------------------------------------
(* Condition variables. *)

\* The lock is released, and t goes on to block() at once.
ConditionRelease(t, m, c) ==
  /\ Runs(t, "none") /\ m \in holds[t]
  /\ LockReleaseHelper(t, m)
  /\ IF queue[m] = <<>> THEN UNCHANGED <<queue, status>> ELSE UnblockOne(m)
  /\ at' = [at EXCEPT ![t] = c]
  /\ arg' = [arg EXCEPT ![t] = m]
  /\ UNCHANGED <<sem, count, blocking_lock, round>>

ConditionBlock(t) ==
  /\ at[t] \in Condition
  /\ Block(t, at[t], "condition_wait")
  /\ UNCHANGED <<objects, blocking_lock, arg, program>>

\* From block() on: the lock is acquired again, or t waits for it.
ConditionReacquire(t) ==
  /\ Runs(t, "condition_wait")
  /\ LockAcquireHelper(t, arg[t])
  /\ UNCHANGED <<held_task, sem, count, arg, round>>

ConditionSignal(t, c) ==
  /\ Runs(t, "none")
  /\ queue[c] # <<>>
  /\ UnblockOne(c)
  /\ UNCHANGED <<objects, blocking_lock, at, arg, program>>

ConditionBroadcast(t, c) ==
  /\ Runs(t, "none")
  /\ queue[c] # <<>>
  /\ UnblockAll(c)
  /\ UNCHANGED <<objects, blocking_lock, at, arg, program>>

-----------------------------------------------------------------------------
(* Semaphores, used as in philosophers.c: who takes a permit gives it back. *)

NoPermitBelow(s) == sem[s] < 0   \* Mutant
NoPermit(s) == sem[s] <= 0

SemaphoreDown(t, s) ==
  /\ Runs(t, "none") /\ s \notin holds[t]
  /\ IF NoPermit(s)
     THEN /\ Block(t, s, "semaphore_down")
          /\ arg' = [arg EXCEPT ![t] = s]
          /\ UNCHANGED <<sem, holds>>
     ELSE /\ sem' = [sem EXCEPT ![s] = @ - 1]
          /\ holds' = [holds EXCEPT ![t] = @ \cup {s}]
          /\ UNCHANGED <<queue, status, at, arg>>
  /\ UNCHANGED <<lock_status, held_task, count, blocking_lock, round>>

\* The return from block(): the permit was handed over, sem is not decremented.
SemaphoreDowned(t) ==
  /\ Runs(t, "semaphore_down")
  /\ Resume(t)
  /\ holds' = [holds EXCEPT ![t] = @ \cup {arg[t]}]
  /\ UNCHANGED <<objects, blocking_lock, arg, round>>

HandsOverNever(s) == FALSE   \* Mutant
HandsOver(s) == sem[s] < 1 /\ queue[s] # <<>>

SemaphoreUp(t, s) ==
  /\ Runs(t, "none") /\ s \in holds[t]
  /\ holds' = [holds EXCEPT ![t] = @ \ {s}]
  /\ IF HandsOver(s)
     THEN UnblockOne(s) /\ UNCHANGED sem
     ELSE sem' = [sem EXCEPT ![s] = @ + 1] /\ UNCHANGED <<queue, status>>
  /\ UNCHANGED <<lock_status, held_task, count, blocking_lock, at, arg, round>>

-----------------------------------------------------------------------------
(* Barriers. *)

Pass(t) == round' = [round EXCEPT ![t] = (@ + 1) % 4]

LastToArriveEarly(b) == count[b] + 2 >= Total[b]   \* Mutant
LastToArrive(b) == count[b] + 1 >= Total[b]

BarrierWait(t, b) ==
  /\ Runs(t, "none")
  /\ IF LastToArrive(b)
     THEN /\ UnblockAll(b)
          /\ count' = [count EXCEPT ![b] = 0]
          /\ Pass(t)
          /\ UNCHANGED at
     ELSE /\ count' = [count EXCEPT ![b] = @ + 1]
          /\ Block(t, b, "barrier_wait")
          /\ UNCHANGED round
  /\ UNCHANGED <<lock_status, held_task, sem, blocking_lock, arg, holds>>

BarrierPassed(t) ==
  /\ Runs(t, "barrier_wait")
  /\ Resume(t)
  /\ Pass(t)
  /\ UNCHANGED <<objects, blocking_lock, arg, holds>>

-----------------------------------------------------------------------------
Init ==
  /\ lock_status = [l \in Lock |-> "UNLOCKED"]
  /\ held_task = [l \in Lock |-> NULL]
  /\ sem = Permits
  /\ count = [b \in Barrier |-> 0]
  /\ queue = [x \in Object |-> <<>>]
  /\ status = [t \in Task |-> "READY"]
  /\ blocking_lock = [t \in Task |-> NULL]
  /\ at = [t \in Task |-> "none"]
  /\ arg = [t \in Task |-> NULL]
  /\ holds = [t \in Task |-> {}]
  /\ round = [t \in Task |-> 0]

\* A task does not acquire a lock that it already holds.
Acquire(t) == \E l \in Lock : l \notin holds[t] /\ LockAcquire(t, l)

\* What a task does next when it is inside a function of sync.c.
Return(t) ==
  \/ LockAcquired(t) \/ ConditionBlock(t) \/ ConditionReacquire(t)
  \/ SemaphoreDowned(t) \/ BarrierPassed(t)

GiveBack(t) ==
  \/ \E l \in Lock : LockRelease(t, l) \/ \E c \in Condition : ConditionRelease(t, l, c)
  \/ \E s \in Semaphore : SemaphoreUp(t, s)

Arrive(t) == \E b \in Barrier : BarrierWait(t, b)

Step(t) ==
  \/ Return(t) \/ Acquire(t) \/ GiveBack(t) \/ Arrive(t)
  \/ \E c \in Condition : ConditionSignal(t, c) \/ ConditionBroadcast(t, c)
  \/ \E s \in Semaphore : SemaphoreDown(t, s)

Next == \E t \in Task : Step(t)

Spec == Init /\ [][Next]_vars

\* A ready task runs (ReadyTasksRun of Scheduler) and gives back what it holds.
Fairness == \A t \in Task : WF_vars(Return(t)) /\ WF_vars(GiveBack(t))

FairSpec == Spec /\ Fairness

-----------------------------------------------------------------------------
(* Properties. *)

TypeOK ==
  /\ lock_status \in [Lock -> {"UNLOCKED", "LOCKED"}]
  /\ held_task \in [Lock -> Task \cup {NULL}]
  /\ sem \in [Semaphore -> Nat]
  /\ count \in [Barrier -> Nat]
  /\ queue \in [Object -> Seq(Task)]
  /\ status \in [Task -> {"READY", "BLOCKED"}]
  /\ blocking_lock \in [Task -> Lock \cup {NULL}]
  /\ at \in [Task -> CallSite \cup Condition]
  /\ arg \in [Task -> Lock \cup Semaphore \cup {NULL}]
  /\ holds \in [Task -> SUBSET (Lock \cup Semaphore)]
  /\ round \in [Task -> 0 .. 3]

\* At most one task is between an acquisition and the release of a lock, though
\* the lock is handed from task to task without ever being unlocked (sync.c:72-79).
MutualExclusion ==
  \A t, u \in Task : t # u => holds[t] \cap holds[u] \cap Lock = {}

\* t was handed the lock and has not run since.
HandedTo(t, l) == BackFrom(t, "lock_acquire") /\ blocking_lock[t] = l
Owns(t, l) == l \in holds[t] \/ HandedTo(t, l)

\* A LOCKED lock has exactly one owner, an UNLOCKED one has none and nobody
\* waits for it: no hand-off is lost and no lock is left LOCKED with no owner.
LockHandedOver ==
  \A l \in Lock :
    /\ \A t, u \in Task : Owns(t, l) /\ Owns(u, l) => t = u
    /\ lock_status[l] = "LOCKED" => \E t \in Task : Owns(t, l)
    /\ lock_status[l] = "UNLOCKED" =>
         \A t \in Task : ~Owns(t, l) /\ ~InQueue(queue, l, t)

\* A blocked task is in exactly one queue, once, and that of the object it
\* called; a ready task is in none (part of Inv below).
WaitsFor(t, x) ==
  \/ x \in Lock /\ at[t] = "lock_acquire" /\ blocking_lock[t] = x
  \/ x \in Condition /\ at[t] = "condition_wait"
  \/ x \in Semaphore /\ at[t] = "semaphore_down" /\ arg[t] = x
  \/ x \in Barrier /\ at[t] = "barrier_wait"
BlockedInQueue ==
  /\ LinkedOnce(queue)
  /\ \A t \in Task : status[t] = "BLOCKED" => \E x \in Object : InQueue(queue, x, t)
  /\ \A t \in Task, x \in Object :
       InQueue(queue, x, t) => status[t] = "BLOCKED" /\ WaitsFor(t, x)

\* A task that waits, or has been woken, knows what it waited for.
ArgumentKept ==
  \A t \in Task :
    /\ at[t] = "lock_acquire" => blocking_lock[t] \in Lock
    /\ at[t] \in {"condition_wait"} \cup Condition => arg[t] \in Lock
    /\ at[t] = "semaphore_down" => arg[t] \in Semaphore

\* The inductive invariant of the proofs.
Inv == TypeOK /\ ArgumentKept /\ BlockedInQueue /\ LockHandedOver

\* No permit is created or lost: those free, held, and handed to a task that has
\* not run since add up to the initial value, and nobody waits while one is free.
PermitsConserved ==
  \A s \in Semaphore :
    /\ sem[s] + Cardinality({t \in Task : s \in holds[t]})
         + Cardinality({t \in Task : BackFrom(t, "semaphore_down") /\ arg[t] = s}) = Permits[s]
    /\ sem[s] > 0 => queue[s] = <<>>

\* With as many tasks as the barrier is for, no task passes a barrier before
\* every task has arrived at it, also when a fast task comes round again before
\* the slow ones it released have run, and they never all wait (sync.h:63-67).
Arrived(t) == round[t] + (IF at[t] = "barrier_wait" THEN 1 ELSE 0)
BarrierHolds ==
  /\ \A t, u \in Task : (Arrived(u) - round[t]) % 4 \in {0, 1, 2}
  /\ \A b \in Barrier : Len(queue[b]) < Total[b]

\* Locks are granted first come, first served: who waits for a lock leaves its
\* queue only after everyone ahead, who comes later queues behind, and nobody else
\* gets the lock while a task waits (sync.c:11-23, 53-58, 74-76).
Ahead(qs, l, t, u) == \E i, j \in DOMAIN qs[l] : i < j /\ qs[l][i] = t /\ qs[l][j] = u
GrantedInOrder ==
  \A t \in Task, l \in Lock :
    /\ l \in holds'[t] \ holds[t] /\ queue[l] # <<>> => HandedTo(t, l)
    /\ InQueue(queue, l, t) /\ InQueue(queue', l, t) =>
         \A u \in Task \ {t} :
           Ahead(queue, l, t, u) \/ (InQueue(queue', l, u) /\ ~InQueue(queue, l, u))
             => Ahead(queue', l, t, u)
FirstComeFirstServed == [][GrantedInOrder]_vars

\* Nobody waits for ever for a lock that is always released, or for a permit that
\* is always given back.
WaitersReturn ==
  \A t \in Task :
    at[t] \in {"lock_acquire", "semaphore_down"} ~> at[t] = "none"

\* No set of tasks waits for locks held within the set (sync.c:62-63: "Return 1
\* on failure due to deadlock").
NoUnreportedDeadlock ==
  \A S \in SUBSET Task \ {{}} :
    \E t \in S : ~ (/\ status[t] = "BLOCKED" /\ at[t] = "lock_acquire"
                    /\ \E u \in S : blocking_lock[t] \in holds[u])
=============================================================================
