---------------------------- MODULE Coop_proofs ----------------------------
(* Proofs about Coop, for any number of tasks and of locks, all of which   *)
(* share one queue of blocked tasks: the lock of lock.c excludes; the ring *)
(* buffers of queue.c lose no task, though no caller looks whether a push  *)
(* succeeded; and with one lock, no release is missed.                     *)
EXTENDS Coop, FiniteSetTheorems, TLAPS

Index == 0 .. NUM_TASKS - 1
Ring == [pcbs : [Index -> Task], head : Index, tail : Index, isEmpty : BOOLEAN]

State == {"PROCESS_RUNNING", "PROCESS_READY", "PROCESS_BLOCKED", "PROCESS_EXITED"}

TypeOK ==
  /\ ready_queue \in Ring /\ blocked_queue \in Ring
  /\ state \in [Task -> State]
  /\ current \in Task \cup {NULL}
  /\ status \in [Locks -> {"UNLOCKED", "LOCKED"}]
  /\ wants \in [Task -> Locks \cup {NULL}]
  /\ holds \in [Task -> Locks \cup {NULL}]

\* MutualExclusion holds because a lock that a task has is LOCKED, and only that
\* task unlocks it.
HeldAreLocked == \A t \in Task : holds[t] # NULL => status[holds[t]] = "LOCKED"

Inv == TypeOK /\ HeldAreLocked /\ MutualExclusion

-----------------------------------------------------------------------------
LEMMA WrappedType == ASSUME NEW n \in Index PROVE Wrapped(n) \in Index
  BY CoopAssumption DEF Wrapped, Index

LEMMA PushType == ASSUME NEW q \in Ring, NEW t \in Task PROVE Push(q, t) \in Ring
  BY WrappedType DEF Push, Ring

LEMMA PoppedType == ASSUME NEW q \in Ring PROVE Popped(q) \in Ring
<1>1. q.head \in Index /\ q.tail \in Index /\ q.pcbs \in [Index -> Task]
  BY DEF Ring
<1>2. Wrapped(q.head) \in Index
  BY <1>1, WrappedType
<1> QED BY <1>1, <1>2 DEF Popped, Ring

LEMMA FrontType == ASSUME NEW q \in Ring PROVE Front(q) \in Task
  BY DEF Front, Ring

\* scheduler() leaves a queue, states and a current task of the right types.
LEMMA ScheduleType ==
  ASSUME NEW q \in Ring, NEW st \in [Task -> State], Schedule(q, st)
  PROVE  ready_queue' \in Ring /\ state' \in [Task -> State] /\ current' \in Task \cup {NULL}
<1>1. CASE q.isEmpty
  BY <1>1 DEF Schedule
<1>2. CASE ~q.isEmpty
  <2>1. current' \in Task
    BY <1>2, FrontType DEF Schedule
  <2>2. ready_queue' \in Ring
    BY <1>2, PoppedType DEF Schedule
  <2>3. state' \in [Task -> State]
    BY <1>2 DEF Schedule, State
  <2> QED BY <2>1, <2>2, <2>3
<1> QED BY <1>1, <1>2

\* The initial state satisfies the invariant.
LEMMA InitInv == Init => Inv
<1> SUFFICES ASSUME Init PROVE Inv
  OBVIOUS
<1>1. 0 \in Index /\ 1 \in Task
  BY CoopAssumption DEF Index, Task
<1>2. [n \in Index |-> n + 1] \in [Index -> Task]
  BY CoopAssumption DEF Index, Task
<1> DEFINE empty == [pcbs |-> [n \in 0 .. NUM_TASKS - 1 |-> n + 1],
                     head |-> 0, tail |-> 0, isEmpty |-> TRUE]
<1>3. empty \in Ring /\ [empty EXCEPT !.isEmpty = FALSE] \in Ring
  BY <1>1, <1>2 DEF Ring, Index
<1>4. ready_queue \in Ring /\ blocked_queue \in Ring
  BY <1>3, PoppedType DEF Init
<1>5. /\ state \in [Task -> State] /\ current \in Task
      /\ status \in [Locks -> {"UNLOCKED", "LOCKED"}]
      /\ wants \in [Task -> Locks \cup {NULL}]
      /\ holds = [t \in Task |-> NULL]
  BY <1>1 DEF Init, State
<1> QED BY <1>4, <1>5 DEF Inv, TypeOK, HeldAreLocked, MutualExclusion

\* What leaves the locks and their owners alone preserves more than types.
LEMMA LocksKept ==
  ASSUME Inv, TypeOK', UNCHANGED <<status, holds>>
  PROVE  Inv'
  BY DEF Inv, HeldAreLocked, MutualExclusion

-----------------------------------------------------------------------------
LEMMA YieldInv == Inv /\ Yield => Inv'
<1> SUFFICES ASSUME Inv, Yield PROVE Inv'
  OBVIOUS
<1>1. current \in Task
  BY DEF Inv, TypeOK, Yield, MayCall
<1>2. Push(ready_queue, current) \in Ring
  BY <1>1, PushType DEF Inv, TypeOK
<1>3. [state EXCEPT ![current] = "PROCESS_READY"] \in [Task -> State]
  BY DEF Inv, TypeOK, State
<1>4. TypeOK'
  BY <1>2, <1>3, ScheduleType DEF Inv, TypeOK, Yield
<1> QED BY <1>4, LocksKept DEF Yield

LEMMA ExitInv == Inv /\ Exit => Inv'
<1> SUFFICES ASSUME Inv, Exit PROVE Inv'
  OBVIOUS
<1>1. [state EXCEPT ![current] = "PROCESS_EXITED"] \in [Task -> State]
  BY DEF Inv, TypeOK, State
<1>2. TypeOK'
  BY <1>1, ScheduleType DEF Inv, TypeOK, Exit
<1> QED BY <1>2, LocksKept DEF Exit

LEMMA RequestInv == ASSUME NEW l \in Locks PROVE Inv /\ Request(l) => Inv'
<1> SUFFICES ASSUME Inv, Request(l) PROVE Inv'
  OBVIOUS
<1>1. TypeOK'
  BY DEF Inv, TypeOK, Request, queues
<1> QED BY <1>1, LocksKept DEF Request

LEMMA BlockInv == Inv /\ Block => Inv'
<1> SUFFICES ASSUME Inv, Block PROVE Inv'
  OBVIOUS
<1>1. current \in Task
  BY DEF Inv, TypeOK, Block
<1>2. blocked_queue' \in Ring
  BY <1>1, PushType DEF Inv, TypeOK, Block
<1>3. [state EXCEPT ![current] = "PROCESS_BLOCKED"] \in [Task -> State]
  BY DEF Inv, TypeOK, State
<1>4. TypeOK'
  BY <1>2, <1>3, ScheduleType DEF Inv, TypeOK, Block
<1> QED BY <1>4, LocksKept DEF Block

\* The lock that is taken was UNLOCKED, so no task had it.
LEMMA AcquireInv == Inv /\ Acquire => Inv'
<1> SUFFICES ASSUME Inv, Acquire PROVE Inv'
  OBVIOUS
<1> DEFINE l == wants[current]
<1>1. current \in Task /\ l \in Locks
  BY DEF Inv, TypeOK, Acquire
<1>2. /\ status[l] = "UNLOCKED"
      /\ status' = [status EXCEPT ![l] = "LOCKED"]
      /\ holds' = [holds EXCEPT ![current] = l]
  BY <1>1 DEF Inv, TypeOK, Acquire, MustBlock
<1>3. TypeOK'
  BY <1>1, <1>2 DEF Inv, TypeOK, Acquire, queues
<1>4. \A t \in Task : holds[t] # l
  BY <1>1, <1>2, CoopAssumption DEF Inv, HeldAreLocked
<1>5. HeldAreLocked'
  BY <1>1, <1>2 DEF Inv, TypeOK, HeldAreLocked
<1>6. MutualExclusion'
  BY <1>1, <1>2, <1>4 DEF Inv, TypeOK, MutualExclusion
<1> QED BY <1>3, <1>5, <1>6 DEF Inv

\* The lock that is unlocked is that of the task that runs, and of no other.
LEMMA ReleaseInv == Inv /\ Release => Inv'
<1> SUFFICES ASSUME Inv, Release PROVE Inv'
  OBVIOUS
<1> DEFINE l == holds[current]
<1>1. current \in Task /\ l \in Locks
  BY DEF Inv, TypeOK, Release, MayCall
<1>2. /\ status' = [status EXCEPT ![l] = "UNLOCKED"]
      /\ holds' = [holds EXCEPT ![current] = NULL]
  BY DEF Release
<1>3. ready_queue' \in Ring /\ blocked_queue' \in Ring /\ state' \in [Task -> State]
  <2>1. CASE ToWake = {}
    BY <2>1 DEF Inv, TypeOK, Release, queues
  <2>2. CASE ToWake # {}
    <3>1. Front(blocked_queue) \in Task
      BY FrontType DEF Inv, TypeOK
    <3>2. Popped(blocked_queue) \in Ring /\ Push(ready_queue, Front(blocked_queue)) \in Ring
      BY <3>1, PoppedType, PushType DEF Inv, TypeOK
    <3> QED BY <2>2, <3>2 DEF Inv, TypeOK, Release, State
  <2> QED BY <2>1, <2>2
<1>4. TypeOK'
  BY <1>1, <1>2, <1>3 DEF Inv, TypeOK, Release
<1>5. \A t \in Task : holds[t] = l => t = current
  BY <1>1, CoopAssumption DEF Inv, MutualExclusion
<1>6. HeldAreLocked'
  BY <1>1, <1>2, <1>5 DEF Inv, TypeOK, HeldAreLocked
<1>7. MutualExclusion'
  BY <1>1, <1>2 DEF Inv, TypeOK, MutualExclusion
<1> QED BY <1>4, <1>6, <1>7 DEF Inv

LEMMA NextInv == Inv /\ [Next]_vars => Inv'
<1> SUFFICES ASSUME Inv, [Next]_vars PROVE Inv'
  OBVIOUS
<1>1. CASE UNCHANGED vars
  <2>1. TypeOK'
    BY <1>1 DEF Inv, TypeOK, vars, queues
  <2> QED BY <1>1, <2>1, LocksKept DEF vars
<1>2. CASE Next
  BY <1>2, YieldInv, ExitInv, BlockInv, AcquireInv, ReleaseInv, RequestInv DEF Next
<1> QED BY <1>1, <1>2

\* No two tasks have a lock together, through yields inside the critical section
\* and though a woken task may find the lock taken again (lock.c:31-55).
THEOREM LockExcludes == Spec => []MutualExclusion
<1>1. Inv => MutualExclusion
  BY DEF Inv
<1> QED BY <1>1, InitInv, NextInv, PTL DEF Spec

-----------------------------------------------------------------------------
(* The ring buffer. *)

\* The places of the buffer from h up to u, all of them if h = u.
Between(h, u, i) == IF h < u THEN h <= i /\ i < u ELSE h <= i \/ i < u

Used(q, i) == ~q.isEmpty /\ Between(q.head, q.tail, i)

\* The queue holds the tasks of S, each once.
Linked(q, S) ==
  /\ \A i, j \in Index : Used(q, i) /\ Used(q, j) /\ q.pcbs[i] = q.pcbs[j] => i = j
  /\ \A t \in Task : t \in S <=> \E i \in Index : Used(q, i) /\ q.pcbs[i] = t
  /\ q.isEmpty => q.head = q.tail

LEMMA WrappedIs ==
  ASSUME NEW n \in Index
  PROVE  Wrapped(n) = IF n = NUM_TASKS - 1 THEN 0 ELSE n + 1
  BY CoopAssumption DEF Wrapped, Index

LEMMA OnceRound ==
  ASSUME NEW n \in 0 .. 2 * NUM_TASKS - 1
  PROVE  n % NUM_TASKS = IF n < NUM_TASKS THEN n ELSE n - NUM_TASKS
<1> DEFINE N == NUM_TASKS
<1>1. N \in Nat \ {0} /\ n \in 0 .. 2 * N - 1
  BY CoopAssumption
<1> HIDE DEF N
<1>2. n % N = IF n < N THEN n ELSE n - N
  BY <1>1
<1> QED BY <1>2 DEF N

LEMMA BetweenPush ==
  ASSUME NEW h \in Index, NEW u \in Index, NEW i \in Index
  PROVE  /\ h # u => (Between(h, Wrapped(u), i) <=> Between(h, u, i) \/ i = u)
         /\ h # u => ~Between(h, u, u)
         /\ Between(h, Wrapped(h), i) <=> i = h
  BY WrappedIs, CoopAssumption DEF Between, Index

LEMMA BetweenPop ==
  ASSUME NEW h \in Index, NEW u \in Index, NEW i \in Index
  PROVE  /\ Between(h, u, h)
         /\ Wrapped(h) # u => (Between(Wrapped(h), u, i) <=> Between(h, u, i) /\ i # h)
         /\ Between(h, Wrapped(h), i) <=> i = h
  BY WrappedIs, CoopAssumption DEF Between, Index

\* A full ring of NUM_TASKS different tasks holds every task.
LEMMA FullHoldsAll ==
  ASSUME NEW q \in Ring, NEW S \in SUBSET Task, Linked(q, S), Full(q)
  PROVE  S = Task
<1>1. \A i \in Index : Used(q, i)
  BY DEF Full, Used, Between, Ring, Index
<1>2. q.pcbs \in [Index -> Task]
  BY DEF Ring
<1>3. q.pcbs \in Injection(Index, Task)
  BY <1>1, <1>2 DEF Linked, Injection, IsInjective
<1>4. IsFiniteSet(Task) /\ Cardinality(Task) = NUM_TASKS /\ Cardinality(Index) = NUM_TASKS
  <2>1. /\ IsFiniteSet(1 .. NUM_TASKS)
        /\ Cardinality(1 .. NUM_TASKS) = IF 1 > NUM_TASKS THEN 0 ELSE NUM_TASKS - 1 + 1
    BY CoopAssumption, FS_Interval
  <2>2. Cardinality(0 .. NUM_TASKS - 1) = IF 0 > NUM_TASKS - 1 THEN 0 ELSE (NUM_TASKS - 1) - 0 + 1
    BY CoopAssumption, FS_Interval
  <2> QED BY <2>1, <2>2, CoopAssumption DEF Task, Index
<1>5. q.pcbs \in Surjection(Index, Task)
  BY <1>3, <1>4, FS_Injection
<1> QED BY <1>1, <1>5 DEF Linked, Surjection

\* queue_push() of a task that is not in the queue succeeds: the queue is not full.
LEMMA PushLinked ==
  ASSUME NEW q \in Ring, NEW S \in SUBSET Task, Linked(q, S), NEW t \in Task \ S
  PROVE  Linked(Push(q, t), S \cup {t})
<1>1. ~Full(q)
  BY FullHoldsAll
<1>2. q.head \in Index /\ q.tail \in Index /\ q.pcbs \in [Index -> Task] /\ q.isEmpty \in BOOLEAN
  BY DEF Ring
<1>3. PICK new : new = Push(q, t)
  OBVIOUS
<1>4. /\ new.head = q.head /\ new.tail = Wrapped(q.tail) /\ new.isEmpty = FALSE
      /\ new.pcbs = [q.pcbs EXCEPT ![q.tail] = t]
  BY <1>1, <1>2, <1>3 DEF Push, Ring
<1>5. ASSUME NEW i \in Index PROVE Used(new, i) <=> Used(q, i) \/ i = q.tail
  <2>1. Used(new, i) <=> Between(q.head, Wrapped(q.tail), i)
    BY <1>4 DEF Used
  <2>2. CASE q.isEmpty
    <3>1. q.head = q.tail
      BY <2>2 DEF Linked
    <3> QED BY <2>1, <2>2, <3>1, <1>2, BetweenPush DEF Used
  <2>3. CASE ~q.isEmpty
    <3>1. q.head # q.tail
      BY <2>3, <1>1 DEF Full
    <3>2. Between(q.head, Wrapped(q.tail), i) <=> Between(q.head, q.tail, i) \/ i = q.tail
      BY <3>1, <1>2, BetweenPush
    <3>3. Used(q, i) <=> Between(q.head, q.tail, i)
      BY <2>3 DEF Used
    <3> QED BY <2>1, <3>2, <3>3
  <2> QED BY <2>2, <2>3
<1>6. ~Used(q, q.tail)
  BY <1>1, <1>2, BetweenPush DEF Used, Full
<1>7. new.pcbs[q.tail] = t /\ \A i \in Index \ {q.tail} : new.pcbs[i] = q.pcbs[i]
  BY <1>2, <1>4
<1>8. Linked(new, S \cup {t})
  <2>1. \A i, j \in Index : Used(new, i) /\ Used(new, j) /\ new.pcbs[i] = new.pcbs[j] => i = j
    BY <1>2, <1>5, <1>6, <1>7 DEF Linked
  <2>2. \A v \in Task : v \in S \cup {t} <=> \E i \in Index : Used(new, i) /\ new.pcbs[i] = v
    BY <1>2, <1>5, <1>6, <1>7 DEF Linked
  <2> QED BY <1>4, <2>1, <2>2 DEF Linked
<1> QED BY <1>3, <1>8

LEMMA EmptyLinked ==
  ASSUME NEW q \in Ring, NEW S \in SUBSET Task, Linked(q, S)
  PROVE  q.isEmpty <=> S = {}
<1>1. q.head \in Index /\ q.tail \in Index /\ q.pcbs[q.head] \in Task /\ q.isEmpty \in BOOLEAN
  BY DEF Ring
<1>2. ~q.isEmpty => Used(q, q.head)
  BY <1>1, BetweenPop DEF Used
<1>3. q.isEmpty => \A i \in Index : ~Used(q, i)
  BY DEF Used
<1> QED BY <1>1, <1>2, <1>3 DEF Linked

\* queue_pop() takes out the first, which then is in the queue no longer.
LEMMA PoppedLinked ==
  ASSUME NEW q \in Ring, NEW S \in SUBSET Task, Linked(q, S), ~q.isEmpty
  PROVE  Front(q) \in S /\ Linked(Popped(q), S \ {Front(q)})
<1>1. q.head \in Index /\ q.tail \in Index /\ q.pcbs \in [Index -> Task]
  BY DEF Ring
<1>2. PICK new : new = Popped(q)
  OBVIOUS
<1>3. /\ new.head = Wrapped(q.head) /\ new.tail = q.tail /\ new.isEmpty = (Wrapped(q.head) = q.tail)
      /\ new.pcbs = q.pcbs
  BY <1>1, <1>2 DEF Popped, Ring
<1>4. ASSUME NEW i \in Index PROVE Used(new, i) <=> Used(q, i) /\ i # q.head
  <2>1. Used(q, i) <=> Between(q.head, q.tail, i)
    BY DEF Used
  <2>2. CASE Wrapped(q.head) = q.tail
    <3>1. ~Used(new, i)
      BY <2>2, <1>3 DEF Used
    <3> QED BY <2>1, <2>2, <3>1, <1>1, BetweenPop
  <2>3. CASE Wrapped(q.head) # q.tail
    <3>1. Used(new, i) <=> Between(Wrapped(q.head), q.tail, i)
      BY <2>3, <1>3 DEF Used
    <3> QED BY <2>1, <2>3, <3>1, <1>1, BetweenPop
  <2> QED BY <2>2, <2>3
<1>5. Used(q, q.head)
  BY <1>1, BetweenPop DEF Used
<1>6. Front(q) = q.pcbs[q.head] /\ Front(q) \in Task /\ Front(q) \in S
  BY <1>1, <1>5 DEF Linked, Front
<1>7. Linked(new, S \ {Front(q)})
  <2>1. \A i, j \in Index : Used(new, i) /\ Used(new, j) /\ new.pcbs[i] = new.pcbs[j] => i = j
    BY <1>3, <1>4 DEF Linked
  <2>2. \A v \in Task : v \in S \ {Front(q)} <=> \E i \in Index : Used(new, i) /\ new.pcbs[i] = v
    BY <1>1, <1>3, <1>4, <1>5, <1>6 DEF Linked
  <2>3. new.isEmpty => new.head = new.tail
    BY <1>3
  <2> QED BY <2>1, <2>2, <2>3 DEF Linked
<1> QED BY <1>2, <1>6, <1>7

\* What Contents() and In() count: the n-th item is in the n-th place from the head,
\* and the places are those that are used.
LEMMA PlacesUsed ==
  ASSUME NEW h \in Index, NEW u \in Index,
         NEW size, size = IF h < u THEN u - h ELSE u + NUM_TASKS - h
  PROVE  /\ \A n \in 1 .. size : (h + n - 1) % NUM_TASKS \in Index
                                 /\ Between(h, u, (h + n - 1) % NUM_TASKS)
         /\ \A n, m \in 1 .. size :
              (h + n - 1) % NUM_TASKS = (h + m - 1) % NUM_TASKS => n = m
         /\ \A i \in Index : Between(h, u, i) =>
              \E n \in 1 .. size : (h + n - 1) % NUM_TASKS = i
<1> DEFINE N == NUM_TASKS
<1> DEFINE place(n) == IF h + n - 1 < N THEN h + n - 1 ELSE h + n - 1 - N
<1>1. N \in Nat \ {0} /\ h \in 0 .. N - 1 /\ u \in 0 .. N - 1 /\ size \in 1 .. N
      /\ size = IF h < u THEN u - h ELSE u + N - h
  BY CoopAssumption DEF Index
<1>2. ASSUME NEW n \in 1 .. size PROVE (h + n - 1) % NUM_TASKS = place(n)
  <2> DEFINE k == h + n - 1
  <2>1. k \in 0 .. 2 * NUM_TASKS - 1
    BY <1>1
  <2> HIDE DEF k
  <2>2. k % NUM_TASKS = IF k < NUM_TASKS THEN k ELSE k - NUM_TASKS
    BY <2>1, OnceRound
  <2> QED BY <1>1, <2>2, CoopAssumption DEF k
<1>3. Index = 0 .. N - 1
  BY DEF Index
<1> HIDE DEF N
<1>4. ASSUME NEW n \in 1 .. size PROVE place(n) \in 0 .. N - 1 /\ Between(h, u, place(n))
  <2>1. CASE h < u
    BY <2>1, <1>1 DEF Between
  <2>2. CASE ~(h < u)
    BY <2>2, <1>1 DEF Between
  <2> QED BY <2>1, <2>2
<1>5. ASSUME NEW n \in 1 .. size, NEW m \in 1 .. size, place(n) = place(m) PROVE n = m
  BY <1>1, <1>5
<1>6. ASSUME NEW i \in 0 .. N - 1, Between(h, u, i) PROVE \E n \in 1 .. size : place(n) = i
  <2> DEFINE k == IF h <= i THEN i - h + 1 ELSE i + N - h + 1
  <2>1. k \in 1 .. size /\ place(k) = i
    <3>1. CASE h < u
      BY <3>1, <1>1, <1>6 DEF Between
    <3>2. CASE ~(h < u)
      BY <3>2, <1>1, <1>6 DEF Between
    <3> QED BY <3>1, <3>2
  <2> QED BY <2>1
<1> HIDE DEF place
<1>7. \A n \in 1 .. size : (h + n - 1) % NUM_TASKS \in Index
                           /\ Between(h, u, (h + n - 1) % NUM_TASKS)
  BY <1>2, <1>3, <1>4
<1>8. \A n, m \in 1 .. size : (h + n - 1) % NUM_TASKS = (h + m - 1) % NUM_TASKS => n = m
  BY <1>2, <1>5
<1>9. \A i \in Index : Between(h, u, i) => \E n \in 1 .. size : (h + n - 1) % NUM_TASKS = i
  BY <1>2, <1>3, <1>6
<1> QED BY <1>7, <1>8, <1>9

LEMMA CountLinked ==
  ASSUME NEW q \in Ring, NEW S \in SUBSET Task, Linked(q, S), NEW t \in Task
  PROVE  In(q, t) = IF t \in S THEN 1 ELSE 0
<1> DEFINE place(n) == (q.head + n - 1) % NUM_TASKS
           places == {n \in 1 .. Size(q) : Contents(q)[n] = t}
<1>1. q.head \in Index /\ q.tail \in Index /\ q.isEmpty \in BOOLEAN
  BY DEF Ring
<1>2. /\ \A n \in 1 .. Size(q) : place(n) \in Index /\ Used(q, place(n))
      /\ \A n, m \in 1 .. Size(q) : place(n) = place(m) => n = m
      /\ \A i \in Index : Used(q, i) => \E n \in 1 .. Size(q) : place(n) = i
  <2>1. CASE q.isEmpty
    BY <2>1 DEF Size, Used
  <2>2. CASE ~q.isEmpty
    <3>1. Size(q) = IF q.head < q.tail THEN q.tail - q.head ELSE q.tail + NUM_TASKS - q.head
      BY <2>2 DEF Size
    <3> QED BY <2>2, <3>1, <1>1, PlacesUsed DEF Used
  <2> QED BY <1>1, <2>1, <2>2
<1>3. \A n \in 1 .. Size(q) : Contents(q)[n] = q.pcbs[place(n)]
  BY DEF Contents
<1> HIDE DEF place
<1>4. CASE t \in S
  <2>1. PICK i \in Index : Used(q, i) /\ q.pcbs[i] = t
    BY <1>4 DEF Linked
  <2>2. PICK n \in 1 .. Size(q) : place(n) = i
    BY <1>2, <2>1
  <2>3. places = {n}
    BY <1>2, <1>3, <2>1, <2>2 DEF Linked
  <2>4. Cardinality({n}) = 1
    BY FS_Singleton
  <2> QED BY <1>4, <2>3, <2>4 DEF In
<1>5. CASE t \notin S
  <2>1. places = {}
    BY <1>2, <1>3, <1>5 DEF Linked
  <2>2. Cardinality({}) = 0
    BY FS_EmptySet
  <2> QED BY <1>5, <2>1, <2>2 DEF In
<1> QED BY <1>4, <1>5

-----------------------------------------------------------------------------
(* No task is lost. *)

InState(s) == {t \in Task : state[t] = s}

\* The current task runs and the others are in the queue of their state, if any.
QueuesHold ==
  /\ Linked(ready_queue, InState("PROCESS_READY"))
  /\ Linked(blocked_queue, InState("PROCESS_BLOCKED"))
  /\ \A t \in Task : state[t] = "PROCESS_RUNNING" <=> t = current

\* scheduler() keeps the queue of the ready tasks: it is called when none runs.
LEMMA ScheduleLinked ==
  ASSUME NEW q \in Ring, NEW st \in [Task -> State], Schedule(q, st),
         Linked(q, {t \in Task : st[t] = "PROCESS_READY"}),
         \A t \in Task : st[t] # "PROCESS_RUNNING"
  PROVE  /\ Linked(ready_queue', InState("PROCESS_READY")')
         /\ InState("PROCESS_BLOCKED")' = {t \in Task : st[t] = "PROCESS_BLOCKED"}
         /\ \A t \in Task : state'[t] = "PROCESS_RUNNING" <=> t = current'
<1> DEFINE ready == {t \in Task : st[t] = "PROCESS_READY"}
<1>1. CASE q.isEmpty
  <2>1. current' = NULL /\ ready_queue' = q /\ state' = st
    BY <1>1 DEF Schedule
  <2>2. \A t \in Task : t # NULL
    BY CoopAssumption DEF Task
  <2> QED BY <2>1, <2>2 DEF InState
<1>2. CASE ~q.isEmpty
  <2>1. Front(q) \in ready /\ Linked(Popped(q), ready \ {Front(q)})
    BY <1>2, PoppedLinked
  <2>2. /\ current' = Front(q) /\ ready_queue' = Popped(q)
        /\ state' = [st EXCEPT ![Front(q)] = "PROCESS_RUNNING"]
    BY <1>2 DEF Schedule
  <2>3. InState("PROCESS_READY")' = ready \ {Front(q)}
    BY <2>1, <2>2 DEF InState
  <2>4. InState("PROCESS_BLOCKED")' = {t \in Task : st[t] = "PROCESS_BLOCKED"}
    BY <2>1, <2>2 DEF InState
  <2>5. \A t \in Task : state'[t] = "PROCESS_RUNNING" <=> t = current'
    BY <2>1, <2>2
  <2> QED BY <2>1, <2>2, <2>3, <2>4, <2>5
<1> QED BY <1>1, <1>2

\* _stat() fills the ring with all tasks, and takes out the first.
LEMMA InitQueues == Init => QueuesHold
<1> SUFFICES ASSUME Init PROVE QueuesHold
  OBVIOUS
<1> DEFINE empty == [pcbs |-> [n \in 0 .. NUM_TASKS - 1 |-> n + 1],
                     head |-> 0, tail |-> 0, isEmpty |-> TRUE]
           full == [empty EXCEPT !.isEmpty = FALSE]
<1>1. 0 \in Index /\ 1 \in Task
  BY CoopAssumption DEF Index, Task
<1>2. [n \in Index |-> n + 1] \in [Index -> Task]
  BY CoopAssumption DEF Index, Task
<1>3. full \in Ring
  BY <1>1, <1>2 DEF Ring, Index
<1>4. /\ full.pcbs = [n \in Index |-> n + 1] /\ full.head = 0 /\ full.tail = 0
      /\ full.isEmpty = FALSE
  BY DEF Index
<1>5. Linked(full, Task)
  <2>1. \A i \in Index : Used(full, i)
    BY <1>4 DEF Used, Between, Index
  <2>2. \A i, j \in Index : full.pcbs[i] = full.pcbs[j] => i = j
    BY <1>4 DEF Index
  <2>3. \A t \in Task : t - 1 \in Index /\ full.pcbs[t - 1] = t
    BY <1>4, CoopAssumption DEF Index, Task
  <2> HIDE DEF full
  <2>4. full.isEmpty => full.head = full.tail
    BY <1>4
  <2> QED BY <2>1, <2>2, <2>3, <2>4 DEF Linked
<1>6. Front(full) = 1
  <2>1. [n \in Index |-> n + 1][0] = 1
    BY <1>1
  <2> QED BY <1>4, <2>1 DEF Front
<1>7. Linked(Popped(full), Task \ {1})
  BY <1>3, <1>4, <1>5, <1>6, PoppedLinked
<1>8. Linked(empty, {})
  BY DEF Linked, Used
<1>9. /\ InState("PROCESS_READY") = Task \ {1} /\ InState("PROCESS_BLOCKED") = {}
      /\ \A t \in Task : state[t] = "PROCESS_RUNNING" <=> t = current
  BY DEF Init, InState
<1>10. ready_queue = Popped(full) /\ blocked_queue = empty
  BY DEF Init
<1> QED BY <1>7, <1>8, <1>9, <1>10 DEF QueuesHold

LEMMA YieldQueues == Inv /\ QueuesHold /\ Yield => QueuesHold'
<1> SUFFICES ASSUME Inv, QueuesHold, Yield PROVE QueuesHold'
  OBVIOUS
<1> DEFINE st == [state EXCEPT ![current] = "PROCESS_READY"]
           q == Push(ready_queue, current)
<1>1. current \in Task /\ ready_queue \in Ring /\ state \in [Task -> State]
  BY DEF Inv, TypeOK, Yield, MayCall
<1>2. state[current] = "PROCESS_RUNNING"
  BY <1>1 DEF QueuesHold
<1>3. Linked(q, InState("PROCESS_READY") \cup {current})
  BY <1>1, <1>2, PushLinked DEF QueuesHold, InState
<1>4. /\ InState("PROCESS_READY") \cup {current} = {t \in Task : st[t] = "PROCESS_READY"}
      /\ InState("PROCESS_BLOCKED") = {t \in Task : st[t] = "PROCESS_BLOCKED"}
      /\ \A t \in Task : st[t] # "PROCESS_RUNNING"
      /\ st \in [Task -> State]
  BY <1>1, <1>2 DEF QueuesHold, InState, State
<1>5. q \in Ring
  BY <1>1, PushType
<1>6. Schedule(q, st) /\ blocked_queue' = blocked_queue
  BY DEF Yield
<1> HIDE DEF st, q
<1> QED BY <1>3, <1>4, <1>5, <1>6, ScheduleLinked DEF QueuesHold

LEMMA ExitQueues == Inv /\ QueuesHold /\ Exit => QueuesHold'
<1> SUFFICES ASSUME Inv, QueuesHold, Exit PROVE QueuesHold'
  OBVIOUS
<1> DEFINE st == [state EXCEPT ![current] = "PROCESS_EXITED"]
<1>1. current \in Task /\ ready_queue \in Ring /\ state \in [Task -> State]
  BY DEF Inv, TypeOK, Exit, MayCall
<1>2. state[current] = "PROCESS_RUNNING"
  BY <1>1 DEF QueuesHold
<1>3. /\ InState("PROCESS_READY") = {t \in Task : st[t] = "PROCESS_READY"}
      /\ InState("PROCESS_BLOCKED") = {t \in Task : st[t] = "PROCESS_BLOCKED"}
      /\ \A t \in Task : st[t] # "PROCESS_RUNNING"
      /\ st \in [Task -> State]
  BY <1>1, <1>2 DEF QueuesHold, InState, State
<1>4. Schedule(ready_queue, st) /\ blocked_queue' = blocked_queue
  BY DEF Exit
<1> HIDE DEF st
<1> QED BY <1>1, <1>3, <1>4, ScheduleLinked DEF QueuesHold

LEMMA BlockQueues == Inv /\ QueuesHold /\ Block => QueuesHold'
<1> SUFFICES ASSUME Inv, QueuesHold, Block PROVE QueuesHold'
  OBVIOUS
<1> DEFINE st == [state EXCEPT ![current] = "PROCESS_BLOCKED"]
<1>1. current \in Task /\ ready_queue \in Ring /\ blocked_queue \in Ring /\ state \in [Task -> State]
  BY DEF Inv, TypeOK, Block
<1>2. state[current] = "PROCESS_RUNNING"
  BY <1>1 DEF QueuesHold
<1>3. Linked(Push(blocked_queue, current), InState("PROCESS_BLOCKED") \cup {current})
  BY <1>1, <1>2, PushLinked DEF QueuesHold, InState
<1>4. /\ InState("PROCESS_READY") = {t \in Task : st[t] = "PROCESS_READY"}
      /\ InState("PROCESS_BLOCKED") \cup {current} = {t \in Task : st[t] = "PROCESS_BLOCKED"}
      /\ \A t \in Task : st[t] # "PROCESS_RUNNING"
      /\ st \in [Task -> State]
  BY <1>1, <1>2 DEF QueuesHold, InState, State
<1>5. Schedule(ready_queue, st) /\ blocked_queue' = Push(blocked_queue, current)
  BY DEF Block
<1> HIDE DEF st
<1> QED BY <1>1, <1>3, <1>4, <1>5, ScheduleLinked DEF QueuesHold

\* unblock() moves the first blocked task from the one queue to the other.
LEMMA ReleaseQueues == Inv /\ QueuesHold /\ Release => QueuesHold'
<1> SUFFICES ASSUME Inv, QueuesHold, Release PROVE QueuesHold'
  OBVIOUS
<1> DEFINE f == Front(blocked_queue)
<1>1. ready_queue \in Ring /\ blocked_queue \in Ring /\ state \in [Task -> State] /\ f \in Task
  BY FrontType DEF Inv, TypeOK
<1>2. current' = current
  BY DEF Release
<1>3. CASE ToWake = {}
  <2>1. UNCHANGED <<queues, state>>
    BY <1>3 DEF Release
  <2> QED BY <1>2, <2>1 DEF QueuesHold, InState, queues
<1>4. CASE ToWake # {}
  <2>1. ~blocked_queue.isEmpty
    BY <1>4 DEF ToWake
  <2>2. f \in InState("PROCESS_BLOCKED") /\ Linked(Popped(blocked_queue), InState("PROCESS_BLOCKED") \ {f})
    BY <1>1, <2>1, PoppedLinked DEF QueuesHold, InState
  <2>3. Linked(Push(ready_queue, f), InState("PROCESS_READY") \cup {f})
    BY <1>1, <2>2, PushLinked DEF QueuesHold, InState
  <2>4. /\ blocked_queue' = Popped(blocked_queue) /\ ready_queue' = Push(ready_queue, f)
        /\ state' = [state EXCEPT ![f] = "PROCESS_READY"]
    BY <1>4 DEF Release
  <2> HIDE DEF f
  <2>5. /\ InState("PROCESS_READY")' = InState("PROCESS_READY") \cup {f}
        /\ InState("PROCESS_BLOCKED")' = InState("PROCESS_BLOCKED") \ {f}
    BY <1>1, <2>2, <2>4 DEF InState
  <2>6. \A t \in Task : state'[t] = "PROCESS_RUNNING" <=> t = current'
    BY <1>1, <1>2, <2>2, <2>4 DEF QueuesHold, InState
  <2> QED BY <2>2, <2>3, <2>4, <2>5, <2>6 DEF QueuesHold
<1> QED BY <1>3, <1>4

LEMMA QueuesKept ==
  ASSUME QueuesHold, UNCHANGED <<queues, state, current>>
  PROVE  QueuesHold'
  BY DEF QueuesHold, InState, queues

LEMMA NextQueues == Inv /\ QueuesHold /\ [Next]_vars => QueuesHold'
<1> SUFFICES ASSUME Inv, QueuesHold, [Next]_vars PROVE QueuesHold'
  OBVIOUS
<1>1. CASE Acquire
  BY <1>1, QueuesKept DEF Acquire
<1>2. CASE \E l \in Locks : Request(l)
  BY <1>2, QueuesKept DEF Request
<1>3. CASE UNCHANGED vars
  BY <1>3, QueuesKept DEF vars
<1> QED BY <1>1, <1>2, <1>3, YieldQueues, ExitQueues, BlockQueues, ReleaseQueues DEF Next

LEMMA InvAlways == Spec => [](Inv /\ QueuesHold)
  BY InitInv, NextInv, InitQueues, NextQueues, PTL DEF Spec

\* Each task is once in the queue of its state and in no other, whatever the number
\* of tasks: a push never meets a full ring, so nobody has to check (queue.c:7-39).
THEOREM NoTaskIsLost == Spec => []NoTaskLost
<1>1. Inv /\ QueuesHold => NoTaskLost
  <2> SUFFICES ASSUME Inv, QueuesHold, NEW t \in Task
               PROVE  /\ In(ready_queue, t) = IF state[t] = "PROCESS_READY" THEN 1 ELSE 0
                      /\ In(blocked_queue, t) = IF state[t] = "PROCESS_BLOCKED" THEN 1 ELSE 0
    BY DEF NoTaskLost
  <2>1. In(ready_queue, t) = IF t \in InState("PROCESS_READY") THEN 1 ELSE 0
    BY CountLinked DEF Inv, TypeOK, QueuesHold, InState
  <2>2. In(blocked_queue, t) = IF t \in InState("PROCESS_BLOCKED") THEN 1 ELSE 0
    BY CountLinked DEF Inv, TypeOK, QueuesHold, InState
  <2> QED BY <2>1, <2>2 DEF InState
<1> QED BY <1>1, InvAlways, PTL

-----------------------------------------------------------------------------
(* No release is missed. *)

\* What the lock of lock.c keeps: only a task in lock_acquire() is blocked, it has no
\* lock there, and a lock is LOCKED only while a task has it.
LocksTold ==
  /\ \A t \in Task : state[t] = "PROCESS_BLOCKED" => wants[t] # NULL
  /\ \A t \in Task : wants[t] # NULL => holds[t] = NULL
  /\ \A l \in Locks : status[l] = "LOCKED" => \E u \in Task : holds[u] = l

\* scheduler() changes no state but that of the task it runs.
LEMMA ScheduleStates ==
  ASSUME NEW q \in Ring, NEW st \in [Task -> State], Schedule(q, st)
  PROVE  \A t \in Task : state'[t] \in {st[t], "PROCESS_RUNNING"}
  BY DEF Schedule

LEMMA InitTold == Init => LocksTold /\ NoLostWakeup
  BY DEF Init, LocksTold, NoLostWakeup

\* What leaves the locks alone and blocks nobody.
LEMMA ToldKept ==
  ASSUME LocksTold, NoLostWakeup, UNCHANGED <<status, wants, holds>>,
         \A t \in Task : state'[t] = "PROCESS_BLOCKED" => state[t] = "PROCESS_BLOCKED"
  PROVE  LocksTold' /\ NoLostWakeup'
  BY DEF LocksTold, NoLostWakeup

LEMMA YieldTold == Inv /\ LocksTold /\ NoLostWakeup /\ (Yield \/ Exit) => LocksTold' /\ NoLostWakeup'
<1> SUFFICES ASSUME Inv, LocksTold, NoLostWakeup, Yield \/ Exit PROVE LocksTold' /\ NoLostWakeup'
  OBVIOUS
<1>1. current \in Task /\ ready_queue \in Ring /\ state \in [Task -> State]
  BY DEF Inv, TypeOK, Yield, Exit, MayCall
<1>2. PICK q \in Ring, s \in {"PROCESS_READY", "PROCESS_EXITED"} :
        Schedule(q, [state EXCEPT ![current] = s])
  <2>1. CASE Yield
    <3>1. Push(ready_queue, current) \in Ring
      BY <1>1, PushType
    <3> QED BY <2>1, <3>1 DEF Yield
  <2>2. CASE Exit
    BY <2>2, <1>1 DEF Exit
  <2> QED BY <2>1, <2>2
<1>3. [state EXCEPT ![current] = s] \in [Task -> State]
  BY <1>1 DEF State
<1>4. \A t \in Task : state'[t] \in {[state EXCEPT ![current] = s][t], "PROCESS_RUNNING"}
  BY <1>2, <1>3, ScheduleStates
<1>5. \A t \in Task : state'[t] = "PROCESS_BLOCKED" => state[t] = "PROCESS_BLOCKED"
  BY <1>1, <1>4
<1> QED BY <1>5, ToldKept DEF Yield, Exit

\* Who blocks waits for a lock that is LOCKED, which some task has.
LEMMA BlockTold ==
  Inv /\ LocksTold /\ NoLostWakeup /\ (\A l, m \in Locks : l = m) /\ Block
    => LocksTold' /\ NoLostWakeup'
<1> SUFFICES ASSUME Inv, LocksTold, NoLostWakeup, \A l, m \in Locks : l = m, Block
             PROVE  LocksTold' /\ NoLostWakeup'
  OBVIOUS
<1>1. /\ current \in Task /\ ready_queue \in Ring /\ state \in [Task -> State]
      /\ wants \in [Task -> Locks \cup {NULL}] /\ wants[current] # NULL
      /\ status[wants[current]] = "LOCKED" /\ UNCHANGED <<status, wants, holds>>
  BY DEF Inv, TypeOK, Block, MustBlock
<1>2. Schedule(ready_queue, [state EXCEPT ![current] = "PROCESS_BLOCKED"])
  BY DEF Block
<1>3. [state EXCEPT ![current] = "PROCESS_BLOCKED"] \in [Task -> State]
  BY <1>1 DEF State
<1>4. \A t \in Task :
        state'[t] \in {[state EXCEPT ![current] = "PROCESS_BLOCKED"][t], "PROCESS_RUNNING"}
  BY <1>1, <1>2, <1>3, ScheduleStates
<1>5. \A t \in Task : state'[t] = "PROCESS_BLOCKED" => state[t] = "PROCESS_BLOCKED" \/ t = current
  BY <1>1, <1>4
<1>6. LocksTold'
  BY <1>1, <1>5 DEF LocksTold
<1>7. PICK u \in Task : holds[u] = wants[current]
  BY <1>1 DEF LocksTold
<1>8. \A t \in Task : state'[t] = "PROCESS_BLOCKED" => wants[t] = wants[current]
  BY <1>1, <1>5 DEF LocksTold
<1>9. NoLostWakeup'
  BY <1>1, <1>7, <1>8 DEF NoLostWakeup
<1> QED BY <1>6, <1>9

LEMMA AcquireTold ==
  Inv /\ QueuesHold /\ LocksTold /\ NoLostWakeup /\ (\A l, m \in Locks : l = m) /\ Acquire
    => LocksTold' /\ NoLostWakeup'
<1> SUFFICES ASSUME Inv, QueuesHold, LocksTold, NoLostWakeup, \A l, m \in Locks : l = m, Acquire
             PROVE  LocksTold' /\ NoLostWakeup'
  OBVIOUS
<1> DEFINE l == wants[current]
<1>1. /\ current \in Task /\ l \in Locks /\ wants \in [Task -> Locks \cup {NULL}]
      /\ holds \in [Task -> Locks \cup {NULL}] /\ status \in [Locks -> {"UNLOCKED", "LOCKED"}]
  BY DEF Inv, TypeOK, Acquire
<1>2. state' = state /\ state[current] = "PROCESS_RUNNING"
  BY <1>1 DEF Acquire, queues, QueuesHold
<1>3. /\ status' = [status EXCEPT ![l] = "LOCKED"]
      /\ holds' = [holds EXCEPT ![current] = l]
      /\ wants' = [wants EXCEPT ![current] = NULL]
  BY DEF Acquire
<1>4. holds[current] = NULL
  BY <1>1, CoopAssumption DEF LocksTold
<1> HIDE DEF l
<1>5. LocksTold'
  <2>1. \A t \in Task : state'[t] = "PROCESS_BLOCKED" => wants'[t] # NULL
    BY <1>1, <1>2, <1>3 DEF LocksTold
  <2>2. \A t \in Task : wants'[t] # NULL => holds'[t] = NULL
    BY <1>1, <1>3 DEF LocksTold
  <2>3. \A m \in Locks : status'[m] = "LOCKED" => \E u \in Task : holds'[u] = m
    BY <1>1, <1>3
  <2> QED BY <2>1, <2>2, <2>3 DEF LocksTold
<1>6. \A t \in Task : state'[t] = "PROCESS_BLOCKED" => wants'[t] = l
  BY <1>1, <1>2, <1>3 DEF LocksTold
<1>7. holds'[current] = l
  BY <1>1, <1>3
<1>8. NoLostWakeup'
  BY <1>1, <1>6, <1>7 DEF NoLostWakeup
<1> QED BY <1>5, <1>8

LEMMA RequestTold ==
  ASSUME NEW l \in Locks, Inv, QueuesHold, LocksTold, NoLostWakeup, Request(l)
  PROVE  LocksTold' /\ NoLostWakeup'
<1>1. /\ current \in Task /\ wants \in [Task -> Locks \cup {NULL}]
      /\ wants[current] = NULL /\ holds[current] = NULL
      /\ wants' = [wants EXCEPT ![current] = l] /\ UNCHANGED <<state, status, holds>>
  BY DEF Inv, TypeOK, Request, MayCall
<1>2. state[current] = "PROCESS_RUNNING"
  BY <1>1 DEF QueuesHold
<1>3. LocksTold'
  BY <1>1, CoopAssumption DEF LocksTold
<1>4. NoLostWakeup'
  <2> SUFFICES ASSUME NEW t \in Task, state[t] = "PROCESS_BLOCKED"
               PROVE  \/ \E u \in Task : holds[u] = wants[t]
                      \/ \E u \in Task \ {t} : wants'[u] = wants[t] /\ state[u] # "PROCESS_BLOCKED"
    BY <1>1, <1>2 DEF NoLostWakeup
  <2>1. CASE \E u \in Task : holds[u] = wants[t]
    BY <2>1
  <2>2. CASE \E u \in Task \ {t} : wants[u] = wants[t] /\ state[u] # "PROCESS_BLOCKED"
    <3>1. PICK u \in Task \ {t} : wants[u] = wants[t] /\ state[u] # "PROCESS_BLOCKED"
      BY <2>2
    <3>2. u # current
      BY <1>1, <3>1 DEF LocksTold
    <3> QED BY <1>1, <3>1, <3>2
  <2> QED BY <2>1, <2>2 DEF NoLostWakeup
<1> QED BY <1>3, <1>4

\* Release wakes the first that is blocked, which with one lock is on its way to take
\* it: the others that are blocked wait for it.
LEMMA ReleaseTold ==
  Inv /\ QueuesHold /\ LocksTold /\ NoLostWakeup /\ (\A l, m \in Locks : l = m) /\ Release
    => LocksTold' /\ NoLostWakeup'
<1> SUFFICES ASSUME Inv, QueuesHold, LocksTold, NoLostWakeup, \A l, m \in Locks : l = m, Release
             PROVE  LocksTold' /\ NoLostWakeup'
  OBVIOUS
<1> DEFINE f == Front(blocked_queue)
           l == holds[current]
<1>1. /\ current \in Task /\ l \in Locks /\ wants \in [Task -> Locks \cup {NULL}]
      /\ holds \in [Task -> Locks \cup {NULL}] /\ status \in [Locks -> {"UNLOCKED", "LOCKED"}]
      /\ blocked_queue \in Ring /\ f \in Task /\ state \in [Task -> State]
  BY FrontType DEF Inv, TypeOK, Release, MayCall
<1>2. /\ status' = [status EXCEPT ![l] = "UNLOCKED"]
      /\ holds' = [holds EXCEPT ![current] = NULL] /\ wants' = wants
  BY DEF Release
<1>3. /\ ~blocked_queue.isEmpty =>
           state[f] = "PROCESS_BLOCKED" /\ state' = [state EXCEPT ![f] = "PROCESS_READY"]
      /\ blocked_queue.isEmpty =>
           state' = state /\ \A t \in Task : state[t] # "PROCESS_BLOCKED"
  <2>1. CASE blocked_queue.isEmpty
    <3>1. InState("PROCESS_BLOCKED") = {}
      BY <1>1, <2>1, EmptyLinked DEF QueuesHold, InState
    <3>2. ToWake = {}
      BY <2>1 DEF ToWake
    <3> QED BY <2>1, <3>1, <3>2 DEF Release, InState
  <2>2. CASE ~blocked_queue.isEmpty
    <3>1. f \in InState("PROCESS_BLOCKED")
      BY <1>1, <2>2, PoppedLinked DEF QueuesHold, InState
    <3>2. f \in ToWake
      BY <1>1, <2>2 DEF ToWake
    <3> QED BY <2>2, <3>1, <3>2 DEF Release, InState
  <2> QED BY <2>1, <2>2
<1> HIDE DEF f, l
<1>4. \A t \in Task : state'[t] = "PROCESS_BLOCKED" => state[t] = "PROCESS_BLOCKED"
  BY <1>1, <1>3
<1>5. LocksTold'
  <2>1. \A t \in Task : state'[t] = "PROCESS_BLOCKED" => wants'[t] # NULL
    BY <1>2, <1>4 DEF LocksTold
  <2>2. \A t \in Task : wants'[t] # NULL => holds'[t] = NULL
    BY <1>1, <1>2 DEF LocksTold
  <2>3. \A m \in Locks : status'[m] # "LOCKED"
    BY <1>1, <1>2
  <2> QED BY <2>1, <2>2, <2>3 DEF LocksTold
<1>6. NoLostWakeup'
  <2> SUFFICES ASSUME NEW t \in Task, state'[t] = "PROCESS_BLOCKED"
               PROVE  \E u \in Task \ {t} : wants'[u] = wants'[t] /\ state'[u] # "PROCESS_BLOCKED"
    BY DEF NoLostWakeup
  <2>1. ~blocked_queue.isEmpty /\ state'[f] = "PROCESS_READY" /\ f # t
    BY <1>1, <1>3
  <2>2. wants[f] # NULL /\ wants[t] # NULL
    BY <1>1, <1>3, <1>4, <2>1 DEF LocksTold
  <2> QED BY <1>1, <1>2, <2>1, <2>2
<1> QED BY <1>5, <1>6

\* With one lock (th2.c:22-40), no release is
\* missed, though unblock() wakes the first of all that are blocked (lock.c:50-53).
THEOREM NoWakeupIsLost ==
  ASSUME \A l, m \in Locks : l = m
  PROVE  Spec => []NoLostWakeup
<1> DEFINE I == Inv /\ QueuesHold
           J == LocksTold /\ NoLostWakeup
<1>1. I /\ J /\ [Next]_vars => J'
  <2> SUFFICES ASSUME Inv, QueuesHold, LocksTold, NoLostWakeup, [Next]_vars
               PROVE  LocksTold' /\ NoLostWakeup'
    OBVIOUS
  <2>1. CASE Yield \/ Exit
    BY <2>1, YieldTold
  <2>2. CASE Block
    BY <2>2, BlockTold
  <2>3. CASE Acquire
    BY <2>3, AcquireTold
  <2>4. CASE Release
    BY <2>4, ReleaseTold
  <2>5. CASE \E l \in Locks : Request(l)
    BY <2>5, RequestTold
  <2>6. CASE UNCHANGED vars
    BY <2>6, ToldKept DEF vars
  <2> QED BY <2>1, <2>2, <2>3, <2>4, <2>5, <2>6 DEF Next
<1>2. Init => J
  BY InitTold
<1>3. J => NoLostWakeup
  OBVIOUS
<1>4. Spec => []I
  BY InvAlways
<1> QED BY <1>1, <1>2, <1>3, <1>4, PTL DEF Spec
=============================================================================
