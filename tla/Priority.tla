------------------------------ MODULE Priority ------------------------------
(***************************************************************************)
(* The preemptive scheduler of project3_start_code, scheduler.c: the ready *)
(* task of the highest priority runs, and pays 10 for it.                  *)
(*                                                                         *)
(* Kernel threads are not preempted; of the others a tick takes the CPU    *)
(* when they are not in a system call.  What a task does inside a critical *)
(* section is one action.                                                  *)
(***************************************************************************)
EXTENDS Links

CONSTANTS
  Programs,     \* the task[] of tasks.c: sequences of [type, calls]
  Tick,         \* the length of a clock tick, 1000 of do_sleep()'s milliseconds
  SleepTimes,   \* bound: the arguments of do_sleep(), in the same unit
  NULL

\* A pid above 4 would get no priority: 10*(5-pid).
ASSUME PriorityAssumption ==
  /\ \A task \in Programs : task \in Seq([type : {"KERNEL_THREAD", "PROCESS"},
       calls : SUBSET {"yield", "sleep", "exit", "block", "unblock"}]) /\ Len(task) \in 1 .. 4
  /\ Tick \in Nat \ {0} /\ SleepTimes \subseteq Nat \ {0}
  /\ NULL \notin Int

\* The list heads; pcb[i-1] is node i, and has pid i.
ready_queue == 0
sleep_wait_queue == -1
wait_queue == -2          \* of a lock or another object of sync.c

VARIABLES
  task,             \* the program, which no step changes
  links,            \* node of each pcb and list head
  status, priority, \* of each pcb
  deadline,         \* of each pcb, from the present time on, 0 if in the past
  current,          \* current_running
  scheduling        \* is the CPU inside scheduler()?

vars == <<task, links, status, priority, deadline, current, scheduling>>

Slot == DOMAIN task
IsThread(i) == task[i].type = "KERNEL_THREAD"
Running(i) == current = i /\ ~scheduling

SleeperDue ==
  ~is_empty(links, sleep_wait_queue) /\ deadline[peek(links, sleep_wait_queue)] = 0

-----------------------------------------------------------------------------
(* The calls, by which a task gives up the CPU. *)

Calling(c) == current # NULL /\ ~scheduling /\ c \in task[current].calls

SwitchOut(L, s) ==
  /\ links' = L
  /\ status' = [status EXCEPT ![current] = s]
  /\ scheduling' = TRUE
  /\ UNCHANGED <<task, priority, current>>

PutCurrentRunning == SwitchOut(enqueue(links, ready_queue, current), "READY")

Yield == Calling("yield") /\ PutCurrentRunning /\ UNCHANGED deadline

LteReversed(i, n) == deadline'[n] <= deadline'[i]   \* Mutant
LteDeadline(i, n) == deadline'[i] <= deadline'[n]

DoSleep(time) ==
  /\ Calling("sleep")
  /\ deadline' = [deadline EXCEPT ![current] = time]
  /\ SwitchOut(enqueue_sort(links, sleep_wait_queue, current,
                           {n \in Slot : LteDeadline(current, n)}), "SLEEPING")

Exit == Calling("exit") /\ SwitchOut(links, "EXITED") /\ UNCHANGED deadline

Block ==
  /\ Calling("block")
  /\ SwitchOut(enqueue(links, wait_queue, current), "BLOCKED")
  /\ UNCHANGED deadline

\* unblock(dequeue(q)), by a task that goes on running.
Unblock ==
  /\ Calling("unblock") /\ ~is_empty(links, wait_queue)
  /\ links' = MoveFirst(links, wait_queue, ready_queue)
  /\ status' = [status EXCEPT ![peek(links, wait_queue)] = "READY"]
  /\ UNCHANGED <<task, priority, deadline, current, scheduling>>

\* timer_irq(), at a process that is not in a system call, at a kernel thread, or
\* in the idle loop that a thread has entered; a process idles with interrupts off.
TimerIrq ==
  /\ current # NULL
  /\ scheduling => IsThread(current) /\ ~SleeperDue /\ is_empty(links, ready_queue)
  /\ deadline' = [i \in Slot |-> IF deadline[i] > Tick THEN deadline[i] - Tick ELSE 0]
  /\ IF IsThread(current) THEN UNCHANGED <<task, links, status, priority, current, scheduling>>
     ELSE PutCurrentRunning

-----------------------------------------------------------------------------
(* scheduler(). *)

\* A turn of check_sleeping(), which stops at the first that is not due.
WakeSleeper ==
  /\ scheduling /\ SleeperDue
  /\ links' = MoveFirst(links, sleep_wait_queue, ready_queue)
  /\ status' = [status EXCEPT ![peek(links, sleep_wait_queue)] = "READY"]
  /\ UNCHANGED <<task, priority, deadline, current, scheduling>>

\* The first of those with the highest priority.
Highest(L) ==
  LET ready == Items(L, ready_queue)
      best == CHOOSE n \in DOMAIN ready : \A m \in DOMAIN ready :
        LET p == priority[ready[n]]  q == priority[ready[m]]
        IN p > q \/ (p = q /\ n <= m)
  IN ready[best]

UnlinkForwards(L, i) == [L EXCEPT !.next[L.prev[i]] = L.next[i]]   \* Mutant
Extract(L, i) ==
  LET out == Unlink(L, i)
  IN [prev |-> [out.prev EXCEPT ![i] = NULL], next |-> [out.next EXCEPT ![i] = NULL]]

PriorityKept(i) == priority[i]   \* Mutant: nothing is paid
PriorityAfter(i) == IF priority[i] > 10 THEN priority[i] - 10 ELSE 10 * (5 - i)

Schedule ==
  /\ scheduling /\ ~SleeperDue
  /\ ~is_empty(links, ready_queue)
  /\ current' = Highest(links)
  /\ links' = Extract(links, current')
  /\ priority' = [priority EXCEPT ![current'] = PriorityAfter(current')]
  /\ scheduling' = FALSE
  /\ UNCHANGED <<task, status, deadline>>

-----------------------------------------------------------------------------
\* _start() has put every task in the ready queue.
Init ==
  /\ task \in Programs
  /\ LET self == [n \in Slot \cup {ready_queue, sleep_wait_queue, wait_queue} |->
                    IF n \in Slot THEN NULL ELSE n]
         filled[n \in 0 .. Len(task)] ==
           IF n = 0 THEN [prev |-> self, next |-> self]
           ELSE enqueue(filled[n - 1], ready_queue, n)
     IN links = filled[Len(task)]
  /\ status = [i \in Slot |-> "FIRST_TIME"]
  /\ priority = [i \in Slot |-> 10 * (5 - i)]
  /\ deadline = [i \in Slot |-> 0]
  /\ current = NULL /\ scheduling = TRUE

GiveUpCpu ==
  Yield \/ Exit \/ Block \/ \E time \in SleepTimes : DoSleep(time)

Next == GiveUpCpu \/ Unblock \/ TimerIrq \/ WakeSleeper \/ Schedule

Spec == Init /\ [][Next]_vars

\* The clock runs while interrupts are on, and threads, which nothing preempts,
\* call do_yield() or another of these in their loops.
FairSpec ==
  Spec /\ WF_vars(WakeSleeper \/ Schedule) /\ WF_vars(TimerIrq) /\ WF_vars(GiveUpCpu)

-----------------------------------------------------------------------------
(* Properties. *)

\* A task never runs out of priority, nor gets more than it started with
\* (scheduler.c:72-75).
TypeOK ==
  /\ task \in Programs
  /\ status \in [Slot -> {"FIRST_TIME", "READY", "SLEEPING", "BLOCKED", "EXITED"}]
  /\ priority \in [Slot -> Nat] /\ \A i \in Slot : \E k \in 1 .. 5 - i : priority[i] = 10 * k
  /\ deadline \in [Slot -> Nat]
  /\ current \in Slot \cup {NULL} /\ scheduling \in BOOLEAN

\* Taking a task out of the middle of the ready queue leaves it a ring, and every
\* task that lives either runs or is in the one queue of its status, while one
\* that gave up the CPU is already in its queue (scheduler.c:63-71).
QueuesIntact ==
  /\ \A q \in {ready_queue, sleep_wait_queue, wait_queue} : IsRing(links, q)
  /\ \A i \in Slot :
       LET queues == {q \in {ready_queue, sleep_wait_queue, wait_queue} : Linked(links, q, i)}
       IN IF Running(i) \/ status[i] = "EXITED" THEN queues = {}
          ELSE queues = {CASE status[i] = "SLEEPING" -> sleep_wait_queue
                           [] status[i] = "BLOCKED" -> wait_queue
                           [] OTHER -> ready_queue}

\* When a task is picked no task whose deadline has passed still sleeps, in
\* whatever order they went to sleep (scheduler.c:26, "wake up sleeping processes
\* whose deadlines have passed").
SleepersWokenInTime ==
  [][ scheduling /\ ~scheduling' =>
        \A i \in Slot : status'[i] = "SLEEPING" => deadline[i] > 0 ]_vars

\* A ready task runs at last, whatever the priorities of the others are
\* (scheduler.c:72-75).
ReadyTasksRun ==
  \A i \in 1 .. 4 : i \in Slot /\ Linked(links, ready_queue, i) ~> Running(i)

=============================================================================
