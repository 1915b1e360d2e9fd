----------------------------- MODULE Scheduler -----------------------------
(***************************************************************************)
(* The uniprocessor scheduler of project4_start_code: scheduler.c, the     *)
(* context switch, critical sections, exceptions and system-call path of   *)
(* entry.S and interrupt.c, and the boot, spawn and first entry of         *)
(* kernel.c.                                                               *)
(*                                                                         *)
(* One CPU executes; "pc" names the point it has reached.  An action runs  *)
(* the code from one point to the next, and every place where the CPU may  *)
(* accept the timer interrupt is a point.  What keeps the timer out of a   *)
(* critical section is Status.IE, cleared by enter_critical; what keeps it *)
(* out of exception code is Status.EXL, set by the CPU on an exception,    *)
(* cleared by eret and carried across context switches in the saved        *)
(* Status.                                                                 *)
(***************************************************************************)
EXTENDS Integers, Sequences, Queues

CONSTANTS
  NumPcbs,       \* NUM_PCBS, the size of the process table
  NumStacks,     \* stacks stack_new() can hand out: 16 in kernel.c
  MaxSpawns,     \* bound: calls of do_spawn()
  SpawnTypes,    \* task types of the programs in the ramdisk (files.c)
  SleepTicks,    \* arguments of do_sleep(), as milliseconds/1000
  WaitQueue,     \* the wait queues of locks, conditions, semaphores, barriers
  Calls          \* the services that the program of each pid calls

Service == {"getpid", "yield", "sleep", "exit", "spawn", "sync"}
TaskType == {"KERNEL_THREAD", "PROCESS"}

ASSUME SchedulerAssumption ==
  /\ NumPcbs \in Nat \ {0}
  /\ NumStacks \in Nat
  /\ MaxSpawns \in Nat \ {0}
  /\ SpawnTypes \subseteq TaskType
  /\ SleepTicks \subseteq Nat
  /\ WaitQueue \cap {"ready_queue", "sleep_wait_queue"} = {}
  /\ Calls \in [1 .. MaxSpawns -> SUBSET Service]

Garbage == 0                    \* garbage_registers, the pcb _start runs on
Slot == 1 .. NumPcbs            \* pcb[]
Pcb == {Garbage} \cup Slot
Pid == 0 .. MaxSpawns
Queue == {"ready_queue", "sleep_wait_queue"} \cup WaitQueue
Status == {"FIRST_TIME", "READY", "BLOCKED", "EXITED", "SLEEPING"}

VARIABLES
  pc,              \* the point the CPU has reached
  current_running,
  ie, exl,         \* Status.IE and Status.EXL
  epc,             \* CP0 EPC: the program point an eret returns to
  disable_count,
  queue,           \* each queue head with the pcbs linked behind it, in order
  status, task_type, nested_count, pid,
  deadline,        \* ticks until pcb.deadline: deadline - time_elapsed, 0 once expired
  kernel_tf,       \* saved ra, Status.EXL and EPC
  user_tf,         \* saved EPC
  stacks,          \* stacks handed out by stack_new()
  spawn_times

cpu == <<pc, ie, exl, epc, disable_count>>
frames == <<kernel_tf, user_tf>>
tasks == <<status, task_type, nested_count, pid, deadline>>
alloc == <<stacks, spawn_times>>
vars == <<cpu, current_running, queue, tasks, frames, alloc>>

-----------------------------------------------------------------------------
(* Program points. *)

\* The points whose next instruction is a call of enter_critical(), with the
\* point inside the critical section that the call leads to.  "sync" is any
\* operation of sync.c or mbox.c; "x_ret" is the return of scheduler_entry()
\* into x; "idle" is the loop of scheduler() between its two calls.
EnterTo ==
  [ getpid      |-> "leave",          yield     |-> "yield_cs",
    sleep       |-> "sleep_cs",       sleep_ret |-> "leave",
    exit        |-> "exit_cs",        spawn     |-> "spawn_cs",
    sync        |-> "sync_cs",        block_ret |-> "sync_cs",
    first_entry |-> "first_entry_cs", idle      |-> "scheduler",
    boot        |-> "boot_cs" ]

EnterPoint ==
  {"getpid", "yield", "sleep", "sleep_ret", "exit", "spawn", "sync",
   "block_ret", "first_entry", "idle", "boot"}

\* The points between enter_critical() and the matching leave_critical().
CriticalPoint ==
  {"leave", "yield_cs", "sleep_cs", "exit_cs", "spawn_cs", "sync_cs",
   "first_entry_cs", "scheduler", "dispatch", "boot_cs"}

\* The tasks' own code, and the exits of the two exception handlers.
PlainPoint == {"user", "thread", "timer_ret", "sysret"}

\* A stopped machine, the code after a scheduler_entry() that must not return,
\* and address 0, where a frame of zeroed memory leads.
DeadPoint == {"panic", "halt", "exit_ret", "boot_ret", "reset"}

Point == EnterPoint \cup CriticalPoint \cup PlainPoint \cup DeadPoint

Frame == [at : Point, of : Pid]
ZeroFrame == [at |-> "reset", of |-> 0]

IsThread(p) == task_type[p] = "KERNEL_THREAD"

\* The code of p itself, and what a service called by p returns to: a thread
\* calls it directly, a process through system_call_helper(), and _start()
\* calls do_spawn() while garbage_registers is current.
Code(p) == IF IsThread(p) THEN "thread" ELSE "user"
CallerDirect(p) == IF p = Garbage THEN "boot" ELSE Code(p)   \* Mutant: no sysret
Caller(p) ==
  IF p = Garbage THEN "boot" ELSE IF IsThread(p) THEN "thread" ELSE "sysret"

\* A failing ASSERT, or an unpaired ENTER_CRITICAL or LEAVE_CRITICAL, stops the
\* machine: what the step leaves in the other variables is never used.
Goto(p, cond, stop) == pc' = IF cond THEN p ELSE stop

-----------------------------------------------------------------------------
(* The queues. *)

\* The first task of one queue goes to the tail of another.
Move(qs, from, to) == Enqueue(Dequeue(qs, from), to, Head(qs[from]))
IsEmpty(q) == queue[q] = <<>>

-----------------------------------------------------------------------------
(* Critical sections. *)

EnterCritical ==
  /\ pc \in EnterPoint
  /\ Goto(EnterTo[pc], disable_count = 0, "panic")
  /\ disable_count' = 1
  /\ ie' = FALSE
  /\ UNCHANGED <<current_running, exl, epc, queue, tasks, frames, alloc>>

LeaveCritical ==
  /\ pc \in {"leave", "sync_cs", "first_entry_cs"}
  /\ Goto(IF pc = "first_entry_cs" THEN Code(current_running)
                                   ELSE Caller(current_running),
          disable_count = 1, "panic")
  /\ disable_count' = 0
  /\ ie' = TRUE
  /\ UNCHANGED <<current_running, exl, epc, queue, tasks, frames, alloc>>

-----------------------------------------------------------------------------
(* The context switch. *)

\* Mutant: the saved Status loses EXL.
SwitchOutUnmasked(ra, cond, stop) ==
  /\ kernel_tf' = [kernel_tf EXCEPT ![current_running] =
                     [ra |-> ra, exl |-> FALSE, epc |-> epc']]
  /\ Goto("scheduler", cond, stop)

\* scheduler_entry() up to the first statement of scheduler(): the current
\* task's kernel context is saved, to resume at ra.
SwitchOut(ra, cond, stop) ==
  /\ kernel_tf' = [kernel_tf EXCEPT ![current_running] =
                     [ra |-> ra, exl |-> exl', epc |-> epc']]
  /\ Goto("scheduler", cond, stop)

\* Mutant: sleepers are woken by the idle loop only.
ExpiredWhenIdle ==
  ~IsEmpty("sleep_wait_queue") /\ IsEmpty("ready_queue")
  /\ deadline[Head(queue["sleep_wait_queue"])] = 0
Expired ==
  ~IsEmpty("sleep_wait_queue") /\ deadline[Head(queue["sleep_wait_queue"])] = 0

\* An iteration of check_sleeping().
WakeSleeper ==
  /\ pc = "scheduler"
  /\ Expired
  /\ status' = [status EXCEPT ![Head(queue["sleep_wait_queue"])] = "READY"]
  /\ queue' = Move(queue, "sleep_wait_queue", "ready_queue")
  /\ UNCHANGED <<cpu, current_running, task_type, nested_count, pid, deadline,
                 frames, alloc>>

\* Mutant: the idle loop does not leave the critical section.
IdleLocked ==
  /\ pc = "scheduler" /\ ~Expired /\ IsEmpty("ready_queue")
  /\ pc' = "idle"
  /\ UNCHANGED <<current_running, ie, exl, epc, disable_count, queue, tasks,
                 frames, alloc>>

\* No task is ready: leave_critical(), and loop.
Idle ==
  /\ pc = "scheduler"
  /\ ~Expired
  /\ IsEmpty("ready_queue")
  /\ Goto("idle", disable_count = 1, "panic")
  /\ disable_count' = 0
  /\ ie' = TRUE
  /\ UNCHANGED <<current_running, exl, epc, queue, tasks, frames, alloc>>

PickNext ==
  /\ pc = "scheduler"
  /\ ~Expired
  /\ ~IsEmpty("ready_queue")
  /\ current_running' = Head(queue["ready_queue"])
  /\ queue' = Dequeue(queue, "ready_queue")
  /\ pc' = "dispatch"
  /\ UNCHANGED <<ie, exl, epc, disable_count, tasks, frames, alloc>>

\* LEAVE_CRITICAL, RESTORE_CONTEXT(KERNEL), STI, jr ra.
Dispatch ==
  /\ pc = "dispatch"
  /\ Goto(kernel_tf[current_running].ra, disable_count = 1, "panic")
  /\ disable_count' = 0
  /\ exl' = kernel_tf[current_running].exl
  /\ epc' = kernel_tf[current_running].epc
  /\ ie' = TRUE
  /\ UNCHANGED <<current_running, queue, tasks, frames, alloc>>

\* Mutant: the task that gives up the CPU is the next to run.
PutCurrentRunningFirst ==
  /\ status' = [status EXCEPT ![current_running] = "READY"]
  /\ queue' = [queue EXCEPT !["ready_queue"] = <<current_running>> \o @]
PutCurrentRunning ==
  /\ status' = [status EXCEPT ![current_running] = "READY"]
  /\ queue' = Enqueue(queue, "ready_queue", current_running)

-----------------------------------------------------------------------------
(* Exceptions. *)

\* What the CPU does first: EPC is latched unless EXL is already set.
Exception ==
  /\ epc' = IF exl THEN epc ELSE [at |-> pc, of |-> pid[current_running]]
  /\ exl' = TRUE

\* Mutant: the handler returns with jr instead of eret.
ExceptionReturnMasked(cond, stop) ==
  /\ Goto(user_tf[current_running].at, cond, stop)
  /\ epc' = user_tf[current_running]
  /\ exl' = exl
  /\ ie' = TRUE
  /\ disable_count' = 0

\* RESTORE_CONTEXT(USER), STI, eret.
ExceptionReturn(cond, stop) ==
  /\ Goto(user_tf[current_running].at, cond, stop)
  /\ epc' = user_tf[current_running]
  /\ exl' = FALSE
  /\ ie' = TRUE
  /\ disable_count' = 0

Tick == deadline' = [p \in Pcb |-> IF deadline[p] = 0 THEN 0 ELSE deadline[p] - 1]

\* handle_int and timer_irq(): kernel code (nested_count # 0) is resumed at
\* once, anything else goes to the tail of the ready queue.
TimerTick ==
  /\ ie /\ ~exl
  /\ nested_count[current_running] # 0
  /\ user_tf' = [user_tf EXCEPT ![current_running] =
                   [at |-> pc, of |-> pid[current_running]]]
  /\ epc' = user_tf'[current_running]
  /\ Goto(pc, disable_count = 0, "panic")
  /\ Tick
  /\ UNCHANGED <<current_running, ie, exl, disable_count, queue, status,
                 task_type, nested_count, pid, kernel_tf, alloc>>

TimerPreempt ==
  /\ ie /\ ~exl
  /\ nested_count[current_running] = 0
  /\ Exception
  /\ user_tf' = [user_tf EXCEPT ![current_running] = epc']
  /\ disable_count' = 1
  /\ ie' = FALSE
  /\ Tick
  /\ PutCurrentRunning
  /\ SwitchOut("timer_ret", disable_count = 0, "panic")
  /\ UNCHANGED <<current_running, task_type, nested_count, pid, alloc>>

TimerInterrupt == TimerTick \/ TimerPreempt

\* timer_irq() calls enter_critical() again, handle_int leaves.
TimerReturn ==
  /\ pc = "timer_ret"
  /\ ExceptionReturn(disable_count = 0, "panic")
  /\ UNCHANGED <<current_running, queue, tasks, frames, alloc>>

\* handle_syscall, and system_call_helper() up to the call of the service.
Syscall(s) ==
  /\ pc = "user"
  /\ s \in Calls[pid[current_running]]
  /\ s = "spawn" => spawn_times < MaxSpawns
  /\ Exception
  /\ user_tf' = [user_tf EXCEPT ![current_running] = epc']
  /\ nested_count' = [nested_count EXCEPT ![current_running] = @ + 1]
  /\ Goto(s, nested_count[current_running] = 0 /\ disable_count = 0, "halt")
  /\ UNCHANGED <<current_running, ie, disable_count, queue, status, task_type,
                 pid, deadline, kernel_tf, alloc>>

\* The rest of system_call_helper() and handle_syscall.
SyscallReturn ==
  /\ pc = "sysret"
  /\ nested_count' = [nested_count EXCEPT ![current_running] = @ - 1]
  /\ ExceptionReturn(nested_count[current_running] = 1 /\ disable_count = 0, "halt")
  /\ UNCHANGED <<current_running, queue, status, task_type, pid, deadline,
                 frames, alloc>>

\* A kernel thread calls the service itself; do_spawn() is static in kernel.c.
ThreadCall(s) ==
  /\ pc = "thread"
  /\ s \in Calls[pid[current_running]] \ {"spawn"}
  /\ pc' = s
  /\ UNCHANGED <<current_running, ie, exl, epc, disable_count, queue, tasks,
                 frames, alloc>>

-----------------------------------------------------------------------------
(* The services, inside their critical sections. *)

DoYield ==
  /\ pc = "yield_cs"
  /\ PutCurrentRunning
  /\ UNCHANGED <<current_running, ie, exl, epc, disable_count, task_type,
                 nested_count, pid, deadline, user_tf, alloc>>
  /\ SwitchOut(Caller(current_running), disable_count # 0, "halt")

\* A sleep shorter than a tick returns at once.
DoSleep(ticks) ==
  /\ pc = "sleep_cs"
  /\ deadline' = [deadline EXCEPT ![current_running] = ticks]
  /\ UNCHANGED <<current_running, ie, exl, epc, disable_count, task_type,
                 nested_count, pid, user_tf, alloc>>
  /\ IF ticks > 0
     THEN /\ status' = [status EXCEPT ![current_running] = "SLEEPING"]
          /\ queue' = Enqueue(queue, "sleep_wait_queue", current_running)
          /\ SwitchOut("sleep_ret", disable_count # 0, "halt")
     ELSE /\ pc' = "leave"
          /\ UNCHANGED <<status, queue, kernel_tf>>

DoExit ==
  /\ pc = "exit_cs"
  /\ status' = [status EXCEPT ![current_running] = "EXITED"]
  /\ UNCHANGED <<current_running, ie, exl, epc, disable_count, queue, task_type,
                 nested_count, pid, deadline, user_tf, alloc>>
  /\ SwitchOut("exit_ret", disable_count # 0, "halt")

\* block(), from an operation of sync.c or mbox.c.
Block(w) ==
  /\ pc = "sync_cs"
  /\ status' = [status EXCEPT ![current_running] = "BLOCKED"]
  /\ queue' = Enqueue(queue, w, current_running)
  /\ UNCHANGED <<current_running, ie, exl, epc, disable_count, task_type,
                 nested_count, pid, deadline, user_tf, alloc>>
  /\ SwitchOut("block_ret", disable_count # 0, "halt")

\* unblock_one(), when a task is waiting; when none is, nothing changes.
UnblockOne(w) ==
  /\ pc = "sync_cs"
  /\ ~IsEmpty(w)
  /\ status' = [status EXCEPT ![Head(queue[w])] = "READY"]
  /\ queue' = Move(queue, w, "ready_queue")
  /\ Goto("sync_cs", disable_count # 0 /\ nested_count[current_running] # 0, "halt")
  /\ UNCHANGED <<current_running, ie, exl, epc, disable_count, task_type,
                 nested_count, pid, deadline, frames, alloc>>

\* stack_new() is called once for a thread, twice for a process.
StacksOf(type) == IF type = "PROCESS" THEN 2 ELSE 1

\* A thread always runs in the kernel.
NestingNone(type) == 0   \* Mutant
Nesting(type) == IF type = "PROCESS" THEN 0 ELSE 1

FreeSlotsInactive == {i \in Slot : status[i] \in {"EXITED", "SLEEPING"}}   \* Mutant
FreeSlots == {i \in Slot : status[i] = "EXITED"}

\* do_spawn() and initialize_pcb().  The saved Status and EPC of the slot's
\* previous occupant stay in kernel_tf.
DoSpawn(type) ==
  /\ pc = "spawn_cs"
  /\ IF current_running = Garbage THEN type = "PROCESS" ELSE type \in SpawnTypes
  /\ spawn_times' = spawn_times + 1
  /\ IF FreeSlots = {}
     THEN pc' = "leave" /\ UNCHANGED <<queue, tasks, kernel_tf, stacks>>
     ELSE LET i == CHOOSE i \in FreeSlots : \A j \in FreeSlots : i <= j IN
       /\ status' = [status EXCEPT ![i] = "FIRST_TIME"]
       /\ task_type' = [task_type EXCEPT ![i] = type]
       /\ nested_count' = [nested_count EXCEPT ![i] = Nesting(type)]
       /\ pid' = [pid EXCEPT ![i] = spawn_times + 1]
       /\ kernel_tf' = [kernel_tf EXCEPT ![i].ra = "first_entry"]
       /\ stacks' = stacks + StacksOf(type)
       /\ queue' = Enqueue(queue, "ready_queue", i)
       /\ Goto("leave", stacks' <= NumStacks, "halt")
       /\ UNCHANGED deadline
  /\ UNCHANGED <<current_running, ie, exl, epc, disable_count, user_tf>>

\* The end of _start().
BootDone ==
  /\ pc = "boot_cs"
  /\ UNCHANGED <<current_running, ie, exl, epc, disable_count, queue, tasks,
                 user_tf, alloc>>
  /\ SwitchOut("boot_ret", disable_count # 0, "halt")

-----------------------------------------------------------------------------
\* _start() has initialised the queues and the interrupts and is about to call
\* do_spawn("init"); the pcbs are zeroed memory but for their status.
Init ==
  /\ pc = "spawn"
  /\ ie = TRUE /\ exl = FALSE
  /\ epc = ZeroFrame
  /\ disable_count = 0
  /\ current_running = Garbage
  /\ queue = [q \in Queue |-> <<>>]
  /\ status = [p \in Pcb |-> IF p = Garbage THEN "FIRST_TIME" ELSE "EXITED"]
  /\ task_type = [p \in Pcb |-> "KERNEL_THREAD"]
  /\ nested_count = [p \in Pcb |-> 0]
  /\ pid = [p \in Pcb |-> 0]
  /\ deadline = [p \in Pcb |-> 0]
  /\ kernel_tf = [p \in Pcb |-> [ra |-> "reset", exl |-> FALSE, epc |-> ZeroFrame]]
  /\ user_tf = [p \in Pcb |-> ZeroFrame]
  /\ stacks = 0
  /\ spawn_times = 0

\* The kernel's own steps: everything but the timer and the calls that the
\* tasks' programs choose to make.
KernelStep ==
  \/ EnterCritical \/ LeaveCritical
  \/ WakeSleeper \/ Idle \/ PickNext \/ Dispatch
  \/ TimerReturn \/ SyscallReturn
  \/ DoYield \/ DoExit \/ BootDone
  \/ \E ticks \in SleepTicks : DoSleep(ticks)
  \/ \E w \in WaitQueue : Block(w) \/ UnblockOne(w)
  \/ \E type \in SpawnTypes \cup {"PROCESS"} : DoSpawn(type)

Next ==
  \/ KernelStep
  \/ \E s \in Service : Syscall(s)
  \/ \E s \in Service : ThreadCall(s)
  \/ TimerInterrupt

Spec == Init /\ [][Next]_vars

\* The CPU executes; a thread, which nothing can preempt, keeps calling the
\* kernel (a process need not); and the timer interrupt stays pending in
\* Cause.IP7 until it is taken, so it is taken if it can be again and again.
Fairness ==
  /\ WF_vars(KernelStep)
  /\ WF_vars(\E s \in Service : ThreadCall(s))
  /\ SF_vars(TimerInterrupt)

FairSpec == Spec /\ Fairness

-----------------------------------------------------------------------------
(* Properties. *)

Context == [ra : Point, exl : BOOLEAN, epc : Frame]

TypeOK ==
  /\ pc \in Point
  /\ ie \in BOOLEAN /\ exl \in BOOLEAN
  /\ epc \in Frame
  /\ disable_count \in {0, 1}
  /\ current_running \in Pcb
  /\ queue \in [Queue -> Seq(Pcb)]
  /\ status \in [Pcb -> Status]
  /\ task_type \in [Pcb -> TaskType]
  /\ nested_count \in [Pcb -> Nat]
  /\ pid \in [Pcb -> Pid]
  /\ deadline \in [Pcb -> Nat]
  /\ kernel_tf \in [Pcb -> Context]
  /\ user_tf \in [Pcb -> Frame]
  /\ stacks \in Nat
  /\ spawn_times \in Pid

\* disable_count and Status.IE agree with the code being executed: a critical
\* section stays closed, with interrupts off, across a context switch, whatever
\* operation the other task is resumed in (entry.S:171-193, 222-229).
CriticalSections ==
  pc \notin DeadPoint =>
    /\ disable_count = (IF pc \in CriticalPoint THEN 1 ELSE 0)
    /\ ie <=> pc \notin CriticalPoint

\* No ENTER_CRITICAL or LEAVE_CRITICAL panics, no ASSERT fails, and no
\* scheduler_entry() that must not return does (entry.S:171-193,
\* scheduler.c:42,66,95,103, interrupt.c:94,119, kernel.c:70,79).
NeverStops == pc \notin DeadPoint

\* The code that runs is current_running's own, not the scheduler's.
Running(p) == p = current_running /\ pc \notin {"scheduler", "idle"}

\* A task is where its status says, and no task is lost: the one that runs is in
\* no queue, and a task that has not exited runs or is in the queue it waits in.
Placed ==
  \A p \in Slot :
    /\ (\E q \in Queue : InQueue(queue, q, p)) <=> (status[p] # "EXITED" /\ ~Running(p))
    /\ Running(p) => status[p] \in {"FIRST_TIME", "READY"}
    /\ InQueue(queue, "ready_queue", p) => status[p] \in {"FIRST_TIME", "READY"}
    /\ InQueue(queue, "sleep_wait_queue", p) => status[p] = "SLEEPING"
    /\ \A w \in WaitQueue : InQueue(queue, w, p) => status[p] = "BLOCKED"

\* What block(), do_sleep(), put_current_running(), do_spawn() and check_sleeping()
\* together keep of the queues (queue.c, scheduler.c).
QueueIntegrity == LinkedOnce(queue) /\ Placed

\* The timer takes the CPU only from user code (or from a process on its way
\* there, or the boot code), never from a thread or from the inside of a system
\* call (interrupt.c:85).
KernelNotPreempted ==
  [][ (pc # "scheduler" /\ pc' = "scheduler"
       /\ kernel_tf'[current_running].ra = "timer_ret")
      => current_running = Garbage \/ pc \in {"user", "first_entry"} ]_vars

\* User code can be preempted (kernel.c:1, "Kernel with pre-emptive scheduler").
UserPreemptible == pc = "user" => ie /\ ~exl

\* No task is left asleep past its time when the scheduler picks the next task
\* (scheduler.c:43, "wake up sleeping processes"; scheduler.h:101).
NoOverdueSleeper ==
  pc = "dispatch" => \A p \in Pcb : InQueue(queue, "sleep_wait_queue", p) => deadline[p] > 0

-----------------------------------------------------------------------------
(* What scheduler.h promises, under the mapping of the concrete state. *)

SwitchedOut == pc \in {"scheduler", "idle"}

TS == INSTANCE TaskSystem WITH
  Task <- Pcb,
  Boot <- Garbage,
  Nobody <- -1,
  running <- IF SwitchedOut THEN -1 ELSE current_running,
  ready <- queue["ready_queue"],
  waiting <- {p \in Pcb : \E w \in WaitQueue : InQueue(queue, w, p)},
  sleeping <- {p \in Pcb : InQueue(queue, "sleep_wait_queue", p)},
  left <- deadline

\* Every step of the kernel is a step of the task system or leaves it alone: in
\* particular the CPU goes round the ready tasks first come, first served, and a
\* sleeping task is not ready before its time (scheduler.h:83-109).
ImplementsTaskSystem == TS!Spec

-----------------------------------------------------------------------------
(* Progress, under Fairness. *)

\* A ready task runs.
ReadyTasksRun ==
  \A p \in Slot : InQueue(queue, "ready_queue", p) ~> Running(p)

\* While some thread stays alive, as clock_thread does (th1.c:13-16), a sleeping
\* task does not sleep for ever.
ClockRuns == \E t \in Slot : IsThread(t) /\ status[t] \in {"FIRST_TIME", "READY"}
SleepersWake ==
  \A p \in Slot : status[p] = "SLEEPING" /\ ClockRuns ~> status[p] # "SLEEPING"

\* The same without that condition.
EverySleeperWakes ==
  \A p \in Slot : status[p] = "SLEEPING" ~> status[p] # "SLEEPING"
=============================================================================
