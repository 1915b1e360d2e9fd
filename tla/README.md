# A TLA+ verification of OS_code

`OS_code` holds four versions of a teaching kernel for a MIPS board, each built on the one
before: a cooperative kernel (`Project2-Non-Preemptive-Kernel`), a preemptive one with
priorities (`project3_start_code`), one with processes that can be spawned and killed,
synchronisation objects and message boxes (`project4_start_code`), and one with virtual memory
(`project5_start_code`). Most of the development is about the largest, project 4; of the others it
models what they do differently. Paths without a directory below are in `src/project4_start_code`.

Contents: [the system](#the-system), [the modules](#the-modules),
[the runs](#the-runs-and-what-they-show), [findings](#findings), [the proofs](#the-proofs),
[what is only checked and what is left out](#what-is-only-checked-and-what-is-left-out),
[the plan](#the-plan).

## The system

There is one CPU. Code runs in one of three ways: as user code of a process, as a kernel thread,
or inside the kernel on behalf of either. Two bits of the CP0 Status register decide whether
the timer interrupt can be taken: `IE`, cleared by `enter_critical()` and set by
`leave_critical()`, and `EXL`, set by the CPU when it takes an exception and cleared by `eret`.
`EXL` travels with the saved context of a task, and most of what is subtle in this kernel comes
from that.

| part | state | operations | talks to |
|---|---|---|---|
| scheduler (`scheduler.c`) | `ready_queue`, `sleep_wait_queue`, `current_running`, `time_elapsed`, `pcb.status`, `pcb.deadline` | `scheduler`, `check_sleeping`, `put_current_running`, `do_yield`, `do_sleep`, `do_exit`, `block`, `unblock` | queues, context switch |
| context switch and exceptions (`entry.S`, `interrupt.c`) | `disable_count`, Status, EPC, `kernel_tf`, `user_tf`, `nested_count` | `ENTER_CRITICAL`, `LEAVE_CRITICAL`, `scheduler_entry`, `handle_int`, `timer_irq`, `handle_syscall`, `system_call_helper` | scheduler |
| queues (`queue.c`) | `prev` and `next` of every pcb and list head | `enqueue`, `dequeue`, `peek`, `is_empty`, `enqueue_sort` | everything |
| process table (`kernel.c`) | `pcb[]`, `spawn_times`, `next_stack` | `_start`, `initialize_pcb`, `first_entry`, `do_spawn`, `do_kill`, `do_wait` | scheduler, queues, message boxes |
| synchronisation (`sync.c`) | `lock_t`, `condition_t`, `semaphore_t`, `barrier_t`, `pcb.blocking_lock` | `lock_*`, `condition_*`, `semaphore_*`, `barrier_*` | `block`, `unblock` |
| message boxes (`mbox.c`) | `MessageBoxen[]`, `pcb.using_box` | `do_mbox_open`, `close`, `send`, `recv` | locks, `block`, `unblock` |
| programs (`th1.c`, `th2.c`, `barrier_test.c`, `philosophers.c`, `processes.c`) | their own | threads call the kernel directly, processes through system calls | all of the above |
| project 3 | as above with `priority` | priority pick, sorted sleep queue | |
| project 5 | `page_map`, page tables, `page_queue`, the TLB | `page_alloc`, `handle_tlb`, `tlb_flush` | scheduler |
| project 2 | ring buffers `ready_queue`, `blocked_queue` | `do_yield`, `block`, `unblock`, `lock_*` | |

What is hard here: the timer may come at every instruction that is neither in a critical section
nor in exception code; a critical section is entered by one task and left by another across a
context switch; a task's links serve every queue; a lock or a permit is handed to a task that
runs much later; a process table entry is used again; the scheduler waits for work inside itself.
`PROJECT.json` lists each hazard at its line with the properties that watch it.

What makes each part correct:

- *scheduler*: every task is in the one queue that its status says, or is running; ready tasks
  run in turn; nobody wakes early and everybody wakes.
- *context switch*: critical sections stay closed, a system call gets its own frame back, user
  code and nothing else of a process is preempted, nothing panics.
- *queues*: the links behave as sequences.
- *synchronisation*: locks exclude and are granted in order; no wake-up and no permit is lost;
  nobody passes a barrier early.
- *message boxes*: a box is a bounded buffer; a box is one name's and is freed by its last
  user; nobody waits
  for a place or a message that is there.
- *process table*: killing a task that has not ended leaves every queue intact and wakes all who
  wait for it, a wait ends only with the task it is for, nobody loses a box to the death of another.
- *programs*: their `ASSERT`s hold and they come to their end.
- *priorities* (project 3): the queues stay intact, sleepers wake in time, nobody starves.
- *virtual memory* (project 5): each process has a memory of its own, in few frames.
- *cooperative kernel* (project 2): the ring buffers lose nobody, locks exclude and wake.

## The modules

| module | models | used by |
|---|---|---|
| `Links` | `queue.c`: `prev` and `next` of every node | `TaskQueue`, `Process`, `Priority`, `Paging` |
| `Queues` | the same queues as sequences | `Scheduler`, `Sync`, `Mbox` |
| `TaskQueue`, `SequenceQueues` | that `Links` implements sequences | |
| `Scheduler`, `TaskSystem` | scheduler, context switch, interrupts; what they promise | `SchedulerHistory` |
| `SchedulerHistory` | a history variable for `Scheduler`: the entries that processes have left | |
| `Sync`, `Programs` | `sync.c`; the programs that use it | |
| `Mbox`, `Buffers` | `mbox.c`; what it promises | |
| `Process` | spawn, kill and wait, with the queues they reach into | |
| `Priority` | the scheduler of project 3 | |
| `Paging`, `PrivateMemory` | the virtual memory of project 5; what it promises | |
| `Coop` | the kernel of project 2 | |
| `MCScheduler`, `MCSchedulerHistory`, `MCSync`, `MCMbox`, `MCProcess`, `MCPriority`, `MCQueues` | instances for TLC; `MCQueues` is `TaskQueue` or `Coop` | |
| `QueueLemmas` | lemmas about `Queues` and `Links` | the proofs |
| `Links_proofs` | theorems about `TaskQueue` and `Priority`, the users of `Links` that need the order in a list | |
| `Scheduler_proofs`, `Sync_proofs`, `Mbox_proofs`, `Process_proofs`, `Paging_proofs`, `Coop_proofs` | theorems about these modules | |

`Scheduler` supplies what the others assume: that a critical section runs alone
(`CriticalSections`, for `Sync`), that a process is not preempted inside a system call
(`KernelNotPreempted`, for `Mbox` and `Process`), and that a ready task runs (`ReadyTasksRun`, for
the fairness of `Sync` and `Mbox`). `Links` and `Queues` define the same operations at two levels;
`TaskQueue` shows that one implements the other as long as an item is enqueued only while it is in
no queue, which is `QueueIntegrity` of `Scheduler` and, for `do_kill()`'s sake under a condition, `TasksLinked` of `Process`.

### Scheduler, TaskSystem

`Scheduler` is the machine: `pc` names the point that the CPU has reached, and an action runs
the code from one point to the next. Every place where the timer may be taken is a point, so
`TimerInterrupt` (split in `TimerTick` and `TimerPreempt` by what `timer_irq` does) interleaves
with the kernel as the hardware lets it: with `ie` and not `exl`.

| code | actions |
|---|---|
| `ENTER_CRITICAL`, `LEAVE_CRITICAL` | `EnterCritical` (the table `EnterTo` says where each call leads), `LeaveCritical` |
| `check_sleeping`, `scheduler`, `RESTORE_CONTEXT` after it | `WakeSleeper` for each due task, `Idle`, `PickNext`, `Dispatch` |
| `handle_int`, `timer_irq` | `TimerTick` or `TimerPreempt`, `TimerReturn` |
| `handle_syscall`, `system_call_helper` | `Syscall`, `SyscallReturn` |
| a thread's direct call | `ThreadCall` |
| `do_yield`, `do_sleep`, `do_exit`, `block`, `unblock_one` | `DoYield`, `DoSleep`, `DoExit`, `Block`, `UnblockOne` |
| `do_spawn` with `initialize_pcb`, `first_entry`, the end of `_start` | `DoSpawn`, points `first_entry*`, `BootDone` |

A saved context is what the properties tell apart: the return point, `EXL`, and EPC with the pid
of the program that it belongs to. Time is kept relative: `deadline` is the number of ticks left,
which is what `deadline <= time_elapsed` asks and leaves no counter to bound.

`TaskSystem` is what `scheduler.h` promises: one running task, a first come, first served ready queue, tasks that sleep for a number of ticks or wait. `Scheduler` implements it
(`ImplementsTaskSystem`); while the scheduler itself runs, nobody is the running task.

`initialize_pcb()` resets some fields of an entry only. A process exits inside its system call, with
`EXL` set, `scheduler_entry()` saves that Status, and the next task of the entry starts with it: if it is a
process, the timer cannot take the CPU from its user code. `SchedulerHistory` adds
`left_by_process`, the entries that a process has left, and changes nothing else; `UserFrameIntact` and
`OthersPreemptible` say, with entries used again in every way, that nobody else is touched by this.

### Links, TaskQueue, SequenceQueues

`Links` has the functions of `queue.c`, under their names in C, as operators on the two fields of every
node, a list head being a node like the others; `dequeue` leaves its stale values in the item, and `Unlink` writes
through whatever the fields hold, as `do_kill()` does. `TaskQueue` is a user of them that enqueues,
enqueues in order, dequeues and takes items out of the middle; `SequenceQueues` has one sequence
per head and `Sorted` inserts where `enqueue_sort` should.

### Sync

One action per function of `sync.c`; a function that calls `block()` is two actions, since the
rest of it runs when the task is scheduled again (`at` remembers which `block()` that is). Each
part is atomic because it is a critical section (`CriticalSections` of `Scheduler`).
`condition_wait()` changes two objects in one critical section, and what its interrupt masking is for shows only
if they are two actions: `ConditionRelease` gives the lock back and leaves the condition in `at`,
`ConditionBlock` waits on it, and no other task runs between them (`Undisturbed`). Without
`Undisturbed`, a thread of `th2.c` misses the signal for its turn (`NoSignalMissed`). The order in
which tasks run is left open, so what holds here holds for every scheduler. `holds` is not in the
code: it is what the calling program has acquired and not released. The preconditions are those
of the programs in the tree: a lock is released by the task that holds it, a permit is given back
by a task that took one.

`lock_acquire_helper` is modelled with its walk over the waiting tasks (`ClosesCycle`), which can
find nothing: see the findings.

### Programs

The threads of `th2.c`, `barrier_test.c` and `philosophers.c` as clients of `Sync`: one action per
call or access to a shared variable, with `point` for the place in the program. `do_yield()`,
`do_sleep()` and printing between two steps change nothing, since any ready thread may run between
any two steps anyway. `shared_var = tmp + 1` is a read and a write. The `ASSERT`s are the invariant
`AssertsHold`, and that the programs come to their end, or to their meal, is `ProgramsProgress`.
`MonitorSpec`, `BarrierSpec` and `PhilosopherSpec` are the three programs on their own; `MCSync`
chooses one of them, or free use of one kind of object, in the first state.

### Mbox, Buffers

The callers of `mbox.c` are processes, which the kernel does not preempt inside a system call, so
an action is a call from its entry to `block()`, or from there to its end: `Open`, `Close`,
`Send` and `SendWoken`, `Recv` and `RecvWoken`. A box keeps its counters, its places, its name and
its two wait queues; `written` is how much of the array `name` was ever written, which decides
whether a name copied without its end is found again: a shorter name over a longer one is `Mangled`, a name that
no task opens. `num_of_users` is the code's count; that it is right is part of `BoxesShared`. `handle` is the caller's: the box that its
open of a name returned. A task uses only names that it has open, as `mbox.h` lets the code assume.
`full`, `empty` and `using_box` are left out: nothing in `mbox.c` reads them.

`Buffers` is the bounded buffer that `mbox.h` promises: put when there is room, take the oldest.
With one sender and one receiver, `Mbox` implements it (`ImplementsBuffers`): the buffer is what
lies between `read_num` and `write_num`, which opening and closing leave alone. So a box that is
closed with messages in it and opened again, under another name even, still holds them.

### Process

`do_spawn()`, `do_kill()` and `do_wait()`, and the operations that move tasks between queues while
others are killed, on `Links`: `do_kill()` unlinks its victim from whatever queue it is in, through
the links of the victim. `Calls` says which calls the program of each pid makes. `using_box` is the
mark that `do_kill()` closes boxes by, `open` (which is not in the code) what a program has open.
`UnblockAll` moves a whole wait queue to the ready queue.

No guard keeps programs from what the code does badly: `Kill` takes the first entry with the pid, in whatever
state, also the caller's own; `Wait` blocks on the queue of a task that has ended, `Exit` leaves those who wait
where they are, and `WaitForNobody`, for a pid that no entry has, stops the machine, as `stopped` says; so do a waitqueue that
the loop of `do_kill()` never finds empty and a spawn into the caller's own entry. Two of these steps damage the queues:
a kill of a task that is in no queue, since it has ended or is the caller, unlinks it through stale links, and a
spawn into an entry whose waitqueue still has tasks in it cuts them off. The history variable `corrupted` is set by just these two, and
the properties say what holds as long as it is not (`Intact`). The run stops exploring there (`CONSTRAINT Intact`),
because `queue.c` on damaged links may loop or write anywhere; that the damage is real is what `process_kill` shows, where nothing is cut.

### Priority

`scheduler()` of project 3 picks the ready task of highest priority, takes 10 from it, and gives
it `10*(5 - pid)` when it is used up; it takes the task out of the middle of the ready queue
(`Extract`). The sleep queue is sorted by deadline. Deadlines are kept relative to the present.
A clock tick is longer than the unit of `do_sleep()`, so several deadlines pass in one.

### Paging, PrivateMemory

`page_alloc()`, the two halves of `handle_tlb` (fault and refill), `refresh_page_q()`,
`setup_page_table()` and the change of address space in `scheduler()`. The handler runs with
interrupts off, so it is an action. A process has a page of code, read from the image and thrown
away when its frame is taken, and a pinned page of stack. The TLB holds entries with an ASID; a
`tlbwr` may push out any other. `PrivateMemory` has a stack for each process that no other process
writes, and a program that is always its own; `Paging` implements it (`ImplementsPrivateMemory`)
through victims, refills and context switches.

### Coop

The ring buffers of project 2 with their `head`, `tail` and `isEmpty`, the scheduler on them, and
the blocking lock with one queue of blocked tasks for all locks. The tasks are any that use one lock
at a time. Nothing interrupts them, so an action runs to the next call.

## The runs and what they show

| run | instance | shows |
|---|---|---|
| `scheduler_safety` | init and two more tasks of either type in 3 entries, each of which may exit and have its entry used again; sleeps of 2 ticks, one wait queue; 2.66 million states | `CriticalSections`, `NeverStops`, `QueueIntegrity`, `UserFrameIntact`, `OthersPreemptible`, `KernelNotPreempted`, and the refinement `ImplementsTaskSystem` |
| `scheduler_liveness` | 4 spawns in 3 entries, a `clock_thread` that yields for ever, threads that exit | `ReadyTasksRun`, `SleepersWake`, and `ImplementsTaskSystem` where entries are used again and the table is full |
| `queues` | the lists of `queue.c`: a FIFO and a sorted head, 3 items, 3 keys; or the ring buffers of project 2: 3 tasks, queues of 3, one lock | `RingIntact`, `ImplementsSequences`; `MutualExclusion`, `NoTaskLost`, `NoLostWakeup` of `Coop` |
| `sync` | 4 tasks with a lock and two condition variables, or a semaphore of 2 permits, or a barrier for 4, used in any way; or th2.c with 9 increments, or barrier_test.c with 3 rounds of 4 threads, or 3 philosophers | `TypeOK`, `MutualExclusion`, `LockHandedOver`, `FirstComeFirstServed`, `NoSignalMissed`, `PermitsConserved`, `BarrierHolds`, `WaitersReturn`, `AssertsHold`, `ProgramsProgress` |
| `sync_deadlock` | 4 tasks, 2 locks | a violation, see below |
| `mbox` | 2 tasks, 2 names of which the shared one is shorter, 2 boxes of 2 places, 2 messages, counters modulo 4 | `ImplementsBuffers`, `WaitsForCause`, `BoxesShared`, `WaitersReturn` |
| `mbox_underrun` | two receivers | a violation, see below |
| `process` | 4 entries for 5 spawns, 1 box; programs that spawn, kill and wait for any pid, sleep, block in the box and exit; up to the first damage | `TasksLinked`, `KillWakesWaiters`, `WaitEndsWithTask`, `BoxesKept` |
| `process_kill` | the same, without the cut | a violation, see below |
| `priority` | the four task lists of `MCPriority`, sleeps below, in and beyond a tick | `QueuesIntact`, `SleepersWokenInTime`, `ReadyTasksRun` |
| `paging` | 2 processes, 5 frames, of which one is left for the code of both | `FramesOwned`, `TlbAgrees`, `PinnedStay`, `ImplementsPrivateMemory` |
| `paging_pinned` | the same, where an address may miss again | a violation, see below |

Bounds. Three tasks let one run while two wait in one queue or in different ones, which is what
order and loss in a queue need; four in `Sync` let one task release a lock, two wait for it and a
fourth barge in. `NumPcbs` is the size of the table and is met in `scheduler_liveness` and
`process`. `MaxSpawns` bounds only the number of spawns. Three items in `TaskQueue` reach
insertion at the front, in the middle and at the end, with equal keys. `round` counts barrier
rounds modulo 4: what `BarrierHolds` compares never differs by more than 2. In `sync`
the tasks use one kind of object throughout (the variable `kind` of `MCSync`, chosen once): what
they do with one kind does not touch another, and a task that waits at a barrier with a permit in
its hand would keep others waiting rightly. Deadlock is not checked there, since all tasks may wait
on the condition with nobody left to signal; that a barrier opens is part of `BarrierHolds`.

A box of two places can be empty, half full and full, and `Modulus`, twice that, makes the counters
wrap round as 2^32 does (which is a multiple of `MAX_MBOX_LENGTH`, as `Modulus` is of `Capacity`).
With two names for two boxes a freed box is taken over by the other name, and mangled if that is `x`. An open that would
find the table full, which a mangled name can lead to, is not made: what `do_mbox_open()` then returns is undefined. `y` has a sender only, and a receiver of `x`
waits for the task that may be blocked there: the system may stop, and deadlock is not checked.

`Turns`, `NUM_ITERATIONS` and `Signals` shorten the loops of the programs, whose rounds are alike
but for the first, the last, and the change from signal to broadcast; all are met.

`scheduler_liveness` spawns only threads after init, so every user program is the first in its entry. Nobody blocks in it, so it has no wait queue;
`scheduler_safety` has. All sleeps
of a run of `Scheduler` are equally long: with different ones `SleepersWake` fails (see `SchedulerOverdue` below). In `process` the fifth
spawn takes the entry of a killed or exited task; four entries let one task kill a second that waits for a third while a
fourth is in the box. The programs may all wait, so deadlock is not checked there, nor in `priority` and `queues`, where all
may exit or block. In `paging` with five frames four are pinned once both processes have run, and
every fault on code takes the frame of the other; before that victims and free frames mix. Two values
besides 0 tell a lost store from an old one.

Fairness. In `Scheduler`: the CPU executes (`WF` of `KernelStep`); a thread calls the kernel again
and again, as every thread in the tree does, while a process may compute for ever; and `SF` of the
timer, because the interrupt stays pending in `Cause.IP7` until it is taken, so it is taken when
it can be again and again. In `Sync`: a ready task runs, which is `ReadyTasksRun`, and a task that
has a lock or a permit gives it back or waits on a condition; a thread of a program goes on. In
`Mbox`: a task that was woken runs; nobody has to send or receive. In `Priority`: the clock ticks,
`scheduler()` goes on, and a task that runs makes one of the calls that give up the CPU, if it makes any.

## Findings

- `sync_deadlock`: no code stores the holder of a lock in `held_task`, so the search for a
  deadlock in `lock_acquire_helper()` ends at its first step and `lock_acquire()` never returns 1
  (`sync.c:63`).
- `mbox_underrun`: `do_mbox_recv()` tests once, before `block()`, and all waiting tasks are woken for
  one message. With two receivers, which `test_sanguo` has on each box, an empty box is read and
  `read_num` passes `write_num`. By the same lines of `do_mbox_send()`, two senders write over an
  unread message.
- `process_kill`: `do_kill()` looks for the pid only, and an entry keeps the pid of a task that has ended. Such a
  kill unlinks a node that is in no queue through the links it last had, which cuts a queue of others, closes
  again the boxes that the task was marked as using, whose mark nobody cleared, and returns 0; `syslib.h:67` promises -1.
- `paging_pinned`: `refresh_page_q()` puts the frame at the tail of `page_queue` without taking it
  out first and without asking whether it is pinned. A stack that misses again, at the address that
  it first missed at, enters the queue and is given to another process.

### Further configurations that TLC refutes

These are not among the runs; each checks one property of the modules above and TLC answers with
a counterexample.

- `SchedulerOverdue.cfg` (`MCScheduler`, `NoOverdueSleeper`): `do_sleep()` appends to
  `sleep_wait_queue` (`scheduler.c:74`) and `check_sleeping()` stops at the first task that is not due,
  so a task that asked for a short sleep is kept by one that asked earlier for a long one. Project 3
  sorts that queue: see `SleepersWokenInTime`.
- `SchedulerSlotReuse.cfg` (`MCScheduler`, `UserPreemptible`): `initialize_pcb()` does not reset
  `kernel_tf.cp0_status`. A process that exits does so inside a system call, with `EXL` saved; the
  next process in that entry starts its user code with `EXL` set, and the timer cannot take the CPU. That it
  happens to no one else is `OthersPreemptible`.
- `SchedulerIdle.cfg` (`MCScheduler`, `EverySleeperWakes`): the wait for a ready task inside
  `scheduler()` lets interrupts in by `leave_critical()`, but a process reaches it with `EXL` set. If
  no thread is ready the clock stands still and sleeping processes sleep for ever.
- `MboxName.cfg` (`MCMbox`, `OpenersShare`): a shorter name written over a longer one keeps its tail (`mbox.c:82`),
  and each opener of the shorter name gets a box of its own; `mbox.h:16-18` promises the one that exists. The two names of
  `test_sanguo` differ in length by one. That nothing else separates two openers is `BoxesShared`.
- `ProcessWait.cfg` (`MCProcess`, `NoWaitForTheDead`): only `do_kill()` empties a `pwaitqueue`, so who
  waits for a task that exits, or has exited, waits for ever (`syslib.h:72`: "Blocks until the
  specified process terminates").
- `ProcessUnknown.cfg` (`MCProcess`, `CallsReturn`): `do_wait()` for a pid that no entry has returns without
  `leave_critical()` (`kernel.c:302`), and the `ASSERT` at the end of `handle_syscall` stops the machine; `syslib.h:73` promises -1.
- `CoopFifo.cfg` (`Coop`, `FifoFairness`): a woken task finds the lock taken by one that asked later;
  `lock.c:3` of project 2 asks for first come, first served. With two locks and four tasks
  in `CoopFifo.cfg` `NoLostWakeup` fails as well, for a release wakes the first blocked task of any lock.

## The proofs

`tlapm` checks all of them: no theorem, lemma or step is left without a proof. They hold for any
number of tasks, entries, boxes, frames and objects (of tasks of project 3, up to four, see `PriorityAssumption`), and assume the `ASSUME` of the component's module, which
TLC evaluates in the runs, and what the table says.

| module | theorem | property | needs |
|---|---|---|---|
| `Links_proofs` | `RingsIntact`, `TaskQueueImplementsSequences` | `RingIntact`, `ImplementsSequences` of `TaskQueue` | finitely many items and heads |
| | `PrioritiesTyped`, `PriorityQueuesIntact`, `SleepersWoken` | `TypeOK` (which no run lists), `QueuesIntact`, `SleepersWokenInTime` of `Priority` | |
| `Scheduler_proofs` | `TypeCorrect`, `CriticalSectionsHold`, `QueuesHold`, `KernelNeverPreempted` | `TypeOK`, `CriticalSections`, `QueueIntegrity`, `KernelNotPreempted` | |
| | `NeverStopsWithStacks` | `NeverStops` | two stacks for each call of `do_spawn()` |
| | `StopsOnlyWithoutStacks` | a machine that stops has run out of stacks | |
| | `UserFramesIntact`, `UserCodePreemptible` | `UserFrameIntact`, `OthersPreemptible` of `SchedulerHistory` | |
| | `SchedulerImplementsTaskSystem` | `ImplementsTaskSystem` | |
| `Sync_proofs` | `TypeCorrect`, `LocksExclude`, `LocksHandedOver`, `LocksFair` | `TypeOK`, `MutualExclusion`, `LockHandedOver`, `FirstComeFirstServed` | |
| | `PermitsKept` | `PermitsConserved` | finitely many tasks |
| | `BarriersHold` | `BarrierHolds` | one barrier, for all tasks |
| | `DeadlockNeverReported` | `ClosesCycle` is false in every reachable state | finitely many tasks |
| | `MonitorPasses`, `BarrierTestPasses`, `PhilosophersPass` | `AssertsHold`, of `MonitorSpec`, `BarrierSpec` and `PhilosopherSpec` | `ProgramsAssumption` |
| `Mbox_proofs` | `TypeCorrect` | `TypeOK`, which no run lists | |
| | `BoxesAlwaysShared` | `BoxesShared`, for names of any lengths | finitely many tasks and names |
| | `WaitsHaveCause`, `NeverReadsEmpty`, `MboxImplementsBuffers` | `WaitsForCause`, `NoEmptyRead`, `ImplementsBuffers` | that, and one sender and one receiver for a name |
| `Process_proofs` | `TasksAreLinked`, `KillsWakeWaiters`, `BoxesStay`, `WaitsEndWithTask` | `TasksLinked`, `KillWakesWaiters`, `BoxesKept`, `WaitEndsWithTask` | (the properties name their condition, `Intact`) |
| `Paging_proofs` | `FramesAreOwned`, `TlbIsRight`, `PagingImplementsPrivateMemory` | `FramesOwned`, `TlbAgrees`, `ImplementsPrivateMemory` | `Revisits = FALSE` |
| `Coop_proofs` | `LockExcludes`, `NoTaskIsLost` | `MutualExclusion`, `NoTaskLost` | |
| | `NoWakeupIsLost` | `NoLostWakeup` | one lock |

The hypotheses are not there for convenience. What the code does without them is shown by a run or by one
of the [further configurations](#further-configurations-that-tlc-refutes): `paging_pinned` has `Revisits = TRUE`, under which
a pinned stack is given away and the theorems on `Paging` are false, `mbox_underrun` has two receivers; with two locks `Coop` loses a wake-up.
The condition `Intact` of the theorems on `Process` is what the code needs and does not establish, as `process_kill` shows. `stack_new()` gives no stack back and asserts that there is one more
(`kernel.c:74-81`), so with fewer of them the machine may stop. `BarrierHolds` compares the rounds of all tasks, which
says something only of a barrier that is for all.

### Two kinds of lists

`QueueLemmas` has two parts. The first is about the queues that are sequences: what `Enqueue`, `Dequeue` and `Flush` do to the
relation "task t is in queue q", that they keep each task in one place, and that what the tasks of a
queue have in common stays so.

The second is about the lists that are threaded through the items. `Lists(L, N, H, I, qs)` says that the
fields `L` of the nodes `N` are, behind each head in `H`, the sequence that `qs` has for it, that
an item of `I` is in one place at most, and nothing about the fields of free items, which is why
stale fields do not matter. `InsertLists` and `RemoveLists` are the two steps: `enqueue`, anywhere in a
list, inserts in one sequence and leaves the others alone, and so does taking out of the
middle, which is all that `dequeue` and `do_kill()` do. `RingIs`, `LengthIs` and `ItemsAre` connect `Lists`
to `IsRing`, `RingLength` and `Items`, which walk along `next`: `At` is a recursive function, and what it
computes (`WalkIs`) is proved with the least number at which it would go wrong (`LeastNat`), so by
the order of the natural numbers and not by the induction rule, which the installed provers cannot
use. A component that does not care for the order in its lists uses `Behind(L, N, H, I, W)`, where
`W[h]` is only the set of the items behind `h`, and one lemma for each operation.

`Links_proofs` puts this together for any sequence of calls. The invariant is that the links are the lists
of *some* sequences (`Listed`): the sequences are the witness, `RingIntact` follows from `RingIs`, and
each call is the step of `SequenceQueues` with the witness before and after it as `content`. The
loop of `enqueue_sort()` stops at a place before which all keys are smaller (`SortedPlaceIs`), which is
what `PutSorted` of `SequenceQueues` asks; the rest is that a sequence with one element more or one less, written as a
function of the place, is the concatenation that `SequenceQueues` writes (`InsertedSubSeq`, `RemovedSubSeq`). The
lemmas of the second part are about any heads and items, so `Process_proofs` and `Paging_proofs` use them for their lists.

### Priority

`Links_proofs` extends `TaskQueue` and `Priority`, which share nothing but `Links`: only `Priority` needs both what is in
a list and in which order, and the lemmas that say so follow from those for `TaskQueue`.
`QueuesIntact` is a statement about sets, and is inductive once it says which tasks may run (`CurrentAlive`: what runs is
ready, which is why what is woken does not run) and that the links are lists of those sets (`QueuesAre`).
`SleepersWokenInTime` is not a matter of sets: `check_sleeping()` looks at the first sleeper only, so
the invariant has the sleep queue sorted by deadline. `do_sleep()` inserts in order (`EnqueueSortHas`), a task that is woken leaves
the others in order (`MoveHas`), and the clock, which lowers all deadlines and stops at 0, may make two of them equal but never swaps them
(`SameOrder`). A pick takes out the first task of the highest priority, which exists because
there are only finitely many priorities (`HighestIs`), wherever it is in the ready queue (`ExtractHas`), and its
NULL fields do no harm, for it is free (`FreeFields`). That `10*(5 - pid)` is positive for
four tasks is what keeps `priority` a multiple of 10 above 0 (`PaysFor`). The first state is the recursive function of `Init`,
unrolled (`AllReady`).

### Scheduler

What a task does next is not in its status: it is in the context that `scheduler_entry()` saved, and
in the frame that the exception handler saved. `CriticalSections` is not inductive, since
`leave_critical()` after a switch belongs to a critical section that another task opened. The
invariant says of each task, whether it runs (`RunningContext`) or is switched out (`SavedContexts`),
which points it may resume in, with what `EXL` and what `nested_count`, and where its exception
frame leads; that those that are switched out have interrupts masked (`SwitchedOutMasked`); that
the boot code is resumed once (`BootPlaced`, `SavedBoot`); and that the stacks are counted
(`StopsWithoutStacks`, `Spawning`). With it `QueueIntegrity` is inductive. For the refinement every action of
`Scheduler` that is a step of `TaskSystem` is mapped to it, the others to a stutter
(`MapLocal`). `UserFramesIntact` and `UserCodePreemptible` need a second invariant, `Fresh`, about processes
on their way into and out of the kernel. It excepts the entries that a process has left, says that the saved Status of every
other entry lets the timer in as soon as its task is back in user code, also when threads have left it, and that the exceptions never
spread: Status and frames are saved in the entry of the running task only.

### Sync

`MutualExclusion` is not inductive: while a lock goes from the task that releases it
to the one that was first in its queue, the lock stays LOCKED and no program holds it, and what
keeps a third task out is that somebody was *handed* it. So the invariant counts as owners the
tasks that hold the lock and those that are ready, at `block()` in `lock_acquire_helper()`, with
that lock in `blocking_lock` (`LockHandedOver`). That a release hands over to one task only, which
waits for this very lock, needs the queues: a task is in one queue at most, once, blocked, and the
queue is the one of the object that it called (`BlockedInQueue`). That a woken task knows what it
was given needs `ArgumentKept`. The conjunction with `TypeOK` is `Inv`, and it is inductive.
One lemma for each way to change the queues (`BlockWaits`, `UnblockOneWaits`, `UnblockAllWaits`,
`QuietWaits`) preserves `BlockedInQueue`; `LockReleased` and `LocksUntouched` preserve
`LockHandedOver`; one lemma per operation puts them together; `NextInv` collects those.
`FirstComeFirstServed` is an action property: in a queue of a lock only the first leaves and others join behind
(`LockQueueSteps`), the order of those who stay is kept (`OrderKept`), and while somebody waits only the
task that the lock was handed to acquires it (`AcquiredByHandOff`).

`PermitInv` adds to `PermitsConserved` that nobody waits for a permit that it has: what is handed over is new to
the task. `RoundInv` says that all tasks are in the same round, except that those that a barrier has woken
and that have not run since are one behind, and that `count` is the length of the queue. `NoHolder` (`held_task` is
NULL) is an invariant by itself, and with it the walk of `lock_acquire_helper()` leaves the tasks at its first
step, so that no cycle closes (`NoCycle`): the general form of what the run `sync_deadlock` shows for two tasks.

`AssertsHold` is proved for each of the three programs on its own, for any number of turns, threads, iterations and
philosophers, and any other tasks. A step of a program is a step of `Sync` or leaves its variables alone, so
`Inv` and `PermitInv` hold and say what a thread can rely on. `MonitorInv` ties the place of a thread in the monitor to
the lock: it has it there, or waits in `lock_acquire()` or `condition_wait()` for it. Only one
thread is inside, so what it has read stays true, and `shared_var` is the sum of the turns finished.
`BarrierInv` counts the arrivals of each thread: there is a `g` such that all have arrived `g`
times and those in the queue once more, and the last to arrive finds all others there
(`OthersWait`, a fact about finite sets). `PhilosopherInv` says which forks each philosopher holds at each point, and which one
it waits for; neighbours have a fork in common (`NeighboursShare`), and a semaphore with one permit has one
holder (`OneHolder`).

### Mbox

`NamesHeld` ties a box to one name and `num_of_users` to the handles that are open, so that the last
close is really the last one. A mangled box is found by nobody, so it is of the one task that opened it. From that follows that a queue is freed with nobody in it. `Waiting` says where
a task inside `do_mbox_send()` or `do_mbox_recv()` is, and `Counted` that no box holds more than it can and that
the room or the message that a task was woken for is still there when it runs: nobody else takes
it, and that is where one sender and one receiver are needed. The counters are taken modulo the range of an integer, and the place
of a message modulo the capacity; that the two moduli agree is a lemma on numbers that uses that the capacity
divides the range.

### Process

`Located(W)` says where every task is: in the ready queue when it is ready and does not run, in the
sleep queue when it sleeps, in a queue to block in otherwise; in the queue of a box only with the
box open; and in the `pwaitqueue` of an entry only when that entry has the pid that the
task waits for, whether its task has ended or not. All of it holds while the machine is `Intact`. `Queued` says that the links are lists of these sets. `do_kill()`
closes, unlinks and flushes (`ClosedUnlinked`, `UnblockAllIs`, `Kills`): between the first two the queue of a box
may be reset with the victim still linked in it, and unlinking then writes the fields of a
head that are already right, because a box with one user has the victim alone in its queue
(`SoleUser`, for which `Counted` is needed). `UnblockAll` is a recursive function like `At`.

### Paging

`Owned` says that a frame is used exactly if it is a page table or is mapped, and by one page; `FewPinned`
that at most two frames of a process are pinned. Hence if no frame is free one is a code page, so
`page_queue`, which holds the code pages, is not empty, and its first is not pinned (`FramesSuffice`).
`TlbAgrees` and `CodeIntact` complete the invariant, and with it each access is one of
`PrivateMemory` and every other step changes nothing there.

### Coop

A lock is not handed over here but unlocked, so a lock that a task has is LOCKED (`HeldAreLocked`),
and with that only one task has it. `QueuesHold` says of the two ring buffers that the places from `head` on,
modulo `NUM_TASKS`, hold each task of the right state once: as there are as many places as tasks, a push of a task that
is in neither never meets a full ring. `NoLostWakeup` is inductive for one lock with `LocksTold`: only a task in `lock_acquire()` is
blocked, it has no lock, and a lock is LOCKED only while a task has it.

## What is only checked and what is left out

- Liveness (`ReadyTasksRun`, `SleepersWake`, the two `WaitersReturn`, `ProgramsProgress`) is
  checked by TLC only: fairness and `ENABLED` are beyond the prover. So are two safety properties, `NoSignalMissed`
  of the monitor and `PinnedStay` of `Paging`. Every other property of a passing run is stated by a theorem.
- Registers other than those named, and the instructions inside a step, are not modelled: a step
  cannot be interrupted, by the very property `CriticalSections` or by `EXL`.
- `entry_count`, `print_status()`, the console and `getpid`'s result have no effect on others.
- `deadline` is 64 bits wide and counts ticks of about a second: it does not overflow.
- `do_spawn` of a name that is not in the ramdisk reads through NULL; no caller does it.
- The length of a message and `nbytes` are left out: a message is one value. A mixture of two names
  is taken to be no name that a task opens.
- What a machine does after its queues are damaged (see [Process](#process)): the runs look no further than the first damage.
- `PinnedStay` is about programs that reach each page through one address only (`Revisits = FALSE`), as the theorems
  on `Paging` are; no version of it without that condition holds, see `paging_pinned`.
- Project 3: `Priority` has at most four tasks, as every task list has: from the fifth pid on
  `10*(5 - pid)` is no longer positive. Its critical sections, contexts and synchronisation are those
  of project 4 without spawn and kill, and are modelled there only.
- Project 5: the bits of a page table entry other than V, and the dirty bit, which
  `interrupt.c:289` names and the entry does not set for code. Its scheduler is that of project 4.
- Project 2: the variant of the lock that spins, which `SPIN = FALSE` leaves out of the program, and
  what `entry_mips.S` saves.
- The tools and libraries: `print.c`, `printf.c`, `printk.c` and `util.c` format and print and keep no
  state that another part reads; `createimage.c` and the boot blocks run before the kernel does;
  `freestanding-inc` and `tags` are not part of the program's logic. They are about half of the
  lines of the repository, and each of the other three projects repeats most of its predecessor,
  so the share of all lines that the definitions here stand for is far below what they cover of
  the distinct kernel logic.

## The plan

Done: every module listed above, and a theorem for every property of a passing run but the liveness
properties and the two named above. Left: `createimage.c` as operators on sectors, checked against the layout that the boot
block expects.
