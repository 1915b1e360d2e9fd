-------------------------- MODULE Scheduler_proofs --------------------------
(***************************************************************************)
(* Proofs about Scheduler for a process table of any size, any programs    *)
(* and any number of wait queues.                                          *)
(*                                                                         *)
(* What a task does next is not in its status: it is in the context that   *)
(* scheduler_entry() saved, and in the frame that the exception handler    *)
(* saved.  So the invariant says of each task, whether it runs or is       *)
(* switched out, which points its context may resume in, with what EXL and *)
(* what nested_count, and where its exception frame leads.                 *)
(***************************************************************************)
EXTENDS SchedulerHistory, QueueLemmas

\* The points of a service, inside and outside its critical sections.
KernelPoint ==
  {"getpid", "yield", "sleep", "sleep_ret", "exit", "spawn", "sync", "block_ret",
   "leave", "yield_cs", "sleep_cs", "exit_cs", "spawn_cs", "sync_cs"}

\* Where an exception can come upon a process, and where the timer can come upon
\* the boot code.
UserAt == {"user", "first_entry"}
BootAt == {"spawn", "boot", "idle"}

SwitchPoint == {"scheduler", "idle", "dispatch"}

\* Task p, which has not exited, is at point x with EXL e.
ProcessAt(p, x, e) ==
  \/ /\ nested_count[p] = 1 /\ e /\ user_tf[p].at \in UserAt
     /\ x \in KernelPoint \cup {"sysret"}
  \/ /\ nested_count[p] = 0 /\ e /\ user_tf[p].at \in UserAt
     /\ x = "timer_ret"
  \/ /\ nested_count[p] = 0
     /\ x \in {"user", "first_entry", "first_entry_cs"}
ThreadAt(p, x) ==
  /\ nested_count[p] = 1
  /\ x \in (KernelPoint \ {"spawn", "spawn_cs"}) \cup {"thread", "first_entry", "first_entry_cs"}
TaskAt(p, x, e) == IF IsThread(p) THEN ThreadAt(p, x) ELSE ProcessAt(p, x, e)

\* The same of the boot code.
BootTaskAt(x, e) ==
  \/ x \in {"spawn", "spawn_cs", "leave", "boot", "boot_cs"}
  \/ x = "timer_ret" /\ e /\ user_tf[Garbage].at \in BootAt

ResumePoint == {"first_entry", "timer_ret", "sysret", "sleep_ret", "block_ret", "thread"}

-----------------------------------------------------------------------------
(* The parts of the invariant. *)

\* Nothing but a lack of stacks stops the machine, and then interrupts are off.
StopsWithoutStacks == pc \in DeadPoint => pc = "halt" /\ ~ie /\ stacks > NumStacks

\* The boot code is in the ready queue or in none, and not while it runs or idles.
BootPlaced ==
  \A q \in Queue : InQueue(queue, q, Garbage) =>
    q = "ready_queue" /\ ~(current_running = Garbage /\ pc # "scheduler")

\* The task that executes is at a point of its own code.
RunningContext ==
  pc \notin SwitchPoint \cup DeadPoint =>
    IF current_running = Garbage THEN BootTaskAt(pc, exl) ELSE TaskAt(current_running, pc, exl)

\* Any other task that has not exited resumes at one.
Saved(p) == p # current_running \/ pc \in SwitchPoint
SavedContexts ==
  \A p \in Slot :
    /\ status[p] # "EXITED" /\ Saved(p) =>
         kernel_tf[p].ra \in ResumePoint /\ TaskAt(p, kernel_tf[p].ra, kernel_tf[p].exl)
    /\ status[p] = "EXITED" => kernel_tf[p].ra \in {"reset", "exit_ret"}
BootResumes ==
  InQueue(queue, "ready_queue", Garbage) \/ (current_running = Garbage /\ pc = "dispatch")
SavedBoot ==
  /\ nested_count[Garbage] = 0 /\ IsThread(Garbage)
  /\ BootResumes =>
       kernel_tf[Garbage].ra = "timer_ret" /\ BootTaskAt("timer_ret", kernel_tf[Garbage].exl)

\* While scheduler() looks for another task, the one that was switched out is not
\* taken for user code by a timer interrupt in the idle loop.
SwitchedOutMasked ==
  pc \in {"scheduler", "idle"} /\ current_running # Garbage =>
    \/ nested_count[current_running] = 1 /\ (IsThread(current_running) \/ exl)
    \/ pc = "scheduler" /\ InQueue(queue, "ready_queue", current_running)

\* What EPC holds while EXL is set is a point of a process.
LatchedFrames ==
  /\ \A p \in Slot : kernel_tf[p].exl => kernel_tf[p].epc.at \in UserAt
  /\ exl /\ current_running # Garbage /\ pc # "dispatch" => epc.at \in UserAt

\* A call of do_spawn() is within the bound; before the first there is no task.
BootWillSpawn ==
  \/ current_running = Garbage /\ pc \in {"spawn", "spawn_cs"}
  \/ /\ user_tf[Garbage].at = "spawn"
     /\ BootResumes \/ (current_running = Garbage /\ pc = "timer_ret")
Spawning ==
  /\ pc \in {"spawn", "spawn_cs"} => spawn_times < MaxSpawns
  /\ BootWillSpawn => spawn_times = 0
  /\ spawn_times = 0 => \A p \in Slot : status[p] = "EXITED"
  /\ stacks <= 2 * spawn_times
  /\ \A p \in Slot : pid[p] <= spawn_times

\* A deadline that has not passed is that of a sleeping task.
DeadlinesOfSleepers ==
  \A p \in Pcb : deadline[p] # 0 => InQueue(queue, "sleep_wait_queue", p)

Inv ==
  /\ TypeOK /\ CriticalSections /\ StopsWithoutStacks
  /\ QueueIntegrity /\ BootPlaced
  /\ RunningContext /\ SavedContexts /\ SavedBoot /\ SwitchedOutMasked
  /\ LatchedFrames /\ Spawning /\ DeadlinesOfSleepers

-----------------------------------------------------------------------------
LEMMA InitInv == Init => Inv
<1> SUFFICES ASSUME Init PROVE Inv
  OBVIOUS
<1> USE SchedulerAssumption DEF Init
<1>1. Garbage \in Pcb /\ Slot \subseteq Pcb /\ Garbage \notin Slot /\ 0 \in Pid
  BY DEF Pcb, Slot, Garbage, Pid
<1>2. ZeroFrame \in Frame
  BY <1>1 DEF ZeroFrame, Frame, Point, DeadPoint
<1>3. TypeOK
  <2>1. /\ pc \in Point /\ queue \in [Queue -> Seq(Pcb)] /\ status \in [Pcb -> Status]
        /\ task_type \in [Pcb -> TaskType]
    BY DEF Point, EnterPoint, Status, TaskType
  <2>2. kernel_tf \in [Pcb -> Context] /\ user_tf \in [Pcb -> Frame]
    BY <1>2 DEF Context, Point, DeadPoint
  <2> QED BY <1>1, <1>2, <2>1, <2>2 DEF TypeOK
<1>4. \A q \in Queue : \A p : ~InQueue(queue, q, p)
  BY DEF InQueue
<1>5. CriticalSections /\ StopsWithoutStacks
  BY DEF CriticalSections, StopsWithoutStacks, CriticalPoint, DeadPoint
<1>6. "ready_queue" \in Queue /\ "sleep_wait_queue" \in Queue /\ WaitQueue \subseteq Queue
  BY DEF Queue
<1>7. QueueIntegrity
  <2>1. LinkedOnce(queue)
    BY DEF LinkedOnce
  <2>2. \A p \in Slot : status[p] = "EXITED" /\ ~Running(p)
    BY <1>1 DEF Running
  <2> QED BY <1>4, <1>6, <2>1, <2>2 DEF QueueIntegrity, Placed
<1>8. BootPlaced
  BY <1>4 DEF BootPlaced
<1>9. RunningContext
  BY DEF RunningContext, BootTaskAt
<1>10. SavedContexts
  BY <1>1 DEF SavedContexts
<1>11. SavedBoot
  BY <1>1, <1>4, <1>6 DEF SavedBoot, BootResumes, IsThread
<1>12. SwitchedOutMasked
  BY DEF SwitchedOutMasked
<1>13. LatchedFrames
  BY <1>1 DEF LatchedFrames
<1>14. Spawning
  BY <1>1 DEF Spawning
<1>15. DeadlinesOfSleepers
  BY DEF DeadlinesOfSleepers
<1> QED
  BY <1>3, <1>5, <1>7, <1>8, <1>9, <1>10, <1>11, <1>12, <1>13, <1>14, <1>15 DEF Inv

-----------------------------------------------------------------------------
(* Steps that move no task between queues. *)

LEMMA Sets ==
  /\ Garbage \in Pcb /\ Slot \subseteq Pcb /\ Garbage \notin Slot
  /\ \A p \in Pcb : p # Garbage => p \in Slot
  /\ "ready_queue" \in Queue /\ "sleep_wait_queue" \in Queue /\ WaitQueue \subseteq Queue
  /\ "ready_queue" \notin WaitQueue /\ "sleep_wait_queue" \notin WaitQueue
  /\ MaxSpawns \in Nat \ {0}
  BY SchedulerAssumption DEF Pcb, Slot, Garbage, Queue

\* Every task stays where it is.
LEMMA QueuesKept ==
  ASSUME Inv, UNCHANGED <<queue, status, current_running>>,
         \/ current_running = Garbage
         \/ pc \in {"scheduler", "idle"} <=> pc' \in {"scheduler", "idle"}
  PROVE  QueueIntegrity'
<1>1. \A p \in Slot : Running(p)' <=> Running(p)
  BY Sets DEF Running
<1>2. ASSUME NEW q, NEW p PROVE InQueue(queue', q, p) <=> InQueue(queue, q, p)
  OBVIOUS
<1> QED BY <1>1, <1>2 DEF Inv, QueueIntegrity, Placed

\* The task that runs has not exited.
LEMMA RunnerLives ==
  ASSUME Inv, current_running # Garbage, pc \notin {"scheduler", "idle"}
  PROVE  current_running \in Slot /\ status[current_running] # "EXITED"
<1>1. current_running \in Slot
  BY Sets DEF Inv, TypeOK
<1> QED BY <1>1 DEF Inv, QueueIntegrity, Placed, Running

\* A step of the task that runs, which leaves the contexts of the others alone and
\* does not switch.
LEMMA OthersKept ==
  ASSUME Inv, UNCHANGED <<current_running, kernel_tf>>, pc \notin SwitchPoint, pc' \notin SwitchPoint,
         \A p \in Slot \ {current_running} :
           /\ status'[p] = status[p] /\ task_type'[p] = task_type[p]
           /\ nested_count'[p] = nested_count[p] /\ user_tf'[p] = user_tf[p],
         status'[current_running] = status[current_running]
  PROVE  SavedContexts'
<1> SUFFICES ASSUME NEW p \in Slot
             PROVE  /\ status'[p] # "EXITED" /\ Saved(p)' =>
                         kernel_tf'[p].ra \in ResumePoint /\ TaskAt(p, kernel_tf[p].ra, kernel_tf[p].exl)'
                    /\ status'[p] = "EXITED" => kernel_tf'[p].ra \in {"reset", "exit_ret"}
  BY DEF SavedContexts
<1>1. status'[p] = status[p] /\ (Saved(p)' => p # current_running)
  BY DEF Saved
<1>2. p # current_running =>
        (TaskAt(p, kernel_tf[p].ra, kernel_tf[p].exl)' <=> TaskAt(p, kernel_tf[p].ra, kernel_tf[p].exl))
  BY DEF TaskAt, ThreadAt, ProcessAt, IsThread
<1> QED BY <1>1, <1>2 DEF Inv, SavedContexts, Saved

LEMMA EnterCriticalInv ==
  ASSUME Inv, EnterCritical
  PROVE  Inv'
<1>1. /\ pc \in EnterPoint /\ pc' = EnterTo[pc] /\ disable_count' = 1 /\ ie' = FALSE
      /\ UNCHANGED <<current_running, exl, epc, queue, tasks, frames, alloc>>
  BY DEF EnterCritical, Goto, Inv, CriticalSections, EnterPoint, CriticalPoint, DeadPoint
<1>2. /\ pc' \in CriticalPoint /\ pc' \notin DeadPoint
      /\ pc' \notin {"dispatch", "idle"} /\ (pc' = "scheduler" <=> pc = "idle")
      /\ pc # "scheduler"
  BY <1>1 DEF EnterPoint, EnterTo, CriticalPoint, DeadPoint
<1>3. TypeOK'
  BY <1>1, <1>2 DEF Inv, TypeOK, Point, tasks, frames, alloc
<1>4. CriticalSections' /\ StopsWithoutStacks'
  BY <1>1, <1>2 DEF CriticalSections, StopsWithoutStacks
<1>5. QueueIntegrity'
  BY <1>1, <1>2, QueuesKept DEF tasks
<1>6. BootPlaced'
  BY <1>1 DEF Inv, BootPlaced, EnterPoint
<1>7. RunningContext'
  BY <1>1, <1>2 DEF Inv, RunningContext, SwitchPoint, DeadPoint, EnterPoint, EnterTo, BootTaskAt,
       TaskAt, ThreadAt, ProcessAt, IsThread, KernelPoint, tasks, frames
<1>8. SavedContexts'
  BY <1>1, <1>2 DEF Inv, SavedContexts, Saved, SwitchPoint, EnterPoint, TaskAt, ThreadAt, ProcessAt, IsThread,
       tasks, frames
<1>9. SavedBoot' /\ SwitchedOutMasked' /\ LatchedFrames'
  BY <1>1, <1>2 DEF Inv, SavedBoot, BootResumes, BootTaskAt, IsThread, SwitchedOutMasked, LatchedFrames,
       EnterPoint, tasks, frames
<1>10. Spawning' /\ DeadlinesOfSleepers'
  BY <1>1, <1>2 DEF Inv, Spawning, BootWillSpawn, BootResumes, EnterPoint, EnterTo, DeadlinesOfSleepers, tasks, frames, alloc
<1> QED
  BY <1>3, <1>4, <1>5, <1>6, <1>7, <1>8, <1>9, <1>10 DEF Inv

LEMMA LeaveCriticalInv ==
  ASSUME Inv, LeaveCritical
  PROVE  Inv'
<1>1. /\ pc \in {"leave", "sync_cs", "first_entry_cs"}
      /\ pc' = IF pc = "first_entry_cs" THEN Code(current_running) ELSE Caller(current_running)
      /\ disable_count' = 0 /\ ie' = TRUE
      /\ UNCHANGED <<current_running, exl, epc, queue, tasks, frames, alloc>>
  BY DEF LeaveCritical, Goto, Inv, CriticalSections, CriticalPoint, DeadPoint
<1>2. /\ pc' \in {"boot", "thread", "user", "sysret"}
      /\ pc' = "boot" <=> current_running = Garbage
      /\ pc' = "thread" <=> IsThread(current_running) /\ current_running # Garbage
      /\ pc' = "user" <=> pc = "first_entry_cs" /\ ~IsThread(current_running)
  BY <1>1 DEF Code, Caller, Inv, RunningContext, SwitchPoint, DeadPoint, BootTaskAt
<1>3. pc \in CriticalPoint \ SwitchPoint /\ pc \notin DeadPoint
      /\ pc' \notin CriticalPoint \cup SwitchPoint \cup DeadPoint
  BY <1>1, <1>2 DEF CriticalPoint, SwitchPoint, DeadPoint
<1>4. TypeOK'
  BY <1>1, <1>2 DEF Inv, TypeOK, Point, EnterPoint, PlainPoint, tasks, frames, alloc
<1>5. CriticalSections' /\ StopsWithoutStacks'
  BY <1>1, <1>3 DEF CriticalSections, StopsWithoutStacks
<1>6. QueueIntegrity'
  BY <1>1, <1>2, QueuesKept DEF tasks
<1>7. BootPlaced'
  BY <1>1 DEF Inv, BootPlaced
<1>8. RunningContext'
  BY <1>1, <1>2, <1>3 DEF Inv, RunningContext, BootTaskAt,
       TaskAt, ThreadAt, ProcessAt, IsThread, KernelPoint, tasks, frames
<1>9. SavedContexts'
  BY <1>1, <1>3, OthersKept DEF tasks, frames
<1>10. SavedBoot' /\ SwitchedOutMasked' /\ LatchedFrames'
  BY <1>1, <1>2 DEF Inv, SavedBoot, BootResumes, BootTaskAt, IsThread, SwitchedOutMasked, LatchedFrames,
       tasks, frames
<1>11. Spawning' /\ DeadlinesOfSleepers'
  BY <1>1, <1>2 DEF Inv, Spawning, BootWillSpawn, BootResumes, DeadlinesOfSleepers, tasks, frames, alloc
<1> QED
  BY <1>4, <1>5, <1>6, <1>7, <1>8, <1>9, <1>10, <1>11 DEF Inv

LEMMA IdleInv ==
  ASSUME Inv, Idle
  PROVE  Inv'
<1>1. /\ pc = "scheduler" /\ pc' = "idle" /\ disable_count' = 0 /\ ie' = TRUE
      /\ queue["ready_queue"] = <<>>
      /\ UNCHANGED <<current_running, exl, epc, queue, tasks, frames, alloc>>
  BY DEF Idle, IsEmpty, Goto, Inv, CriticalSections, CriticalPoint, DeadPoint
<1>2. \A p : ~InQueue(queue, "ready_queue", p)
  BY <1>1, Sets, EmptyQueue DEF Inv, TypeOK
<1>3. TypeOK'
  BY <1>1 DEF Inv, TypeOK, Point, EnterPoint, tasks, frames, alloc
<1>4. CriticalSections' /\ StopsWithoutStacks'
  BY <1>1 DEF CriticalSections, StopsWithoutStacks, CriticalPoint, DeadPoint
<1>5. QueueIntegrity'
  BY <1>1, QueuesKept DEF tasks
<1>6. BootPlaced'
  BY <1>1, <1>2 DEF Inv, BootPlaced
<1>7. RunningContext'
  BY <1>1 DEF RunningContext, SwitchPoint
<1>8. SavedContexts'
  BY <1>1 DEF Inv, SavedContexts, Saved, SwitchPoint, TaskAt, ThreadAt, ProcessAt, IsThread, tasks, frames
<1>9. SavedBoot' /\ SwitchedOutMasked' /\ LatchedFrames'
  BY <1>1, <1>2 DEF Inv, SavedBoot, BootResumes, BootTaskAt, IsThread, SwitchedOutMasked, LatchedFrames,
       tasks, frames
<1>10. Spawning' /\ DeadlinesOfSleepers'
  BY <1>1 DEF Inv, Spawning, BootWillSpawn, BootResumes, DeadlinesOfSleepers, tasks, frames, alloc
<1> QED
  BY <1>3, <1>4, <1>5, <1>6, <1>7, <1>8, <1>9, <1>10 DEF Inv

LEMMA DispatchInv ==
  ASSUME Inv, Dispatch
  PROVE  Inv'
<1> DEFINE c == current_running
<1>1. /\ pc = "dispatch" /\ pc' = kernel_tf[c].ra /\ disable_count' = 0 /\ ie' = TRUE
      /\ exl' = kernel_tf[c].exl /\ epc' = kernel_tf[c].epc
      /\ UNCHANGED <<current_running, queue, tasks, frames, alloc>>
  BY DEF Dispatch, Goto, Inv, CriticalSections, CriticalPoint, DeadPoint
<1>2. c \in Pcb /\ kernel_tf[c] \in Context
  BY DEF Inv, TypeOK
<1>3. /\ pc' \in ResumePoint
      /\ IF c = Garbage THEN pc' = "timer_ret" /\ BootTaskAt("timer_ret", exl')
                       ELSE TaskAt(c, pc', exl')
  <2>1. CASE c = Garbage
    BY <1>1, <2>1 DEF Inv, SavedBoot, BootResumes, ResumePoint
  <2>2. CASE c # Garbage
    <3>1. c \in Slot /\ status[c] # "EXITED"
      BY <1>1, <2>2, RunnerLives
    <3> QED BY <1>1, <2>2, <3>1 DEF Inv, SavedContexts, Saved, SwitchPoint
  <2> QED BY <2>1, <2>2
<1>4. pc' \notin CriticalPoint \cup SwitchPoint \cup DeadPoint
  BY <1>3 DEF ResumePoint, CriticalPoint, SwitchPoint, DeadPoint
<1>5. TypeOK'
  BY <1>1, <1>2 DEF Inv, TypeOK, Context, tasks, frames, alloc
<1>6. CriticalSections' /\ StopsWithoutStacks'
  BY <1>1, <1>4 DEF CriticalSections, StopsWithoutStacks
<1>7. QueueIntegrity'
  BY <1>1, <1>4, QueuesKept DEF tasks, SwitchPoint
<1>8. BootPlaced'
  BY <1>1 DEF Inv, BootPlaced
<1>9. RunningContext'
  BY <1>1, <1>3 DEF RunningContext, BootTaskAt, TaskAt, ThreadAt, ProcessAt, IsThread, tasks, frames
<1>10. SavedContexts'
  BY <1>1, <1>4 DEF Inv, SavedContexts, Saved, SwitchPoint, TaskAt, ThreadAt, ProcessAt, IsThread, tasks, frames
<1>11. SavedBoot' /\ SwitchedOutMasked' /\ LatchedFrames'
  BY <1>1, <1>2, <1>4, Sets DEF Inv, SavedBoot, BootResumes, BootTaskAt, IsThread, SwitchedOutMasked, LatchedFrames,
       SwitchPoint, tasks, frames
<1>12. Spawning' /\ DeadlinesOfSleepers'
  BY <1>1, <1>3 DEF Inv, Spawning, BootWillSpawn, BootResumes, ResumePoint, DeadlinesOfSleepers, tasks, frames, alloc
<1> QED
  BY <1>5, <1>6, <1>7, <1>8, <1>9, <1>10, <1>11, <1>12 DEF Inv

LEMMA ThreadCallInv ==
  ASSUME Inv, NEW s \in Service, ThreadCall(s)
  PROVE  Inv'
<1>1. /\ pc = "thread" /\ pc' = s /\ s # "spawn"
      /\ UNCHANGED <<current_running, ie, exl, epc, disable_count, queue, tasks, frames, alloc>>
  BY DEF ThreadCall
<1>2. pc' \in (EnterPoint \cap KernelPoint) \ {"spawn"}
      /\ pc' \notin CriticalPoint \cup SwitchPoint \cup DeadPoint
  BY <1>1 DEF Service, EnterPoint, KernelPoint, CriticalPoint, SwitchPoint, DeadPoint
<1>3. TypeOK'
  BY <1>1, <1>2 DEF Inv, TypeOK, Point, tasks, frames, alloc
<1>4. CriticalSections' /\ StopsWithoutStacks'
  BY <1>1, <1>2 DEF Inv, CriticalSections, StopsWithoutStacks, CriticalPoint, DeadPoint
<1>5. QueueIntegrity'
  BY <1>1, <1>2, QueuesKept DEF tasks, SwitchPoint
<1>6. BootPlaced'
  BY <1>1 DEF Inv, BootPlaced
<1>7. RunningContext'
  BY <1>1, <1>2 DEF Inv, RunningContext, SwitchPoint, DeadPoint, BootTaskAt,
       TaskAt, ThreadAt, ProcessAt, IsThread, CriticalPoint, tasks, frames
<1>8. SavedContexts'
  BY <1>1, <1>2, OthersKept DEF SwitchPoint, tasks, frames
<1>9. SavedBoot' /\ SwitchedOutMasked' /\ LatchedFrames'
  BY <1>1, <1>2 DEF Inv, SavedBoot, BootResumes, BootTaskAt, IsThread, SwitchedOutMasked, LatchedFrames,
       SwitchPoint, tasks, frames
<1>10. Spawning' /\ DeadlinesOfSleepers'
  <2>1. pc' \notin {"spawn", "spawn_cs", "timer_ret", "dispatch"}
    BY <1>1 DEF Service
  <2> QED BY <1>1, <2>1 DEF Inv, Spawning, BootWillSpawn, BootResumes, DeadlinesOfSleepers, tasks, frames, alloc
<1> QED
  BY <1>3, <1>4, <1>5, <1>6, <1>7, <1>8, <1>9, <1>10 DEF Inv

LEMMA SyscallInv ==
  ASSUME Inv, NEW s \in Service, Syscall(s)
  PROVE  Inv'
<1> DEFINE c == current_running
<1>1. pc = "user" /\ c \in Slot /\ ~IsThread(c) /\ nested_count[c] = 0
  BY Sets DEF Syscall, Inv, TypeOK, RunningContext, SwitchPoint, DeadPoint, BootTaskAt, TaskAt, ThreadAt,
       ProcessAt, KernelPoint
<1>2. ie /\ disable_count = 0
  BY <1>1 DEF Inv, CriticalSections, CriticalPoint, DeadPoint
<1>3. /\ pc' = s /\ exl' = TRUE
      /\ epc' = IF exl THEN epc ELSE [at |-> pc, of |-> pid[c]]
      /\ user_tf' = [user_tf EXCEPT ![c] = epc']
      /\ nested_count' = [nested_count EXCEPT ![c] = @ + 1]
      /\ UNCHANGED <<current_running, ie, disable_count, queue, status, task_type, pid, deadline,
                     kernel_tf, alloc>>
  BY <1>1, <1>2 DEF Syscall, Exception, Goto
<1>4. pc' \in EnterPoint \cap KernelPoint
      /\ pc' \notin CriticalPoint \cup SwitchPoint \cup DeadPoint
  BY <1>3 DEF Service, EnterPoint, KernelPoint, CriticalPoint, SwitchPoint, DeadPoint
<1>5. epc' \in Frame /\ epc'.at \in UserAt
  BY <1>1, <1>3, Sets DEF Inv, TypeOK, Frame, LatchedFrames, UserAt
<1>6. c \in Pcb /\ c # Garbage
  BY <1>1, Sets
<1>7. TypeOK'
  BY <1>3, <1>4, <1>5, <1>6 DEF Inv, TypeOK, Point, alloc
<1>8. CriticalSections' /\ StopsWithoutStacks'
  BY <1>2, <1>3, <1>4 DEF CriticalSections, StopsWithoutStacks
<1>9. QueueIntegrity'
  BY <1>1, <1>3, <1>4, QueuesKept DEF SwitchPoint
<1>10. BootPlaced'
  BY <1>3, <1>6 DEF Inv, BootPlaced
<1>11. nested_count'[c] = 1 /\ user_tf'[c].at \in UserAt
  BY <1>1, <1>3, <1>5, <1>6 DEF Inv, TypeOK
<1>12. RunningContext'
  BY <1>1, <1>3, <1>4, <1>6, <1>11 DEF RunningContext, TaskAt, ProcessAt, IsThread
<1>13. SavedContexts'
  <2>1. \A p \in Slot \ {c} : nested_count'[p] = nested_count[p] /\ user_tf'[p] = user_tf[p]
    BY <1>3, Sets DEF Inv, TypeOK
  <2> QED BY <1>1, <1>3, <1>4, <2>1, OthersKept DEF SwitchPoint
<1>14. SavedBoot' /\ SwitchedOutMasked' /\ LatchedFrames'
  BY <1>3, <1>4, <1>5, <1>6, Sets DEF Inv, TypeOK, SavedBoot, BootResumes, BootTaskAt, IsThread,
       SwitchedOutMasked, LatchedFrames, SwitchPoint
<1>15. Spawning' /\ DeadlinesOfSleepers'
  BY <1>1, <1>3, <1>4, <1>6, Sets DEF Inv, TypeOK, Spawning, BootWillSpawn, BootResumes, SwitchPoint, CriticalPoint,
       DeadlinesOfSleepers, alloc, Syscall
<1> QED
  BY <1>7, <1>8, <1>9, <1>10, <1>12, <1>13, <1>14, <1>15 DEF Inv

LEMMA SyscallReturnInv ==
  ASSUME Inv, SyscallReturn
  PROVE  Inv'
<1> DEFINE c == current_running
<1>1. /\ pc = "sysret" /\ c \in Slot /\ ~IsThread(c) /\ nested_count[c] = 1
      /\ user_tf[c].at \in UserAt
  BY Sets DEF SyscallReturn, Inv, TypeOK, RunningContext, SwitchPoint, DeadPoint, BootTaskAt, TaskAt, ThreadAt,
       ProcessAt, KernelPoint
<1>2. ie /\ disable_count = 0
  BY <1>1 DEF Inv, CriticalSections, CriticalPoint, DeadPoint
<1>3. /\ pc' = user_tf[c].at /\ exl' = FALSE /\ epc' = user_tf[c] /\ ie' = TRUE /\ disable_count' = 0
      /\ nested_count' = [nested_count EXCEPT ![c] = @ - 1]
      /\ UNCHANGED <<current_running, queue, status, task_type, pid, deadline, frames, alloc>>
  BY <1>1, <1>2 DEF SyscallReturn, ExceptionReturn, Goto
<1>4. pc' \in UserAt /\ pc' \notin CriticalPoint \cup SwitchPoint \cup DeadPoint
  BY <1>1, <1>3 DEF UserAt, CriticalPoint, SwitchPoint, DeadPoint
<1>5. c \in Pcb /\ c # Garbage
  BY <1>1, Sets
<1>6. TypeOK'
  <2>1. pc' \in Point
    BY <1>4 DEF UserAt, Point, EnterPoint, PlainPoint
  <2>2. nested_count' \in [Pcb -> Nat]
    BY <1>1, <1>3, <1>5 DEF Inv, TypeOK
  <2> QED BY <1>3, <1>5, <2>1, <2>2 DEF Inv, TypeOK, frames, alloc
<1>7. CriticalSections' /\ StopsWithoutStacks'
  BY <1>3, <1>4 DEF CriticalSections, StopsWithoutStacks
<1>8. QueueIntegrity'
  BY <1>1, <1>3, <1>4, QueuesKept DEF SwitchPoint
<1>9. BootPlaced'
  BY <1>3, <1>5 DEF Inv, BootPlaced
<1>10. RunningContext'
  BY <1>1, <1>3, <1>4, <1>5 DEF Inv, TypeOK, RunningContext, TaskAt, ProcessAt, IsThread, UserAt
<1>11. SavedContexts'
  <2>1. \A p \in Slot \ {c} : nested_count'[p] = nested_count[p]
    BY <1>3, Sets DEF Inv, TypeOK
  <2> QED BY <1>1, <1>3, <1>4, <2>1, OthersKept DEF SwitchPoint, frames
<1>12. SavedBoot' /\ SwitchedOutMasked' /\ LatchedFrames'
  BY <1>3, <1>4, <1>5, Sets DEF Inv, TypeOK, SavedBoot, BootResumes, BootTaskAt, IsThread,
       SwitchedOutMasked, LatchedFrames, SwitchPoint, frames
<1>13. Spawning' /\ DeadlinesOfSleepers'
  BY <1>3, <1>4, <1>5, Sets DEF Inv, Spawning, BootWillSpawn, BootResumes, UserAt,
       DeadlinesOfSleepers, alloc, frames
<1> QED
  BY <1>6, <1>7, <1>8, <1>9, <1>10, <1>11, <1>12, <1>13 DEF Inv

\* The kernel code that the timer resumes at once is that of a thread: a process is
\* in the kernel only with EXL set.
LEMMA TickedAt ==
  ASSUME Inv, TimerTick
  PROVE  LET c == current_running IN
         /\ ie /\ ~exl /\ disable_count = 0 /\ c \in Pcb /\ c # Garbage /\ c \in Slot /\ IsThread(c)
         /\ pc' = pc
         /\ user_tf' = [user_tf EXCEPT ![c] = [at |-> pc, of |-> pid[c]]]
         /\ epc' = user_tf'[c]
         /\ deadline' = [p \in Pcb |-> IF deadline[p] = 0 THEN 0 ELSE deadline[p] - 1]
         /\ UNCHANGED <<current_running, ie, exl, disable_count, queue, status, task_type, nested_count,
                        pid, kernel_tf, alloc>>
<1> DEFINE c == current_running
<1>1. ie /\ ~exl /\ nested_count[c] # 0
  BY DEF TimerTick
<1>2. c \in Pcb /\ c # Garbage /\ c \in Slot
  BY <1>1, Sets DEF Inv, TypeOK, SavedBoot
<1>3. pc \notin CriticalPoint \cup DeadPoint /\ disable_count = 0
  BY <1>1 DEF Inv, CriticalSections, StopsWithoutStacks, DeadPoint
<1>4. IsThread(c)
  <2>1. pc # "scheduler" /\ pc # "dispatch"
    BY <1>3 DEF CriticalPoint
  <2>2. CASE pc = "idle"
    BY <1>1, <1>2, <2>2 DEF Inv, SwitchedOutMasked
  <2>3. CASE pc # "idle"
    BY <1>1, <1>2, <1>3, <2>1, <2>3 DEF Inv, RunningContext, SwitchPoint, TaskAt, ProcessAt, KernelPoint
  <2> QED BY <2>2, <2>3
<1> QED BY <1>1, <1>2, <1>3, <1>4 DEF TimerTick, Goto, Tick

LEMMA TimerTickInv ==
  ASSUME Inv, TimerTick
  PROVE  Inv'
<1> DEFINE c == current_running
<1>1. /\ ie /\ ~exl /\ disable_count = 0 /\ c \in Pcb /\ c # Garbage /\ c \in Slot /\ IsThread(c)
      /\ pc' = pc
      /\ user_tf' = [user_tf EXCEPT ![c] = [at |-> pc, of |-> pid[c]]]
      /\ epc' = user_tf'[c]
      /\ deadline' = [p \in Pcb |-> IF deadline[p] = 0 THEN 0 ELSE deadline[p] - 1]
      /\ UNCHANGED <<current_running, ie, exl, disable_count, queue, status, task_type, nested_count,
                     pid, kernel_tf, alloc>>
  BY TickedAt
<1>2. TypeOK'
  <2>1. user_tf' \in [Pcb -> Frame] /\ epc' \in Frame
    BY <1>1 DEF Inv, TypeOK, Frame
  <2>2. deadline' \in [Pcb -> Nat]
    BY <1>1 DEF Inv, TypeOK
  <2> QED BY <1>1, <2>1, <2>2 DEF Inv, TypeOK, alloc
<1>3. CriticalSections' /\ StopsWithoutStacks'
  BY <1>1 DEF Inv, CriticalSections, StopsWithoutStacks, alloc
<1>4. QueueIntegrity'
  BY <1>1, QueuesKept
<1>5. BootPlaced'
  BY <1>1 DEF Inv, BootPlaced
<1>6. RunningContext'
  BY <1>1 DEF Inv, RunningContext, TaskAt, ThreadAt, IsThread
<1>7. SavedContexts'
  <2> SUFFICES ASSUME NEW p \in Slot
               PROVE  TaskAt(p, kernel_tf[p].ra, kernel_tf[p].exl)' <=> TaskAt(p, kernel_tf[p].ra, kernel_tf[p].exl)
    BY <1>1 DEF Inv, SavedContexts, Saved
  <2>1. p # c => user_tf'[p] = user_tf[p]
    BY <1>1, Sets DEF Inv, TypeOK
  <2> QED BY <1>1, <2>1 DEF TaskAt, ThreadAt, ProcessAt, IsThread
<1>8. SavedBoot' /\ SwitchedOutMasked'
  BY <1>1, Sets DEF Inv, TypeOK, SavedBoot, BootResumes, BootTaskAt, IsThread, SwitchedOutMasked
<1>9. LatchedFrames'
  BY <1>1 DEF Inv, LatchedFrames
<1>10. Spawning'
  BY <1>1, Sets DEF Inv, TypeOK, Spawning, BootWillSpawn, BootResumes, alloc
<1>11. DeadlinesOfSleepers'
  BY <1>1 DEF Inv, DeadlinesOfSleepers
<1> QED
  BY <1>2, <1>3, <1>4, <1>5, <1>6, <1>7, <1>8, <1>9, <1>10, <1>11 DEF Inv

-----------------------------------------------------------------------------
(* Steps that move tasks between queues. *)

\* Move() puts the head of one queue into another, and nothing else anywhere.
LEMMA MoveOnce ==
  ASSUME NEW qs \in [Queue -> Seq(Pcb)], NEW from \in Queue, NEW to \in Queue, qs[from] # <<>>,
         LinkedOnce(qs)
  PROVE  LET h == Head(qs[from]) IN
         /\ h \in Pcb /\ InQueue(qs, from, h)
         /\ Move(qs, from, to) \in [Queue -> Seq(Pcb)]
         /\ LinkedOnce(Move(qs, from, to))
         /\ \A r \in Queue : \A u : InQueue(Move(qs, from, to), r, u)
              <=> (r = to /\ u = h) \/ (InQueue(qs, r, u) /\ u # h)
<1> DEFINE h == Head(qs[from])
           rest == Dequeue(qs, from)
<1>1. /\ rest \in [Queue -> Seq(Pcb)] /\ h \in Pcb /\ InQueue(qs, from, h) /\ LinkedOnce(rest)
      /\ \A r \in Queue : \A u : InQueue(rest, r, u) <=> InQueue(qs, r, u) /\ u # h
  BY DequeueOnce
<1>2. \A r \in Queue : ~InQueue(rest, r, h)
  BY <1>1
<1>0. rest \in [Queue -> Seq(Pcb)] /\ h \in Pcb
  BY <1>1
<1> HIDE DEF rest, h
<1>3. /\ Enqueue(rest, to, h) \in [Queue -> Seq(Pcb)]
      /\ \A r \in Queue : \A u : InQueue(Enqueue(rest, to, h), r, u)
                                <=> InQueue(rest, r, u) \/ (r = to /\ u = h)
  BY <1>0, EnqueueIn
<1>4. LinkedOnce(Enqueue(rest, to, h))
  BY <1>0, <1>1, <1>2, EnqueueOnce
<1>5. Move(qs, from, to) = Enqueue(rest, to, h)
  BY DEF Move, rest, h
<1> QED BY <1>1, <1>3, <1>4, <1>5 DEF h

\* The first task of one queue becomes READY and goes to the ready queue.
LEMMA ReadyHead ==
  ASSUME Inv, NEW q \in Queue \ {"ready_queue"}, queue[q] # <<>>,
         queue' = Move(queue, q, "ready_queue"),
         status' = [status EXCEPT ![Head(queue[q])] = "READY"],
         current_running' = current_running, pc' = pc
  PROVE  /\ Head(queue[q]) \in Slot /\ status[Head(queue[q])] # "EXITED"
         /\ \A r \in Queue : \A u : InQueue(queue', r, u)
              <=> (r = "ready_queue" /\ u = Head(queue[q])) \/ (InQueue(queue, r, u) /\ u # Head(queue[q]))
         /\ queue' \in [Queue -> Seq(Pcb)] /\ status' \in [Pcb -> Status]
         /\ QueueIntegrity' /\ BootPlaced'
<1> DEFINE h == Head(queue[q])
<1>1. /\ h \in Pcb /\ InQueue(queue, q, h)
      /\ queue' \in [Queue -> Seq(Pcb)] /\ LinkedOnce(queue')
      /\ \A r \in Queue : \A u : InQueue(queue', r, u)
           <=> (r = "ready_queue" /\ u = h) \/ (InQueue(queue, r, u) /\ u # h)
  BY Sets, MoveOnce DEF Inv, TypeOK, QueueIntegrity
<1> HIDE DEF h
<1>2. h \in Slot
  BY <1>1, Sets DEF Inv, BootPlaced
<1>3. status[h] # "EXITED" /\ ~Running(h)
  BY <1>1, <1>2 DEF Inv, QueueIntegrity, Placed
<1>4. status' = [status EXCEPT ![h] = "READY"] /\ status' \in [Pcb -> Status]
  BY DEF h, Inv, TypeOK, Status
<1>5. \A p \in Slot : (Running(p)' <=> Running(p)) /\ status'[p] = IF p = h THEN "READY" ELSE status[p]
  BY <1>4, Sets DEF Running, Inv, TypeOK
<1>6. Placed'
  <2> SUFFICES ASSUME NEW p \in Slot
               PROVE  /\ (\E r \in Queue : InQueue(queue', r, p)) <=> (status'[p] # "EXITED" /\ ~Running(p)')
                      /\ Running(p)' => status'[p] \in {"FIRST_TIME", "READY"}
                      /\ InQueue(queue', "ready_queue", p) => status'[p] \in {"FIRST_TIME", "READY"}
                      /\ InQueue(queue', "sleep_wait_queue", p) => status'[p] = "SLEEPING"
                      /\ \A w \in WaitQueue : InQueue(queue', w, p) => status'[p] = "BLOCKED"
    BY DEF Placed
  <2>1. CASE p = h
    BY <1>1, <1>2, <1>3, <1>5, <2>1, Sets
  <2>2. CASE p # h
    <3>1. \A r \in Queue : InQueue(queue', r, p) <=> InQueue(queue, r, p)
      BY <1>1, <2>2
    <3>2. status'[p] = status[p] /\ (Running(p)' <=> Running(p))
      BY <1>5, <2>2
    <3> QED BY <3>1, <3>2, Sets DEF Inv, QueueIntegrity, Placed
  <2> QED BY <2>1, <2>2
<1>7. BootPlaced'
  BY <1>1, <1>2, Sets DEF Inv, BootPlaced
<1> QED BY <1>1, <1>2, <1>3, <1>4, <1>6, <1>7 DEF h, QueueIntegrity

LEMMA WakeSleeperInv ==
  ASSUME Inv, WakeSleeper
  PROVE  Inv'
<1> DEFINE h == Head(queue["sleep_wait_queue"])
<1>1. /\ pc = "scheduler" /\ queue["sleep_wait_queue"] # <<>> /\ deadline[h] = 0
      /\ status' = [status EXCEPT ![h] = "READY"]
      /\ queue' = Move(queue, "sleep_wait_queue", "ready_queue")
      /\ UNCHANGED <<cpu, current_running, task_type, nested_count, pid, deadline, frames, alloc>>
  BY DEF WakeSleeper, Expired, IsEmpty
<1>2. UNCHANGED <<pc, ie, exl, epc, disable_count, kernel_tf, user_tf, stacks, spawn_times>>
  BY <1>1 DEF cpu, frames, alloc
<1>3. /\ h \in Slot /\ status[h] # "EXITED"
      /\ \A r \in Queue : \A u : InQueue(queue', r, u)
           <=> (r = "ready_queue" /\ u = h) \/ (InQueue(queue, r, u) /\ u # h)
      /\ queue' \in [Queue -> Seq(Pcb)] /\ status' \in [Pcb -> Status]
      /\ QueueIntegrity' /\ BootPlaced'
  BY <1>1, <1>2, Sets, ReadyHead
<1> HIDE DEF h
<1>4. TypeOK'
  BY <1>1, <1>2, <1>3 DEF Inv, TypeOK
<1>5. CriticalSections' /\ StopsWithoutStacks' /\ LatchedFrames'
  BY <1>1, <1>2 DEF Inv, CriticalSections, StopsWithoutStacks, LatchedFrames
<1>6. RunningContext'
  BY <1>1, <1>2 DEF RunningContext, SwitchPoint
<1>7. \A p \in Slot : status'[p] = IF p = h THEN "READY" ELSE status[p]
  BY <1>1, Sets DEF Inv, TypeOK
<1>8. SavedContexts'
  BY <1>1, <1>2, <1>3, <1>7 DEF Inv, SavedContexts, Saved, SwitchPoint, TaskAt, ThreadAt, ProcessAt, IsThread
<1>9. InQueue(queue', "ready_queue", Garbage) <=> InQueue(queue, "ready_queue", Garbage)
  BY <1>3, Sets
<1>10. SavedBoot' /\ SwitchedOutMasked'
  BY <1>1, <1>2, <1>3, <1>9, Sets DEF Inv, SavedBoot, BootResumes, BootTaskAt, IsThread, SwitchedOutMasked
<1>11. Spawning'
  BY <1>1, <1>2, <1>3, <1>9, <1>7 DEF Inv, Spawning, BootWillSpawn, BootResumes
<1>12. DeadlinesOfSleepers'
  BY <1>1, <1>3, Sets DEF Inv, DeadlinesOfSleepers
<1> QED
  BY <1>3, <1>4, <1>5, <1>6, <1>8, <1>10, <1>11, <1>12 DEF Inv

LEMMA UnblockOneInv ==
  ASSUME Inv, NEW w \in WaitQueue, UnblockOne(w)
  PROVE  Inv'
<1> DEFINE h == Head(queue[w])
           c == current_running
<1>1. pc = "sync_cs" /\ c \in Slot /\ nested_count[c] = 1
  BY Sets DEF UnblockOne, Inv, TypeOK, RunningContext, SwitchPoint, DeadPoint, BootTaskAt, TaskAt, ThreadAt,
       ProcessAt
<1>2. disable_count = 1
  BY <1>1 DEF Inv, CriticalSections, CriticalPoint, DeadPoint
<1>3. /\ queue[w] # <<>> /\ pc' = pc
      /\ status' = [status EXCEPT ![h] = "READY"]
      /\ queue' = Move(queue, w, "ready_queue")
      /\ UNCHANGED <<current_running, ie, exl, epc, disable_count, task_type, nested_count, pid, deadline,
                     frames, alloc>>
  BY <1>1, <1>2 DEF UnblockOne, IsEmpty, Goto
<1>4. UNCHANGED <<kernel_tf, user_tf, stacks, spawn_times>>
  BY <1>3 DEF frames, alloc
<1>5. /\ h \in Slot /\ status[h] # "EXITED"
      /\ \A r \in Queue : \A u : InQueue(queue', r, u)
           <=> (r = "ready_queue" /\ u = h) \/ (InQueue(queue, r, u) /\ u # h)
      /\ queue' \in [Queue -> Seq(Pcb)] /\ status' \in [Pcb -> Status]
      /\ QueueIntegrity' /\ BootPlaced'
  BY <1>3, Sets, ReadyHead
<1>6. InQueue(queue, w, h) /\ ~InQueue(queue, "sleep_wait_queue", h)
  <2>1. InQueue(queue, w, h)
    BY <1>3, Sets, MoveOnce DEF Inv, TypeOK, QueueIntegrity
  <2> QED BY <1>5, <2>1 DEF Inv, QueueIntegrity, Placed
<1> HIDE DEF h
<1>7. TypeOK'
  BY <1>3, <1>4, <1>5 DEF Inv, TypeOK
<1>8. CriticalSections' /\ StopsWithoutStacks' /\ LatchedFrames'
  BY <1>3, <1>4 DEF Inv, CriticalSections, StopsWithoutStacks, LatchedFrames
<1>9. RunningContext'
  BY <1>3, <1>4 DEF Inv, RunningContext, BootTaskAt, TaskAt, ThreadAt, ProcessAt, IsThread
<1>10. \A p \in Slot : status'[p] = IF p = h THEN "READY" ELSE status[p]
  BY <1>3, Sets DEF Inv, TypeOK
<1>11. SavedContexts'
  BY <1>3, <1>4, <1>5, <1>10 DEF Inv, SavedContexts, Saved, TaskAt, ThreadAt, ProcessAt, IsThread
<1>12. InQueue(queue', "ready_queue", Garbage) <=> InQueue(queue, "ready_queue", Garbage)
  BY <1>5, Sets
<1>13. SavedBoot' /\ SwitchedOutMasked'
  BY <1>1, <1>3, <1>4, <1>12 DEF Inv, SavedBoot, BootResumes, BootTaskAt, IsThread, SwitchedOutMasked
<1>14. Spawning'
  BY <1>1, <1>3, <1>4, <1>5, <1>12, <1>10 DEF Inv, Spawning, BootWillSpawn, BootResumes
<1>15. DeadlinesOfSleepers'
  BY <1>3, <1>5, <1>6, Sets DEF Inv, DeadlinesOfSleepers
<1> QED
  BY <1>5, <1>7, <1>8, <1>9, <1>11, <1>13, <1>14, <1>15 DEF Inv

LEMMA PickNextInv ==
  ASSUME Inv, PickNext
  PROVE  Inv'
<1> DEFINE h == Head(queue["ready_queue"])
<1>1. /\ pc = "scheduler" /\ queue["ready_queue"] # <<>> /\ current_running' = h /\ pc' = "dispatch"
      /\ queue' = Dequeue(queue, "ready_queue")
      /\ UNCHANGED <<ie, exl, epc, disable_count, tasks, frames, alloc>>
  BY DEF PickNext, IsEmpty
<1>2. UNCHANGED <<status, task_type, nested_count, pid, deadline, kernel_tf, user_tf, stacks, spawn_times>>
  BY <1>1 DEF tasks, frames, alloc
<1>3. /\ queue' \in [Queue -> Seq(Pcb)] /\ h \in Pcb /\ InQueue(queue, "ready_queue", h)
      /\ LinkedOnce(queue')
      /\ \A r \in Queue : \A u : InQueue(queue', r, u) <=> InQueue(queue, r, u) /\ u # h
  <2>1. queue \in [Queue -> Seq(Pcb)] /\ LinkedOnce(queue) /\ "ready_queue" \in Queue
    BY Sets DEF Inv, TypeOK, QueueIntegrity
  <2>2. /\ Dequeue(queue, "ready_queue") \in [Queue -> Seq(Pcb)] /\ h \in Pcb /\ InQueue(queue, "ready_queue", h)
        /\ LinkedOnce(Dequeue(queue, "ready_queue"))
        /\ \A r \in Queue : \A u : InQueue(Dequeue(queue, "ready_queue"), r, u) <=> InQueue(queue, r, u) /\ u # h
    BY <1>1, <2>1, DequeueOnce
  <2> QED BY <1>1, <2>2
<1> HIDE DEF h
<1>4. TypeOK'
  BY <1>1, <1>2, <1>3 DEF Inv, TypeOK, Point, CriticalPoint
<1>5. CriticalSections' /\ StopsWithoutStacks' /\ LatchedFrames'
  BY <1>1, <1>2 DEF Inv, CriticalSections, StopsWithoutStacks, LatchedFrames, CriticalPoint, DeadPoint
<1>6. Placed'
  <2> SUFFICES ASSUME NEW p \in Slot
               PROVE  /\ (\E r \in Queue : InQueue(queue', r, p)) <=> (status'[p] # "EXITED" /\ ~Running(p)')
                      /\ Running(p)' => status'[p] \in {"FIRST_TIME", "READY"}
                      /\ InQueue(queue', "ready_queue", p) => status'[p] \in {"FIRST_TIME", "READY"}
                      /\ InQueue(queue', "sleep_wait_queue", p) => status'[p] = "SLEEPING"
                      /\ \A w \in WaitQueue : InQueue(queue', w, p) => status'[p] = "BLOCKED"
    BY DEF Placed
  <2>1. (Running(p)' <=> p = h) /\ ~Running(p)
    BY <1>1 DEF Running
  <2> QED BY <1>2, <1>3, <2>1, Sets DEF Inv, QueueIntegrity, Placed
<1>7. BootPlaced'
  BY <1>1, <1>3 DEF Inv, BootPlaced
<1>8. RunningContext' /\ SwitchedOutMasked'
  BY <1>1 DEF RunningContext, SwitchPoint, SwitchedOutMasked
<1>9. SavedContexts'
  BY <1>1, <1>2 DEF Inv, SavedContexts, Saved, SwitchPoint, TaskAt, ThreadAt, ProcessAt, IsThread
<1>10. BootResumes' => BootResumes
  BY <1>1, <1>3, Sets DEF BootResumes
<1>11. SavedBoot'
  BY <1>2, <1>10 DEF Inv, SavedBoot, BootTaskAt, IsThread
<1>12. Spawning'
  BY <1>1, <1>2, <1>10 DEF Inv, Spawning, BootWillSpawn
<1>13. DeadlinesOfSleepers'
  <2>1. ~InQueue(queue, "sleep_wait_queue", h)
    BY <1>3, Sets DEF Inv, QueueIntegrity, Placed, BootPlaced
  <2> QED BY <1>2, <1>3, <2>1, Sets DEF Inv, DeadlinesOfSleepers
<1> QED
  BY <1>3, <1>4, <1>5, <1>6, <1>7, <1>8, <1>9, <1>11, <1>12, <1>13 DEF Inv, QueueIntegrity

-----------------------------------------------------------------------------
(* Steps into the scheduler. *)

\* The queue that each status waits in.
StatusIn(q) ==
  IF q = "ready_queue" THEN "READY" ELSE IF q = "sleep_wait_queue" THEN "SLEEPING" ELSE "BLOCKED"

\* The task that runs, or the boot code, is in no queue.
LEMMA RunnerUnlinked ==
  ASSUME Inv, pc # "scheduler", pc = "idle" => current_running = Garbage
  PROVE  \A r \in Queue : ~InQueue(queue, r, current_running)
<1>1. CASE current_running = Garbage
  BY <1>1 DEF Inv, BootPlaced
<1>2. CASE current_running # Garbage
  BY <1>2, Sets DEF Inv, TypeOK, QueueIntegrity, Placed, Running
<1> QED BY <1>1, <1>2

\* It goes to the tail of the queue that its new status says.
LEMMA EnqueueCurrent ==
  ASSUME Inv, NEW q \in Queue, pc # "scheduler", pc = "idle" => current_running = Garbage,
         current_running = Garbage => q = "ready_queue",
         queue' = Enqueue(queue, q, current_running),
         status' = [status EXCEPT ![current_running] = StatusIn(q)],
         current_running' = current_running, pc' = "scheduler"
  PROVE  /\ queue' \in [Queue -> Seq(Pcb)] /\ status' \in [Pcb -> Status]
         /\ \A r \in Queue : \A u : InQueue(queue', r, u)
              <=> InQueue(queue, r, u) \/ (r = q /\ u = current_running)
         /\ QueueIntegrity' /\ BootPlaced'
<1> DEFINE c == current_running
<1>1. c \in Pcb /\ queue \in [Queue -> Seq(Pcb)] /\ LinkedOnce(queue)
  BY DEF Inv, TypeOK, QueueIntegrity
<1>2. \A r \in Queue : ~InQueue(queue, r, c)
  BY RunnerUnlinked
<1>3. /\ queue' \in [Queue -> Seq(Pcb)]
      /\ \A r \in Queue : \A u : InQueue(queue', r, u) <=> InQueue(queue, r, u) \/ (r = q /\ u = c)
  BY <1>1, EnqueueIn
<1>4. LinkedOnce(queue')
  BY <1>1, <1>2, EnqueueOnce
<1>5. status' \in [Pcb -> Status] /\ \A p \in Slot : status'[p] = IF p = c THEN StatusIn(q) ELSE status[p]
  BY Sets DEF Inv, TypeOK, Status, StatusIn
<1>6. Placed'
  <2> SUFFICES ASSUME NEW p \in Slot
               PROVE  /\ (\E r \in Queue : InQueue(queue', r, p)) <=> (status'[p] # "EXITED" /\ ~Running(p)')
                      /\ Running(p)' => status'[p] \in {"FIRST_TIME", "READY"}
                      /\ InQueue(queue', "ready_queue", p) => status'[p] \in {"FIRST_TIME", "READY"}
                      /\ InQueue(queue', "sleep_wait_queue", p) => status'[p] = "SLEEPING"
                      /\ \A w \in WaitQueue : InQueue(queue', w, p) => status'[p] = "BLOCKED"
    BY DEF Placed
  <2>1. ~Running(p)'
    BY DEF Running
  <2>2. CASE p = c
    BY <1>2, <1>3, <1>5, <2>1, <2>2, Sets DEF StatusIn
  <2>3. CASE p # c
    <3>1. \A r \in Queue : InQueue(queue', r, p) <=> InQueue(queue, r, p)
      BY <1>3, <2>3
    <3>2. status'[p] = status[p] /\ ~Running(p)
      BY <1>5, <2>3 DEF Running
    <3> QED BY <2>1, <3>1, <3>2, Sets DEF Inv, QueueIntegrity, Placed
  <2> QED BY <2>2, <2>3
<1>7. BootPlaced'
  BY <1>2, <1>3 DEF Inv, BootPlaced
<1> QED BY <1>3, <1>4, <1>5, <1>6, <1>7 DEF QueueIntegrity

\* Its context is saved; those of the others are as they were.
LEMMA SwitchedOutSaved ==
  ASSUME Inv, UNCHANGED <<current_running, task_type, nested_count>>,
         \A p \in Slot \ {current_running} :
           status'[p] = status[p] /\ user_tf'[p] = user_tf[p] /\ kernel_tf'[p] = kernel_tf[p],
         current_running # Garbage =>
           IF status'[current_running] = "EXITED" THEN kernel_tf'[current_running].ra = "exit_ret"
           ELSE /\ kernel_tf'[current_running].ra \in ResumePoint
                /\ TaskAt(current_running, kernel_tf[current_running].ra, kernel_tf[current_running].exl)'
  PROVE  SavedContexts'
<1> SUFFICES ASSUME NEW p \in Slot
             PROVE  /\ status'[p] # "EXITED" /\ Saved(p)' =>
                         kernel_tf'[p].ra \in ResumePoint /\ TaskAt(p, kernel_tf[p].ra, kernel_tf[p].exl)'
                    /\ status'[p] = "EXITED" => kernel_tf'[p].ra \in {"reset", "exit_ret"}
  BY DEF SavedContexts
<1>1. CASE p = current_running
  BY <1>1, Sets
<1>2. CASE p # current_running
  BY <1>2 DEF Inv, SavedContexts, Saved, TaskAt, ThreadAt, ProcessAt, IsThread
<1> QED BY <1>1, <1>2

\* A service of a task that ends in scheduler_entry().
LEMMA ServiceSwitches ==
  ASSUME Inv, pc \in {"yield_cs", "sleep_cs", "exit_cs", "sync_cs"}, pc' = "scheduler",
         UNCHANGED <<current_running, ie, exl, epc, disable_count, task_type, nested_count, pid, user_tf, alloc>>,
         queue' \in [Queue -> Seq(Pcb)], status' \in [Pcb -> Status], deadline' \in [Pcb -> Nat],
         \A q \in Queue : InQueue(queue', q, Garbage) <=> InQueue(queue, q, Garbage),
         \A p \in Slot \ {current_running} : status'[p] = status[p],
         NEW ra \in {"sleep_ret", "block_ret", "exit_ret", "thread", "sysret"},
         status'[current_running] = "EXITED" <=> ra = "exit_ret",
         ra \in {"thread", "sysret"} => ra = Caller(current_running),
         kernel_tf' = [kernel_tf EXCEPT ![current_running] = [ra |-> ra, exl |-> exl, epc |-> epc]]
  PROVE  /\ TypeOK' /\ CriticalSections' /\ StopsWithoutStacks' /\ RunningContext' /\ SavedContexts' /\ SavedBoot'
         /\ SwitchedOutMasked' /\ LatchedFrames' /\ Spawning'
<1> DEFINE c == current_running
<1>1. /\ c \in Slot /\ c # Garbage /\ c \in Pcb /\ nested_count[c] = 1
      /\ IsThread(c) \/ (exl /\ user_tf[c].at \in UserAt)
      /\ status[c] # "EXITED"
  BY Sets, RunnerLives DEF Inv, TypeOK, RunningContext, SwitchPoint, DeadPoint, BootTaskAt, TaskAt, ThreadAt,
       ProcessAt
<1>2. ra = Caller(c) => ra = IF IsThread(c) THEN "thread" ELSE "sysret"
  BY <1>1 DEF Caller
<1>3. /\ kernel_tf'[c] = [ra |-> ra, exl |-> exl, epc |-> epc]
      /\ \A p \in Pcb \ {c} : kernel_tf'[p] = kernel_tf[p]
      /\ kernel_tf' \in [Pcb -> Context]
  BY <1>1 DEF Inv, TypeOK, Context, Point, EnterPoint, PlainPoint, DeadPoint
<1>4. TypeOK'
  BY <1>3 DEF Inv, TypeOK, Point, CriticalPoint, alloc
<1>5. CriticalSections' /\ StopsWithoutStacks' /\ RunningContext'
  BY DEF Inv, CriticalSections, StopsWithoutStacks, CriticalPoint, DeadPoint, RunningContext, SwitchPoint
<1>6. SavedContexts'
  <2>1. ra # "exit_ret" => ra \in ResumePoint
    BY DEF ResumePoint
  <2>2. ra # "exit_ret" => TaskAt(c, kernel_tf[c].ra, kernel_tf[c].exl)'
    BY <1>1, <1>2, <1>3 DEF TaskAt, ThreadAt, ProcessAt, IsThread, KernelPoint
  <2> QED BY <1>1, <1>3, <2>1, <2>2, Sets, SwitchedOutSaved
<1>7. BootResumes' <=> BootResumes
  BY <1>1, Sets DEF BootResumes
<1>8. SavedBoot' /\ SwitchedOutMasked'
  BY <1>1, <1>3, <1>7, Sets DEF Inv, SavedBoot, BootTaskAt, IsThread, SwitchedOutMasked
<1>9. LatchedFrames'
  BY <1>1, <1>3, Sets DEF Inv, LatchedFrames
<1>10. Spawning'
  <2>1. spawn_times # 0
    BY <1>1 DEF Inv, Spawning
  <2> QED BY <1>1, <1>7, <2>1 DEF Inv, Spawning, BootWillSpawn, alloc
<1> QED BY <1>4, <1>5, <1>6, <1>8, <1>9, <1>10

\* What ServiceSwitches needs to know of the task.
LEMMA ServiceOfTask ==
  ASSUME Inv, pc \in {"yield_cs", "sleep_cs", "exit_cs", "sync_cs"}
  PROVE  /\ disable_count = 1 /\ current_running \in Slot /\ current_running \in Pcb
         /\ current_running # Garbage /\ status[current_running] # "EXITED"
         /\ Caller(current_running) \in {"thread", "sysret"}
  BY Sets, RunnerLives DEF Inv, TypeOK, CriticalSections, CriticalPoint, RunningContext, SwitchPoint,
     DeadPoint, BootTaskAt, Caller

LEMMA DoYieldInv ==
  ASSUME Inv, DoYield
  PROVE  Inv'
<1> DEFINE c == current_running
<1>1. /\ pc = "yield_cs" /\ disable_count = 1 /\ c \in Slot /\ c \in Pcb /\ c # Garbage
      /\ Caller(c) \in {"thread", "sysret"}
  BY ServiceOfTask DEF DoYield
<1>2. /\ pc' = "scheduler"
      /\ status' = [status EXCEPT ![c] = StatusIn("ready_queue")]
      /\ queue' = Enqueue(queue, "ready_queue", c)
      /\ kernel_tf' = [kernel_tf EXCEPT ![c] = [ra |-> Caller(c), exl |-> exl, epc |-> epc]]
      /\ UNCHANGED <<current_running, ie, exl, epc, disable_count, task_type, nested_count, pid, deadline,
                     user_tf, alloc>>
  BY <1>1 DEF DoYield, PutCurrentRunning, SwitchOut, Goto, StatusIn
<1>3. /\ queue' \in [Queue -> Seq(Pcb)] /\ status' \in [Pcb -> Status]
      /\ \A r \in Queue : \A u : InQueue(queue', r, u)
           <=> InQueue(queue, r, u) \/ (r = "ready_queue" /\ u = c)
      /\ QueueIntegrity' /\ BootPlaced'
  BY <1>1, <1>2, Sets, EnqueueCurrent
<1>4. \A p \in Slot : status'[p] = IF p = c THEN "READY" ELSE status[p]
  BY <1>2, Sets DEF Inv, TypeOK, StatusIn
<1>5. /\ TypeOK' /\ CriticalSections' /\ StopsWithoutStacks' /\ RunningContext' /\ SavedContexts' /\ SavedBoot'
      /\ SwitchedOutMasked' /\ LatchedFrames' /\ Spawning'
  <2>1. deadline' \in [Pcb -> Nat]
    BY <1>2 DEF Inv, TypeOK
  <2>2. \A q \in Queue : InQueue(queue', q, Garbage) <=> InQueue(queue, q, Garbage)
    BY <1>1, <1>3
  <2>3. status'[c] # "EXITED" /\ \A p \in Slot \ {c} : status'[p] = status[p]
    BY <1>1, <1>4
  <2> QED BY <1>1, <1>2, <1>3, <2>1, <2>2, <2>3, ServiceSwitches
<1>6. DeadlinesOfSleepers'
  BY <1>2, <1>3, Sets DEF Inv, DeadlinesOfSleepers
<1> QED BY <1>3, <1>5, <1>6 DEF Inv

LEMMA BlockInv ==
  ASSUME Inv, NEW w \in WaitQueue, Block(w)
  PROVE  Inv'
<1> DEFINE c == current_running
<1>1. /\ pc = "sync_cs" /\ disable_count = 1 /\ c \in Slot /\ c \in Pcb /\ c # Garbage
      /\ status[c] # "EXITED"
  BY ServiceOfTask DEF Block
<1>2. /\ pc' = "scheduler"
      /\ status' = [status EXCEPT ![c] = StatusIn(w)]
      /\ queue' = Enqueue(queue, w, c)
      /\ kernel_tf' = [kernel_tf EXCEPT ![c] = [ra |-> "block_ret", exl |-> exl, epc |-> epc]]
      /\ UNCHANGED <<current_running, ie, exl, epc, disable_count, task_type, nested_count, pid, deadline,
                     user_tf, alloc>>
  <2>1. StatusIn(w) = "BLOCKED"
    BY Sets DEF StatusIn
  <2> QED BY <1>1, <2>1 DEF Block, SwitchOut, Goto
<1>3. /\ queue' \in [Queue -> Seq(Pcb)] /\ status' \in [Pcb -> Status]
      /\ \A r \in Queue : \A u : InQueue(queue', r, u) <=> InQueue(queue, r, u) \/ (r = w /\ u = c)
      /\ QueueIntegrity' /\ BootPlaced'
  BY <1>1, <1>2, Sets, EnqueueCurrent
<1>4. \A p \in Slot : status'[p] = IF p = c THEN "BLOCKED" ELSE status[p]
  BY <1>2, Sets DEF Inv, TypeOK, StatusIn
<1>5. /\ TypeOK' /\ CriticalSections' /\ StopsWithoutStacks' /\ RunningContext' /\ SavedContexts' /\ SavedBoot'
      /\ SwitchedOutMasked' /\ LatchedFrames' /\ Spawning'
  <2>1. deadline' \in [Pcb -> Nat]
    BY <1>2 DEF Inv, TypeOK
  <2>2. \A q \in Queue : InQueue(queue', q, Garbage) <=> InQueue(queue, q, Garbage)
    BY <1>1, <1>3
  <2>3. status'[c] # "EXITED" /\ \A p \in Slot \ {c} : status'[p] = status[p]
    BY <1>1, <1>4
  <2> QED BY <1>1, <1>2, <1>3, <2>1, <2>2, <2>3, ServiceSwitches
<1>6. DeadlinesOfSleepers'
  BY <1>2, <1>3, Sets DEF Inv, DeadlinesOfSleepers
<1> QED BY <1>3, <1>5, <1>6 DEF Inv

LEMMA DoExitInv ==
  ASSUME Inv, DoExit
  PROVE  Inv'
<1> DEFINE c == current_running
<1>1. /\ pc = "exit_cs" /\ disable_count = 1 /\ c \in Slot /\ c \in Pcb /\ c # Garbage
      /\ status[c] # "EXITED"
  BY ServiceOfTask DEF DoExit
<1>2. /\ pc' = "scheduler"
      /\ status' = [status EXCEPT ![c] = "EXITED"]
      /\ kernel_tf' = [kernel_tf EXCEPT ![c] = [ra |-> "exit_ret", exl |-> exl, epc |-> epc]]
      /\ UNCHANGED <<current_running, ie, exl, epc, disable_count, queue, task_type, nested_count, pid, deadline,
                     user_tf, alloc>>
  BY <1>1 DEF DoExit, SwitchOut, Goto
<1>3. \A r \in Queue : ~InQueue(queue, r, c)
  BY <1>1, RunnerUnlinked
<1>4. /\ status' \in [Pcb -> Status]
      /\ \A p \in Slot : status'[p] = IF p = c THEN "EXITED" ELSE status[p]
  BY <1>2, Sets DEF Inv, TypeOK, Status
<1>5. QueueIntegrity'
  <2>1. ASSUME NEW p \in Slot
        PROVE  ~Running(p)' /\ (p # c => ~Running(p))
    BY <1>2 DEF Running
  <2> QED BY <1>2, <1>3, <1>4, <2>1, Sets DEF Inv, QueueIntegrity, Placed
<1>6. BootPlaced'
  BY <1>1, <1>2 DEF Inv, BootPlaced
<1>7. /\ TypeOK' /\ CriticalSections' /\ StopsWithoutStacks' /\ RunningContext' /\ SavedContexts' /\ SavedBoot'
      /\ SwitchedOutMasked' /\ LatchedFrames' /\ Spawning'
  <2>1. deadline' \in [Pcb -> Nat] /\ queue' \in [Queue -> Seq(Pcb)]
    BY <1>2 DEF Inv, TypeOK
  <2>2. \A q \in Queue : InQueue(queue', q, Garbage) <=> InQueue(queue, q, Garbage)
    BY <1>2
  <2>3. status'[c] = "EXITED" /\ \A p \in Slot \ {c} : status'[p] = status[p]
    BY <1>1, <1>4
  <2> QED BY <1>1, <1>2, <1>4, <2>1, <2>2, <2>3, ServiceSwitches
<1>8. DeadlinesOfSleepers'
  BY <1>2 DEF Inv, DeadlinesOfSleepers
<1> QED BY <1>5, <1>6, <1>7, <1>8 DEF Inv

LEMMA DoSleepInv ==
  ASSUME Inv, NEW ticks \in SleepTicks, DoSleep(ticks)
  PROVE  Inv'
<1> DEFINE c == current_running
<1>1. /\ pc = "sleep_cs" /\ disable_count = 1 /\ c \in Slot /\ c \in Pcb /\ c # Garbage
      /\ status[c] # "EXITED"
  BY ServiceOfTask DEF DoSleep
<1>2. /\ deadline' = [deadline EXCEPT ![c] = ticks]
      /\ UNCHANGED <<current_running, ie, exl, epc, disable_count, task_type, nested_count, pid, user_tf, alloc>>
  BY DEF DoSleep
<1>3. deadline' \in [Pcb -> Nat] /\ ticks \in Nat
  BY <1>1, <1>2, SchedulerAssumption DEF Inv, TypeOK
<1>4. CASE ticks > 0
  <2>1. /\ pc' = "scheduler"
        /\ status' = [status EXCEPT ![c] = StatusIn("sleep_wait_queue")]
        /\ queue' = Enqueue(queue, "sleep_wait_queue", c)
        /\ kernel_tf' = [kernel_tf EXCEPT ![c] = [ra |-> "sleep_ret", exl |-> exl, epc |-> epc]]
    BY <1>1, <1>2, <1>4 DEF DoSleep, SwitchOut, Goto, StatusIn
  <2>2. /\ queue' \in [Queue -> Seq(Pcb)] /\ status' \in [Pcb -> Status]
        /\ \A r \in Queue : \A u : InQueue(queue', r, u)
             <=> InQueue(queue, r, u) \/ (r = "sleep_wait_queue" /\ u = c)
        /\ QueueIntegrity' /\ BootPlaced'
    BY <1>1, <1>2, <2>1, Sets, EnqueueCurrent
  <2>3. \A p \in Slot : status'[p] = IF p = c THEN "SLEEPING" ELSE status[p]
    BY <2>1, Sets DEF Inv, TypeOK, StatusIn
  <2>4. /\ TypeOK' /\ CriticalSections' /\ StopsWithoutStacks' /\ RunningContext' /\ SavedContexts' /\ SavedBoot'
        /\ SwitchedOutMasked' /\ LatchedFrames' /\ Spawning'
    <3>1. \A q \in Queue : InQueue(queue', q, Garbage) <=> InQueue(queue, q, Garbage)
      BY <1>1, <2>2
    <3>2. status'[c] # "EXITED" /\ \A p \in Slot \ {c} : status'[p] = status[p]
      BY <1>1, <2>3
    <3> QED BY <1>1, <1>2, <1>3, <2>1, <2>2, <3>1, <3>2, ServiceSwitches
  <2>5. DeadlinesOfSleepers'
    BY <1>1, <1>2, <2>2, Sets DEF Inv, TypeOK, DeadlinesOfSleepers
  <2> QED BY <2>2, <2>4, <2>5 DEF Inv
<1>5. CASE ~(ticks > 0)
  <2>1. ticks = 0 /\ pc' = "leave" /\ UNCHANGED <<status, queue, kernel_tf>>
    BY <1>3, <1>5 DEF DoSleep
  <2>2. TypeOK'
    BY <1>2, <1>3, <2>1 DEF Inv, TypeOK, Point, CriticalPoint, alloc
  <2>3. CriticalSections' /\ StopsWithoutStacks' /\ LatchedFrames'
    BY <1>1, <1>2, <2>1 DEF Inv, CriticalSections, StopsWithoutStacks, LatchedFrames, CriticalPoint, DeadPoint
  <2>4. QueueIntegrity'
    BY <1>1, <1>2, <2>1, QueuesKept
  <2>5. BootPlaced' /\ SwitchedOutMasked'
    BY <1>1, <1>2, <2>1 DEF Inv, BootPlaced, SwitchedOutMasked
  <2>6. RunningContext'
    BY <1>1, <1>2, <2>1 DEF Inv, RunningContext, SwitchPoint, DeadPoint, TaskAt, ThreadAt, ProcessAt, IsThread,
         KernelPoint
  <2>7. SavedContexts'
    BY <1>1, <1>2, <2>1, OthersKept DEF SwitchPoint
  <2>8. SavedBoot'
    BY <1>1, <1>2, <2>1 DEF Inv, SavedBoot, BootResumes, BootTaskAt, IsThread
  <2>9. Spawning'
    BY <1>1, <1>2, <2>1 DEF Inv, Spawning, BootWillSpawn, BootResumes, alloc
  <2>10. DeadlinesOfSleepers'
    BY <1>1, <1>2, <2>1 DEF Inv, TypeOK, DeadlinesOfSleepers
  <2> QED BY <2>2, <2>3, <2>4, <2>5, <2>6, <2>7, <2>8, <2>9, <2>10 DEF Inv
<1> QED BY <1>3, <1>4, <1>5

LEMMA BootDoneInv ==
  ASSUME Inv, BootDone
  PROVE  Inv'
<1>1. /\ pc = "boot_cs" /\ current_running = Garbage /\ disable_count = 1
  BY DEF BootDone, Inv, CriticalSections, CriticalPoint, RunningContext, SwitchPoint, DeadPoint, TaskAt, ThreadAt,
     ProcessAt, KernelPoint
<1>2. /\ pc' = "scheduler"
      /\ kernel_tf' = [kernel_tf EXCEPT ![Garbage] = [ra |-> "boot_ret", exl |-> exl, epc |-> epc]]
      /\ UNCHANGED <<current_running, ie, exl, epc, disable_count, queue, tasks, user_tf, alloc>>
  BY <1>1 DEF BootDone, SwitchOut, Goto
<1>3. kernel_tf' \in [Pcb -> Context] /\ \A p \in Slot : kernel_tf'[p] = kernel_tf[p]
  BY <1>2, Sets DEF Inv, TypeOK, Context, Point, DeadPoint
<1>4. \A r \in Queue : ~InQueue(queue, r, Garbage)
  BY <1>1, RunnerUnlinked
<1>5. TypeOK'
  BY <1>2, <1>3 DEF Inv, TypeOK, Point, CriticalPoint, tasks, alloc
<1>6. CriticalSections' /\ StopsWithoutStacks' /\ RunningContext' /\ SwitchedOutMasked'
  BY <1>1, <1>2 DEF Inv, CriticalSections, StopsWithoutStacks, CriticalPoint, DeadPoint, RunningContext,
       SwitchPoint, SwitchedOutMasked
<1>7. QueueIntegrity'
  BY <1>1, <1>2, QueuesKept DEF tasks
<1>8. BootPlaced' /\ LatchedFrames'
  BY <1>1, <1>2, <1>3 DEF Inv, BootPlaced, LatchedFrames
<1>9. SavedContexts'
  BY <1>1, <1>2, <1>3, SwitchedOutSaved DEF tasks
<1>10. ~BootResumes'
  BY <1>2, <1>4, Sets DEF BootResumes
<1>11. SavedBoot' /\ Spawning'
  BY <1>1, <1>2, <1>10 DEF Inv, SavedBoot, IsThread, Spawning, BootWillSpawn, tasks, alloc
<1>12. DeadlinesOfSleepers'
  BY <1>2 DEF Inv, DeadlinesOfSleepers, tasks
<1> QED BY <1>5, <1>6, <1>7, <1>8, <1>9, <1>11, <1>12 DEF Inv

\* What the timer can take the CPU from: user code, or a process about to enter it,
\* or the boot code.
LEMMA PreemptedAt ==
  ASSUME Inv, TimerPreempt
  PROVE  LET c == current_running IN
         /\ nested_count[c] = 0 /\ c \in Pcb /\ disable_count = 0 /\ ~exl
         /\ pc # "scheduler" /\ (pc = "idle" => c = Garbage)
         /\ c # Garbage => c \in Slot /\ status[c] # "EXITED" /\ ~IsThread(c) /\ pc \in UserAt
         /\ c = Garbage => pc \in BootAt
<1> DEFINE c == current_running
<1>1. ie /\ ~exl /\ nested_count[c] = 0 /\ c \in Pcb
  BY DEF TimerPreempt, Inv, TypeOK
<1>2. pc \notin CriticalPoint \cup DeadPoint /\ disable_count = 0
  BY <1>1 DEF Inv, CriticalSections, StopsWithoutStacks, DeadPoint
<1>3. /\ pc # "scheduler" /\ pc # "dispatch"
      /\ pc = "idle" => c = Garbage
  BY <1>1, <1>2 DEF CriticalPoint, Inv, SwitchedOutMasked
<1>4. /\ c # Garbage => c \in Slot /\ status[c] # "EXITED" /\ ~IsThread(c) /\ pc \in UserAt
      /\ c = Garbage => pc \in BootAt
  <2>1. CASE c = Garbage
    BY <1>1, <1>2, <1>3, <2>1 DEF Inv, RunningContext, SwitchPoint, BootTaskAt, BootAt, CriticalPoint
  <2>2. CASE c # Garbage
    <3>1. c \in Slot /\ status[c] # "EXITED"
      BY <1>3, <2>2, RunnerLives
    <3>2. TaskAt(c, pc, exl)
      BY <1>2, <1>3, <2>2 DEF Inv, RunningContext, SwitchPoint
    <3> QED BY <1>1, <1>2, <2>2, <3>1, <3>2 DEF TaskAt, ThreadAt, ProcessAt, UserAt, CriticalPoint
  <2> QED BY <2>1, <2>2
<1> QED BY <1>1, <1>2, <1>3, <1>4

LEMMA TimerPreemptInv ==
  ASSUME Inv, TimerPreempt
  PROVE  Inv'
<1> DEFINE c == current_running
<1>1. /\ nested_count[c] = 0 /\ c \in Pcb /\ disable_count = 0 /\ ~exl
      /\ pc # "scheduler" /\ (pc = "idle" => c = Garbage)
      /\ c # Garbage => c \in Slot /\ status[c] # "EXITED" /\ ~IsThread(c) /\ pc \in UserAt
      /\ c = Garbage => pc \in BootAt
  BY PreemptedAt
<1>2. /\ pc' = "scheduler" /\ exl' = TRUE /\ ie' = FALSE /\ disable_count' = 1
      /\ epc' = [at |-> pc, of |-> pid[c]]
      /\ user_tf' = [user_tf EXCEPT ![c] = epc']
      /\ deadline' = [p \in Pcb |-> IF deadline[p] = 0 THEN 0 ELSE deadline[p] - 1]
      /\ status' = [status EXCEPT ![c] = StatusIn("ready_queue")]
      /\ queue' = Enqueue(queue, "ready_queue", c)
      /\ kernel_tf' = [kernel_tf EXCEPT ![c] = [ra |-> "timer_ret", exl |-> TRUE, epc |-> epc']]
      /\ UNCHANGED <<current_running, task_type, nested_count, pid, alloc>>
  BY <1>1 DEF TimerPreempt, Exception, Tick, PutCurrentRunning, SwitchOut, Goto, StatusIn
<1>3. /\ queue' \in [Queue -> Seq(Pcb)] /\ status' \in [Pcb -> Status]
      /\ \A r \in Queue : \A u : InQueue(queue', r, u)
           <=> InQueue(queue, r, u) \/ (r = "ready_queue" /\ u = c)
      /\ QueueIntegrity' /\ BootPlaced'
  BY <1>1, <1>2, Sets, EnqueueCurrent
<1>4. \A p \in Slot : status'[p] = IF p = c THEN "READY" ELSE status[p]
  BY <1>2, Sets DEF Inv, TypeOK, StatusIn
<1>5. epc' \in Frame
  BY <1>1, <1>2 DEF Inv, TypeOK, Frame
<1>6. /\ kernel_tf' \in [Pcb -> Context] /\ user_tf' \in [Pcb -> Frame]
      /\ kernel_tf'[c] = [ra |-> "timer_ret", exl |-> TRUE, epc |-> epc'] /\ user_tf'[c] = epc'
      /\ \A p \in Pcb \ {c} : kernel_tf'[p] = kernel_tf[p] /\ user_tf'[p] = user_tf[p]
  <2>1. [ra |-> "timer_ret", exl |-> TRUE, epc |-> epc'] \in Context
    BY <1>5 DEF Context, Point, PlainPoint
  <2> QED BY <1>1, <1>2, <1>5, <2>1 DEF Inv, TypeOK
<1>7. TypeOK'
  <2>1. deadline' \in [Pcb -> Nat]
    BY <1>2 DEF Inv, TypeOK
  <2> QED BY <1>2, <1>3, <1>5, <1>6, <2>1 DEF Inv, TypeOK, Point, CriticalPoint, alloc
<1>8. CriticalSections' /\ StopsWithoutStacks' /\ RunningContext'
  BY <1>2 DEF CriticalSections, StopsWithoutStacks, CriticalPoint, DeadPoint, RunningContext, SwitchPoint
<1>9. SavedContexts'
  <2>1. c # Garbage => TaskAt(c, kernel_tf[c].ra, kernel_tf[c].exl)'
    BY <1>1, <1>2, <1>6 DEF TaskAt, ProcessAt, IsThread
  <2>2. c # Garbage => status'[c] # "EXITED" /\ kernel_tf'[c].ra \in ResumePoint
    BY <1>1, <1>4, <1>6 DEF ResumePoint
  <2> QED BY <1>2, <1>4, <1>6, <2>1, <2>2, Sets, SwitchedOutSaved
<1>10. c # Garbage => (BootResumes' <=> BootResumes)
  BY <1>2, <1>3, Sets DEF BootResumes
<1>11. SavedBoot'
  BY <1>1, <1>2, <1>6, <1>10, Sets DEF Inv, SavedBoot, BootTaskAt, IsThread
<1>12. SwitchedOutMasked'
  BY <1>2, <1>3, Sets DEF SwitchedOutMasked
<1>13. LatchedFrames'
  BY <1>1, <1>2, <1>6, Sets DEF Inv, LatchedFrames
<1>14. Spawning'
  <2>1. BootWillSpawn' => BootWillSpawn
    BY <1>1, <1>2, <1>6, <1>10, Sets DEF BootWillSpawn, BootAt
  <2>2. spawn_times = 0 => \A p \in Slot : status'[p] = "EXITED"
    BY <1>1, <1>4, Sets DEF Inv, Spawning
  <2> QED BY <1>2, <2>1, <2>2 DEF Inv, Spawning, alloc
<1>15. DeadlinesOfSleepers'
  BY <1>2, <1>3, Sets DEF Inv, DeadlinesOfSleepers
<1> QED
  BY <1>3, <1>7, <1>8, <1>9, <1>11, <1>12, <1>13, <1>14, <1>15 DEF Inv

LEMMA TimerReturnInv ==
  ASSUME Inv, TimerReturn
  PROVE  Inv'
<1> DEFINE c == current_running
<1>1. /\ pc = "timer_ret" /\ c \in Pcb /\ ie /\ disable_count = 0
  BY DEF TimerReturn, Inv, TypeOK, CriticalSections, CriticalPoint, DeadPoint
<1>2. /\ c # Garbage => c \in Slot /\ ~IsThread(c) /\ nested_count[c] = 0 /\ user_tf[c].at \in UserAt
      /\ c = Garbage => user_tf[c].at \in BootAt
  BY <1>1, Sets DEF Inv, RunningContext, SwitchPoint, DeadPoint, BootTaskAt, TaskAt, ThreadAt, ProcessAt, KernelPoint
<1>3. /\ pc' = user_tf[c].at /\ epc' = user_tf[c] /\ exl' = FALSE /\ ie' = TRUE /\ disable_count' = 0
      /\ UNCHANGED <<current_running, queue, tasks, frames, alloc>>
  BY <1>1 DEF TimerReturn, ExceptionReturn, Goto
<1>4. /\ pc' \in UserAt \cup BootAt /\ pc' \notin CriticalPoint \cup DeadPoint
      /\ pc' \notin {"scheduler", "dispatch"} /\ (pc' = "idle" => c = Garbage)
  BY <1>2, <1>3 DEF UserAt, BootAt, CriticalPoint, DeadPoint
<1>5. TypeOK'
  <2>1. pc' \in Point
    BY <1>4 DEF UserAt, BootAt, Point, EnterPoint, PlainPoint
  <2> QED BY <1>1, <1>3, <2>1 DEF Inv, TypeOK, tasks, frames, alloc
<1>6. CriticalSections' /\ StopsWithoutStacks' /\ SwitchedOutMasked'
  BY <1>3, <1>4 DEF CriticalSections, StopsWithoutStacks, SwitchedOutMasked
<1>7. QueueIntegrity'
  BY <1>1, <1>3, <1>4, QueuesKept DEF tasks
<1>8. BootPlaced' /\ LatchedFrames'
  BY <1>1, <1>3 DEF Inv, BootPlaced, LatchedFrames, frames
<1>9. RunningContext'
  BY <1>2, <1>3 DEF RunningContext, SwitchPoint, BootTaskAt, BootAt, UserAt, TaskAt, ProcessAt, IsThread, tasks
<1>10. SavedContexts'
  <2>1. \A p \in Slot : Saved(p)' <=> Saved(p)
    BY <1>1, <1>3, <1>4, Sets DEF Saved, SwitchPoint
  <2> QED BY <1>3, <2>1 DEF Inv, SavedContexts, TaskAt, ThreadAt, ProcessAt, IsThread, tasks, frames
<1>11. BootResumes' <=> BootResumes
  BY <1>1, <1>3, <1>4 DEF BootResumes
<1>12. SavedBoot'
  BY <1>3, <1>11 DEF Inv, SavedBoot, BootTaskAt, IsThread, tasks, frames
<1>13. Spawning'
  <2>1. pc' \in {"spawn", "spawn_cs"} => BootWillSpawn
    BY <1>1, <1>2, <1>3, <1>4 DEF BootWillSpawn, UserAt, BootAt
  <2>2. BootWillSpawn' => BootWillSpawn
    BY <1>3, <1>11, <2>1, <1>4 DEF BootWillSpawn, frames, UserAt, BootAt
  <2> QED BY <1>3, <2>1, <2>2, Sets DEF Inv, Spawning, tasks, alloc
<1>14. DeadlinesOfSleepers'
  BY <1>3 DEF Inv, DeadlinesOfSleepers, tasks
<1> QED
  BY <1>5, <1>6, <1>7, <1>8, <1>9, <1>10, <1>12, <1>13, <1>14 DEF Inv

\* The slot that do_spawn() takes is free.
LEMMA SlotFound ==
  ASSUME FreeSlots # {}
  PROVE  (CHOOSE i \in FreeSlots : \A j \in FreeSlots : i <= j) \in FreeSlots
<1>1. FreeSlots \in SUBSET Nat
  BY SchedulerAssumption DEF FreeSlots, Slot
<1>2. \E i \in FreeSlots : \A j \in FreeSlots : i <= j
  BY <1>1, LeastNat
<1> QED BY <1>2

LEMMA DoSpawnInv ==
  ASSUME Inv, NEW type \in SpawnTypes \cup {"PROCESS"}, DoSpawn(type)
  PROVE  Inv'
<1> DEFINE c == current_running
<1>1. /\ pc = "spawn_cs" /\ c \in Pcb /\ disable_count = 1 /\ ~ie
      /\ spawn_times' = spawn_times + 1 /\ spawn_times < MaxSpawns /\ spawn_times \in Nat
      /\ UNCHANGED <<current_running, ie, exl, epc, disable_count, user_tf>>
      /\ type \in TaskType
  BY Sets, SchedulerAssumption DEF DoSpawn, Inv, TypeOK, CriticalSections, CriticalPoint, DeadPoint, Spawning, Pid, TaskType
<1>2. c # Garbage => c \in Slot /\ status[c] # "EXITED" /\ ~IsThread(c) /\ nested_count[c] = 1 /\ exl
                     /\ user_tf[c].at \in UserAt
  BY <1>1, Sets, RunnerLives DEF Inv, RunningContext, SwitchPoint, DeadPoint, TaskAt, ThreadAt, ProcessAt
<1>3. \A r \in Queue : ~InQueue(queue, r, c)
  BY <1>1, RunnerUnlinked
<1>4. ~BootResumes \/ (spawn_times # 0 /\ ~BootWillSpawn)
  BY <1>1, <1>2, <1>3, Sets DEF Inv, BootResumes, Spawning
<1>5. CASE FreeSlots = {}
  <2>1. pc' = "leave" /\ UNCHANGED <<queue, tasks, kernel_tf, stacks>>
    BY <1>5 DEF DoSpawn
  <2>2. TypeOK'
    BY <1>1, <2>1, Sets DEF Inv, TypeOK, Point, CriticalPoint, tasks, Pid
  <2>3. CriticalSections' /\ StopsWithoutStacks' /\ LatchedFrames'
    BY <1>1, <2>1 DEF Inv, CriticalSections, StopsWithoutStacks, LatchedFrames, CriticalPoint, DeadPoint
  <2>4. QueueIntegrity'
    BY <1>1, <2>1, QueuesKept DEF tasks
  <2>5. BootPlaced' /\ SwitchedOutMasked'
    BY <1>1, <2>1 DEF Inv, BootPlaced, SwitchedOutMasked
  <2>6. RunningContext'
    BY <1>1, <1>2, <2>1 DEF RunningContext, SwitchPoint, DeadPoint, BootTaskAt, TaskAt, ProcessAt, IsThread,
         KernelPoint, tasks
  <2>7. SavedContexts'
    BY <1>1, <2>1, OthersKept DEF SwitchPoint, tasks
  <2>8. SavedBoot'
    BY <1>1, <2>1 DEF Inv, SavedBoot, BootResumes, BootTaskAt, IsThread, tasks
  <2>9. Spawning'
    <3>1. BootResumes' <=> BootResumes
      BY <1>1, <2>1 DEF BootResumes
    <3>2. ~BootWillSpawn'
      BY <1>1, <1>4, <2>1, <3>1 DEF BootWillSpawn
    <3>3. stacks' <= 2 * spawn_times' /\ \A p \in Slot : pid'[p] <= spawn_times'
      <4>1. \A p \in Slot : pid[p] \in Nat /\ pid[p] <= spawn_times
        BY Sets DEF Inv, TypeOK, Spawning, Pid
      <4>2. stacks \in Nat /\ stacks <= 2 * spawn_times
        BY DEF Inv, TypeOK, Spawning
      <4> QED BY <1>1, <2>1, <4>1, <4>2 DEF tasks
    <3> QED BY <1>1, <2>1, <3>2, <3>3 DEF Spawning
  <2>10. DeadlinesOfSleepers'
    BY <2>1 DEF Inv, DeadlinesOfSleepers, tasks
  <2> QED BY <2>2, <2>3, <2>4, <2>5, <2>6, <2>7, <2>8, <2>9, <2>10 DEF Inv
<1>6. CASE FreeSlots # {}
  <2> DEFINE i == CHOOSE i \in FreeSlots : \A j \in FreeSlots : i <= j
  <2>1. i \in FreeSlots
    BY <1>6, SlotFound
  <2>2. /\ status' = [status EXCEPT ![i] = "FIRST_TIME"]
        /\ task_type' = [task_type EXCEPT ![i] = type]
        /\ nested_count' = [nested_count EXCEPT ![i] = Nesting(type)]
        /\ pid' = [pid EXCEPT ![i] = spawn_times + 1]
        /\ kernel_tf' = [kernel_tf EXCEPT ![i].ra = "first_entry"]
        /\ stacks' = stacks + StacksOf(type)
        /\ queue' = Enqueue(queue, "ready_queue", i)
        /\ Goto("leave", stacks' <= NumStacks, "halt")
        /\ UNCHANGED deadline
    BY <1>6 DEF DoSpawn
  <2> HIDE DEF i
  <2>3. i \in Slot /\ status[i] = "EXITED" /\ i \in Pcb /\ i # Garbage /\ i # c
    BY <1>2, <2>1, Sets DEF FreeSlots
  <2>4. \A r \in Queue : ~InQueue(queue, r, i)
    BY <2>3 DEF Inv, QueueIntegrity, Placed
  <2>5. /\ queue' \in [Queue -> Seq(Pcb)] /\ LinkedOnce(queue')
        /\ \A r \in Queue : \A u : InQueue(queue', r, u) <=> InQueue(queue, r, u) \/ (r = "ready_queue" /\ u = i)
    <3>1. queue \in [Queue -> Seq(Pcb)] /\ LinkedOnce(queue) /\ "ready_queue" \in Queue
      BY Sets DEF Inv, TypeOK, QueueIntegrity
    <3>2. /\ Enqueue(queue, "ready_queue", i) \in [Queue -> Seq(Pcb)]
          /\ \A r \in Queue : \A u : InQueue(Enqueue(queue, "ready_queue", i), r, u)
                                   <=> InQueue(queue, r, u) \/ (r = "ready_queue" /\ u = i)
      BY <2>3, <3>1, EnqueueIn
    <3>3. LinkedOnce(Enqueue(queue, "ready_queue", i))
      BY <2>3, <2>4, <3>1, EnqueueOnce
    <3> QED BY <2>2, <3>2, <3>3
  <2>6. /\ Nesting(type) = IF type = "PROCESS" THEN 0 ELSE 1
        /\ StacksOf(type) \in {1, 2}
    BY DEF Nesting, StacksOf
  <2>7. /\ kernel_tf'[i].ra = "first_entry" /\ kernel_tf'[i].exl = kernel_tf[i].exl /\ kernel_tf'[i].epc = kernel_tf[i].epc
        /\ \A p \in Pcb \ {i} : kernel_tf'[p] = kernel_tf[p]
        /\ kernel_tf' \in [Pcb -> Context]
    <3> DEFINE tf == [kernel_tf[i] EXCEPT !.ra = "first_entry"]
    <3>1. kernel_tf \in [Pcb -> Context] /\ kernel_tf[i] \in Context /\ "first_entry" \in Point
      BY <2>3 DEF Inv, TypeOK, Point, EnterPoint
    <3>2. tf \in Context /\ tf.ra = "first_entry" /\ tf.exl = kernel_tf[i].exl /\ tf.epc = kernel_tf[i].epc
      BY <3>1 DEF Context
    <3>3. kernel_tf' = [kernel_tf EXCEPT ![i] = tf]
      BY <2>2
    <3> HIDE DEF tf
    <3> QED BY <2>3, <3>1, <3>2, <3>3
  <2>8. status \in [Pcb -> Status] /\ task_type \in [Pcb -> TaskType] /\ nested_count \in [Pcb -> Nat] /\ pid \in [Pcb -> Pid]
    BY DEF Inv, TypeOK
  <2>9. /\ status'[i] = "FIRST_TIME" /\ task_type'[i] = type /\ nested_count'[i] = Nesting(type) /\ pid'[i] = spawn_times + 1
         /\ \A p \in Pcb \ {i} : /\ status'[p] = status[p] /\ task_type'[p] = task_type[p]
                                /\ nested_count'[p] = nested_count[p] /\ pid'[p] = pid[p]
    BY <2>2, <2>3, <2>8
  <2>10. pc' \in {"leave", "halt"} /\ (pc' = "halt" => stacks' > NumStacks)
    <3>1. stacks' \in Nat /\ NumStacks \in Nat
      BY <2>2, <2>6, SchedulerAssumption DEF Inv, TypeOK
    <3> QED BY <2>2, <3>1 DEF Goto
  <2>11. TypeOK'
    <3>1. pc' \in Point
      BY <2>10 DEF Point, CriticalPoint, DeadPoint
    <3>2. spawn_times + 1 \in Pid /\ stacks' \in Nat
      <4>1. MaxSpawns \in Nat /\ stacks \in Nat
        BY Sets DEF Inv, TypeOK
      <4>2. spawn_times + 1 \in Pid
        BY <1>1, <4>1 DEF Pid
      <4>3. stacks' \in Nat
        BY <2>2, <2>6, <4>1
      <4> QED BY <4>2, <4>3
    <3>3. /\ status' \in [Pcb -> Status] /\ task_type' \in [Pcb -> TaskType] /\ nested_count' \in [Pcb -> Nat]
          /\ pid' \in [Pcb -> Pid]
      <4>1. status' \in [Pcb -> Status]
        BY <2>2, <2>8 DEF Status
      <4>2. task_type' \in [Pcb -> TaskType]
        BY <1>1, <2>2, <2>8
      <4>3. Nesting(type) \in Nat
        BY <2>6
      <4>4. nested_count' \in [Pcb -> Nat]
        BY <2>2, <2>8, <4>3
      <4>5. pid' \in [Pcb -> Pid]
        BY <2>2, <2>8, <3>2
      <4> QED BY <4>1, <4>2, <4>4, <4>5
    <3> QED BY <1>1, <2>2, <2>5, <2>7, <2>9, <3>1, <3>2, <3>3 DEF Inv, TypeOK
  <2>12. CriticalSections' /\ StopsWithoutStacks'
    BY <1>1, <2>10 DEF CriticalSections, StopsWithoutStacks, CriticalPoint, DeadPoint
  <2>13. Placed'
    <3>1. \A p \in Slot : Running(p)' <=> Running(p)
      BY <1>1, <2>10 DEF Running
    <3>2. ~Running(i)
      BY <2>3 DEF Running
    <3> QED BY <2>3, <2>4, <2>5, <2>7, <2>9, <3>1, <3>2, Sets DEF Inv, QueueIntegrity, Placed
  <2>14. BootPlaced' /\ SwitchedOutMasked'
    BY <1>1, <2>3, <2>5, <2>10 DEF Inv, BootPlaced, SwitchedOutMasked
  <2>15. RunningContext'
    BY <1>1, <1>2, <2>3, <2>7, <2>9, <2>10 DEF RunningContext, SwitchPoint, DeadPoint, BootTaskAt, TaskAt, ProcessAt, IsThread,
         KernelPoint
  <2>16. SavedContexts'
    <3> SUFFICES ASSUME NEW p \in Slot
                 PROVE  /\ status'[p] # "EXITED" /\ Saved(p)' =>
                             kernel_tf'[p].ra \in ResumePoint /\ TaskAt(p, kernel_tf[p].ra, kernel_tf[p].exl)'
                        /\ status'[p] = "EXITED" => kernel_tf'[p].ra \in {"reset", "exit_ret"}
      BY DEF SavedContexts
    <3>1. CASE p = i
      <4>1. status'[p] = "FIRST_TIME" /\ kernel_tf'[p].ra = "first_entry"
        BY <2>3, <2>7, <2>9, <3>1
      <4>2. TaskAt(p, kernel_tf[p].ra, kernel_tf[p].exl)'
        BY <1>1, <2>3, <2>6, <2>7, <2>9, <3>1 DEF TaskAt, ThreadAt, ProcessAt, IsThread, TaskType
      <4> QED BY <4>1, <4>2 DEF ResumePoint
    <3>2. CASE p # i
      <4>1. /\ p \in Pcb /\ status'[p] = status[p] /\ task_type'[p] = task_type[p] /\ nested_count'[p] = nested_count[p]
            /\ kernel_tf'[p].ra = kernel_tf[p].ra /\ kernel_tf'[p].exl = kernel_tf[p].exl /\ user_tf'[p] = user_tf[p]
        BY <1>1, <2>7, <2>9, <3>2, Sets
      <4>2. Saved(p)' <=> Saved(p)
        BY <1>1, <2>10 DEF Saved, SwitchPoint
      <4> QED BY <4>1, <4>2 DEF Inv, SavedContexts, TaskAt, ThreadAt, ProcessAt, IsThread
    <3> QED BY <3>1, <3>2
  <2>17. BootResumes' <=> BootResumes
    BY <1>1, <2>3, <2>5, <2>10, Sets DEF BootResumes
  <2>18. SavedBoot'
    BY <1>1, <2>3, <2>7, <2>9, <2>17, Sets DEF Inv, SavedBoot, BootTaskAt, IsThread
  <2>19. LatchedFrames'
    BY <1>1, <2>3, <2>7, <2>9, <2>10, Sets DEF Inv, LatchedFrames
  <2>20. Spawning'
    <3>1. ~BootWillSpawn'
      BY <1>1, <1>4, <2>10, <2>17 DEF BootWillSpawn
    <3>2. stacks' <= 2 * spawn_times'
      <4>1. stacks \in Nat /\ stacks <= 2 * spawn_times
        BY DEF Inv, TypeOK, Spawning
      <4> QED BY <1>1, <2>2, <2>6, <4>1
    <3>3. \A p \in Slot : pid'[p] <= spawn_times'
      <4>1. \A p \in Slot : p \in Pcb /\ pid[p] \in Nat /\ pid[p] <= spawn_times
        BY Sets DEF Inv, TypeOK, Spawning, Pid
      <4> QED BY <1>1, <2>7, <2>9, <4>1
    <3> QED BY <1>1, <2>10, <3>1, <3>2, <3>3 DEF Spawning
  <2>21. DeadlinesOfSleepers'
    BY <2>2, <2>5, Sets DEF Inv, DeadlinesOfSleepers
  <2> QED BY <2>5, <2>11, <2>12, <2>13, <2>14, <2>15, <2>16, <2>18, <2>19, <2>20, <2>21 DEF Inv, QueueIntegrity
<1> QED BY <1>5, <1>6

-----------------------------------------------------------------------------
LEMMA StutterInv ==
  ASSUME Inv, UNCHANGED vars
  PROVE  Inv'
  BY DEF Inv, TypeOK, CriticalSections, StopsWithoutStacks, QueueIntegrity, Placed, Running, LinkedOnce, InQueue,
     BootPlaced, RunningContext, BootTaskAt, TaskAt, ThreadAt, ProcessAt, IsThread, SavedContexts, Saved, SavedBoot,
     BootResumes, SwitchedOutMasked, LatchedFrames, Spawning, BootWillSpawn, DeadlinesOfSleepers,
     vars, cpu, tasks, frames, alloc

LEMMA NextInv ==
  ASSUME Inv, [Next]_vars
  PROVE  Inv'
<1>1. CASE KernelStep
  BY <1>1, EnterCriticalInv, LeaveCriticalInv, WakeSleeperInv, IdleInv, PickNextInv, DispatchInv, TimerReturnInv,
     SyscallReturnInv, DoYieldInv, DoExitInv, BootDoneInv, DoSleepInv, BlockInv, UnblockOneInv, DoSpawnInv
     DEF KernelStep
<1>2. CASE TimerInterrupt
  BY <1>2, TimerTickInv, TimerPreemptInv DEF TimerInterrupt
<1> QED BY <1>1, <1>2, SyscallInv, ThreadCallInv, StutterInv DEF Next

LEMMA InvAlways == Spec => []Inv
<1>1. Init => Inv
  BY InitInv
<1>2. Inv /\ [Next]_vars => Inv'
  BY NextInv
<1> QED BY <1>1, <1>2, PTL DEF Spec

\* Every variable keeps its type.
THEOREM TypeCorrect == Spec => []TypeOK
<1>1. Inv => TypeOK
  BY DEF Inv
<1> QED BY <1>1, InvAlways, PTL

\* disable_count and Status.IE agree with the code that executes, in whichever
\* task and by whichever operation the critical section was opened.
THEOREM CriticalSectionsHold == Spec => []CriticalSections
<1>1. Inv => CriticalSections
  BY DEF Inv
<1> QED BY <1>1, InvAlways, PTL

\* No task is lost, duplicated or in a queue that its status does not name.
THEOREM QueuesHold == Spec => []QueueIntegrity
<1>1. Inv => QueueIntegrity
  BY DEF Inv
<1> QED BY <1>1, InvAlways, PTL

\* With two stacks for every call of do_spawn(), nothing stops the machine: no
\* ENTER_CRITICAL or LEAVE_CRITICAL panics, no ASSERT fails, no scheduler_entry()
\* that must not return does.
THEOREM NeverStopsWithStacks ==
  ASSUME 2 * MaxSpawns <= NumStacks
  PROVE  Spec => []NeverStops
<1>1. Inv => NeverStops
  <2> SUFFICES ASSUME Inv, pc \in DeadPoint PROVE FALSE
    BY DEF NeverStops
  <2>1. stacks > NumStacks /\ stacks <= 2 * spawn_times /\ stacks \in Nat
    BY DEF Inv, TypeOK, StopsWithoutStacks, Spawning
  <2>2. spawn_times <= MaxSpawns /\ spawn_times \in Nat
    BY Sets DEF Inv, TypeOK, Pid
  <2> QED BY <2>1, <2>2, SchedulerAssumption
<1> QED BY <1>1, InvAlways, PTL

\* The same without the condition: a machine that stops has run out of stacks.
THEOREM StopsOnlyWithoutStacks == Spec => [](NeverStops \/ stacks > NumStacks)
<1>1. Inv => NeverStops \/ stacks > NumStacks
  BY DEF Inv, NeverStops, StopsWithoutStacks
<1> QED BY <1>1, InvAlways, PTL

-----------------------------------------------------------------------------
(* Preemption. *)

LEMMA StepNotPreempted ==
  ASSUME Inv, [Next]_vars, pc # "scheduler", pc' = "scheduler",
         kernel_tf'[current_running].ra = "timer_ret"
  PROVE  current_running = Garbage \/ pc \in {"user", "first_entry"}
<1> DEFINE c == current_running
<1> SUFFICES ASSUME c # Garbage, pc \notin UserAt PROVE FALSE
  BY DEF UserAt
<1>1. c \in Slot /\ c \in Pcb
  BY Sets DEF Inv, TypeOK
<1>2. ASSUME EnterCritical PROVE FALSE
  <2>1. pc = "idle" /\ kernel_tf' = kernel_tf
    BY <1>2 DEF EnterCritical, Goto, EnterTo, EnterPoint, frames
  <2>2. nested_count[c] = 1
    BY <2>1 DEF Inv, SwitchedOutMasked
  <2> QED BY <1>1, <2>1, <2>2 DEF Inv, SavedContexts, Saved, SwitchPoint, TaskAt, ThreadAt, ProcessAt, KernelPoint
<1>3. ASSUME LeaveCritical PROVE FALSE
  BY <1>3 DEF LeaveCritical, Goto, Code, Caller
<1>4. ASSUME Dispatch PROVE FALSE
  <2>1. pc = "dispatch" /\ pc' = kernel_tf[c].ra /\ kernel_tf' = kernel_tf
    BY <1>4 DEF Dispatch, Goto, frames
  <2> QED BY <2>1
<1>5. ASSUME TimerReturn PROVE FALSE
  <2>1. pc = "timer_ret" /\ pc' = user_tf[c].at
    BY <1>5 DEF TimerReturn, ExceptionReturn, Goto
  <2> QED BY <2>1 DEF Inv, RunningContext, SwitchPoint, DeadPoint, TaskAt, ThreadAt, ProcessAt, KernelPoint, UserAt
<1>6. ASSUME SyscallReturn PROVE FALSE
  <2>1. pc = "sysret" /\ pc' = user_tf[c].at
    BY <1>6 DEF SyscallReturn, ExceptionReturn, Goto
  <2> QED BY <2>1 DEF Inv, RunningContext, SwitchPoint, DeadPoint, TaskAt, ThreadAt, ProcessAt, KernelPoint, UserAt
<1>7. ASSUME DoYield PROVE FALSE
  BY <1>1, <1>7 DEF DoYield, SwitchOut, Caller, Inv, TypeOK
<1>8. ASSUME DoExit PROVE FALSE
  BY <1>1, <1>8 DEF DoExit, SwitchOut, Inv, TypeOK
<1>9. ASSUME BootDone PROVE FALSE
  BY <1>1, <1>9 DEF BootDone, SwitchOut, Inv, TypeOK
<1>10. ASSUME NEW ticks \in SleepTicks, DoSleep(ticks) PROVE FALSE
  BY <1>1, <1>10 DEF DoSleep, SwitchOut, Inv, TypeOK
<1>11. ASSUME NEW w \in WaitQueue, Block(w) PROVE FALSE
  BY <1>1, <1>11 DEF Block, SwitchOut, Inv, TypeOK
<1>12. ASSUME NEW w \in WaitQueue, UnblockOne(w) PROVE FALSE
  BY <1>12 DEF UnblockOne, Goto
<1>13. ASSUME NEW type, DoSpawn(type) PROVE FALSE
  BY <1>13 DEF DoSpawn, Goto
<1>14. ASSUME NEW s \in Service, Syscall(s) \/ ThreadCall(s) PROVE FALSE
  BY <1>14 DEF Syscall, ThreadCall, Goto, Service
<1>15. ASSUME TimerTick PROVE FALSE
  BY <1>15 DEF TimerTick, Goto
<1>16. ASSUME TimerPreempt PROVE FALSE
  BY <1>16, PreemptedAt
<1>17. ASSUME WakeSleeper \/ Idle \/ PickNext \/ UNCHANGED vars PROVE FALSE
  BY <1>17 DEF WakeSleeper, Idle, PickNext, vars, cpu
<1> QED
  BY <1>2, <1>3, <1>4, <1>5, <1>6, <1>7, <1>8, <1>9, <1>10, <1>11, <1>12, <1>13, <1>14, <1>15, <1>16, <1>17
     DEF Next, KernelStep, TimerInterrupt

\* The timer takes the CPU only from user code, from a process on its way there or
\* from the boot code, never from a thread or from the inside of a system call.
THEOREM KernelNeverPreempted == Spec => KernelNotPreempted
<1>1. Inv /\ [Next]_vars =>
        [ (pc # "scheduler" /\ pc' = "scheduler" /\ kernel_tf'[current_running].ra = "timer_ret")
          => current_running = Garbage \/ pc \in {"user", "first_entry"} ]_vars
  BY StepNotPreempted
<1> QED BY <1>1, InvAlways, PTL DEF Spec, KernelNotPreempted

-----------------------------------------------------------------------------
(* The scheduler implements the task system: every step is one of its steps, *)
(* or leaves its state alone.                                                *)

\* The state of the task system, as TS maps it.
OnCpu == IF SwitchedOut THEN -1 ELSE current_running
Ready == queue["ready_queue"]
Waiting == {p \in Pcb : \E w \in WaitQueue : InQueue(queue, w, p)}
Sleeping == {p \in Pcb : InQueue(queue, "sleep_wait_queue", p)}

LEMMA MapInit == Init => TS!Init
  BY Sets DEF Init, TS!Init, SwitchedOut, InQueue

\* Nothing moves.
LEMMA MapKept ==
  ASSUME UNCHANGED <<queue, deadline>>, OnCpu' = OnCpu
  PROVE  UNCHANGED TS!vars
  BY DEF TS!vars, OnCpu

LEMMA MapExit ==
  ASSUME UNCHANGED <<queue, deadline>>, OnCpu # -1, OnCpu' = -1
  PROVE  TS!Next
<1>1. TS!Exit
  BY DEF TS!Exit, OnCpu
<1> QED BY <1>1 DEF TS!Next

\* A task that runs or is in a queue has a place in the task system.
LEMMA MapIdle ==
  ASSUME NEW p \in Pcb, \A r \in Queue : ~InQueue(queue, r, p), OnCpu # p
  PROVE  p \in TS!Idle
<1>1. \A i \in DOMAIN queue["ready_queue"] : queue["ready_queue"][i] # p
  BY Sets DEF InQueue
<1>2. p \notin Waiting /\ p \notin Sleeping
  BY Sets DEF Waiting, Sleeping
<1> QED BY <1>1, <1>2 DEF TS!Idle, TS!Runnable, OnCpu, Waiting, Sleeping

\* enqueue() as the task system sees it.
LEMMA MapEnqueue ==
  ASSUME Inv, NEW q \in Queue, NEW p \in Pcb, queue' = Enqueue(queue, q, p)
  PROVE  /\ Ready' = IF q = "ready_queue" THEN Append(Ready, p) ELSE Ready
         /\ Waiting' = IF q \in WaitQueue THEN Waiting \cup {p} ELSE Waiting
         /\ Sleeping' = IF q = "sleep_wait_queue" THEN Sleeping \cup {p} ELSE Sleeping
<1>1. queue \in [Queue -> Seq(Pcb)]
  BY DEF Inv, TypeOK
<1>2. \A r \in Queue : \A u : InQueue(queue', r, u) <=> InQueue(queue, r, u) \/ (r = q /\ u = p)
  BY <1>1, EnqueueIn
<1>3. Ready' = IF q = "ready_queue" THEN Append(Ready, p) ELSE Ready
  BY <1>1, Sets DEF Enqueue, Ready
<1>4. Waiting' = IF q \in WaitQueue THEN Waiting \cup {p} ELSE Waiting
  BY <1>2, Sets DEF Waiting
<1>5. Sleeping' = IF q = "sleep_wait_queue" THEN Sleeping \cup {p} ELSE Sleeping
  BY <1>2, Sets DEF Sleeping
<1> QED BY <1>3, <1>4, <1>5

\* Move() to the ready queue as the task system sees it.
LEMMA MapMove ==
  ASSUME Inv, NEW q \in Queue \ {"ready_queue"}, queue[q] # <<>>, queue' = Move(queue, q, "ready_queue")
  PROVE  LET h == Head(queue[q]) IN
         /\ h \in Pcb /\ InQueue(queue, q, h)
         /\ Ready' = Append(Ready, h)
         /\ Waiting' = Waiting \ {h} /\ Sleeping' = Sleeping \ {h}
<1> DEFINE h == Head(queue[q])
<1>1. queue \in [Queue -> Seq(Pcb)] /\ LinkedOnce(queue) /\ q # "ready_queue" /\ "ready_queue" \in Queue
  BY Sets DEF Inv, TypeOK, QueueIntegrity
<1>2. /\ h \in Pcb /\ InQueue(queue, q, h)
      /\ \A r \in Queue : \A u : InQueue(queue', r, u)
           <=> (r = "ready_queue" /\ u = h) \/ (InQueue(queue, r, u) /\ u # h)
  BY <1>1, MoveOnce
<1>3. Ready' = Append(Ready, h)
  BY <1>1 DEF Move, Enqueue, Dequeue, Ready
<1>4. Waiting' = Waiting \ {h} /\ Sleeping' = Sleeping \ {h}
  BY <1>2, Sets DEF Waiting, Sleeping
<1> QED BY <1>2, <1>3, <1>4

\* The boot code, the task that runs, in a service or at a switch: all are on the CPU.
LEMMA OnCpuIs ==
  ASSUME Inv
  PROVE  /\ pc \notin {"scheduler", "idle"} => OnCpu = current_running
         /\ pc \in {"scheduler", "idle"} => OnCpu = -1
         /\ \A p \in Pcb : p # -1
<1>1. \A p \in Pcb : p # -1
  BY SchedulerAssumption DEF Pcb, Slot, Garbage
<1> QED BY <1>1 DEF OnCpu, SwitchedOut

LEMMA MapGiveUp ==
  ASSUME Inv, pc \notin {"scheduler", "idle"}, pc' = "scheduler",
         queue' = Enqueue(queue, "ready_queue", current_running),
         \/ deadline' = deadline
         \/ deadline' = [p \in Pcb |-> IF deadline[p] = 0 THEN 0 ELSE deadline[p] - 1]
  PROVE  TS!Next
<1>1. current_running \in Pcb /\ OnCpu = current_running /\ OnCpu # -1 /\ OnCpu' = -1
  BY OnCpuIs DEF OnCpu, SwitchedOut, Inv, TypeOK
<1>2. Ready' = Append(Ready, current_running) /\ UNCHANGED <<Waiting, Sleeping>>
  BY <1>1, MapEnqueue, Sets
<1>3. TS!GiveUp
  BY <1>1, <1>2 DEF TS!GiveUp, OnCpu, Ready, Waiting, Sleeping
<1>4. TS!Elapse \/ deadline' = deadline
  BY DEF TS!Elapse
<1> QED BY <1>3, <1>4 DEF TS!Next

LEMMA MapStart ==
  ASSUME Inv, NEW p \in Pcb, \A r \in Queue : ~InQueue(queue, r, p), OnCpu # p, OnCpu' = OnCpu,
         queue' = Enqueue(queue, "ready_queue", p),
         \/ deadline' = deadline
         \/ deadline' = [u \in Pcb |-> IF deadline[u] = 0 THEN 0 ELSE deadline[u] - 1]
  PROVE  TS!Next
<1>1. p \in TS!Idle
  BY MapIdle
<1>2. Ready' = Append(Ready, p) /\ UNCHANGED <<Waiting, Sleeping>>
  BY MapEnqueue, Sets
<1>3. TS!Start(p)
  BY <1>1, <1>2 DEF TS!Start, OnCpu, Ready, Waiting, Sleeping
<1>4. TS!Elapse \/ deadline' = deadline
  BY DEF TS!Elapse
<1> QED BY <1>3, <1>4 DEF TS!Next

LEMMA MapWake ==
  ASSUME Inv, WakeSleeper
  PROVE  TS!Next
<1> DEFINE h == Head(queue["sleep_wait_queue"])
<1>1. /\ queue["sleep_wait_queue"] # <<>> /\ deadline[h] = 0
      /\ queue' = Move(queue, "sleep_wait_queue", "ready_queue")
      /\ UNCHANGED <<deadline, OnCpu>>
  BY DEF WakeSleeper, Expired, IsEmpty, OnCpu, SwitchedOut, cpu
<1>2. /\ h \in Pcb /\ InQueue(queue, "sleep_wait_queue", h)
      /\ Ready' = Append(Ready, h) /\ Waiting' = Waiting \ {h} /\ Sleeping' = Sleeping \ {h}
  BY <1>1, MapMove, Sets
<1>3. h \notin Waiting
  BY <1>2, Sets DEF Waiting, Inv, BootPlaced, QueueIntegrity, Placed
<1> HIDE DEF h
<1>4. TS!Wake(h)
  BY <1>1, <1>2, <1>3 DEF TS!Wake, OnCpu, Ready, Waiting, Sleeping
<1> QED BY <1>2, <1>4 DEF TS!Next

LEMMA MapUnblock ==
  ASSUME Inv, NEW w \in WaitQueue, UnblockOne(w)
  PROVE  TS!Next
<1> DEFINE h == Head(queue[w])
<1>1. /\ pc = "sync_cs" /\ pc' \in {"sync_cs", "halt"} /\ current_running' = current_running
      /\ queue[w] # <<>> /\ queue' = Move(queue, w, "ready_queue") /\ deadline' = deadline
  BY DEF UnblockOne, IsEmpty, Goto
<1>2. OnCpu' = OnCpu
  BY <1>1 DEF OnCpu, SwitchedOut
<1>3. /\ h \in Pcb /\ InQueue(queue, w, h)
      /\ Ready' = Append(Ready, h) /\ Waiting' = Waiting \ {h} /\ Sleeping' = Sleeping \ {h}
  BY <1>1, MapMove, Sets
<1>4. h \in Waiting /\ h \notin Sleeping
  BY <1>3, Sets DEF Waiting, Sleeping, Inv, BootPlaced, QueueIntegrity, Placed
<1> HIDE DEF h
<1>5. TS!Unblock(h)
  BY <1>1, <1>2, <1>3, <1>4 DEF TS!Unblock, OnCpu, Ready, Waiting, Sleeping
<1> QED BY <1>3, <1>5 DEF TS!Next

LEMMA MapSleep ==
  ASSUME Inv, NEW ticks \in SleepTicks, DoSleep(ticks)
  PROVE  TS!Next \/ UNCHANGED TS!vars
<1> DEFINE c == current_running
<1>1. /\ pc = "sleep_cs" /\ disable_count = 1 /\ c \in Pcb /\ c' = c /\ ticks \in Nat
      /\ deadline' = [deadline EXCEPT ![c] = ticks] /\ deadline \in [Pcb -> Nat]
  BY ServiceOfTask, SchedulerAssumption DEF DoSleep, Inv, TypeOK
<1>2. OnCpu = c /\ OnCpu # -1
  BY <1>1, OnCpuIs
<1>3. CASE ticks > 0
  <2>1. pc' = "scheduler" /\ queue' = Enqueue(queue, "sleep_wait_queue", c) /\ OnCpu' = -1
    BY <1>1, <1>3 DEF DoSleep, SwitchOut, Goto, OnCpu, SwitchedOut
  <2>2. Sleeping' = Sleeping \cup {c} /\ UNCHANGED <<Ready, Waiting>>
    BY <1>1, <2>1, MapEnqueue, Sets
  <2>3. deadline'[c] \in Nat \ {0} /\ deadline' = [deadline EXCEPT ![c] = deadline'[c]]
    BY <1>1, <1>3
  <2>4. TS!Sleep
    BY <1>1, <1>2, <2>1, <2>2, <2>3 DEF TS!Sleep, OnCpu, Ready, Waiting, Sleeping
  <2> QED BY <2>4 DEF TS!Next
<1>4. CASE ~(ticks > 0)
  <2>1. ticks = 0 /\ pc' = "leave" /\ UNCHANGED queue
    BY <1>1, <1>4 DEF DoSleep
  <2>2. deadline[c] = 0
    BY <1>1, Sets, RunnerUnlinked DEF Inv, DeadlinesOfSleepers
  <2>3. deadline' = deadline
    BY <1>1, <2>1, <2>2
  <2>4. OnCpu' = OnCpu
    BY <1>1, <2>1 DEF OnCpu, SwitchedOut
  <2> QED BY <2>1, <2>3, <2>4, MapKept
<1> QED BY <1>3, <1>4

LEMMA MapBlock ==
  ASSUME Inv, NEW w \in WaitQueue, Block(w)
  PROVE  TS!Next
<1> DEFINE c == current_running
<1>1. /\ pc = "sync_cs" /\ disable_count = 1 /\ c \in Pcb
  BY ServiceOfTask DEF Block
<1>2. /\ pc' = "scheduler" /\ queue' = Enqueue(queue, w, c) /\ deadline' = deadline
      /\ OnCpu = c /\ OnCpu # -1 /\ OnCpu' = -1
  BY <1>1, OnCpuIs DEF Block, SwitchOut, Goto, OnCpu, SwitchedOut
<1>3. Waiting' = Waiting \cup {c} /\ UNCHANGED <<Ready, Sleeping>>
  BY <1>1, <1>2, MapEnqueue, Sets
<1>4. TS!Block
  BY <1>1, <1>2, <1>3 DEF TS!Block, OnCpu, Ready, Waiting, Sleeping
<1> QED BY <1>4 DEF TS!Next

LEMMA MapPick ==
  ASSUME Inv, PickNext
  PROVE  TS!Next
<1> DEFINE h == Head(queue["ready_queue"])
<1>1. /\ pc = "scheduler" /\ queue["ready_queue"] # <<>> /\ current_running' = h /\ pc' = "dispatch"
      /\ queue' = Dequeue(queue, "ready_queue") /\ deadline' = deadline
  BY DEF PickNext, IsEmpty, tasks
<1>2. queue \in [Queue -> Seq(Pcb)] /\ LinkedOnce(queue) /\ "ready_queue" \in Queue
  BY Sets DEF Inv, TypeOK, QueueIntegrity
<1>3. /\ InQueue(queue, "ready_queue", h)
      /\ \A r \in Queue : \A u : InQueue(queue', r, u) <=> InQueue(queue, r, u) /\ u # h
  BY <1>1, <1>2, DequeueOnce
<1>4. \A r \in Queue \ {"ready_queue"} : queue'[r] = queue[r]
  BY <1>1, <1>2 DEF Dequeue
<1>5. Ready' = Tail(Ready) /\ UNCHANGED <<Waiting, Sleeping>>
  BY <1>1, <1>2, <1>4, Sets DEF Dequeue, Ready, Waiting, Sleeping, InQueue
<1>6. OnCpu = -1 /\ OnCpu' = h
  BY <1>1 DEF OnCpu, SwitchedOut
<1>7. TS!Run
  BY <1>1, <1>5, <1>6 DEF TS!Run, OnCpu, Ready, Waiting, Sleeping
<1> QED BY <1>7 DEF TS!Next

LEMMA MapSpawn ==
  ASSUME Inv, NEW type \in SpawnTypes \cup {"PROCESS"}, DoSpawn(type)
  PROVE  TS!Next \/ UNCHANGED TS!vars
<1>1. pc = "spawn_cs" /\ pc' \in {"leave", "halt"} /\ UNCHANGED <<current_running, deadline>>
  BY DEF DoSpawn, Goto, tasks
<1>2. OnCpu' = OnCpu /\ OnCpu = current_running
  BY <1>1 DEF OnCpu, SwitchedOut
<1>3. CASE FreeSlots = {}
  BY <1>1, <1>2, <1>3, MapKept DEF DoSpawn
<1>4. CASE FreeSlots # {}
  <2> DEFINE i == CHOOSE i \in FreeSlots : \A j \in FreeSlots : i <= j
  <2>1. i \in FreeSlots
    BY <1>4, SlotFound
  <2>2. queue' = Enqueue(queue, "ready_queue", i)
    BY <1>4 DEF DoSpawn
  <2> HIDE DEF i
  <2>3. i \in Slot /\ i \in Pcb /\ i # Garbage /\ status[i] = "EXITED"
    BY <2>1, Sets DEF FreeSlots
  <2>4. i # current_running
    BY <1>1, <2>3, RunnerLives
  <2>5. \A r \in Queue : ~InQueue(queue, r, i)
    BY <2>3 DEF Inv, QueueIntegrity, Placed
  <2> QED BY <1>1, <1>2, <2>2, <2>3, <2>4, <2>5, MapStart
<1> QED BY <1>3, <1>4

LEMMA MapPreempt ==
  ASSUME Inv, TimerPreempt
  PROVE  TS!Next
<1>1. /\ pc' = "scheduler" /\ queue' = Enqueue(queue, "ready_queue", current_running)
      /\ deadline' = [p \in Pcb |-> IF deadline[p] = 0 THEN 0 ELSE deadline[p] - 1]
      /\ pc # "scheduler" /\ (pc = "idle" => current_running = Garbage)
      /\ current_running \in Pcb
  BY PreemptedAt DEF TimerPreempt, Tick, PutCurrentRunning, SwitchOut, Goto
<1>2. CASE pc # "idle"
  BY <1>1, <1>2, MapGiveUp
<1>3. CASE pc = "idle"
  <2>1. OnCpu = -1 /\ OnCpu' = -1 /\ OnCpu # current_running
    BY <1>1, <1>3, OnCpuIs DEF OnCpu, SwitchedOut
  <2>2. \A r \in Queue : ~InQueue(queue, r, current_running)
    BY <1>1, RunnerUnlinked
  <2> QED BY <1>1, <2>1, <2>2, MapStart
<1> QED BY <1>2, <1>3

LEMMA MapTick ==
  ASSUME Inv, TimerTick
  PROVE  TS!Next
<1>1. /\ UNCHANGED <<queue, current_running>> /\ pc' = pc
      /\ deadline' = [p \in Pcb |-> IF deadline[p] = 0 THEN 0 ELSE deadline[p] - 1]
  BY DEF TimerTick, Tick, Goto, Inv, CriticalSections, StopsWithoutStacks, DeadPoint
<1>2. UNCHANGED <<OnCpu, Ready, Waiting, Sleeping>>
  BY <1>1 DEF OnCpu, SwitchedOut, Ready, Waiting, Sleeping
<1>3. TS!Elapse
  BY <1>1 DEF TS!Elapse
<1> QED BY <1>2, <1>3 DEF TS!Next, OnCpu, Ready, Waiting, Sleeping

\* A step of the code of current_running, or of the scheduler, that moves no task.
LEMMA MapLocal ==
  ASSUME Inv, \/ EnterCritical \/ LeaveCritical \/ Idle \/ Dispatch \/ SyscallReturn
              \/ \E s \in Service : Syscall(s) \/ ThreadCall(s)
  PROVE  UNCHANGED TS!vars
<1> SUFFICES OnCpu' = OnCpu /\ UNCHANGED <<queue, deadline>>
  BY MapKept
<1>1. CASE EnterCritical
  BY <1>1, EnterCriticalInv DEF EnterCritical, Goto, EnterTo, EnterPoint, OnCpu, SwitchedOut, tasks,
     Inv, CriticalSections, CriticalPoint, DeadPoint
<1>2. CASE LeaveCritical
  BY <1>2 DEF LeaveCritical, Goto, Code, Caller, OnCpu, SwitchedOut, tasks
<1>3. CASE Idle
  BY <1>3 DEF Idle, Goto, OnCpu, SwitchedOut, tasks, Inv, CriticalSections, CriticalPoint, DeadPoint
<1>4. CASE Dispatch
  <2>1. /\ pc = "dispatch" /\ pc' \in {kernel_tf[current_running].ra, "panic"}
        /\ UNCHANGED <<current_running, queue, deadline>>
    BY <1>4 DEF Dispatch, Goto, tasks
  <2>2. kernel_tf[current_running].ra \notin {"scheduler", "idle"}
    <3>1. CASE current_running = Garbage
      BY <2>1, <3>1 DEF Inv, SavedBoot, BootResumes
    <3>2. CASE current_running # Garbage
      BY <2>1, <3>2, RunnerLives DEF Inv, SavedContexts, Saved, SwitchPoint, ResumePoint
    <3> QED BY <3>1, <3>2
  <2> QED BY <2>1, <2>2 DEF OnCpu, SwitchedOut
<1>5. CASE SyscallReturn
  <2>1. /\ pc = "sysret" /\ pc' \in {user_tf[current_running].at, "halt"}
        /\ UNCHANGED <<current_running, queue, deadline>>
    BY <1>5 DEF SyscallReturn, ExceptionReturn, Goto
  <2>2. user_tf[current_running].at \in UserAt
    BY <2>1 DEF Inv, RunningContext, SwitchPoint, DeadPoint, BootTaskAt, TaskAt, ThreadAt, ProcessAt, KernelPoint
  <2> QED BY <2>1, <2>2 DEF OnCpu, SwitchedOut, UserAt
<1>6. ASSUME NEW s \in Service, Syscall(s) \/ ThreadCall(s) PROVE OnCpu' = OnCpu /\ UNCHANGED <<queue, deadline>>
  BY <1>6 DEF Syscall, ThreadCall, Goto, Service, OnCpu, SwitchedOut, tasks
<1> QED BY <1>1, <1>2, <1>3, <1>4, <1>5, <1>6

LEMMA MapTimerReturn ==
  ASSUME Inv, TimerReturn
  PROVE  TS!Next \/ UNCHANGED TS!vars
<1>1. pc = "timer_ret" /\ UNCHANGED <<current_running, queue, deadline>>
  BY DEF TimerReturn, tasks
<1>2. OnCpu = current_running /\ OnCpu # -1
  BY <1>1, OnCpuIs DEF Inv, TypeOK
<1>3. OnCpu' = OnCpu \/ OnCpu' = -1
  BY <1>1, <1>2 DEF OnCpu
<1> QED BY <1>1, <1>2, <1>3, MapKept, MapExit

LEMMA MapLeave ==
  ASSUME Inv, DoExit \/ BootDone
  PROVE  TS!Next
<1>1. /\ pc \in {"exit_cs", "boot_cs"} /\ disable_count = 1 /\ UNCHANGED <<queue, deadline>>
  BY DEF DoExit, BootDone, tasks, Inv, CriticalSections, CriticalPoint, DeadPoint
<1>2. pc' = "scheduler"
  BY <1>1 DEF DoExit, BootDone, SwitchOut, Goto
<1>3. OnCpu # -1 /\ OnCpu' = -1
  BY <1>1, <1>2, OnCpuIs DEF OnCpu, SwitchedOut, Inv, TypeOK
<1> QED BY <1>1, <1>3, MapExit

LEMMA MapStep ==
  ASSUME Inv, [Next]_vars
  PROVE  TS!Next \/ UNCHANGED TS!vars
<1>1. CASE UNCHANGED vars
  BY <1>1, MapKept DEF vars, cpu, tasks, OnCpu, SwitchedOut
<1>2. CASE DoYield
  <2>1. /\ pc = "yield_cs" /\ disable_count = 1 /\ pc' = "scheduler" /\ deadline' = deadline
        /\ queue' = Enqueue(queue, "ready_queue", current_running)
    BY <1>2, ServiceOfTask DEF DoYield, PutCurrentRunning, SwitchOut, Goto
  <2> QED BY <2>1, MapGiveUp
<1>3. CASE KernelStep
  BY <1>2, <1>3, MapLocal, MapWake, MapPick, MapTimerReturn, MapLeave, MapSleep, MapBlock, MapUnblock, MapSpawn
     DEF KernelStep
<1>4. CASE TimerInterrupt
  BY <1>4, MapTick, MapPreempt DEF TimerInterrupt
<1> QED BY <1>1, <1>3, <1>4, MapLocal DEF Next

\* The CPU goes round the ready tasks, first come, first served; a task that sleeps,
\* blocks or exits is not rescheduled before its time, before it is unblocked, or ever.
THEOREM SchedulerImplementsTaskSystem == Spec => ImplementsTaskSystem
<1>1. Init => TS!Init
  BY MapInit
<1>2. Inv /\ [Next]_vars => [TS!Next]_TS!vars
  BY MapStep
<1> QED BY <1>1, <1>2, InvAlways, PTL DEF Spec, ImplementsTaskSystem, TS!Spec

-----------------------------------------------------------------------------
(* What a process finds when it enters or leaves the kernel: do_spawn()      *)
(* leaves the saved Status of the former task of an entry in place, so it    *)
(* depends on that task.  A thread never runs with EXL set in an entry that  *)
(* no process has left, and leaves it clear.                                 *)

Clean == Slot \ left_by_process

ExitedThreads == \A p \in Clean : status[p] = "EXITED" => IsThread(p)

\* A thread runs, or a process its own code or is about to, with EXL clear.
EntersUser == pc \in {"user", "first_entry", "first_entry_cs"}
CpuUnmasked ==
  /\ current_running \in Clean /\ pc \notin SwitchPoint
  /\ EntersUser \/ IsThread(current_running)
  => ~exl
ContextsUnmasked ==
  \A p \in Clean : IsThread(p) \/ kernel_tf[p].ra = "first_entry" => ~kernel_tf[p].exl

Fresh == ExitedThreads /\ CpuUnmasked /\ ContextsUnmasked /\ UserFrameIntact

LEMMA Marked ==
  ASSUME Mark
  PROVE  /\ \A p : p \in Clean' => p \in Clean
         /\ \A p \in Clean' : status'[p] = "EXITED" => status[p] = "EXITED" \/ IsThread(p)
  BY DEF Mark, Clean

\* A step that leaves the frames alone, and at most switches out the task that runs.
LEMMA FreshKept ==
  ASSUME Fresh, Mark, UNCHANGED <<task_type, nested_count, pid>>,
         \A p \in Slot : status[p] = "EXITED" => status'[p] = "EXITED",
         \A p \in Slot : user_tf'[p] = user_tf[p] \/ IsThread(p) \/ ~(nested_count[p] > 0),
         \A p \in Clean :
           \/ kernel_tf'[p] = kernel_tf[p]
           \/ (kernel_tf'[p].ra # "first_entry" /\ (IsThread(p) => ~kernel_tf'[p].exl)),
         CpuUnmasked'
  PROVE  Fresh'
<1>1. ExitedThreads'
  BY Marked DEF Fresh, ExitedThreads, IsThread
<1>2. ContextsUnmasked'
  BY Marked DEF Fresh, ContextsUnmasked, IsThread
<1>3. UserFrameIntact'
  <2>1. \A p : p \in Slot \ left_by_process' => p \in Slot \ left_by_process
    BY Marked DEF Clean
  <2> QED BY <2>1 DEF Fresh, UserFrameIntact, IsThread
<1> QED BY <1>1, <1>2, <1>3 DEF Fresh

LEMMA SyscallFresh ==
  ASSUME Inv, Fresh, Mark, NEW s \in Service, Syscall(s)
  PROVE  Fresh'
<1> DEFINE c == current_running
<1>1. pc = "user" /\ c \in Slot /\ c \in Pcb /\ c # Garbage /\ ~IsThread(c) /\ nested_count[c] = 0
  BY Sets DEF Syscall, Inv, TypeOK, RunningContext, SwitchPoint, DeadPoint, BootTaskAt, TaskAt, ThreadAt,
       ProcessAt, KernelPoint
<1>2. c \in Clean => ~exl
  BY <1>1 DEF Fresh, CpuUnmasked, EntersUser, SwitchPoint
<1>3. /\ c \in Clean => epc' = [at |-> "user", of |-> pid[c]]
      /\ user_tf' = [user_tf EXCEPT ![c] = epc']
      /\ nested_count' = [nested_count EXCEPT ![c] = @ + 1]
      /\ UNCHANGED <<status, task_type, pid, kernel_tf, current_running>>
  BY <1>1, <1>2 DEF Syscall, Exception
<1>4. pc' \in Service \cup {"halt"}
  BY DEF Syscall, Goto
<1>5. CpuUnmasked' /\ ExitedThreads' /\ ContextsUnmasked'
  BY <1>1, <1>3, <1>4, Marked DEF Fresh, CpuUnmasked, EntersUser, Service, ExitedThreads, ContextsUnmasked, IsThread
<1>6. UserFrameIntact'
  <2> SUFFICES ASSUME NEW p \in Clean', task_type'[p] = "PROCESS", nested_count'[p] > 0, status'[p] # "EXITED"
               PROVE  user_tf'[p] = [at |-> "user", of |-> pid'[p]]
    BY DEF UserFrameIntact, Clean
  <2>0. p \in Slot /\ p \in Clean
    BY Marked DEF Clean
  <2>1. CASE p = c
    BY <1>1, <1>3, <2>0, <2>1 DEF Inv, TypeOK
  <2>2. CASE p # c
    BY <1>3, <2>0, <2>2, Sets DEF Inv, TypeOK, Fresh, UserFrameIntact, Clean
  <2> QED BY <2>1, <2>2
<1> QED BY <1>5, <1>6 DEF Fresh

LEMMA SyscallReturnFresh ==
  ASSUME Inv, Fresh, Mark, SyscallReturn
  PROVE  Fresh'
<1> DEFINE c == current_running
<1>1. /\ exl' = FALSE /\ nested_count' = [nested_count EXCEPT ![c] = @ - 1]
      /\ UNCHANGED <<status, task_type, pid, kernel_tf, user_tf>>
  BY DEF SyscallReturn, ExceptionReturn, frames
<1>2. CpuUnmasked' /\ ExitedThreads' /\ ContextsUnmasked'
  BY <1>1, Marked DEF Fresh, CpuUnmasked, ExitedThreads, ContextsUnmasked, IsThread
<1>3. pc = "sysret" /\ c \in Pcb
  BY DEF SyscallReturn, Inv, TypeOK
<1>4. c # Garbage => nested_count[c] = 1
  BY <1>3 DEF Inv, RunningContext, SwitchPoint, DeadPoint, TaskAt, ThreadAt, ProcessAt, KernelPoint
<1>5. UserFrameIntact'
  <2> SUFFICES ASSUME NEW p \in Clean', task_type'[p] = "PROCESS", nested_count'[p] > 0, status'[p] # "EXITED"
               PROVE  user_tf'[p] = [at |-> "user", of |-> pid'[p]]
    BY DEF UserFrameIntact, Clean
  <2>1. p \in Slot /\ p \in Clean
    BY Marked DEF Clean
  <2> QED BY <1>1, <1>3, <1>4, <2>1, Sets DEF Inv, TypeOK, Fresh, UserFrameIntact, Clean
<1> QED BY <1>2, <1>5 DEF Fresh

LEMMA DoSpawnFresh ==
  ASSUME Inv, Fresh, Mark, NEW type \in SpawnTypes \cup {"PROCESS"}, DoSpawn(type)
  PROVE  Fresh'
<1>0. /\ pc = "spawn_cs" /\ pc' \in {"leave", "halt"} /\ UNCHANGED <<current_running, exl>>
  BY DEF DoSpawn, Goto
<1>1. current_running # Garbage => ~IsThread(current_running) /\ status[current_running] # "EXITED"
  BY <1>0, RunnerLives DEF Inv, RunningContext, SwitchPoint, DeadPoint, TaskAt, ThreadAt, KernelPoint
<1>2. CASE FreeSlots = {}
  <2>1. UNCHANGED <<task_type, nested_count, pid, status, kernel_tf, user_tf>>
    BY <1>2 DEF DoSpawn, tasks
  <2>2. CpuUnmasked'
    BY <1>0, <1>1, <2>1, Sets DEF CpuUnmasked, EntersUser, IsThread, Clean
  <2> QED BY <2>1, <2>2, FreshKept
<1>3. CASE FreeSlots # {}
  <2> DEFINE i == CHOOSE i \in FreeSlots : \A j \in FreeSlots : i <= j
  <2>1. i \in FreeSlots
    BY <1>3, SlotFound
  <2>2. /\ status' = [status EXCEPT ![i] = "FIRST_TIME"]
        /\ task_type' = [task_type EXCEPT ![i] = type]
        /\ nested_count' = [nested_count EXCEPT ![i] = Nesting(type)]
        /\ pid' = [pid EXCEPT ![i] = spawn_times + 1]
        /\ kernel_tf' = [kernel_tf EXCEPT ![i].ra = "first_entry"]
        /\ UNCHANGED user_tf
    BY <1>3 DEF DoSpawn
  <2> HIDE DEF i
  <2>3. i \in Slot /\ i \in Pcb
    BY <2>1, Sets DEF FreeSlots
  <2>4. /\ pid'[i] = spawn_times + 1 /\ nested_count'[i] = Nesting(type) /\ task_type'[i] = type
        /\ spawn_times \in Nat /\ pid[i] \in Nat /\ pid[i] <= spawn_times
        /\ \A p \in Slot \ {i} : /\ status'[p] = status[p] /\ task_type'[p] = task_type[p]
                               /\ nested_count'[p] = nested_count[p] /\ pid'[p] = pid[p]
    BY <2>2, <2>3, Sets DEF Inv, TypeOK, Spawning, Pid
  <2>5. kernel_tf'[i].exl = kernel_tf[i].exl /\ \A p \in Slot \ {i} : kernel_tf'[p] = kernel_tf[p]
    <3> DEFINE tf == [kernel_tf[i] EXCEPT !.ra = "first_entry"]
    <3>1. kernel_tf \in [Pcb -> Context] /\ kernel_tf[i] \in Context
      BY <2>3 DEF Inv, TypeOK
    <3>2. tf.exl = kernel_tf[i].exl
      BY <3>1 DEF Context
    <3>3. kernel_tf' = [kernel_tf EXCEPT ![i] = tf]
      BY <2>2
    <3> HIDE DEF tf
    <3> QED BY <2>3, <3>1, <3>2, <3>3, Sets
  <2>6. /\ i \in Clean => ~kernel_tf[i].exl
        /\ i # current_running
    BY <1>1, <2>1, <2>3, Sets DEF FreeSlots, Fresh, ExitedThreads, ContextsUnmasked, Clean
  <2>7. ExitedThreads' /\ ContextsUnmasked'
    <3>1. \A p \in Clean' : p \in Slot /\ p \in Clean
      BY Marked DEF Clean
    <3>2. status'[i] = "FIRST_TIME"
      BY <2>2, <2>3 DEF Inv, TypeOK
    <3>3. ExitedThreads'
      BY <2>4, <3>1, <3>2 DEF Fresh, ExitedThreads, IsThread
    <3> QED BY <2>4, <2>5, <2>6, <3>1, <3>3 DEF Fresh, ContextsUnmasked, IsThread
  <2>8. UserFrameIntact'
    <3>1. type = "PROCESS" => nested_count'[i] = 0
      BY <2>4 DEF Nesting
    <3>2. \A p \in Slot \ left_by_process' : p \in Slot \ left_by_process
      BY Marked DEF Clean
    <3> QED BY <2>2, <2>4, <3>1, <3>2 DEF Fresh, UserFrameIntact
  <2>9. CpuUnmasked'
    BY <1>0, <1>1, <2>4, <2>6, Sets DEF CpuUnmasked, EntersUser, IsThread, Clean
  <2> QED BY <2>7, <2>8, <2>9 DEF Fresh
<1> QED BY <1>2, <1>3

LEMMA DispatchFresh ==
  ASSUME Inv, Fresh, Mark, Dispatch
  PROVE  Fresh'
<1> DEFINE c == current_running
<1>1. /\ pc = "dispatch" /\ pc' \in {kernel_tf[c].ra, "panic"} /\ exl' = kernel_tf[c].exl
      /\ UNCHANGED <<current_running, status, task_type, nested_count, pid, kernel_tf, user_tf>>
  BY DEF Dispatch, Goto, tasks, frames
<1>2. c # Garbage => c \in Slot /\ status[c] # "EXITED" /\ kernel_tf[c].ra \in ResumePoint
  BY <1>1, RunnerLives DEF Inv, SavedContexts, Saved, SwitchPoint
<1>3. CpuUnmasked'
  BY <1>1, <1>2, Marked, Sets DEF CpuUnmasked, EntersUser, ResumePoint, Fresh, ContextsUnmasked, IsThread, Clean
<1> QED BY <1>1, <1>3, FreshKept

\* The steps into the scheduler save where the task that ran goes on, which is
\* never first_entry() again.
LEMMA SwitchFresh ==
  ASSUME Inv, Fresh, Mark,
         \/ DoYield \/ DoExit \/ BootDone \/ TimerPreempt
         \/ \E ticks \in SleepTicks : DoSleep(ticks)
         \/ \E w \in WaitQueue : Block(w)
  PROVE  Fresh'
<1> DEFINE c == current_running
<1>1. /\ pc' \in {"scheduler", "halt", "panic", "leave"}
      /\ UNCHANGED <<task_type, nested_count, pid, current_running>>
  BY DEF DoYield, DoExit, BootDone, TimerPreempt, DoSleep, Block, SwitchOut, Goto, tasks
<1>2. c # Garbage => c \in Slot /\ status[c] # "EXITED"
  <2>1. pc # "scheduler" /\ (pc = "idle" => c = Garbage)
    BY PreemptedAt DEF DoYield, DoExit, BootDone, DoSleep, Block
  <2> QED BY <2>1, RunnerLives
<1>3. c \in Clean /\ IsThread(c) => ~exl'
  <2> SUFFICES ASSUME c \in Clean, IsThread(c) PROVE ~exl'
    OBVIOUS
  <2>1. c \in Slot /\ c # Garbage
    BY Sets DEF Clean
  <2>2. ~TimerPreempt /\ exl' = exl /\ pc \in CriticalPoint \ SwitchPoint
    BY <2>1, PreemptedAt DEF DoYield, DoExit, BootDone, DoSleep, Block, CriticalPoint, SwitchPoint
  <2> QED BY <2>2 DEF Fresh, CpuUnmasked
<1>4. c \in Pcb /\ kernel_tf \in [Pcb -> Context] /\ user_tf \in [Pcb -> Frame] /\ status \in [Pcb -> Status]
  BY DEF Inv, TypeOK
<1>5. \A p \in Slot \ {c} : UNCHANGED <<status[p], user_tf[p], kernel_tf[p]>>
  BY <1>4, Sets DEF DoYield, DoExit, BootDone, TimerPreempt, DoSleep, Block, SwitchOut, PutCurrentRunning, tasks
<1>6. kernel_tf'[c] = kernel_tf[c] \/ (kernel_tf'[c].ra # "first_entry" /\ kernel_tf'[c].exl = exl')
  BY <1>4 DEF DoYield, DoExit, BootDone, TimerPreempt, DoSleep, Block, SwitchOut, Caller
<1>7. user_tf'[c] = user_tf[c] \/ ~(nested_count[c] > 0)
  BY DEF DoYield, DoExit, BootDone, TimerPreempt, DoSleep, Block
<1>8. CpuUnmasked'
  BY <1>1, <1>3, Marked DEF CpuUnmasked, EntersUser, IsThread
<1>9. \A p \in Clean :
        \/ kernel_tf'[p] = kernel_tf[p]
        \/ (kernel_tf'[p].ra # "first_entry" /\ (IsThread(p) => ~kernel_tf'[p].exl))
  BY <1>3, <1>5, <1>6 DEF Clean
<1>10. \A p \in Slot : user_tf'[p] = user_tf[p] \/ IsThread(p) \/ ~(nested_count[p] > 0)
  BY <1>5, <1>7
<1>11. \A p \in Slot : status[p] = "EXITED" => status'[p] = "EXITED"
  BY <1>2, <1>5, Sets
<1> QED BY <1>1, <1>8, <1>9, <1>10, <1>11, FreshKept

\* The steps that leave every frame alone.
LEMMA LocalFresh ==
  ASSUME Inv, Fresh, Mark,
         \/ EnterCritical \/ LeaveCritical \/ WakeSleeper \/ Idle \/ PickNext \/ TimerReturn
         \/ \E w \in WaitQueue : UnblockOne(w)
         \/ \E s \in Service : ThreadCall(s)
         \/ UNCHANGED vars
  PROVE  Fresh'
<1>1. UNCHANGED <<task_type, nested_count, pid, kernel_tf, user_tf>>
  BY DEF EnterCritical, LeaveCritical, WakeSleeper, Idle, PickNext, TimerReturn, UnblockOne, ThreadCall,
     vars, tasks, frames
<1>2. \A p \in Slot : status[p] = "EXITED" => status'[p] = "EXITED"
  <2>1. CASE WakeSleeper
    <3>1. Head(queue["sleep_wait_queue"]) \in Slot /\ status[Head(queue["sleep_wait_queue"])] # "EXITED"
      BY <2>1, Sets, ReadyHead DEF WakeSleeper, Expired, IsEmpty, cpu
    <3> QED BY <2>1, <3>1 DEF WakeSleeper, Inv, TypeOK
  <2>2. ASSUME NEW w \in WaitQueue, UnblockOne(w)
        PROVE  \A p \in Slot : status[p] = "EXITED" => status'[p] = "EXITED"
    <3>1. /\ queue[w] # <<>> /\ queue' = Move(queue, w, "ready_queue")
          /\ status' = [status EXCEPT ![Head(queue[w])] = "READY"] /\ current_running' = current_running
      BY <2>2 DEF UnblockOne, IsEmpty
    <3>2. InQueue(queue, w, Head(queue[w])) /\ Head(queue[w]) \in Pcb
      BY <3>1, Sets, MoveOnce DEF Inv, TypeOK, QueueIntegrity
    <3>3. Head(queue[w]) \in Slot /\ status[Head(queue[w])] # "EXITED"
      BY <3>2, Sets DEF Inv, QueueIntegrity, Placed, BootPlaced
    <3> QED BY <3>1, <3>3 DEF Inv, TypeOK
  <2> QED BY <2>1, <2>2 DEF EnterCritical, LeaveCritical, Idle, PickNext, TimerReturn, ThreadCall, vars, tasks
<1>3. CpuUnmasked'
  <2>0. current_running' \in Clean' => current_running' \in Clean
    BY Marked
  <2>1. CASE EnterCritical
    <3>1. /\ pc \in EnterPoint /\ UNCHANGED <<current_running, exl, task_type>>
          /\ pc' = EnterTo[pc]
      BY <2>1 DEF EnterCritical, Goto, tasks, Inv, CriticalSections, EnterPoint, CriticalPoint, DeadPoint
    <3>2. (pc' \notin SwitchPoint => pc \notin SwitchPoint) /\ (EntersUser' => EntersUser)
      BY <3>1 DEF EntersUser, SwitchPoint, EnterPoint, EnterTo
    <3> QED BY <2>0, <3>1, <3>2 DEF Fresh, CpuUnmasked, IsThread
  <2>2. CASE LeaveCritical
    <3>1. /\ pc \in {"leave", "sync_cs", "first_entry_cs"} /\ UNCHANGED <<current_running, exl, task_type>>
          /\ pc' = "user" => pc = "first_entry_cs"
          /\ pc' \in {"boot", "thread", "user", "sysret"}
      BY <2>2 DEF LeaveCritical, Goto, Code, Caller, tasks, Inv, CriticalSections, CriticalPoint, DeadPoint
    <3>2. pc \notin SwitchPoint /\ (EntersUser' => EntersUser)
      BY <3>1 DEF EntersUser, SwitchPoint
    <3> QED BY <2>0, <3>1, <3>2 DEF Fresh, CpuUnmasked, IsThread
  <2>3. CASE TimerReturn
    BY <2>3 DEF TimerReturn, ExceptionReturn, CpuUnmasked
  <2>4. CASE WakeSleeper \/ Idle \/ PickNext
    <3>1. pc' \in SwitchPoint \cup {"panic"} /\ (pc' = "panic" => FALSE)
      BY <2>4 DEF WakeSleeper, Idle, PickNext, Goto, cpu, SwitchPoint, Inv, CriticalSections, CriticalPoint, DeadPoint
    <3> QED BY <3>1 DEF CpuUnmasked
  <2>5. ASSUME NEW w \in WaitQueue, UnblockOne(w) PROVE CpuUnmasked'
    BY <2>0, <2>5 DEF UnblockOne, Goto, Fresh, CpuUnmasked, EntersUser, IsThread, SwitchPoint
  <2>6. ASSUME NEW s \in Service, ThreadCall(s) PROVE CpuUnmasked'
    <3>1. /\ pc = "thread" /\ pc' = s /\ UNCHANGED <<current_running, exl, task_type>>
      BY <2>6 DEF ThreadCall, tasks
    <3>2. current_running \in Clean => IsThread(current_running)
      BY <3>1, Sets DEF Clean, Inv, RunningContext, SwitchPoint, DeadPoint, TaskAt, ProcessAt, KernelPoint
    <3> QED BY <2>0, <3>1, <3>2 DEF Fresh, CpuUnmasked, SwitchPoint
  <2>7. CASE UNCHANGED vars
    BY <2>0, <2>7 DEF vars, cpu, tasks, Fresh, CpuUnmasked, EntersUser, IsThread
  <2> QED BY <2>1, <2>2, <2>3, <2>4, <2>5, <2>6, <2>7
<1> QED BY <1>1, <1>2, <1>3, FreshKept

LEMMA TimerTickFresh ==
  ASSUME Inv, Fresh, Mark, TimerTick
  PROVE  Fresh'
<1>1. /\ current_running \in Slot /\ current_running \in Pcb /\ IsThread(current_running) /\ pc' = pc
      /\ user_tf' = [user_tf EXCEPT ![current_running] = [at |-> pc, of |-> pid[current_running]]]
      /\ UNCHANGED <<current_running, exl, status, task_type, nested_count, pid, kernel_tf>>
  BY TickedAt
<1>2. \A p \in Slot : user_tf'[p] = user_tf[p] \/ IsThread(p)
  BY <1>1, Sets DEF Inv, TypeOK
<1>3. CpuUnmasked'
  BY <1>1, Marked DEF Fresh, CpuUnmasked, IsThread
<1> QED BY <1>1, <1>2, <1>3, FreshKept

LEMMA NextFresh ==
  ASSUME Inv, Fresh, [HNext]_hvars
  PROVE  Fresh'
<1>1. CASE UNCHANGED hvars
  <2>1. UNCHANGED vars /\ UNCHANGED left_by_process
    BY <1>1 DEF hvars
  <2>2. Mark
    BY <2>1 DEF Mark, vars, tasks
  <2> QED BY <2>1, <2>2, LocalFresh
<1>2. CASE HNext
  BY <1>2, DispatchFresh, SwitchFresh, LocalFresh, TimerTickFresh, SyscallFresh, SyscallReturnFresh, DoSpawnFresh
     DEF HNext, Next, KernelStep, TimerInterrupt
<1> QED BY <1>1, <1>2

LEMMA FreshAlways == HSpec => [](Inv /\ Fresh)
<1>1. HInit => Init /\ Inv
  BY InitInv DEF HInit
<1>2. HInit => Fresh
  BY Sets DEF HInit, Init, Fresh, ExitedThreads, CpuUnmasked, ContextsUnmasked, UserFrameIntact, EntersUser, Clean, IsThread
<1>3. Inv /\ Fresh /\ [HNext]_hvars => Inv'
  BY NextInv DEF HNext, hvars
<1>4. Inv /\ Fresh /\ [HNext]_hvars => Fresh'
  BY NextFresh
<1> QED BY <1>1, <1>2, <1>3, <1>4, PTL DEF HSpec

\* While a process is inside a system call, its user_tf keeps the frame that the call
\* was made from; but for processes spawned where another process has exited.
THEOREM UserFramesIntact == HSpec => []UserFrameIntact
<1>1. Inv /\ Fresh => UserFrameIntact
  BY DEF Fresh
<1> QED BY <1>1, FreshAlways, PTL

\* User code can always be preempted; but for the same processes.  Entries that
\* threads have left are used again by threads and processes alike.
THEOREM UserCodePreemptible == HSpec => []OthersPreemptible
<1>1. Inv /\ Fresh => OthersPreemptible
  <2> SUFFICES ASSUME Inv, Fresh, pc = "user", current_running \notin left_by_process PROVE ie /\ ~exl
    BY DEF OthersPreemptible
  <2>1. ie
    BY DEF Inv, CriticalSections, CriticalPoint, DeadPoint
  <2>2. current_running # Garbage /\ current_running \in Slot
    BY Sets DEF Inv, TypeOK, RunningContext, SwitchPoint, DeadPoint, BootTaskAt
  <2> QED BY <2>1, <2>2 DEF Fresh, CpuUnmasked, EntersUser, Clean, SwitchPoint
<1> QED BY <1>1, FreshAlways, PTL
=============================================================================
