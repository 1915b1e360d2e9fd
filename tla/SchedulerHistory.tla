-------------------------- MODULE SchedulerHistory --------------------------
(***************************************************************************)
(* Scheduler with a history variable, for what holds of the entries of the *)
(* process table that no process has left.  do_exit() of a process runs    *)
(* inside its system call, with Status.EXL set, and scheduler_entry()      *)
(* saves that Status in the entry, where initialize_pcb() leaves it for    *)
(* whoever is spawned there next (kernel.c:83).                            *)
(***************************************************************************)
EXTENDS Scheduler

VARIABLE left_by_process   \* the entries in which a process has exited

hvars == <<vars, left_by_process>>

HInit == Init /\ left_by_process = {}

Mark ==
  left_by_process' = left_by_process \cup
    {p \in Slot : status[p] # "EXITED" /\ status'[p] = "EXITED" /\ ~IsThread(p)}

HNext == Next /\ Mark

HSpec == HInit /\ [][HNext]_hvars

-----------------------------------------------------------------------------
(* Properties. *)

\* While a process is inside a system call, for however many context switches,
\* its user_tf keeps the frame that the call was made from (entry.S:309-351):
\* no timer interrupt overwrites it, and no other program's frame is in it; but
\* for processes spawned into an entry that another process has left.
UserFrameIntact ==
  \A p \in Slot \ left_by_process :
    task_type[p] = "PROCESS" /\ nested_count[p] > 0 /\ status[p] # "EXITED" =>
      user_tf[p] = [at |-> "user", of |-> pid[p]]

\* User code can be preempted, but for that of processes spawned into an entry that
\* another process has left: no system call, timer interrupt or context switch,
\* of its own or of those others, hands it a Status that masks the timer.
OthersPreemptible ==
  pc = "user" /\ current_running \notin left_by_process => ie /\ ~exl
=============================================================================
