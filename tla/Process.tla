------------------------------ MODULE Process ------------------------------
(***************************************************************************)
(* The process table of project4_start_code, kernel.c: do_spawn(),         *)
(* do_kill() and do_wait(), with the operations of scheduler.c and mbox.c  *)
(* that move tasks between queues while others are killed, at the level of *)
(* the prev and next fields that do_kill() writes.                         *)
(*                                                                         *)
(* Every operation is a system call of a process, which nothing preempts   *)
(* (KernelNotPreempted of Scheduler): an action is a call from its entry   *)
(* to its end, or to scheduler_entry().  Nodes are numbered: the pcbs      *)
(* first, then the list heads.                                             *)
(***************************************************************************)
EXTENDS Links

CONSTANTS
  NumPcbs,        \* NUM_PCBS
  MaxSpawns,      \* bound: calls of do_spawn()
  NumBoxes,       \* MAX_MBOXEN
  Calls,          \* the calls that the program of each pid makes
  NULL

Call == {"yield", "sleep", "exit", "mbox", "spawn", "kill", "wait"}

ASSUME ProcessAssumption ==
  /\ NumPcbs \in Nat \ {0} /\ MaxSpawns \in Nat \ {0} /\ NumBoxes \in Nat
  /\ Calls \in [1 .. MaxSpawns -> SUBSET Call]
  /\ NULL \notin Int

Slot == 1 .. NumPcbs
Box == 1 .. NumBoxes

pwaitqueue(i) == NumPcbs + i
box_queue(b) == 2 * NumPcbs + b           \* send_queue and recv_queue
ready_queue == 2 * NumPcbs + NumBoxes + 1
sleep_wait_queue == ready_queue + 1

Node == 1 .. sleep_wait_queue

VARIABLES
  links,          \* the node_t of each pcb and list head
  status, pid,    \* fields of each pcb
  using_box,      \* the boxes that the task is marked as using
  current,        \* current_running, NULL while scheduler() picks the next
  num_of_users,   \* of each message box
  spawn_times,
  open,           \* the boxes that each program has opened and not closed
  awaited,        \* the pid that each program waits for, 0 for none
  stopped,        \* is the machine lost, in a failed ASSERT or an endless loop?
  corrupted       \* history: was a task that is in no queue killed, or a
                  \* waitqueue initialised that tasks were in?

boxes == <<using_box, num_of_users, open>>
flags == <<stopped, corrupted>>
vars == <<links, status, pid, current, boxes, spawn_times, awaited, flags>>

Live(i) == status[i] # "EXITED"
Entry(p) == {i \in Slot : pid[i] = p}
First(S) == CHOOSE i \in S : \A j \in S : i <= j

\* The waitqueues that programs block in exist while their task or box does.
Heads ==
  {ready_queue, sleep_wait_queue} \cup {box_queue(b) : b \in Box}
    \cup {pwaitqueue(i) : i \in {j \in Slot : pid[j] # 0}}

-----------------------------------------------------------------------------
(* Scheduling. *)

\* The running program makes a call.
Calling(c) == current # NULL /\ c \in Calls[pid[current]]

GiveUpCpu(q, s) ==
  /\ links' = enqueue(links, q, current)
  /\ status' = [status EXCEPT ![current] = s]
  /\ current' = NULL

\* do_yield(), and timer_irq() outside system calls.
Yield ==
  /\ Calling("yield")
  /\ GiveUpCpu(ready_queue, "READY")
  /\ UNCHANGED <<pid, boxes, spawn_times, awaited, flags>>

Sleep ==
  /\ Calling("sleep")
  /\ GiveUpCpu(sleep_wait_queue, "SLEEPING")
  /\ UNCHANGED <<pid, boxes, spawn_times, awaited, flags>>

\* Some time later the first sleeping task is due.
WakeSleeper ==
  /\ current = NULL /\ ~is_empty(links, sleep_wait_queue)
  /\ links' = MoveFirst(links, sleep_wait_queue, ready_queue)
  /\ status' = [status EXCEPT ![peek(links, sleep_wait_queue)] = "READY"]
  /\ UNCHANGED <<pid, current, boxes, spawn_times, awaited, flags>>

\* The task that is picked returns from what it was doing.
PickNext ==
  /\ current = NULL /\ ~is_empty(links, ready_queue)
  /\ current' = peek(links, ready_queue)
  /\ links' = dequeue(links, ready_queue)
  /\ awaited' = [awaited EXCEPT ![current'] = 0]
  /\ UNCHANGED <<status, pid, boxes, spawn_times, flags>>

\* do_exit() tells nobody, and those who wait for the task stay where they are.
Exit ==
  /\ Calling("exit")
  /\ status' = [status EXCEPT ![current] = "EXITED"]
  /\ current' = NULL
  /\ UNCHANGED <<links, pid, boxes, spawn_times, awaited, flags>>

\* while (!is_empty(q)) unblock(dequeue(q)).
WokenFirst(L, q) == {i \in Slot : ~is_empty(L, q) /\ i = peek(L, q)}   \* Mutant
Woken(L, q) == {i \in Slot : Linked(L, q, i)}

UnblockAll(L, q) ==
  LET moved[n \in 0 .. NumPcbs] ==
        IF n = 0 THEN L ELSE MoveFirst(moved[n - 1], q, ready_queue)
  IN moved[Cardinality(Woken(L, q))]
WithReady(L, q, st) == [i \in Slot |-> IF i \in Woken(L, q) THEN "READY" ELSE st[i]]

-----------------------------------------------------------------------------
(* Message boxes, as far as tasks wait in them and are counted as users. *)

\* do_mbox_open(): only the task that creates a box is marked as using it.
OpenBox(b) ==
  /\ Calling("mbox") /\ b \notin open[current]
  /\ num_of_users' = [num_of_users EXCEPT ![b] = @ + 1]
  /\ using_box' = IF num_of_users[b] > 0 THEN using_box
                  ELSE [using_box EXCEPT ![current] = @ \cup {b}]
  /\ open' = [open EXCEPT ![current] = @ \cup {b}]
  /\ UNCHANGED <<links, status, pid, current, spawn_times, awaited, flags>>

\* do_mbox_close(b) for each b in B: the mark that is cleared is the caller's,
\* and the queues of a box that has no user left are emptied.
CloseAll(B) ==
  /\ using_box' = [using_box EXCEPT ![current] = @ \ B]
  /\ num_of_users' = [b \in Box |-> IF b \in B THEN num_of_users[b] - 1 ELSE num_of_users[b]]
WithClosed(L, B) ==
  LET reset == {box_queue(b) : b \in {c \in B : num_of_users[c] = 1}}
      Self(f) == [n \in Node |-> IF n \in reset THEN n ELSE f[n]]
  IN [prev |-> Self(L.prev), next |-> Self(L.next)]

CloseBox(b) ==
  /\ Calling("mbox") /\ b \in open[current]
  /\ CloseAll({b})
  /\ links' = WithClosed(links, {b})
  /\ open' = [open EXCEPT ![current] = @ \ {b}]
  /\ UNCHANGED <<status, pid, current, spawn_times, awaited, flags>>

\* block() in do_mbox_send() or do_mbox_recv(), and the wake-up of all who wait.
BlockOnBox(b) ==
  /\ Calling("mbox") /\ b \in open[current]
  /\ GiveUpCpu(box_queue(b), "BLOCKED")
  /\ UNCHANGED <<pid, boxes, spawn_times, awaited, flags>>

WakeBox(b) ==
  /\ Calling("mbox") /\ b \in open[current] /\ ~is_empty(links, box_queue(b))
  /\ links' = UnblockAll(links, box_queue(b))
  /\ status' = WithReady(links, box_queue(b), status)
  /\ UNCHANGED <<pid, current, boxes, spawn_times, awaited, flags>>

-----------------------------------------------------------------------------
(* do_spawn(), do_kill(), do_wait(). *)

UsesKept(i) == using_box[i]   \* Mutant: the marks of the former task stay
UsesNone(i) == {}

FreeSlotsBlocked == {i \in Slot : status[i] \in {"EXITED", "BLOCKED"}}   \* Mutant
FreeSlots == {i \in Slot : status[i] = "EXITED"}

\* The entry may be the caller's own, if it has killed itself: nested_count is
\* then reset within the call, and the next ASSERT fails.
Spawn ==
  /\ Calling("spawn") /\ spawn_times < MaxSpawns
  /\ spawn_times' = spawn_times + 1
  /\ IF FreeSlots = {}
     THEN UNCHANGED <<links, status, pid, using_box, open, awaited, flags>>
     ELSE LET i == First(FreeSlots) IN
       /\ links' = enqueue(queue_init(links, pwaitqueue(i)), ready_queue, i)
       /\ status' = [status EXCEPT ![i] = "FIRST_TIME"]
       /\ pid' = [pid EXCEPT ![i] = spawn_times + 1]
       /\ using_box' = [using_box EXCEPT ![i] = UsesNone(i)]
       /\ open' = [open EXCEPT ![i] = {}]
       /\ awaited' = [awaited EXCEPT ![i] = 0]
       /\ stopped' = (i = current)
       /\ corrupted' = (corrupted \/ (pid[i] # 0 /\ ~is_empty(links, pwaitqueue(i))))
  /\ UNCHANGED <<current, num_of_users>>

\* do_kill(p) takes the first entry that has the pid, whatever its status, also
\* the caller's.  Its node is unlinked, in a queue or not, before its waiters are
\* woken.  (Where no entry has the pid, nothing changes.  A waitqueue that is no
\* ring then is one that the loop does not find empty.)
Kill(p) ==
  /\ Calling("kill") /\ Entry(p) # {}
  /\ LET i == First(Entry(p))
         unlinked == Unlink(WithClosed(links, using_box[i]), i)
         ended == [status EXCEPT ![i] = "EXITED"]
     IN
       /\ CloseAll(using_box[i])
       /\ corrupted' = (corrupted \/ ~Live(i) \/ i = current)
       /\ stopped' = ~IsRing(unlinked, pwaitqueue(i))
       /\ IF stopped'
          THEN links' = unlinked /\ status' = ended
          ELSE /\ links' = UnblockAll(unlinked, pwaitqueue(i))
               /\ status' = WithReady(unlinked, pwaitqueue(i), ended)
  /\ UNCHANGED <<pid, current, spawn_times, open, awaited>>

WaitQueueByIndex(p) == pwaitqueue(IF p \in Slot THEN p ELSE 1)   \* Mutant
WaitQueue(p) == pwaitqueue(First(Entry(p)))

\* do_wait(p) blocks on the first entry that has the pid, whatever its status.
Wait(p) ==
  /\ Calling("wait") /\ Entry(p) # {}
  /\ GiveUpCpu(WaitQueue(p), "BLOCKED")
  /\ awaited' = [awaited EXCEPT ![current] = p]
  /\ UNCHANGED <<pid, boxes, spawn_times, flags>>

\* Where no entry has the pid, do_wait() returns inside its critical section, and
\* the ASSERT of LEAVE_CRITICAL in handle_syscall fails.
WaitForNobody(p) ==
  /\ Calling("wait") /\ Entry(p) = {}
  /\ stopped' = TRUE
  /\ UNCHANGED <<links, status, pid, current, boxes, spawn_times, awaited, corrupted>>

-----------------------------------------------------------------------------
\* init runs, the pcbs of the others are zeroed memory.
Init ==
  /\ LET start == [n \in Node |->
           IF n = 1 THEN ready_queue
           ELSE IF n \in Slot \/ n \in {pwaitqueue(i) : i \in Slot \ {1}} THEN NULL ELSE n]
     IN links = [prev |-> start, next |-> start]
  /\ status = [i \in Slot |-> IF i = 1 THEN "FIRST_TIME" ELSE "EXITED"]
  /\ pid = [i \in Slot |-> IF i = 1 THEN 1 ELSE 0]
  /\ using_box = [i \in Slot |-> {}]
  /\ current = 1
  /\ num_of_users = [b \in Box |-> 0]
  /\ spawn_times = 1
  /\ open = [i \in Slot |-> {}]
  /\ awaited = [i \in Slot |-> 0]
  /\ stopped = FALSE /\ corrupted = FALSE

Next ==
  /\ ~stopped
  /\ \/ Yield \/ Sleep \/ WakeSleeper \/ PickNext \/ Exit \/ Spawn
     \/ \E b \in Box : OpenBox(b) \/ CloseBox(b) \/ BlockOnBox(b) \/ WakeBox(b)
     \/ \E p \in 1 .. MaxSpawns : Kill(p) \/ Wait(p) \/ WaitForNobody(p)

Spec == Init /\ [][Next]_vars

-----------------------------------------------------------------------------
(* Properties.  The code damages its queues in two ways, which corrupted notes: *)
(* do_kill() of a task that is in no queue, because it has ended or is the      *)
(* caller, and do_spawn() into an entry whose former task others still wait     *)
(* for.  KillNeedsProcess and NoWaitForTheDead, which the code breaks, are about *)
(* these; the others say what holds until one of them happens.                  *)

Intact == ~corrupted

\* Unless a task in no queue was killed or a waitqueue in use initialised, killing,
\* waiting and using entries again leaves every queue a ring, and every task that
\* has not ended either runs or is in one queue, that of its status; a task that
\* has ended is in none, though do_kill() unlinks it without looking where it is,
\* and wakes others from a queue it may have been in (kernel.c:275-279).
TasksLinked ==
  Intact =>
    /\ \A h \in Heads : IsRing(links, h)
    /\ \A i \in Slot : LET in == {h \in Heads : Linked(links, h, i)} IN
         /\ Cardinality(in) = (IF Live(i) /\ i # current THEN 1 ELSE 0)
         /\ i = current => status[i] \in {"FIRST_TIME", "READY"}
         /\ ready_queue \in in <=> Live(i) /\ i # current /\ status[i] \in {"FIRST_TIME", "READY"}
         /\ sleep_wait_queue \in in <=> status[i] = "SLEEPING"

\* Unless a queue was damaged so, a box is not freed while a task that has it open
\* lives: killing a task gives back only what it opened itself, whoever calls kill
\* and whatever entries are used again (kernel.c:270-273).
BoxesKept ==
  Intact =>
    \A b \in Box :
      Cardinality({i \in Slot : Live(i) /\ b \in open[i]}) <= num_of_users[b]

\* Unless a queue was damaged so, a wait returns only when the task waited for has
\* ended, though the entry that the wait is for may by then belong to another task
\* (syslib.h:72-76).
WaitEndsWithTask ==
  [][ \A i \in Slot : Intact /\ awaited[i] # 0 /\ awaited'[i] = 0 /\ current' = i =>
        \A j \in Entry(awaited[i]) : ~Live(j) ]_vars

\* Unless a queue was damaged so, all who wait for a task that is killed go on:
\* in the same step each of them becomes READY and is in the ready queue
\* (kernel.c:278-279).
KillWakesWaiters ==
  [][ \A i, j \in Slot :
        /\ Intact' /\ i # current /\ Live(i) /\ ~Live(i)'
        /\ j # i /\ status[j] = "BLOCKED" /\ awaited[j] = pid[i]
        => status'[j] = "READY" /\ Linked(links', ready_queue, j) ]_vars

\* Nobody is left waiting for a task that has ended (syslib.h:72, "Blocks until the
\* specified process terminates").  do_exit() wakes nobody and do_wait() does not
\* look at the status: the code breaks this.
NoWaitForTheDead ==
  \A i \in Slot : status[i] = "BLOCKED" /\ awaited[i] # 0 =>
    \E j \in Entry(awaited[i]) : Live(j)

\* A kill of a process that has ended, or that there never was, damages no queue and
\* takes no box from its users (syslib.h:67, "Returns -1 if that process does not
\* exist").  do_kill() does not look at the status: the code breaks this.
KillNeedsProcess ==
  [][ \A p \in 1 .. MaxSpawns : (\A i \in Entry(p) : ~Live(i)) /\ Kill(p) =>
        /\ \A h \in Heads : IsRing(links', h)
        /\ UNCHANGED num_of_users ]_vars

\* No call stops the machine (syslib.h:73, "Returns -1 if that process does not
\* exist").  A wait for a pid that no entry has does: the code breaks this.
CallsReturn == ~stopped
=============================================================================
