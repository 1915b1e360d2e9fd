-------------------------------- MODULE Mbox --------------------------------
(***************************************************************************)
(* The message boxes of project4_start_code (mbox.c).                      *)
(*                                                                         *)
(* The callers are processes (process1.c to process3.c), which come here   *)
(* through a system call and are not preempted in the kernel               *)
(* (KernelNotPreempted of Scheduler).  So a call runs alone from its entry *)
(* to the block() in it, and from there to its end: these are the actions. *)
(* The lock mtx of a box is taken and released within one action, and is   *)
(* always free when it is asked for.                                       *)
(*                                                                         *)
(* The table has room for every name that is opened: what do_mbox_open()   *)
(* returns when it is full is not defined (it has no return statement).    *)
(***************************************************************************)
EXTENDS Integers, Sequences, FiniteSets, Queues

CONSTANTS
  Task,
  Boxes,        \* MAX_MBOXEN
  Capacity,     \* MAX_MBOX_LENGTH
  Modulus,      \* read_num and write_num are counted modulo this, 2^32 in the code
  Name,
  Length,       \* the length of each name
  Senders, Receivers,   \* the tasks that send to, or receive from, each name
  Message,              \* the messages that are sent to each name
  NULL

Box == 1 .. Boxes
Unnamed == "unnamed"    \* name[0] = '\0'
Mangled == "mangled"    \* a name with the tail of a longer, older one

ASSUME MboxAssumption ==
  /\ Boxes \in Nat \ {0} /\ Capacity \in Nat \ {0}
  /\ Modulus \in Nat /\ Modulus > Capacity /\ Modulus % Capacity = 0
  /\ Length \in [Name -> Nat \ {0}]
  /\ Senders \in [Name -> SUBSET Task] /\ Receivers \in [Name -> SUBSET Task]
  /\ DOMAIN Message = Name /\ {Unnamed, Mangled} \cap Name = {} /\ NULL \notin Box

VARIABLES
  name,         \* what same_string() finds in the name of each box
  written,      \* the number of characters ever written to name
  unused, num_of_users, read_num, write_num,
  content,      \* the places of each box
  queue,        \* its send_queue and its recv_queue
  status,       \* READY or BLOCKED
  at, arg,      \* the call of block() that a task returns from, and its box and message
  handle,       \* the result of the task's mbox_open() of each name, until mbox_close()
  got           \* the message that the task received last

table == <<name, written, unused, num_of_users>>
data == <<read_num, write_num, content>>
tasks == <<status, at, arg>>
vars == <<table, data, queue, tasks, handle, got>>

Queue == {"send", "recv"} \X Box

-----------------------------------------------------------------------------
(* Opening and closing. *)

First(S) == CHOOSE b \in S : \A c \in S : b <= c

\* bcopy(name, ..., strlen(name)) does not copy the final '\0'.
Copy(b, n) == IF Length[n] < written[b] THEN Mangled ELSE n

Open(t, n) ==
  /\ status[t] = "READY" /\ at[t] = "none" /\ handle[t][n] = NULL
  /\ LET known == {b \in Box : name[b] = n}
         free == {b \in Box : unused[b]}
     IN \/ /\ known # {}
           /\ num_of_users' = [num_of_users EXCEPT ![First(known)] = @ + 1]
           /\ handle' = [handle EXCEPT ![t][n] = First(known)]
           /\ UNCHANGED <<name, written, unused>>
        \/ /\ known = {} /\ free # {}
           /\ LET b == First(free) IN
              /\ unused' = [unused EXCEPT ![b] = FALSE]
              /\ num_of_users' = [num_of_users EXCEPT ![b] = @ + 1]
              /\ name' = [name EXCEPT ![b] = Copy(b, n)]
              /\ written' = [written EXCEPT ![b] = IF @ < Length[n] THEN Length[n] ELSE @]
              /\ handle' = [handle EXCEPT ![t][n] = b]
  /\ UNCHANGED <<data, queue, tasks, got>>

\* The last user's close frees the box, and forgets the tasks in its queues; the
\* messages in it stay.
LastUserEarly(b) == num_of_users[b] <= 2   \* Mutant
LastUser(b) == num_of_users[b] = 1

Close(t, n) ==
  /\ status[t] = "READY" /\ at[t] = "none" /\ handle[t][n] # NULL
  /\ LET b == handle[t][n] IN
     /\ num_of_users' = [num_of_users EXCEPT ![b] = @ - 1]
     /\ IF LastUser(b)
        THEN /\ unused' = [unused EXCEPT ![b] = TRUE]
             /\ name' = [name EXCEPT ![b] = Unnamed]
             /\ queue' = Flush(Flush(queue, <<"send", b>>), <<"recv", b>>)
        ELSE UNCHANGED <<unused, name, queue>>
  /\ handle' = [handle EXCEPT ![t][n] = NULL]
  /\ UNCHANGED <<written, data, tasks, got>>

-----------------------------------------------------------------------------
(* Sending and receiving. *)

IsFullLate(b) == (read_num[b] + Capacity + 1) % Modulus = write_num[b]   \* Mutant
IsFull(b) == (read_num[b] + Capacity) % Modulus = write_num[b]
IsEmpty(b) == read_num[b] = write_num[b]

\* block() in one of the queues of b.
Wait(t, side, b, m) ==
  /\ queue' = Enqueue(queue, <<side, b>>, t)
  /\ status' = [status EXCEPT ![t] = "BLOCKED"]
  /\ at' = [at EXCEPT ![t] = side]
  /\ arg' = [arg EXCEPT ![t] = <<b, m>>]
  /\ UNCHANGED <<data, got>>

\* Every task in the queue is made ready; t itself is back in its program.
WakeOwnSide(t, q) ==   \* Mutant: a sender wakes the senders, a receiver the receivers
  LET p == <<IF q[1] = "send" THEN "recv" ELSE "send", q[2]>> IN
  /\ queue' = Flush(queue, p)
  /\ status' = [u \in Task |-> IF InQueue(queue, p, u) THEN "READY" ELSE status[u]]
  /\ at' = [at EXCEPT ![t] = "none"]
  /\ arg' = [arg EXCEPT ![t] = <<>>]
Wake(t, q) ==
  /\ queue' = Flush(queue, q)
  /\ status' = [u \in Task |-> IF InQueue(queue, q, u) THEN "READY" ELSE status[u]]
  /\ at' = [at EXCEPT ![t] = "none"]
  /\ arg' = [arg EXCEPT ![t] = <<>>]

\* From lock_acquire() to the end of do_mbox_send() and do_mbox_recv(): what was
\* tested before block() is not tested again.
Write(t, b, m) ==
  /\ content' = [content EXCEPT ![b][write_num[b] % Capacity] = m]
  /\ write_num' = [write_num EXCEPT ![b] = (@ + 1) % Modulus]
  /\ Wake(t, <<"recv", b>>)
  /\ UNCHANGED <<read_num, got>>

Read(t, b) ==
  /\ got' = [got EXCEPT ![t] = content[b][read_num[b] % Capacity]]
  /\ read_num' = [read_num EXCEPT ![b] = (@ + 1) % Modulus]
  /\ Wake(t, <<"send", b>>)
  /\ UNCHANGED <<write_num, content>>

Send(t, n, m) ==
  /\ status[t] = "READY" /\ at[t] = "none" /\ handle[t][n] # NULL /\ t \in Senders[n]
  /\ LET b == handle[t][n] IN IF IsFull(b) THEN Wait(t, "send", b, m) ELSE Write(t, b, m)
  /\ UNCHANGED <<table, handle>>

SendWoken(t) ==
  /\ status[t] = "READY" /\ at[t] = "send"
  /\ Write(t, arg[t][1], arg[t][2])
  /\ UNCHANGED <<table, handle>>

Recv(t, n) ==
  /\ status[t] = "READY" /\ at[t] = "none" /\ handle[t][n] # NULL /\ t \in Receivers[n]
  /\ LET b == handle[t][n] IN IF IsEmpty(b) THEN Wait(t, "recv", b, NULL) ELSE Read(t, b)
  /\ UNCHANGED <<table, handle>>

RecvWoken(t) ==
  /\ status[t] = "READY" /\ at[t] = "recv"
  /\ Read(t, arg[t][1])
  /\ UNCHANGED <<table, handle>>

-----------------------------------------------------------------------------
\* init_mbox().
Init ==
  /\ name = [b \in Box |-> Unnamed]
  /\ written = [b \in Box |-> 0]
  /\ unused = [b \in Box |-> TRUE]
  /\ num_of_users = [b \in Box |-> 0]
  /\ read_num = [b \in Box |-> 0]
  /\ write_num = [b \in Box |-> 0]
  /\ content = [b \in Box |-> [i \in 0 .. Capacity - 1 |-> NULL]]
  /\ queue = [q \in Queue |-> <<>>]
  /\ status = [t \in Task |-> "READY"]
  /\ at = [t \in Task |-> "none"]
  /\ arg = [t \in Task |-> <<>>]
  /\ handle = [t \in Task |-> [n \in Name |-> NULL]]
  /\ got = [t \in Task |-> NULL]

\* A task opens the boxes that it uses.
Uses(t, n) == t \in Senders[n] \cup Receivers[n]

Next ==
  \E t \in Task :
    \/ SendWoken(t) \/ RecvWoken(t)
    \/ \E n \in Name :
         \/ Uses(t, n) /\ Open(t, n)
         \/ Close(t, n)
         \/ Recv(t, n)
         \/ \E m \in Message[n] : Send(t, n, m)

Spec == Init /\ [][Next]_vars

\* A task that was woken runs (ReadyTasksRun of Scheduler).
FairSpec == Spec /\ \A t \in Task : WF_vars(SendWoken(t) \/ RecvWoken(t))

-----------------------------------------------------------------------------
(* Properties. *)

Count(b) == (write_num[b] - read_num[b]) % Modulus
Stored(b) == [i \in 1 .. Count(b) |-> content[b][(read_num[b] + i - 1) % Capacity]]

\* With one sender and one receiver a box is a bounded buffer, also when its
\* counters wrap round and when it is closed and opened again (mbox.h:19-32).
BF == INSTANCE Buffers WITH
  Box <- Box, Message <- (UNION {Message[n] : n \in Name}) \cup {NULL}, content <- [b \in Box |-> Stored(b)], got <- got
ImplementsBuffers == BF!Spec

\* Nobody is blocked for no reason: behind send_queue the box is full, behind
\* recv_queue it is empty, and a blocked task is in the queue of its box, which
\* nobody has freed under it (mbox.c:105-106, 150-151, 162-165, 188-189, 199-202).
WaitsForCause ==
  \A t \in Task : status[t] = "BLOCKED" =>
    /\ at[t] \in {"send", "recv"} /\ InQueue(queue, <<at[t], arg[t][1]>>, t)
    /\ IF at[t] = "send" THEN IsFull(arg[t][1]) ELSE IsEmpty(arg[t][1])

\* A box is one name's, those who have a name open share its box unless one of them
\* got a box whose name was mangled, and num_of_users is the number of those who
\* have it open: exactly the last close frees it (mbox.c:68-86, 100-107).
Users(b) == {p \in Task \X Name : handle[p[1]][p[2]] = b}
BoxesShared ==
  /\ \A t, u \in Task : \A n, m \in Name : handle[t][n] # NULL /\ handle[u][m] # NULL =>
       IF handle[t][n] = handle[u][m] THEN n = m
       ELSE n = m => Mangled \in {name[handle[t][n]], name[handle[u][m]]}
  /\ \A b \in Box : num_of_users[b] = Cardinality(Users(b)) /\ (unused[b] <=> Users(b) = {})

\* "Opens the mailbox named 'name', or creates a new message box if it doesn't
\* already exist" (mbox.h:16-18).
OpenersShare ==
  \A t, u \in Task : \A n, m \in Name :
    handle[t][n] # NULL /\ handle[u][m] # NULL => (handle[t][n] = handle[u][m] <=> n = m)

\* A task that waits in mbox_send() or mbox_recv() returns once the box has room,
\* or a message, for it (mbox.c:162-165, 199-202).
WaitersReturn ==
  \A t \in Task :
    /\ at[t] = "send" /\ ~IsFull(arg[t][1]) ~> at[t] = "none"
    /\ at[t] = "recv" /\ ~IsEmpty(arg[t][1]) ~> at[t] = "none"

\* "If empty, the process will block until it can remove an item" (mbox.c:169-171).
NoEmptyRead ==
  [][ \A b \in Box : read_num'[b] # read_num[b] => ~IsEmpty(b) ]_vars
=============================================================================
