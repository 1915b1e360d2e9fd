----------------------------- MODULE Mbox_proofs -----------------------------
(***************************************************************************)
(* Proofs about Mbox, for any number of tasks, boxes and names.            *)
(*                                                                         *)
(* NamesHeld ties a box to one name and num_of_users to the handles that   *)
(* are open, so that the last close really is the last, also where a name  *)
(* was mangled: then the box has one user. From it follow                  *)
(* BoxesAlwaysShared, and that nobody frees a queue with a task in it.     *)
(* Waiting says where a task inside mbox_send() or mbox_recv() is, and     *)
(* Counted what the woken ones may rely on: with one sender and one        *)
(* receiver, the room or the message that a task was woken for is still    *)
(* there. On those rest the two theorems about the counters, which are     *)
(* taken modulo the range of an integer and then modulo the capacity.      *)
(***************************************************************************)
EXTENDS Mbox, QueueLemmas

Msg == (UNION {Message[n] : n \in Name}) \cup {NULL}

\* A name has at most one sender and one receiver.
OneEach ==
  \A n \in Name : \A t, u \in Task :
    /\ t \in Senders[n] /\ u \in Senders[n] => t = u
    /\ t \in Receivers[n] /\ u \in Receivers[n] => t = u

TypeOK ==
  /\ name \in [Box -> Name \cup {Unnamed, Mangled}]
  /\ written \in [Box -> Nat]
  /\ unused \in [Box -> BOOLEAN]
  /\ num_of_users \in [Box -> Int]
  /\ read_num \in [Box -> 0 .. Modulus - 1]
  /\ write_num \in [Box -> 0 .. Modulus - 1]
  /\ content \in [Box -> [0 .. Capacity - 1 -> Msg]]
  /\ queue \in [Queue -> Seq(Task)]
  /\ status \in [Task -> {"READY", "BLOCKED"}]
  /\ at \in [Task -> {"none", "send", "recv"}]
  /\ arg \in [Task -> (Box \X Msg) \cup {<<>>}]
  /\ handle \in [Task -> [Name -> Box \cup {NULL}]]
  /\ got \in [Task -> Msg]
  /\ \A t \in Task : at[t] # "none" => arg[t] \in Box \X Msg

-----------------------------------------------------------------------------
(* The steps, one by one. *)

\* A search through the table finds the first box of its kind.
LEMMA FirstIsOne ==
  ASSUME NEW S \in SUBSET Box, S # {}
  PROVE  First(S) \in S
<1>1. S \in SUBSET Nat
  BY DEF Box
<1>2. PICK b \in S : \A c \in S : b <= c
  BY <1>1, LeastNat
<1> QED BY <1>2 DEF First

\* The counters of the boxes, and the place that one points to.
LEMMA Counters ==
  /\ Modulus \in Nat \ {0} /\ Capacity \in Nat \ {0} /\ Capacity < Modulus
  /\ \A n \in 0 .. Modulus - 1 : (n + 1) % Modulus \in 0 .. Modulus - 1
  /\ \A n \in 0 .. Modulus - 1 : n % Capacity \in 0 .. Capacity - 1
BY MboxAssumption

\* What flushing a queue leaves, which Wake does.
LEMMA FlushIn ==
  ASSUME NEW Q, NEW T, NEW qs \in [Q -> Seq(T)], NEW q \in Q
  PROVE  /\ Flush(qs, q) \in [Q -> Seq(T)]
         /\ \A r \in Q : \A u : InQueue(Flush(qs, q), r, u) <=> InQueue(qs, r, u) /\ r # q
<1>1. PICK new : new = Flush(qs, q)
  OBVIOUS
<1>2. new \in [Q -> Seq(T)] /\ new[q] = <<>> /\ \A r \in Q \ {q} : new[r] = qs[r]
  BY <1>1 DEF Flush
<1>3. DOMAIN new[q] = {}
  BY <1>2
<1>4. \A r \in Q : \A u : InQueue(new, r, u) <=> InQueue(qs, r, u) /\ r # q
  BY <1>2, <1>3 DEF InQueue
<1> QED BY <1>1, <1>2, <1>4

LEMMA TypeInit == ASSUME Init PROVE TypeOK
<1>1. NULL \in Msg /\ 0 \in 0 .. Modulus - 1
  BY Counters DEF Msg
<1>2. content \in [Box -> [0 .. Capacity - 1 -> Msg]]
  BY <1>1 DEF Init
<1>3. queue \in [Queue -> Seq(Task)]
  BY DEF Init
<1> QED BY <1>1, <1>2, <1>3 DEF Init, TypeOK

\* The end of a send or a receive.
LEMMA WakeType ==
  ASSUME TypeOK, NEW t \in Task, NEW q \in Queue, Wake(t, q)
  PROVE  /\ queue' \in [Queue -> Seq(Task)]
         /\ status' \in [Task -> {"READY", "BLOCKED"}]
         /\ at' \in [Task -> {"none", "send", "recv"}]
         /\ arg' \in [Task -> (Box \X Msg) \cup {<<>>}]
         /\ \A u \in Task : at'[u] # "none" => arg'[u] \in Box \X Msg
<1>1. queue' = Flush(queue, q) /\ queue \in [Queue -> Seq(Task)]
  BY DEF Wake, TypeOK
<1>2. queue' \in [Queue -> Seq(Task)]
  BY <1>1, FlushIn
<1>3. \A u \in Task : status[u] \in {"READY", "BLOCKED"}
  BY DEF TypeOK
<1>4. status' \in [Task -> {"READY", "BLOCKED"}]
  BY <1>3 DEF Wake
<1>5. /\ at' \in [Task -> {"none", "send", "recv"}]
      /\ arg' \in [Task -> (Box \X Msg) \cup {<<>>}]
      /\ \A u \in Task : at'[u] # "none" => arg'[u] \in Box \X Msg
  BY DEF Wake, TypeOK
<1> QED BY <1>2, <1>4, <1>5

LEMMA WriteType ==
  ASSUME TypeOK, NEW t \in Task, NEW b \in Box, NEW m \in Msg,
         Write(t, b, m), UNCHANGED <<table, handle>>
  PROVE  TypeOK'
<1>0. PICK n \in 0 .. Modulus - 1 : n = write_num[b]
  BY DEF TypeOK
<1>1. write_num' \in [Box -> 0 .. Modulus - 1]
  <2>1. (n + 1) % Modulus \in 0 .. Modulus - 1
    BY Counters
  <2> QED BY <1>0, <2>1 DEF TypeOK, Write
<1>2. write_num[b] % Capacity \in 0 .. Capacity - 1
  BY <1>0, Counters
<1>3. content' \in [Box -> [0 .. Capacity - 1 -> Msg]]
  BY <1>2 DEF TypeOK, Write
<1>4. <<"recv", b>> \in Queue /\ Wake(t, <<"recv", b>>)
  BY DEF Queue, Write
<1> QED BY <1>1, <1>3, <1>4, WakeType DEF TypeOK, Write, table

LEMMA ReadType ==
  ASSUME TypeOK, NEW t \in Task, NEW b \in Box,
         Read(t, b), UNCHANGED <<table, handle>>
  PROVE  TypeOK'
<1>0. PICK n \in 0 .. Modulus - 1 : n = read_num[b]
  BY DEF TypeOK
<1>1. read_num' \in [Box -> 0 .. Modulus - 1]
  <2>1. (n + 1) % Modulus \in 0 .. Modulus - 1
    BY Counters
  <2> QED BY <1>0, <2>1 DEF TypeOK, Read
<1>2. read_num[b] % Capacity \in 0 .. Capacity - 1
  BY <1>0, Counters
<1>3. got' \in [Task -> Msg]
  <2>1. content[b] \in [0 .. Capacity - 1 -> Msg]
    BY DEF TypeOK
  <2> QED BY <1>2, <2>1 DEF TypeOK, Read
<1>4. <<"send", b>> \in Queue /\ Wake(t, <<"send", b>>)
  BY DEF Queue, Read
<1> QED BY <1>1, <1>3, <1>4, WakeType DEF TypeOK, Read, table

LEMMA WaitType ==
  ASSUME TypeOK, NEW t \in Task, NEW b \in Box, NEW m \in Msg, NEW side \in {"send", "recv"},
         Wait(t, side, b, m), UNCHANGED <<table, handle>>
  PROVE  TypeOK'
<1> USE DEF TypeOK, Wait, table, data
<1>1. <<side, b>> \in Queue
  BY DEF Queue
<1>2. queue' \in [Queue -> Seq(Task)]
  BY <1>1, EnqueueIn
<1>3. /\ at' \in [Task -> {"none", "send", "recv"}]
      /\ arg' \in [Task -> (Box \X Msg) \cup {<<>>}]
      /\ \A u \in Task : at'[u] # "none" => arg'[u] \in Box \X Msg
  OBVIOUS
<1> QED BY <1>2, <1>3

LEMMA OpenType ==
  ASSUME TypeOK, NEW t \in Task, NEW n \in Name, Open(t, n)
  PROVE  TypeOK'
<1>1. PICK known \in SUBSET Box : known = {b \in Box : name[b] = n}
  OBVIOUS
<1>2. PICK free \in SUBSET Box : free = {b \in Box : unused[b]}
  OBVIOUS
<1>3. UNCHANGED <<data, queue, tasks, got>>
  BY DEF Open
<1>4. CASE /\ known # {}
           /\ num_of_users' = [num_of_users EXCEPT ![First(known)] = @ + 1]
           /\ handle' = [handle EXCEPT ![t][n] = First(known)]
           /\ UNCHANGED <<name, written, unused>>
  <2>1. First(known) \in Box
    BY <1>4, FirstIsOne
  <2>2. num_of_users' \in [Box -> Int] /\ handle' \in [Task -> [Name -> Box \cup {NULL}]]
    BY <2>1, <1>4 DEF TypeOK
  <2> QED BY <2>2, <1>3, <1>4 DEF TypeOK, data, tasks
<1>5. CASE /\ free # {}
           /\ LET b == First(free) IN
              /\ unused' = [unused EXCEPT ![b] = FALSE]
              /\ num_of_users' = [num_of_users EXCEPT ![b] = @ + 1]
              /\ name' = [name EXCEPT ![b] = Copy(b, n)]
              /\ written' = [written EXCEPT ![b] = IF @ < Length[n] THEN Length[n] ELSE @]
              /\ handle' = [handle EXCEPT ![t][n] = b]
  <2>1. First(free) \in Box
    BY <1>5, FirstIsOne
  <2>2. num_of_users' \in [Box -> Int] /\ handle' \in [Task -> [Name -> Box \cup {NULL}]]
    BY <2>1, <1>5 DEF TypeOK
  <2>3. unused' \in [Box -> BOOLEAN] /\ name' \in [Box -> Name \cup {Unnamed, Mangled}]
    BY <2>1, <1>5 DEF TypeOK, Copy
  <2>4. written' \in [Box -> Nat]
    BY <2>1, <1>5, MboxAssumption DEF TypeOK
  <2> QED BY <2>2, <2>3, <2>4, <1>3 DEF TypeOK, data, tasks
<1> QED BY <1>1, <1>2, <1>4, <1>5 DEF Open

LEMMA CloseType ==
  ASSUME TypeOK, NEW t \in Task, NEW n \in Name, Close(t, n)
  PROVE  TypeOK'
<1>1. PICK b \in Box : b = handle[t][n]
  BY DEF Close, TypeOK
<1>2. UNCHANGED <<written, data, tasks, got>>
  BY DEF Close
<1>3. num_of_users' \in [Box -> Int] /\ handle' \in [Task -> [Name -> Box \cup {NULL}]]
  BY <1>1 DEF Close, TypeOK
<1>4. unused' \in [Box -> BOOLEAN] /\ name' \in [Box -> Name \cup {Unnamed, Mangled}]
  BY <1>1 DEF Close, TypeOK
<1>5. queue' \in [Queue -> Seq(Task)]
  <2>1. <<"send", b>> \in Queue /\ <<"recv", b>> \in Queue
    BY DEF Queue
  <2>2. Flush(queue, <<"send", b>>) \in [Queue -> Seq(Task)]
    BY <2>1, FlushIn DEF TypeOK
  <2>3. Flush(Flush(queue, <<"send", b>>), <<"recv", b>>) \in [Queue -> Seq(Task)]
    BY <2>1, <2>2, FlushIn
  <2> QED BY <2>3, <1>1 DEF Close, TypeOK
<1> QED BY <1>2, <1>3, <1>4, <1>5 DEF TypeOK, data, tasks

-----------------------------------------------------------------------------
(* Every step is one of six: the two that are entered run on, or wait. *)

Sends(t, b, m) ==
  /\ status[t] = "READY"
  /\ \/ at[t] = "send" /\ b = arg[t][1] /\ m = arg[t][2]
     \/ at[t] = "none" /\ ~IsFull(b) /\ \E n \in Name : b = handle[t][n] /\ t \in Senders[n]
  /\ Write(t, b, m) /\ UNCHANGED <<table, handle>>

Receives(t, b) ==
  /\ status[t] = "READY"
  /\ \/ at[t] = "recv" /\ b = arg[t][1]
     \/ at[t] = "none" /\ ~IsEmpty(b) /\ \E n \in Name : b = handle[t][n] /\ t \in Receivers[n]
  /\ Read(t, b) /\ UNCHANGED <<table, handle>>

Blocks(t, side, b, m) ==
  /\ status[t] = "READY" /\ at[t] = "none"
  /\ \E n \in Name : b = handle[t][n] /\ t \in (IF side = "send" THEN Senders[n] ELSE Receivers[n])
  /\ IF side = "send" THEN IsFull(b) ELSE IsEmpty(b)
  /\ Wait(t, side, b, m) /\ UNCHANGED <<table, handle>>

LEMMA Steps ==
  ASSUME TypeOK, Next
  PROVE  \/ \E t \in Task, n \in Name : Open(t, n) \/ Close(t, n)
         \/ \E t \in Task, b \in Box, m \in Msg : Sends(t, b, m)
         \/ \E t \in Task, b \in Box : Receives(t, b)
         \/ \E t \in Task, side \in {"send", "recv"}, b \in Box, m \in Msg : Blocks(t, side, b, m)
<1>1. PICK t \in Task :
    \/ SendWoken(t) \/ RecvWoken(t)
    \/ \E n \in Name :
         \/ Uses(t, n) /\ Open(t, n)
         \/ Close(t, n)
         \/ Recv(t, n)
         \/ \E m \in Message[n] : Send(t, n, m)
  BY DEF Next
<1>2. CASE SendWoken(t)
  <2>1. PICK b \in Box, m \in Msg : arg[t] = <<b, m>>
    BY <1>2 DEF SendWoken, TypeOK
  <2>2. Sends(t, b, m)
    BY <1>2, <2>1 DEF SendWoken, Sends
  <2> QED BY <2>2
<1>3. CASE RecvWoken(t)
  <2>1. PICK b \in Box, m \in Msg : arg[t] = <<b, m>>
    BY <1>3 DEF RecvWoken, TypeOK
  <2>2. Receives(t, b)
    BY <1>3, <2>1 DEF RecvWoken, Receives
  <2> QED BY <2>2
<1>4. ASSUME NEW n \in Name, Recv(t, n)
      PROVE  \E b \in Box : Receives(t, b) \/ \E m \in Msg : Blocks(t, "recv", b, m)
  <2>1. PICK b \in Box : b = handle[t][n]
    BY <1>4 DEF Recv, TypeOK
  <2>2. NULL \in Msg
    BY DEF Msg
  <2>3. Receives(t, b) \/ Blocks(t, "recv", b, NULL)
    BY <1>4, <2>1 DEF Recv, Receives, Blocks
  <2> QED BY <2>2, <2>3
<1>5. ASSUME NEW n \in Name, NEW m \in Message[n], Send(t, n, m)
      PROVE  \E b \in Box : \E k \in Msg : Sends(t, b, k) \/ Blocks(t, "send", b, k)
  <2>1. PICK b \in Box : b = handle[t][n]
    BY <1>5 DEF Send, TypeOK
  <2>2. m \in Msg
    BY DEF Msg
  <2>3. Sends(t, b, m) \/ Blocks(t, "send", b, m)
    BY <1>5, <2>1 DEF Send, Sends, Blocks
  <2> QED BY <2>2, <2>3
<1> QED BY <1>1, <1>2, <1>3, <1>4, <1>5

LEMMA TypeNext == ASSUME TypeOK, [Next]_vars PROVE TypeOK'
<1>1. CASE Next
  <2>1. CASE \E t \in Task, n \in Name : Open(t, n) \/ Close(t, n)
    BY <2>1, OpenType, CloseType
  <2>2. CASE \E t \in Task, b \in Box, m \in Msg : Sends(t, b, m)
    BY <2>2, WriteType DEF Sends
  <2>3. CASE \E t \in Task, b \in Box : Receives(t, b)
    BY <2>3, ReadType DEF Receives
  <2>4. CASE \E t \in Task, side \in {"send", "recv"}, b \in Box, m \in Msg : Blocks(t, side, b, m)
    BY <2>4, WaitType DEF Blocks
  <2> QED BY <1>1, <2>1, <2>2, <2>3, <2>4, Steps
<1>2. CASE UNCHANGED vars
  BY <1>2 DEF TypeOK, vars, table, data, tasks
<1> QED BY <1>1, <1>2

\* The state has its types: the counters stay below Modulus, and a task that
\* returns from block() has the box and the message it went there with.
THEOREM TypeCorrect == Spec => []TypeOK
<1>1. Init => TypeOK
  BY TypeInit
<1>2. TypeOK /\ [Next]_vars => TypeOK'
  BY TypeNext
<1> QED BY <1>1, <1>2, PTL DEF Spec

-----------------------------------------------------------------------------
(* Names: a box is one name's, from the first open to the last close. *)

NamesHeld ==
  /\ \A t \in Task : \A n \in Name : handle[t][n] # NULL => name[handle[t][n]] \in {n, Mangled}
  /\ \A b, c \in Box : name[b] = name[c] /\ name[b] \in Name => b = c
  /\ \A b \in Box : unused[b] <=> name[b] = Unnamed
  /\ \A b \in Box : unused[b] \/ Users(b) # {}
  /\ \A b \in Box : num_of_users[b] = Cardinality(Users(b))
  /\ \A b \in Box : name[b] = Mangled => \A p, q \in Users(b) : p = q

\* There are finitely many tasks and names, as everywhere in the kernel.
FewUsers == IsFiniteSet(Task) /\ IsFiniteSet(Name)

LEMMA UsersFinite ==
  ASSUME FewUsers, NEW b PROVE IsFiniteSet(Users(b))
<1>1. IsFiniteSet(Task \X Name)
  BY FS_Product DEF FewUsers
<1>2. Users(b) \subseteq Task \X Name
  BY DEF Users
<1> QED BY <1>1, <1>2, FS_Subset

LEMMA NamesInit == ASSUME Init PROVE NamesHeld
<1>1. \A t \in Task : \A n \in Name : handle[t][n] = NULL
  BY DEF Init
<1>2. \A b \in Box : Users(b) = {} /\ name[b] = Unnamed /\ unused[b] = TRUE /\ num_of_users[b] = 0
  BY <1>1, MboxAssumption DEF Init, Users
<1>3. Unnamed # Mangled /\ Unnamed \notin Name
  BY MboxAssumption DEF Unnamed, Mangled
<1> QED BY <1>1, <1>2, <1>3, FS_EmptySet DEF NamesHeld

\* One more handle to b, or one less.
LEMMA OneMoreUser ==
  ASSUME FewUsers, TypeOK, NEW t \in Task, NEW n \in Name, NEW b \in Box,
         handle[t][n] = NULL, handle' = [handle EXCEPT ![t][n] = b]
  PROVE  /\ Cardinality(Users(b)') = Cardinality(Users(b)) + 1
         /\ Users(b)' = Users(b) \cup {<<t, n>>}
         /\ \A c \in Box : c # b => Users(c)' = Users(c)
<1>1. /\ handle'[t][n] = b
      /\ \A u \in Task : \A m \in Name : u # t \/ m # n => handle'[u][m] = handle[u][m]
  BY DEF TypeOK
<1>2. NULL \notin Box
  BY MboxAssumption
<1>3. Users(b)' = Users(b) \cup {<<t, n>>} /\ <<t, n>> \notin Users(b)
  BY <1>1, <1>2 DEF Users
<1>4. \A c \in Box : c # b => Users(c)' = Users(c)
  BY <1>1, <1>2 DEF Users
<1>5. Cardinality(Users(b) \cup {<<t, n>>}) = Cardinality(Users(b)) + 1
  BY <1>3, UsersFinite, FS_AddElement
<1> QED BY <1>3, <1>4, <1>5

LEMMA OneLessUser ==
  ASSUME FewUsers, TypeOK, NEW t \in Task, NEW n \in Name, NEW b \in Box,
         handle[t][n] = b, handle' = [handle EXCEPT ![t][n] = NULL]
  PROVE  /\ Cardinality(Users(b)') = Cardinality(Users(b)) - 1
         /\ Users(b)' = Users(b) \ {<<t, n>>}
         /\ \A c \in Box : c # b => Users(c)' = Users(c)
<1>1. /\ handle'[t][n] = NULL
      /\ \A u \in Task : \A m \in Name : u # t \/ m # n => handle'[u][m] = handle[u][m]
  BY DEF TypeOK
<1>2. NULL \notin Box
  BY MboxAssumption
<1>3. Users(b)' = Users(b) \ {<<t, n>>} /\ <<t, n>> \in Users(b)
  BY <1>1, <1>2 DEF Users
<1>4. \A c \in Box : c # b => Users(c)' = Users(c)
  BY <1>1, <1>2 DEF Users
<1>5. Cardinality(Users(b) \ {<<t, n>>}) = Cardinality(Users(b)) - 1
  BY <1>3, UsersFinite, FS_RemoveElement
<1> QED BY <1>3, <1>4, <1>5

\* When num_of_users is 1, nobody else has the box.
LEMMA LastUserAlone ==
  ASSUME FewUsers, TypeOK, NamesHeld, NEW t \in Task, NEW n \in Name, NEW b \in Box,
         handle[t][n] = b, LastUser(b), NEW u \in Task, NEW m \in Name, handle[u][m] = b
  PROVE  u = t /\ m = n
<1>1. Cardinality(Users(b)) = 1 /\ <<t, n>> \in Users(b) /\ <<u, m>> \in Users(b)
  BY DEF NamesHeld, LastUser, Users
<1>2. \E x : Users(b) = {x}
  BY <1>1, UsersFinite, FS_Singleton
<1> QED BY <1>1, <1>2

\* The three names that are not one another's.
LEMMA Specials == Unnamed # Mangled /\ \A n \in Name : n \notin {Unnamed, Mangled}
BY MboxAssumption DEF Unnamed, Mangled

\* An unused box has no user.
LEMMA UnusedFree ==
  ASSUME TypeOK, NamesHeld, NEW b \in Box, unused[b]
  PROVE  Users(b) = {} /\ \A u \in Task : \A m \in Name : handle[u][m] # b
<1>1. name[b] = Unnamed /\ b # NULL
  BY MboxAssumption DEF NamesHeld
<1>2. \A u \in Task : \A m \in Name : handle[u][m] # b
  BY <1>1, Specials DEF NamesHeld
<1> QED BY <1>2 DEF Users

\* do_mbox_open() counts the task that it gives the box to.
LEMMA OneMoreCounted ==
  ASSUME TypeOK, NamesHeld, NEW b \in Box,
         num_of_users' = [num_of_users EXCEPT ![b] = @ + 1],
         Cardinality(Users(b)') = Cardinality(Users(b)) + 1,
         \A c \in Box : c # b => Users(c)' = Users(c)
  PROVE  \A c \in Box : num_of_users'[c] = Cardinality(Users(c)')
<1> SUFFICES ASSUME NEW c \in Box PROVE num_of_users'[c] = Cardinality(Users(c)')
  OBVIOUS
<1>1. num_of_users[c] = Cardinality(Users(c))
  BY DEF NamesHeld
<1>2. num_of_users'[c] = IF c = b THEN num_of_users[c] + 1 ELSE num_of_users[c]
  BY DEF TypeOK
<1>3. CASE c = b
  BY <1>1, <1>2, <1>3
<1>4. CASE c # b
  <2>1. Users(c)' = Users(c)
    BY <1>4
  <2> QED
    BY <1>1, <1>2, <1>4, <2>1
<1> QED
  BY <1>3, <1>4

LEMMA OpenNames ==
  ASSUME FewUsers, TypeOK, NamesHeld, NEW t \in Task, NEW n \in Name, Open(t, n)
  PROVE  NamesHeld'
<1>1. PICK known \in SUBSET Box : known = {b \in Box : name[b] = n}
  OBVIOUS
<1>2. PICK free \in SUBSET Box : free = {b \in Box : unused[b]}
  OBVIOUS
<1>3. handle[t][n] = NULL /\ n # Unnamed /\ n # Mangled /\ NULL \notin Box
  BY MboxAssumption DEF Open
<1>4. CASE /\ known # {}
           /\ num_of_users' = [num_of_users EXCEPT ![First(known)] = @ + 1]
           /\ handle' = [handle EXCEPT ![t][n] = First(known)]
           /\ UNCHANGED <<name, written, unused>>
  <2>1. PICK b \in Box : b = First(known) /\ name[b] = n
    BY <1>1, <1>4, FirstIsOne
  <2>2. /\ Cardinality(Users(b)') = Cardinality(Users(b)) + 1
        /\ Users(b)' = Users(b) \cup {<<t, n>>}
        /\ \A c \in Box : c # b => Users(c)' = Users(c)
    BY <1>3, <1>4, <2>1, OneMoreUser
  <2>3. \A c \in Box : num_of_users'[c] = Cardinality(Users(c)')
    BY <2>1, <2>2, <1>4, OneMoreCounted
  <2>4. \A u \in Task : \A m \in Name : handle'[u][m] # NULL => name'[handle'[u][m]] \in {m, Mangled}
    BY <2>1, <1>4 DEF NamesHeld, TypeOK
  <2>5. \A c \in Box : unused'[c] \/ Users(c)' # {}
    BY <1>4, <2>2 DEF NamesHeld
  <2>6. \A c \in Box : name'[c] = Mangled => \A p, q \in Users(c)' : p = q
    BY <1>3, <1>4, <2>1, <2>2 DEF NamesHeld
  <2> QED BY <2>3, <2>4, <2>5, <2>6, <1>4 DEF NamesHeld
<1>5. CASE /\ known = {} /\ free # {}
           /\ LET b == First(free) IN
              /\ unused' = [unused EXCEPT ![b] = FALSE]
              /\ num_of_users' = [num_of_users EXCEPT ![b] = @ + 1]
              /\ name' = [name EXCEPT ![b] = Copy(b, n)]
              /\ written' = [written EXCEPT ![b] = IF @ < Length[n] THEN Length[n] ELSE @]
              /\ handle' = [handle EXCEPT ![t][n] = b]
  <2>1. PICK b \in Box : b = First(free) /\ unused[b]
    BY <1>2, <1>5, FirstIsOne
  <2>2. /\ Cardinality(Users(b)') = Cardinality(Users(b)) + 1
        /\ Users(b)' = Users(b) \cup {<<t, n>>}
        /\ \A c \in Box : c # b => Users(c)' = Users(c)
    BY <1>3, <1>5, <2>1, OneMoreUser
  <2>3. \A c \in Box : num_of_users'[c] = Cardinality(Users(c)')
    <3>1. num_of_users' = [num_of_users EXCEPT ![b] = @ + 1]
      BY <2>1, <1>5
    <3> QED
      BY <2>2, <3>1, OneMoreCounted
  <2>4. PICK k \in {n, Mangled} : name' = [name EXCEPT ![b] = k]
    BY <1>5, <2>1 DEF Copy
  <2>5. Users(b) = {} /\ \A u \in Task : \A m \in Name : handle[u][m] # b
    BY <2>1, UnusedFree
  <2>6. \A u \in Task : \A m \in Name : handle'[u][m] # NULL => name'[handle'[u][m]] \in {m, Mangled}
    <3>1. handle' = [handle EXCEPT ![t][n] = b] /\ name'[b] = k
      BY <2>1, <2>4, <1>5 DEF TypeOK
    <3>2. \A u \in Task : \A m \in Name : u # t \/ m # n => handle'[u][m] = handle[u][m]
      BY <3>1 DEF TypeOK
    <3>3. \A c \in Box : c # b => name'[c] = name[c]
      BY <2>4 DEF TypeOK
    <3>4. handle'[t][n] = b
      BY <3>1 DEF TypeOK
    <3>5. ASSUME NEW u \in Task, NEW m \in Name, handle'[u][m] # NULL
          PROVE  name'[handle'[u][m]] \in {m, Mangled}
      <4>1. CASE u = t /\ m = n
        BY <3>1, <3>4, <4>1
      <4>2. CASE u # t \/ m # n
        <5>1. handle'[u][m] = handle[u][m] /\ handle[u][m] # b /\ handle[u][m] \in Box
          BY <3>2, <3>5, <4>2, <2>5 DEF TypeOK
        <5> QED BY <5>1, <3>3, <3>5 DEF NamesHeld
      <4> QED BY <4>1, <4>2
    <3> QED BY <3>5
  <2>7. \A c \in Box : name[c] # n
    BY <1>1, <1>5
  <2>8. \A c, d \in Box : name'[c] = name'[d] /\ name'[c] \in Name => c = d
    BY <2>1, <2>4, <2>7, Specials DEF NamesHeld, TypeOK
  <2>9. \A c \in Box : (unused'[c] <=> name'[c] = Unnamed) /\ (unused'[c] \/ Users(c)' # {})
    <3>1. unused'[b] = FALSE /\ name'[b] = k
      BY <2>1, <2>4, <1>5 DEF TypeOK
    <3>2. \A c \in Box : c # b => name'[c] = name[c] /\ unused'[c] = unused[c]
      BY <2>1, <2>4, <1>5 DEF TypeOK
    <3> QED BY <2>2, <3>1, <3>2, Specials DEF NamesHeld
  <2>10. \A c \in Box : name'[c] = Mangled => \A p, q \in Users(c)' : p = q
    <3>1. \A c \in Box : c # b => name'[c] = name[c]
      BY <2>4 DEF TypeOK
    <3>2. Users(b)' = {<<t, n>>}
      BY <2>2, <2>5
    <3> QED BY <2>2, <3>1, <3>2 DEF NamesHeld
  <2> QED BY <2>3, <2>6, <2>8, <2>9, <2>10 DEF NamesHeld
<1> QED BY <1>1, <1>2, <1>4, <1>5 DEF Open

LEMMA CloseNames ==
  ASSUME FewUsers, TypeOK, NamesHeld, NEW t \in Task, NEW n \in Name, Close(t, n)
  PROVE  NamesHeld'
<1>1. PICK b \in Box : b = handle[t][n]
  BY DEF Close, TypeOK
<1>2. /\ num_of_users' = [num_of_users EXCEPT ![b] = @ - 1]
      /\ handle' = [handle EXCEPT ![t][n] = NULL]
      /\ IF LastUser(b) THEN /\ unused' = [unused EXCEPT ![b] = TRUE]
                             /\ name' = [name EXCEPT ![b] = Unnamed]
                        ELSE UNCHANGED <<unused, name>>
  BY <1>1 DEF Close
<1>3. /\ Cardinality(Users(b)') = Cardinality(Users(b)) - 1
      /\ Users(b)' = Users(b) \ {<<t, n>>}
      /\ \A c \in Box : c # b => Users(c)' = Users(c)
  BY <1>1, <1>2, OneLessUser
<1>4. \A c \in Box : num_of_users'[c] = Cardinality(Users(c)')
  <2>1. num_of_users'[b] = num_of_users[b] - 1 /\ \A c \in Box : c # b => num_of_users'[c] = num_of_users[c]
    BY <1>2 DEF TypeOK
  <2>2. /\ Cardinality(Users(b)') = Cardinality(Users(b)) - 1
        /\ \A c \in Box : c # b => Cardinality(Users(c)') = Cardinality(Users(c))
    BY <1>3
  <2> QED BY <2>1, <2>2 DEF NamesHeld
<1>5. \A u \in Task : \A m \in Name : handle'[u][m] # NULL =>
        handle'[u][m] = handle[u][m] /\ ~ (u = t /\ m = n)
  BY <1>2 DEF TypeOK
<1>6. CASE LastUser(b)
  <2>1. \A u \in Task : \A m \in Name : handle'[u][m] # NULL => handle'[u][m] # b
    BY <1>1, <1>5, <1>6, LastUserAlone
  <2>2. \A u \in Task : \A m \in Name : handle'[u][m] # NULL => handle'[u][m] \in Box
    BY <1>5 DEF TypeOK
  <2>3. \A c \in Box : c # b => name'[c] = name[c] /\ unused'[c] = unused[c]
    BY <1>2, <1>6 DEF TypeOK
  <2>4. name'[b] = Unnamed /\ unused'[b] = TRUE
    BY <1>1, <1>2, <1>6 DEF TypeOK
  <2>5. \A u \in Task : \A m \in Name : handle'[u][m] # NULL => name'[handle'[u][m]] \in {m, Mangled}
    BY <1>5, <2>1, <2>2, <2>3 DEF NamesHeld
  <2>6. \A c, d \in Box : name'[c] = name'[d] /\ name'[c] \in Name => c = d
    BY <2>3, <2>4, Specials DEF NamesHeld
  <2>7. \A c \in Box : (unused'[c] <=> name'[c] = Unnamed) /\ (unused'[c] \/ Users(c)' # {})
    BY <1>3, <2>3, <2>4 DEF NamesHeld
  <2>8. \A c \in Box : name'[c] = Mangled => \A p, q \in Users(c)' : p = q
    BY <1>3, <2>3, <2>4, Specials DEF NamesHeld
  <2> QED BY <1>4, <2>5, <2>6, <2>7, <2>8 DEF NamesHeld
<1>7. CASE ~LastUser(b)
  <2>1. Users(b)' # {}
    <3>1. Cardinality(Users(b)) # 1 /\ <<t, n>> \in Users(b)
      BY <1>1, <1>7 DEF NamesHeld, LastUser, Users
    <3>2. Users(b) # {<<t, n>>}
      BY <3>1, FS_Singleton
    <3> QED BY <1>3, <3>1, <3>2
  <2>2. \A c \in Box : unused'[c] \/ Users(c)' # {}
    BY <1>2, <1>3, <1>7, <2>1 DEF NamesHeld
  <2>3. \A c \in Box : name'[c] = Mangled => \A p, q \in Users(c)' : p = q
    BY <1>2, <1>3, <1>7 DEF NamesHeld
  <2> QED BY <1>2, <1>4, <1>5, <1>7, <2>2, <2>3 DEF NamesHeld
<1> QED BY <1>6, <1>7

LEMMA NamesNext ==
  ASSUME FewUsers, TypeOK, NamesHeld, [Next]_vars
  PROVE  NamesHeld'
<1>1. ASSUME UNCHANGED <<table, handle>> PROVE NamesHeld'
  BY <1>1 DEF NamesHeld, table, Users
<1>2. CASE Next
  <2>1. CASE \E t \in Task, n \in Name : Open(t, n) \/ Close(t, n)
    BY <2>1, OpenNames, CloseNames
  <2>2. CASE \/ \E t \in Task, b \in Box, m \in Msg : Sends(t, b, m)
             \/ \E t \in Task, b \in Box : Receives(t, b)
             \/ \E t \in Task, side \in {"send", "recv"}, b \in Box, m \in Msg : Blocks(t, side, b, m)
    BY <1>1, <2>2 DEF Sends, Receives, Blocks
  <2> QED BY <1>2, <2>1, <2>2, Steps
<1>3. CASE UNCHANGED vars
  BY <1>1, <1>3 DEF vars
<1> QED BY <1>2, <1>3

\* Two handles to one box are for one name.
LEMMA OneNameEach ==
  ASSUME TypeOK, NamesHeld, NEW t \in Task, NEW n \in Name, handle[t][n] # NULL,
         NEW u \in Task, NEW m \in Name, handle[u][m] = handle[t][n]
  PROVE  n = m
<1>1. PICK b \in Box : b = handle[t][n]
  BY DEF TypeOK
<1>2. name[b] \in {n, Mangled} /\ name[b] \in {m, Mangled}
  BY <1>1 DEF NamesHeld
<1>3. CASE name[b] = Mangled
  <2>1. <<t, n>> \in Users(b) /\ <<u, m>> \in Users(b)
    BY <1>1 DEF Users
  <2> QED BY <1>3, <2>1 DEF NamesHeld
<1> QED BY <1>2, <1>3

\* Whatever names are opened and closed in whatever order: a box is one name's,
\* those who have a name open share its box unless one of them got a mangled one,
\* and exactly the last close frees it (mbox.c:65-109).
THEOREM BoxesAlwaysShared ==
  ASSUME FewUsers PROVE Spec => []BoxesShared
<1>1. Init => NamesHeld
  BY NamesInit
<1>2. TypeOK /\ NamesHeld /\ [Next]_vars => NamesHeld'
  BY NamesNext
<1>3. ASSUME TypeOK, NamesHeld PROVE BoxesShared
  <2>1. ASSUME NEW t \in Task, NEW u \in Task, NEW n \in Name, NEW m \in Name,
               handle[t][n] # NULL, handle[u][m] # NULL
        PROVE  IF handle[t][n] = handle[u][m] THEN n = m
               ELSE n = m => Mangled \in {name[handle[t][n]], name[handle[u][m]]}
    <3>1. CASE handle[t][n] = handle[u][m]
      BY <1>3, <2>1, <3>1, OneNameEach
    <3>2. CASE handle[t][n] # handle[u][m]
      <4>1. handle[t][n] \in Box /\ handle[u][m] \in Box
        BY <1>3, <2>1 DEF TypeOK
      <4> QED BY <1>3, <2>1, <3>2, <4>1 DEF NamesHeld
    <3> QED BY <3>1, <3>2
  <2>2. ASSUME NEW b \in Box
        PROVE  num_of_users[b] = Cardinality(Users(b)) /\ (unused[b] <=> Users(b) = {})
    BY <1>3, UnusedFree DEF NamesHeld
  <2> QED BY <2>1, <2>2 DEF BoxesShared
<1> QED BY <1>1, <1>2, <1>3, TypeCorrect, PTL DEF Spec

-----------------------------------------------------------------------------
(* Where a task inside mbox_send() or mbox_recv() is. *)

Side(s, n) == IF s = "send" THEN Senders[n] ELSE Receivers[n]

Waiting ==
  /\ \A t \in Task : at[t] # "none" => \E n \in Name : handle[t][n] = arg[t][1] /\ t \in Side(at[t], n)
  /\ \A t \in Task : status[t] = "BLOCKED" =>
       at[t] # "none" /\ InQueue(queue, <<at[t], arg[t][1]>>, t)
  /\ \A q \in Queue : \A t \in Task : InQueue(queue, q, t) =>
       status[t] = "BLOCKED" /\ at[t] = q[1] /\ arg[t][1] = q[2]

LEMMA WaitingInit == ASSUME Init PROVE Waiting
<1>1. \A t \in Task : at[t] = "none" /\ status[t] = "READY"
  BY DEF Init
<1>2. \A q \in Queue : queue[q] = <<>>
  BY DEF Init
<1>3. \A q \in Queue : \A t \in Task : ~InQueue(queue, q, t)
  BY <1>2 DEF InQueue
<1> QED BY <1>1, <1>3 DEF Waiting

\* Waking the other side of a box: exactly the tasks in the queue become ready.
LEMMA WakeWaiting ==
  ASSUME TypeOK, Waiting, NEW t \in Task, NEW q \in Queue, status[t] = "READY",
         Wake(t, q), UNCHANGED handle
  PROVE  /\ Waiting'
         /\ at'[t] = "none" /\ status'[t] = "READY"
         /\ \A u \in Task : u # t => at'[u] = at[u] /\ arg'[u] = arg[u]
         /\ \A u \in Task : status'[u] = IF InQueue(queue, q, u) THEN "READY" ELSE status[u]
<1>1. /\ at'[t] = "none"
      /\ \A u \in Task : u # t => at'[u] = at[u] /\ arg'[u] = arg[u]
      /\ \A u \in Task : status'[u] = IF InQueue(queue, q, u) THEN "READY" ELSE status[u]
  BY DEF Wake, TypeOK
<1>2. queue' = Flush(queue, q) /\ queue \in [Queue -> Seq(Task)]
  BY DEF Wake, TypeOK
<1>3. \A r \in Queue : \A u : InQueue(queue', r, u) <=> InQueue(queue, r, u) /\ r # q
  BY <1>2, FlushIn
<1>4. status'[t] = "READY"
  BY <1>1
<1>5. ASSUME NEW u \in Task, at'[u] # "none"
      PROVE  \E n \in Name : handle'[u][n] = arg'[u][1] /\ u \in Side(at'[u], n)
  <2>1. u # t
    BY <1>1, <1>5
  <2> QED BY <1>1, <1>5, <2>1 DEF Waiting
<1>6. ASSUME NEW r \in Queue, NEW u \in Task, InQueue(queue', r, u)
      PROVE  status'[u] = "BLOCKED" /\ at'[u] = r[1] /\ arg'[u][1] = r[2]
  <2>1. InQueue(queue, r, u) /\ r # q
    BY <1>3, <1>6
  <2>2. status[u] = "BLOCKED" /\ at[u] = r[1] /\ arg[u][1] = r[2] /\ u # t
    BY <2>1 DEF Waiting
  <2>3. r = <<r[1], r[2]>> /\ q = <<q[1], q[2]>>
    BY DEF Queue
  <2>4. ~InQueue(queue, q, u)
    BY <2>1, <2>2, <2>3 DEF Waiting
  <2> QED BY <1>1, <2>2, <2>4
<1>7. ASSUME NEW u \in Task, status'[u] = "BLOCKED"
      PROVE  at'[u] # "none" /\ InQueue(queue', <<at'[u], arg'[u][1]>>, u)
  <2>1. ~InQueue(queue, q, u) /\ status[u] = "BLOCKED" /\ u # t
    BY <1>1, <1>7
  <2>2. at[u] # "none" /\ InQueue(queue, <<at[u], arg[u][1]>>, u)
    BY <2>1 DEF Waiting
  <2>3. at[u] \in {"send", "recv"} /\ arg[u] \in Box \X Msg
    BY <2>2 DEF TypeOK
  <2>4. <<at[u], arg[u][1]>> \in Queue /\ <<at[u], arg[u][1]>> # q
    BY <2>1, <2>2, <2>3 DEF Queue
  <2> QED BY <1>1, <1>3, <2>1, <2>2, <2>4
<1>8. Waiting'
  BY <1>5, <1>6, <1>7 DEF Waiting
<1> QED BY <1>1, <1>4, <1>8

LEMMA BlockWaiting ==
  ASSUME TypeOK, Waiting, NEW t \in Task, NEW side \in {"send", "recv"}, NEW b \in Box, NEW m \in Msg,
         Blocks(t, side, b, m)
  PROVE  /\ Waiting'
         /\ status' = [status EXCEPT ![t] = "BLOCKED"]
         /\ at'[t] = side /\ arg'[t] = <<b, m>>
         /\ \A u \in Task : u # t => at'[u] = at[u] /\ arg'[u] = arg[u]
<1>1. /\ at'[t] = side /\ arg'[t] = <<b, m>> /\ status'[t] = "BLOCKED"
      /\ \A u \in Task : u # t => at'[u] = at[u] /\ arg'[u] = arg[u] /\ status'[u] = status[u]
      /\ status' = [status EXCEPT ![t] = "BLOCKED"]
  BY DEF Blocks, Wait, TypeOK
<1>2. <<side, b>> \in Queue /\ queue \in [Queue -> Seq(Task)] /\ queue' = Enqueue(queue, <<side, b>>, t)
  BY DEF Queue, Blocks, Wait, TypeOK
<1>3. \A r \in Queue : \A u : InQueue(queue', r, u) <=> InQueue(queue, r, u) \/ (r = <<side, b>> /\ u = t)
  <2>1. PICK q \in Queue : q = <<side, b>>
    BY <1>2
  <2>2. \A r \in Queue : \A u : InQueue(Enqueue(queue, q, t), r, u) <=> InQueue(queue, r, u) \/ (r = q /\ u = t)
    BY <1>2, EnqueueIn
  <2> QED BY <1>2, <2>1, <2>2
<1>4. status[t] = "READY" /\ handle' = handle
  BY DEF Blocks
<1>5. ASSUME NEW u \in Task, at'[u] # "none"
      PROVE  \E n \in Name : handle'[u][n] = arg'[u][1] /\ u \in Side(at'[u], n)
  <2>1. CASE u = t
    BY <1>1, <1>4, <2>1 DEF Blocks, Side
  <2>2. CASE u # t
    BY <1>1, <1>4, <1>5, <2>2 DEF Waiting
  <2> QED BY <2>1, <2>2
<1>6. ASSUME NEW r \in Queue, NEW u \in Task, InQueue(queue', r, u)
      PROVE  status'[u] = "BLOCKED" /\ at'[u] = r[1] /\ arg'[u][1] = r[2]
  <2>1. CASE InQueue(queue, r, u)
    <3>1. status[u] = "BLOCKED" /\ at[u] = r[1] /\ arg[u][1] = r[2] /\ u # t
      BY <1>4, <2>1 DEF Waiting
    <3> QED BY <1>1, <3>1
  <2>2. CASE r = <<side, b>> /\ u = t
    BY <1>1, <2>2
  <2> QED BY <1>3, <1>6, <2>1, <2>2
<1>7. ASSUME NEW u \in Task, status'[u] = "BLOCKED"
      PROVE  at'[u] # "none" /\ InQueue(queue', <<at'[u], arg'[u][1]>>, u)
  <2>1. CASE u = t
    BY <1>1, <1>2, <1>3, <2>1
  <2>2. CASE u # t
    <3>1. at[u] # "none" /\ InQueue(queue, <<at[u], arg[u][1]>>, u)
      BY <1>1, <1>7, <2>2 DEF Waiting
    <3>2. at[u] \in {"send", "recv"} /\ arg[u] \in Box \X Msg
      BY <3>1 DEF TypeOK
    <3>3. <<at[u], arg[u][1]>> \in Queue
      BY <3>2 DEF Queue
    <3> QED BY <1>1, <1>3, <2>2, <3>1, <3>3
  <2> QED BY <2>1, <2>2
<1>8. Waiting'
  BY <1>5, <1>6, <1>7 DEF Waiting
<1> QED BY <1>1, <1>8

\* Nobody else is in the queues of a box that the last user closes.
LEMMA CloseWaiting ==
  ASSUME FewUsers, TypeOK, NamesHeld, Waiting, NEW t \in Task, NEW n \in Name, Close(t, n)
  PROVE  Waiting' /\ UNCHANGED tasks
<1>1. PICK b \in Box : b = handle[t][n]
  BY DEF Close, TypeOK
<1>2. /\ at[t] = "none" /\ UNCHANGED tasks
      /\ handle' = [handle EXCEPT ![t][n] = NULL]
      /\ IF LastUser(b) THEN queue' = Flush(Flush(queue, <<"send", b>>), <<"recv", b>>)
                        ELSE queue' = queue
  BY <1>1 DEF Close
<1>3. \A u \in Task : u # t => handle'[u] = handle[u]
  BY <1>2 DEF TypeOK
<1>4. \A q \in Queue : \A u \in Task : InQueue(queue', q, u) <=> InQueue(queue, q, u)
  <2>1. CASE LastUser(b)
    <3>1. ASSUME NEW s \in {"send", "recv"}, NEW u \in Task, InQueue(queue, <<s, b>>, u) PROVE FALSE
      <4>1. <<s, b>> \in Queue
        BY DEF Queue
      <4>2. at[u] = s /\ arg[u][1] = b
        BY <3>1, <4>1 DEF Waiting
      <4>3. PICK m \in Name : handle[u][m] = b
        BY <4>2 DEF Waiting
      <4>4. u = t
        BY <1>1, <2>1, <4>3, LastUserAlone
      <4> QED BY <1>2, <4>2, <4>4
    <3>2. <<"send", b>> \in Queue /\ <<"recv", b>> \in Queue /\ queue \in [Queue -> Seq(Task)]
      BY DEF Queue, TypeOK
    <3>3. PICK q1 : q1 = Flush(queue, <<"send", b>>)
      OBVIOUS
    <3>4. /\ q1 \in [Queue -> Seq(Task)]
          /\ \A r \in Queue : \A u : InQueue(q1, r, u) <=> InQueue(queue, r, u) /\ r # <<"send", b>>
      BY <3>2, <3>3, FlushIn
    <3>5. \A r \in Queue : \A u : InQueue(Flush(q1, <<"recv", b>>), r, u) <=> InQueue(q1, r, u) /\ r # <<"recv", b>>
      BY <3>2, <3>4, FlushIn
    <3>6. queue' = Flush(q1, <<"recv", b>>)
      BY <1>2, <2>1, <3>3
    <3>7. \A u \in Task : ~InQueue(queue, <<"send", b>>, u) /\ ~InQueue(queue, <<"recv", b>>, u)
      BY <3>1
    <3> QED BY <3>4, <3>5, <3>6, <3>7
  <2>2. CASE ~LastUser(b)
    BY <1>2, <2>2
  <2> QED BY <2>1, <2>2
<1>5. \A u \in Task : at'[u] # "none" =>
        \E m \in Name : handle'[u][m] = arg'[u][1] /\ u \in Side(at'[u], m)
  BY <1>2, <1>3 DEF Waiting, tasks
<1>6. \A u \in Task : status'[u] = "BLOCKED" =>
        at'[u] # "none" /\ InQueue(queue', <<at'[u], arg'[u][1]>>, u)
  <2> SUFFICES ASSUME NEW u \in Task, status[u] = "BLOCKED"
               PROVE  at[u] # "none" /\ InQueue(queue', <<at[u], arg[u][1]>>, u)
    BY <1>2 DEF tasks
  <2>1. at[u] # "none" /\ InQueue(queue, <<at[u], arg[u][1]>>, u)
    BY DEF Waiting
  <2>2. at[u] \in {"send", "recv"} /\ arg[u] \in Box \X Msg
    BY <2>1 DEF TypeOK
  <2>3. <<at[u], arg[u][1]>> \in Queue
    BY <2>2 DEF Queue
  <2> QED BY <1>4, <2>1, <2>3
<1>7. \A q \in Queue : \A u \in Task : InQueue(queue', q, u) =>
        status'[u] = "BLOCKED" /\ at'[u] = q[1] /\ arg'[u][1] = q[2]
  BY <1>2, <1>4 DEF Waiting, tasks
<1> QED BY <1>2, <1>5, <1>6, <1>7 DEF Waiting

LEMMA OpenWaiting ==
  ASSUME TypeOK, Waiting, NEW t \in Task, NEW n \in Name, Open(t, n)
  PROVE  Waiting' /\ UNCHANGED tasks
<1>1. at[t] = "none" /\ UNCHANGED <<queue, status, at, arg>>
  BY DEF Open, tasks
<1>2. \A u \in Task : u # t => handle'[u] = handle[u]
  BY DEF Open, TypeOK
<1>3. \A u \in Task : at'[u] # "none" =>
        \E m \in Name : handle'[u][m] = arg'[u][1] /\ u \in Side(at'[u], m)
  BY <1>1, <1>2 DEF Waiting
<1> QED BY <1>1, <1>3 DEF Waiting, tasks

-----------------------------------------------------------------------------
(* The counters, which wrap round. *)

LEMMA Wrap ==
  ASSUME NEW M \in Nat \ {0}, NEW a \in Nat, a < M + M
  PROVE  a % M = IF a < M THEN a ELSE a - M
<1>1. CASE a < M
  BY <1>1
<1>2. CASE a >= M
  <2>1. a - M \in 0 .. M - 1
    BY <1>2
  <2> QED BY <1>2, <2>1
<1> QED BY <1>1, <1>2

\* One more in the box, one less, and what full and empty mean: r has been read
\* and w written, modulo M.
Ahead(M, C, r, w, d) ==
  /\ d = (w - r) % M
  /\ w = IF r + d < M THEN r + d ELSE r + d - M
  /\ (r + C) % M = w <=> d = C
  /\ r = w <=> d = 0
  /\ d < C => (((w + 1) % M) - r) % M = d + 1
  /\ d > 0 => (w - ((r + 1) % M)) % M = d - 1

LEMMA CountNumbers ==
  ASSUME NEW M \in Nat \ {0}, NEW C \in Nat \ {0}, C < M, NEW r \in 0 .. M - 1, NEW w \in 0 .. M - 1
  PROVE  \E d \in 0 .. M - 1 : Ahead(M, C, r, w, d)
<1>0. PICK d : d = (w - r) % M
  OBVIOUS
<1>1. d = IF w >= r THEN w - r ELSE w - r + M
  BY <1>0, ModDifference
<1>2. \A a \in Nat : a < M + M => a % M = IF a < M THEN a ELSE a - M
  BY Wrap
<1>3. (r + C) % M = IF r + C < M THEN r + C ELSE r + C - M
  <2>1. r + C \in Nat /\ r + C < M + M
    OBVIOUS
  <2> QED BY <1>2, <2>1
<1>4. PICK v : v = (w + 1) % M
  OBVIOUS
<1>5. PICK s : s = (r + 1) % M
  OBVIOUS
<1>6. v = IF w + 1 < M THEN w + 1 ELSE w + 1 - M
  <2>1. w + 1 \in Nat /\ w + 1 < M + M
    OBVIOUS
  <2> QED BY <1>2, <1>4, <2>1
<1>7. s = IF r + 1 < M THEN r + 1 ELSE r + 1 - M
  <2>1. r + 1 \in Nat /\ r + 1 < M + M
    OBVIOUS
  <2> QED BY <1>2, <1>5, <2>1
<1>8. v \in 0 .. M - 1 /\ s \in 0 .. M - 1
  BY <1>6, <1>7
<1>9. (v - r) % M = IF v >= r THEN v - r ELSE v - r + M
  BY <1>8, ModDifference
<1>10. (w - s) % M = IF w >= s THEN w - s ELSE w - s + M
  BY <1>8, ModDifference
<1>11. d \in 0 .. M - 1 /\ w = (IF r + d < M THEN r + d ELSE r + d - M)
  BY <1>1
<1>12. /\ (r + C) % M = w <=> d = C
       /\ r = w <=> d = 0
  BY <1>1, <1>3
<1>13. d < C => (v - r) % M = d + 1
  BY <1>1, <1>6, <1>9
<1>14. d > 0 => (w - s) % M = d - 1
  BY <1>1, <1>7, <1>10
<1> QED BY <1>0, <1>4, <1>5, <1>11, <1>12, <1>13, <1>14 DEF Ahead

LEMMA CountFacts ==
  ASSUME TypeOK, NEW b \in Box
  PROVE  /\ Count(b) \in Nat
         /\ IsFull(b) <=> Count(b) = Capacity
         /\ IsEmpty(b) <=> Count(b) = 0
<1>0. Modulus \in Nat \ {0} /\ Capacity \in Nat \ {0} /\ Capacity < Modulus
  BY Counters
<1>1. PICK r \in 0 .. Modulus - 1 : r = read_num[b]
  BY DEF TypeOK
<1>2. PICK w \in 0 .. Modulus - 1 : w = write_num[b]
  BY DEF TypeOK
<1>3. PICK d \in 0 .. Modulus - 1 : Ahead(Modulus, Capacity, r, w, d)
  BY <1>0, CountNumbers
<1> QED BY <1>0, <1>1, <1>2, <1>3 DEF Ahead, Count, IsFull, IsEmpty

LEMMA WriteCount ==
  ASSUME TypeOK, NEW t \in Task, NEW b \in Box, NEW m, Write(t, b, m), Count(b) < Capacity
  PROVE  /\ Count(b)' = Count(b) + 1
         /\ \A c \in Box : c # b => Count(c)' = Count(c)
<1>0. Modulus \in Nat \ {0} /\ Capacity \in Nat \ {0} /\ Capacity < Modulus
  BY Counters
<1>1. PICK r \in 0 .. Modulus - 1 : r = read_num[b]
  BY DEF TypeOK
<1>2. PICK w \in 0 .. Modulus - 1 : w = write_num[b]
  BY DEF TypeOK
<1>3. PICK d \in 0 .. Modulus - 1 : Ahead(Modulus, Capacity, r, w, d)
  BY <1>0, CountNumbers
<1>5. /\ read_num' = read_num /\ write_num'[b] = (w + 1) % Modulus
      /\ \A c \in Box : c # b => write_num'[c] = write_num[c]
  BY <1>2 DEF Write, TypeOK
<1>6. Count(b) = d /\ Count(b)' = (((w + 1) % Modulus) - r) % Modulus
  BY <1>1, <1>2, <1>3, <1>5 DEF Ahead, Count
<1> QED BY <1>3, <1>5, <1>6 DEF Ahead, Count

LEMMA ReadCount ==
  ASSUME TypeOK, NEW t \in Task, NEW b \in Box, Read(t, b), Count(b) > 0
  PROVE  /\ Count(b)' = Count(b) - 1
         /\ \A c \in Box : c # b => Count(c)' = Count(c)
<1>0. Modulus \in Nat \ {0} /\ Capacity \in Nat \ {0} /\ Capacity < Modulus
  BY Counters
<1>1. PICK r \in 0 .. Modulus - 1 : r = read_num[b]
  BY DEF TypeOK
<1>2. PICK w \in 0 .. Modulus - 1 : w = write_num[b]
  BY DEF TypeOK
<1>3. PICK d \in 0 .. Modulus - 1 : Ahead(Modulus, Capacity, r, w, d)
  BY <1>0, CountNumbers
<1>5. /\ write_num' = write_num /\ read_num'[b] = (r + 1) % Modulus
      /\ \A c \in Box : c # b => read_num'[c] = read_num[c]
  BY <1>1 DEF Read, TypeOK
<1>6. Count(b) = d /\ Count(b)' = (w - ((r + 1) % Modulus)) % Modulus
  BY <1>1, <1>2, <1>3, <1>5 DEF Ahead, Count
<1> QED BY <1>3, <1>5, <1>6 DEF Ahead, Count

\* What a task that waits, or was woken, may rely on.
Reliable(t) ==
  /\ at[t] = "send" =>
       IF status[t] = "BLOCKED" THEN Count(arg[t][1]) = Capacity ELSE Count(arg[t][1]) < Capacity
  /\ at[t] = "recv" =>
       IF status[t] = "BLOCKED" THEN Count(arg[t][1]) = 0 ELSE Count(arg[t][1]) > 0

Counted ==
  /\ \A b \in Box : Count(b) <= Capacity
  /\ \A t \in Task : Reliable(t)

LEMMA CountedInit == ASSUME Init PROVE Counted
<1>1. TypeOK
  BY TypeInit
<1>2. \A b \in Box : IsEmpty(b)
  BY DEF Init, IsEmpty
<1>3. \A b \in Box : Count(b) = 0
  BY <1>1, <1>2, CountFacts
<1>4. \A t \in Task : at[t] = "none"
  BY DEF Init
<1> QED BY <1>3, <1>4, Counters DEF Counted, Reliable

\* Two tasks that use a box from the same side are one.
LEMMA OneOnASide ==
  ASSUME OneEach, TypeOK, NamesHeld, NEW s \in {"send", "recv"}, NEW b \in Box,
         NEW t \in Task, NEW n \in Name, handle[t][n] = b, t \in Side(s, n),
         NEW u \in Task, NEW m \in Name, handle[u][m] = b, u \in Side(s, m)
  PROVE  t = u
<1>1. b # NULL
  BY MboxAssumption
<1>2. n = m
  BY <1>1, OneNameEach
<1> QED BY <1>2 DEF OneEach, Side

\* A task that sends has room, and is the sender of its box.
LEMMA SendsHasRoom ==
  ASSUME TypeOK, Waiting, Counted, NEW t \in Task, NEW b \in Box, NEW m \in Msg, Sends(t, b, m)
  PROVE  Count(b) < Capacity /\ \E n \in Name : handle[t][n] = b /\ t \in Side("send", n)
<1>1. CASE at[t] = "send" /\ b = arg[t][1]
  <2>1. Count(b) < Capacity
    BY <1>1 DEF Sends, Counted, Reliable
  <2>2. \E n \in Name : handle[t][n] = b /\ t \in Side("send", n)
    BY <1>1 DEF Waiting
  <2> QED BY <2>1, <2>2
<1>2. CASE ~IsFull(b) /\ \E n \in Name : b = handle[t][n] /\ t \in Senders[n]
  <2>1. Count(b) \in Nat /\ Count(b) # Capacity /\ Count(b) <= Capacity
    BY <1>2, CountFacts DEF Counted
  <2>2. Count(b) < Capacity
    BY <2>1, Counters
  <2> QED BY <1>2, <2>2 DEF Side
<1> QED BY <1>1, <1>2 DEF Sends

LEMMA ReceivesHasMessage ==
  ASSUME TypeOK, Waiting, Counted, NEW t \in Task, NEW b \in Box, Receives(t, b)
  PROVE  Count(b) > 0 /\ \E n \in Name : handle[t][n] = b /\ t \in Side("recv", n)
<1>1. CASE at[t] = "recv" /\ b = arg[t][1]
  <2>1. Count(b) > 0
    BY <1>1 DEF Receives, Counted, Reliable
  <2>2. \E n \in Name : handle[t][n] = b /\ t \in Side("recv", n)
    BY <1>1 DEF Waiting, Side
  <2> QED BY <2>1, <2>2
<1>2. CASE ~IsEmpty(b) /\ \E n \in Name : b = handle[t][n] /\ t \in Receivers[n]
  <2>1. Count(b) > 0
    BY <1>2, CountFacts
  <2> QED BY <1>2, <2>1 DEF Side
<1> QED BY <1>1, <1>2 DEF Receives

LEMMA SendCounted ==
  ASSUME OneEach, TypeOK, NamesHeld, Waiting, Counted,
         NEW t \in Task, NEW b \in Box, NEW m \in Msg, Sends(t, b, m)
  PROVE  Counted'
<1>0. PICK q \in Queue : q = <<"recv", b>>
  BY DEF Queue
<1>1. /\ at'[t] = "none"
      /\ \A u \in Task : u # t => at'[u] = at[u] /\ arg'[u] = arg[u]
      /\ \A u \in Task : status'[u] = IF InQueue(queue, q, u) THEN "READY" ELSE status[u]
  BY <1>0, WakeWaiting DEF Sends, Write
<1>2. PICK n \in Name : handle[t][n] = b /\ t \in Side("send", n)
  BY SendsHasRoom
<1>3. Count(b) < Capacity
  BY SendsHasRoom
<1>4. Count(b)' = Count(b) + 1 /\ \A c \in Box : c # b => Count(c)' = Count(c)
  BY <1>3, WriteCount DEF Sends
<1>5. Count(b) \in Nat /\ Capacity \in Nat
  BY CountFacts, Counters
<1>6. \A c \in Box : Count(c)' <= Capacity
  BY <1>3, <1>4, <1>5 DEF Counted
<1>7. ASSUME NEW u \in Task PROVE Reliable(u)'
  <2>1. CASE at'[u] = "none"
    BY <2>1 DEF Reliable
  <2>2. CASE at'[u] # "none"
    <3>1. u # t /\ at'[u] = at[u] /\ arg'[u] = arg[u] /\ at[u] \in {"send", "recv"}
      BY <1>1, <2>2 DEF TypeOK
    <3>2. PICK k \in Name : handle[u][k] = arg[u][1] /\ u \in Side(at[u], k)
      BY <3>1 DEF Waiting
    <3>3. arg[u][1] \in Box
      BY <3>1 DEF TypeOK
    <3>4. Reliable(u)
      BY DEF Counted
    <3>5. CASE arg[u][1] # b
      <4>1. ~InQueue(queue, q, u)
        BY <1>0, <3>5 DEF Waiting
      <4>2. status'[u] = status[u] /\ Count(arg[u][1])' = Count(arg[u][1])
        BY <1>1, <1>4, <3>1, <3>3, <3>5, <4>1
      <4> QED BY <3>1, <3>4, <4>2 DEF Reliable
    <3>6. CASE arg[u][1] = b /\ at[u] = "send"
      BY <1>2, <3>1, <3>2, <3>6, OneOnASide
    <3>7. CASE arg[u][1] = b /\ at[u] = "recv"
      <4>1. status[u] = "BLOCKED" => InQueue(queue, q, u)
        BY <1>0, <3>7 DEF Waiting
      <4>2. status'[u] # "BLOCKED"
        BY <1>1, <4>1
      <4>3. Count(arg[u][1])' > 0
        BY <1>4, <1>5, <3>1, <3>7
      <4> QED BY <3>1, <3>7, <4>2, <4>3 DEF Reliable
    <3> QED BY <3>1, <3>5, <3>6, <3>7
  <2> QED BY <2>1, <2>2
<1> QED BY <1>6, <1>7 DEF Counted

LEMMA ReceiveCounted ==
  ASSUME OneEach, TypeOK, NamesHeld, Waiting, Counted,
         NEW t \in Task, NEW b \in Box, Receives(t, b)
  PROVE  Counted'
<1>0. PICK q \in Queue : q = <<"send", b>>
  BY DEF Queue
<1>1. /\ at'[t] = "none"
      /\ \A u \in Task : u # t => at'[u] = at[u] /\ arg'[u] = arg[u]
      /\ \A u \in Task : status'[u] = IF InQueue(queue, q, u) THEN "READY" ELSE status[u]
  BY <1>0, WakeWaiting DEF Receives, Read
<1>2. PICK n \in Name : handle[t][n] = b /\ t \in Side("recv", n)
  BY ReceivesHasMessage
<1>3. Count(b) > 0
  BY ReceivesHasMessage
<1>4. Count(b)' = Count(b) - 1 /\ \A c \in Box : c # b => Count(c)' = Count(c)
  BY <1>3, ReadCount DEF Receives
<1>5. Count(b) \in Nat /\ Capacity \in Nat /\ Count(b) <= Capacity
  BY CountFacts, Counters DEF Counted
<1>6. \A c \in Box : Count(c)' <= Capacity
  BY <1>4, <1>5 DEF Counted
<1>7. ASSUME NEW u \in Task PROVE Reliable(u)'
  <2>1. CASE at'[u] = "none"
    BY <2>1 DEF Reliable
  <2>2. CASE at'[u] # "none"
    <3>1. u # t /\ at'[u] = at[u] /\ arg'[u] = arg[u] /\ at[u] \in {"send", "recv"}
      BY <1>1, <2>2 DEF TypeOK
    <3>2. PICK k \in Name : handle[u][k] = arg[u][1] /\ u \in Side(at[u], k)
      BY <3>1 DEF Waiting
    <3>3. arg[u][1] \in Box
      BY <3>1 DEF TypeOK
    <3>4. Reliable(u)
      BY DEF Counted
    <3>5. CASE arg[u][1] # b
      <4>1. ~InQueue(queue, q, u)
        BY <1>0, <3>5 DEF Waiting
      <4>2. status'[u] = status[u] /\ Count(arg[u][1])' = Count(arg[u][1])
        BY <1>1, <1>4, <3>1, <3>3, <3>5, <4>1
      <4> QED BY <3>1, <3>4, <4>2 DEF Reliable
    <3>6. CASE arg[u][1] = b /\ at[u] = "recv"
      BY <1>2, <3>1, <3>2, <3>6, OneOnASide
    <3>7. CASE arg[u][1] = b /\ at[u] = "send"
      <4>1. status[u] = "BLOCKED" => InQueue(queue, q, u)
        BY <1>0, <3>7 DEF Waiting
      <4>2. status'[u] # "BLOCKED"
        BY <1>1, <4>1
      <4>3. Count(arg[u][1])' < Capacity
        BY <1>4, <1>5, <3>1, <3>7
      <4> QED BY <3>1, <3>7, <4>2, <4>3 DEF Reliable
    <3> QED BY <3>1, <3>5, <3>6, <3>7
  <2> QED BY <2>1, <2>2
<1> QED BY <1>6, <1>7 DEF Counted

LEMMA BlockCounted ==
  ASSUME TypeOK, Waiting, Counted,
         NEW t \in Task, NEW side \in {"send", "recv"}, NEW b \in Box, NEW m \in Msg, Blocks(t, side, b, m)
  PROVE  Counted'
<1>1. /\ status' = [status EXCEPT ![t] = "BLOCKED"]
      /\ at'[t] = side /\ arg'[t] = <<b, m>>
      /\ \A u \in Task : u # t => at'[u] = at[u] /\ arg'[u] = arg[u]
  BY BlockWaiting
<1>2. \A c : Count(c)' = Count(c)
  BY DEF Blocks, Wait, data, Count
<1>3. IF side = "send" THEN Count(b) = Capacity ELSE Count(b) = 0
  BY CountFacts DEF Blocks
<1>4. status'[t] = "BLOCKED" /\ \A u \in Task : u # t => status'[u] = status[u]
  BY <1>1 DEF TypeOK
<1>5. Reliable(t)'
  BY <1>1, <1>2, <1>3, <1>4 DEF Reliable
<1>6. \A u \in Task : u # t => Reliable(u)'
  BY <1>1, <1>2, <1>4 DEF Reliable, Counted
<1> QED BY <1>2, <1>5, <1>6 DEF Counted

\* All that is invariant with one sender and one receiver.
Held == NamesHeld /\ Waiting /\ Counted

LEMMA HeldNext ==
  ASSUME FewUsers, OneEach, TypeOK, Held, [Next]_vars
  PROVE  Held'
<1>0. NamesHeld'
  BY NamesNext DEF Held
<1>1. ASSUME UNCHANGED <<tasks, data>> PROVE Counted'
  BY <1>1 DEF tasks, data, Counted, Reliable, Count, Held
<1>2. CASE Next
  <2>1. ASSUME NEW t \in Task, NEW n \in Name, Open(t, n) PROVE Held'
    <3>1. UNCHANGED data
      BY <2>1 DEF Open
    <3> QED BY <1>0, <1>1, <2>1, <3>1, OpenWaiting DEF Held
  <2>2. ASSUME NEW t \in Task, NEW n \in Name, Close(t, n) PROVE Held'
    <3>1. UNCHANGED data
      BY <2>2 DEF Close
    <3> QED BY <1>0, <1>1, <2>2, <3>1, CloseWaiting DEF Held
  <2>3. ASSUME NEW t \in Task, NEW b \in Box, NEW m \in Msg, Sends(t, b, m) PROVE Held'
    <3>1. <<"recv", b>> \in Queue /\ Wake(t, <<"recv", b>>) /\ status[t] = "READY" /\ UNCHANGED handle
      BY <2>3 DEF Queue, Sends, Write
    <3>2. Waiting'
      BY <3>1, WakeWaiting DEF Held
    <3> QED BY <1>0, <2>3, <3>2, SendCounted DEF Held
  <2>4. ASSUME NEW t \in Task, NEW b \in Box, Receives(t, b) PROVE Held'
    <3>1. <<"send", b>> \in Queue /\ Wake(t, <<"send", b>>) /\ status[t] = "READY" /\ UNCHANGED handle
      BY <2>4 DEF Queue, Receives, Read
    <3>2. Waiting'
      BY <3>1, WakeWaiting DEF Held
    <3> QED BY <1>0, <2>4, <3>2, ReceiveCounted DEF Held
  <2>5. ASSUME NEW t \in Task, NEW side \in {"send", "recv"}, NEW b \in Box, NEW m \in Msg,
               Blocks(t, side, b, m)
        PROVE  Held'
    BY <1>0, <2>5, BlockWaiting, BlockCounted DEF Held
  <2> QED BY <1>2, <2>1, <2>2, <2>3, <2>4, <2>5, Steps
<1>3. CASE UNCHANGED vars
  <2>1. UNCHANGED <<tasks, data, queue, handle>>
    BY <1>3 DEF vars
  <2>2. Waiting'
    BY <2>1 DEF Held, Waiting, tasks
  <2> QED BY <1>0, <1>1, <2>1, <2>2 DEF Held
<1> QED BY <1>2, <1>3

LEMMA HeldAlways ==
  ASSUME FewUsers, OneEach PROVE Spec => []Held
<1>1. Init => Held
  BY NamesInit, WaitingInit, CountedInit DEF Held
<1>2. TypeOK /\ Held /\ [Next]_vars => Held'
  BY HeldNext
<1> QED BY <1>1, <1>2, TypeCorrect, PTL DEF Spec

\* With one sender and one receiver: nobody is blocked for no reason, and nobody's
\* queue is freed under it (mbox.c:105-106, 150-151, 162-165, 188-189, 199-202).
THEOREM WaitsHaveCause ==
  ASSUME FewUsers, OneEach PROVE Spec => []WaitsForCause
<1>1. TypeOK /\ Held => WaitsForCause
  <2> SUFFICES ASSUME TypeOK, Held, NEW t \in Task, status[t] = "BLOCKED"
               PROVE  /\ at[t] \in {"send", "recv"} /\ InQueue(queue, <<at[t], arg[t][1]>>, t)
                      /\ IF at[t] = "send" THEN IsFull(arg[t][1]) ELSE IsEmpty(arg[t][1])
    BY DEF WaitsForCause
  <2>1. at[t] # "none" /\ InQueue(queue, <<at[t], arg[t][1]>>, t)
    BY DEF Held, Waiting
  <2>2. at[t] \in {"send", "recv"} /\ arg[t][1] \in Box
    BY <2>1 DEF TypeOK
  <2>3. Reliable(t)
    BY DEF Held, Counted
  <2> QED BY <2>1, <2>2, <2>3, CountFacts DEF Reliable
<1> QED BY <1>1, HeldAlways, TypeCorrect, PTL

\* And nobody reads a box that is empty, or writes over a message, although
\* neither is tested again after block() (mbox.c:162-165, 199-202).
THEOREM NeverReadsEmpty ==
  ASSUME FewUsers, OneEach PROVE Spec => NoEmptyRead
<1>1. ASSUME TypeOK, Held, [Next]_vars, NEW b \in Box, read_num'[b] # read_num[b]
      PROVE  ~IsEmpty(b)
  <2>1. PICK t \in Task, c \in Box : Receives(t, c)
    <3>1. ASSUME UNCHANGED read_num PROVE FALSE
      BY <1>1, <3>1
    <3> QED BY <1>1, <3>1, Steps DEF Open, Close, Sends, Blocks, Write, Wait, data, vars
  <2>2. b = c
    BY <1>1, <2>1 DEF Receives, Read, TypeOK
  <2>3. Count(b) > 0
    BY <1>1, <2>1, <2>2, ReceivesHasMessage DEF Held
  <2> QED BY <1>1, <2>3, CountFacts
<1>2. TypeOK /\ Held /\ [Next]_vars => \A b \in Box : read_num'[b] # read_num[b] => ~IsEmpty(b)
  BY <1>1
<1> QED BY <1>2, HeldAlways, TypeCorrect, PTL DEF Spec, NoEmptyRead

-----------------------------------------------------------------------------
(* The places, which wrap round as well. *)

\* d messages from place r on, of which w is the first free one.
Apart(M, C, r, w, d) ==
  /\ (r + d) % C = w % C
  /\ d < C => \A i \in 1 .. d : (r + i - 1) % C # w % C
  /\ \A i \in 1 .. d : (((r + 1) % M) + i - 1) % C = (r + i) % C

LEMMA PlaceNumbers ==
  ASSUME NEW M \in Nat \ {0}, NEW C \in Nat \ {0}, M % C = 0, NEW r \in 0 .. M - 1, NEW w \in 0 .. M - 1,
         NEW d \in 0 .. M - 1, w = IF r + d < M THEN r + d ELSE r + d - M
  PROVE  Apart(M, C, r, w, d)
<1>1. (r + d) % C = w % C
  <2>1. CASE r + d < M
    BY <2>1
  <2>2. CASE r + d >= M
    <3>1. PICK a \in Nat : a = r + d
      OBVIOUS
    <3>2. (a - M) % C = a % C
      BY <2>2, <3>1, ModShift
    <3> QED BY <2>2, <3>1, <3>2
  <2> QED BY <2>1, <2>2
<1>2. ASSUME d < C, NEW i \in 1 .. d PROVE (r + i - 1) % C # w % C
  <2>1. PICK a \in Nat : a = r + i - 1
    OBVIOUS
  <2>2. PICK b \in Nat : b = r + d
    OBVIOUS
  <2>3. a < b /\ b < a + C
    BY <1>2, <2>1, <2>2
  <2>4. a % C # b % C
    BY <2>3, ModNear
  <2> QED BY <1>1, <2>1, <2>2, <2>4
<1>3. ASSUME NEW i \in 1 .. d PROVE (((r + 1) % M) + i - 1) % C = (r + i) % C
  <2>1. PICK s : s = (r + 1) % M
    OBVIOUS
  <2>2. PICK x \in Nat : x = r + 1 /\ x < M + M
    OBVIOUS
  <2>3. s = IF x < M THEN x ELSE x - M
    BY <2>1, <2>2, Wrap
  <2>4. CASE x < M
    <3>1. s + i - 1 = r + i
      BY <2>2, <2>3, <2>4
    <3> QED BY <2>1, <3>1
  <2>5. CASE x >= M
    <3>1. PICK a \in Nat : a = r + i /\ a >= M
      BY <2>2, <2>5
    <3>2. (a - M) % C = a % C
      BY <3>1, ModShift
    <3>3. s + i - 1 = a - M
      BY <2>2, <2>3, <2>5, <3>1
    <3> QED BY <2>1, <3>1, <3>2, <3>3
  <2> QED BY <2>2, <2>4, <2>5
<1> QED BY <1>1, <1>2, <1>3 DEF Apart

\* Two sequences with the same members in the same places.
LEMMA SameMembers ==
  ASSUME NEW S, NEW x \in Seq(S), NEW y \in Seq(S), Len(x) = Len(y),
         \A i \in 1 .. Len(x) : x[i] = y[i]
  PROVE  x = y
OBVIOUS

\* The counters of one box, by number.
LEMMA BoxNumbers ==
  ASSUME TypeOK, NEW b \in Box
  PROVE  \E r, w, d \in 0 .. Modulus - 1 :
           /\ r = read_num[b] /\ w = write_num[b] /\ d = Count(b)
           /\ Apart(Modulus, Capacity, r, w, d)
<1>0. Modulus \in Nat \ {0} /\ Capacity \in Nat \ {0} /\ Capacity < Modulus /\ Modulus % Capacity = 0
  BY MboxAssumption
<1>1. PICK r \in 0 .. Modulus - 1 : r = read_num[b]
  BY DEF TypeOK
<1>2. PICK w \in 0 .. Modulus - 1 : w = write_num[b]
  BY DEF TypeOK
<1>3. PICK d \in 0 .. Modulus - 1 : Ahead(Modulus, Capacity, r, w, d)
  BY <1>0, CountNumbers
<1>4. d = (w - r) % Modulus /\ w = IF r + d < Modulus THEN r + d ELSE r + d - Modulus
  BY <1>3 DEF Ahead
<1>5. Apart(Modulus, Capacity, r, w, d)
  BY <1>0, <1>4, PlaceNumbers
<1>6. d = Count(b)
  BY <1>1, <1>2, <1>4 DEF Count
<1> QED BY <1>1, <1>2, <1>5, <1>6

LEMMA PlaceOf == \A n \in Nat : n % Capacity \in 0 .. Capacity - 1
BY MboxAssumption

StoredAs(b) ==
  /\ Stored(b) \in Seq(Msg) /\ Len(Stored(b)) = Count(b) /\ Count(b) \in Nat
  /\ \A i \in 1 .. Count(b) : Stored(b)[i] = content[b][(read_num[b] + i - 1) % Capacity]

LEMMA StoredIs ==
  ASSUME TypeOK, NEW b \in Box PROVE StoredAs(b)
<1>1. Count(b) \in Nat
  BY CountFacts
<1>2. ASSUME NEW i \in 1 .. Count(b)
      PROVE  content[b][(read_num[b] + i - 1) % Capacity] \in Msg
  <2>1. PICK a \in Nat : a = read_num[b] + i - 1
    BY <1>1, Counters DEF TypeOK
  <2>2. a % Capacity \in 0 .. Capacity - 1
    BY PlaceOf
  <2>3. content[b] \in [0 .. Capacity - 1 -> Msg]
    BY DEF TypeOK
  <2> QED BY <2>1, <2>2, <2>3
<1>3. Stored(b) \in [1 .. Count(b) -> Msg]
  BY <1>2 DEF Stored
<1> QED BY <1>1, <1>3 DEF Stored, StoredAs

AllStored == \A b \in Box : StoredAs(b)

LEMMA StoredNext == TypeOK' => AllStored'
<1>1. TypeOK => AllStored
  BY StoredIs DEF AllStored
<1> QED BY <1>1, PTL

\* A send adds the message at the end of the box, whatever the counters are.
LEMMA StoredWrite ==
  ASSUME TypeOK, TypeOK', NEW t \in Task, NEW b \in Box, NEW m \in Msg, Write(t, b, m), Count(b) < Capacity
  PROVE  /\ Stored(b)' = Append(Stored(b), m)
         /\ \A c \in Box : c # b => Stored(c)' = Stored(c)
<1>1. PICK r \in 0 .. Modulus - 1, w \in 0 .. Modulus - 1, d \in 0 .. Modulus - 1 :
        /\ r = read_num[b] /\ w = write_num[b] /\ d = Count(b)
        /\ Apart(Modulus, Capacity, r, w, d)
  BY BoxNumbers
<1>2. /\ Count(b)' = d + 1 /\ d < Capacity
      /\ \A c \in Box : c # b => Count(c)' = Count(c)
  BY <1>1, WriteCount
<1>3. /\ read_num' = read_num
      /\ \A c \in Box : c # b => content'[c] = content[c]
  BY DEF Write, TypeOK
<1>4. w % Capacity \in 0 .. Capacity - 1
  BY Counters
<1>5. /\ content'[b][w % Capacity] = m
      /\ \A k \in 0 .. Capacity - 1 : k # w % Capacity => content'[b][k] = content[b][k]
  <2>1. content' = [content EXCEPT ![b][w % Capacity] = m] /\ content[b] \in [0 .. Capacity - 1 -> Msg]
    BY <1>1 DEF Write, TypeOK
  <2> QED BY <1>4, <2>1 DEF TypeOK
<1>6. PICK old \in Seq(Msg) : old = Stored(b) /\ Len(old) = d
        /\ \A i \in 1 .. d : old[i] = content[b][(r + i - 1) % Capacity]
  BY <1>1, StoredIs DEF StoredAs
<1>7. PICK new \in Seq(Msg) : new = Stored(b)' /\ Len(new) = d + 1
        /\ \A i \in 1 .. d + 1 : new[i] = content'[b][(r + i - 1) % Capacity]
  <2>1. /\ Stored(b)' \in Seq(Msg) /\ Len(Stored(b)') = Count(b)'
        /\ \A i \in 1 .. Count(b)' : Stored(b)'[i] = content'[b][(read_num'[b] + i - 1) % Capacity]
    BY StoredNext DEF AllStored, StoredAs
  <2> QED BY <1>1, <1>2, <1>3, <2>1
<1>8. new[d + 1] = m
  <2>1. d + 1 \in 1 .. d + 1 /\ r + (d + 1) - 1 = r + d
    OBVIOUS
  <2>2. (r + d) % Capacity = w % Capacity
    BY <1>1 DEF Apart
  <2> QED BY <1>5, <1>7, <2>1, <2>2
<1>9. ASSUME NEW i \in 1 .. d PROVE new[i] = old[i]
  <2>1. (r + i - 1) % Capacity # w % Capacity
    BY <1>1, <1>2 DEF Apart
  <2>2. PICK a \in Nat : a = r + i - 1
    OBVIOUS
  <2>3. a % Capacity \in 0 .. Capacity - 1
    BY PlaceOf
  <2>4. i \in 1 .. d + 1
    OBVIOUS
  <2> QED BY <1>5, <1>6, <1>7, <2>1, <2>2, <2>3, <2>4
<1>10. new = Append(old, m)
  <2>1. /\ Append(old, m) \in Seq(Msg) /\ Len(Append(old, m)) = d + 1
        /\ \A i \in 1 .. d : Append(old, m)[i] = old[i]
        /\ Append(old, m)[d + 1] = m
    BY <1>6
  <2>2. \A i \in 1 .. d + 1 : i \in 1 .. d \/ i = d + 1
    OBVIOUS
  <2>3. \A i \in 1 .. Len(new) : new[i] = Append(old, m)[i]
    BY <1>7, <1>8, <1>9, <2>1, <2>2
  <2> QED BY <1>7, <2>1, <2>3, SameMembers
<1>11. \A c \in Box : c # b => Stored(c)' = Stored(c)
  BY <1>2, <1>3 DEF Stored
<1> QED BY <1>6, <1>7, <1>10, <1>11

\* A receive takes the oldest one.
LEMMA StoredRead ==
  ASSUME TypeOK, TypeOK', NEW t \in Task, NEW b \in Box, Read(t, b), Count(b) > 0
  PROVE  /\ Stored(b) # <<>> /\ got' = [got EXCEPT ![t] = Head(Stored(b))]
         /\ Stored(b)' = Tail(Stored(b))
         /\ \A c \in Box : c # b => Stored(c)' = Stored(c)
<1>1. PICK r \in 0 .. Modulus - 1, w \in 0 .. Modulus - 1, d \in 0 .. Modulus - 1 :
        /\ r = read_num[b] /\ w = write_num[b] /\ d = Count(b)
        /\ Apart(Modulus, Capacity, r, w, d)
  BY BoxNumbers
<1>2. /\ Count(b)' = d - 1 /\ d > 0
      /\ \A c \in Box : c # b => Count(c)' = Count(c)
  BY <1>1, ReadCount
<1>3. /\ content' = content /\ read_num'[b] = (r + 1) % Modulus
      /\ \A c \in Box : c # b => read_num'[c] = read_num[c]
  BY <1>1 DEF Read, TypeOK
<1>4. PICK old \in Seq(Msg) : old = Stored(b) /\ Len(old) = d
        /\ \A i \in 1 .. d : old[i] = content[b][(r + i - 1) % Capacity]
  BY <1>1, StoredIs DEF StoredAs
<1>5. PICK new \in Seq(Msg) : new = Stored(b)' /\ Len(new) = d - 1
        /\ \A i \in 1 .. d - 1 : new[i] = content[b][(((r + 1) % Modulus) + i - 1) % Capacity]
  <2>1. /\ Stored(b)' \in Seq(Msg) /\ Len(Stored(b)') = Count(b)'
        /\ \A i \in 1 .. Count(b)' : Stored(b)'[i] = content'[b][(read_num'[b] + i - 1) % Capacity]
    BY StoredNext DEF AllStored, StoredAs
  <2> QED BY <1>1, <1>2, <1>3, <2>1
<1>6. old # <<>> /\ Head(old) = content[b][r % Capacity]
  <2>1. 1 \in 1 .. d /\ r + 1 - 1 = r
    BY <1>2
  <2>2. old[1] = content[b][r % Capacity]
    BY <1>4, <2>1
  <2> QED BY <1>2, <1>4, <2>2
<1>7. ASSUME NEW i \in 1 .. d - 1 PROVE new[i] = old[i + 1]
  <2>1. i \in 1 .. d /\ i + 1 \in 1 .. d /\ r + (i + 1) - 1 = r + i
    OBVIOUS
  <2>2. (((r + 1) % Modulus) + i - 1) % Capacity = (r + i) % Capacity
    BY <1>1, <2>1 DEF Apart
  <2> QED BY <1>4, <1>5, <2>1, <2>2
<1>8. new = Tail(old)
  <2>1. /\ Tail(old) \in Seq(Msg) /\ Len(Tail(old)) = d - 1
        /\ \A i \in 1 .. d - 1 : Tail(old)[i] = old[i + 1]
    BY <1>4, <1>6
  <2>2. \A i \in 1 .. Len(new) : new[i] = Tail(old)[i]
    BY <1>5, <1>7, <2>1
  <2> QED BY <1>5, <2>1, <2>2, SameMembers
<1>9. \A c \in Box : c # b => Stored(c)' = Stored(c)
  BY <1>2, <1>3 DEF Stored
<1>10. got' = [got EXCEPT ![t] = Head(old)]
  BY <1>1, <1>6 DEF Read
<1> QED BY <1>4, <1>5, <1>6, <1>8, <1>9, <1>10

\* With one sender and one receiver a box is a bounded buffer, for every capacity
\* and every range of its counters that the capacity divides (mbox.h:19-32): each
\* step is a step of Buffers, or changes nothing there.
THEOREM MboxImplementsBuffers ==
  ASSUME FewUsers, OneEach PROVE Spec => ImplementsBuffers
<1>1. Init => BF!Init
  <2> SUFFICES ASSUME Init PROVE BF!Init
    OBVIOUS
  <2>1. TypeOK /\ \A b \in Box : IsEmpty(b)
    BY TypeInit DEF Init, IsEmpty
  <2>2. ASSUME NEW b \in Box PROVE Stored(b) = <<>>
    <3>1. Stored(b) \in Seq(Msg) /\ Len(Stored(b)) = 0
      BY <2>1, CountFacts, StoredIs DEF StoredAs
    <3> QED BY <3>1
  <2>3. got \in [Task -> Msg]
    BY <2>1 DEF TypeOK
  <2> QED BY <2>2, <2>3 DEF BF!Init, Msg
<1>2. TypeOK /\ TypeOK' /\ Held /\ [Next]_vars => [BF!Next]_BF!vars
  <2> SUFFICES ASSUME TypeOK, TypeOK', Held, [Next]_vars PROVE [BF!Next]_BF!vars
    OBVIOUS
  <2> DEFINE now == [b \in Box |-> Stored(b)]
             next == [b \in Box |-> Stored(b)']
  <2>1. ASSUME UNCHANGED <<data, got>> PROVE [BF!Next]_BF!vars
    <3>1. \A b \in Box : Stored(b)' = Stored(b)
      BY <2>1 DEF data, Stored, Count
    <3> QED BY <2>1, <3>1 DEF BF!vars
  <2>2. ASSUME NEW t \in Task, NEW b \in Box, NEW m \in Msg, Sends(t, b, m)
        PROVE  BF!Next
    <3>1. Count(b) < Capacity
      BY <2>2, SendsHasRoom DEF Held
    <3>2. /\ Stored(b)' = Append(Stored(b), m)
          /\ \A c \in Box : c # b => Stored(c)' = Stored(c)
      BY <2>2, <3>1, StoredWrite DEF Sends
    <3>3. Len(now[b]) < Capacity
      BY <3>1, StoredIs DEF StoredAs
    <3>4. next = [now EXCEPT ![b] = Append(@, m)]
      BY <3>2
    <3>5. got' = got
      BY <2>2 DEF Sends, Write
    <3>6. BF!Put(b, m)
      BY <3>3, <3>4, <3>5 DEF BF!Put
    <3> QED BY <3>6 DEF BF!Next, Msg
  <2>3. ASSUME NEW t \in Task, NEW b \in Box, Receives(t, b)
        PROVE  BF!Next
    <3>1. Count(b) > 0
      BY <2>3, ReceivesHasMessage DEF Held
    <3>2. /\ Stored(b) # <<>> /\ got' = [got EXCEPT ![t] = Head(Stored(b))]
          /\ Stored(b)' = Tail(Stored(b))
          /\ \A c \in Box : c # b => Stored(c)' = Stored(c)
      BY <2>3, <3>1, StoredRead DEF Receives
    <3>3. next = [now EXCEPT ![b] = Tail(@)] /\ now[b] = Stored(b)
      BY <3>2
    <3>4. BF!Take(b, t)
      BY <3>2, <3>3 DEF BF!Take
    <3> QED BY <3>4 DEF BF!Next
  <2>4. CASE Next
    <3>1. CASE \E t \in Task, n \in Name : Open(t, n) \/ Close(t, n)
      BY <2>1, <3>1 DEF Open, Close
    <3>2. CASE \E t \in Task, side \in {"send", "recv"}, b \in Box, m \in Msg : Blocks(t, side, b, m)
      BY <2>1, <3>2 DEF Blocks, Wait
    <3> QED BY <2>2, <2>3, <2>4, <3>1, <3>2, Steps
  <2>5. CASE UNCHANGED vars
    BY <2>1, <2>5 DEF vars
  <2> QED BY <2>4, <2>5
<1> QED BY <1>1, <1>2, HeldAlways, TypeCorrect, PTL DEF Spec, ImplementsBuffers, BF!Spec
=============================================================================
