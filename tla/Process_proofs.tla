--------------------------- MODULE Process_proofs ---------------------------
(***************************************************************************)
(* Theorems about do_spawn(), do_kill() and do_wait(), for every number of *)
(* entries of the process table, of boxes and of spawned tasks and for all *)
(* programs.  They say what holds until a task that is in no queue is      *)
(* killed, or a waitqueue initialised that tasks are in: from then on      *)
(* nothing holds, as the process_kill run shows.                           *)
(*                                                                         *)
(* Located says where every task is: W[h] are the tasks in the list of h.  *)
(* What the fields of the nodes must be for that is left to QueueLemmas.    *)
(***************************************************************************)
EXTENDS Process, QueueLemmas

Ready == {"FIRST_TIME", "READY"}

TypeOK ==
  /\ status \in [Slot -> Ready \cup {"SLEEPING", "BLOCKED", "EXITED"}]
  /\ pid \in [Slot -> Nat] /\ spawn_times \in Nat
  /\ current \in Slot \cup {NULL}
  /\ using_box \in [Slot -> SUBSET Box] /\ open \in [Slot -> SUBSET Box]
  /\ num_of_users \in [Box -> Int]
  /\ awaited \in [Slot -> Nat]

\* A pid is given once, to a task that lives until its entry is given again.
PidsGiven ==
  /\ \A i \in Slot : pid[i] <= spawn_times /\ awaited[i] <= spawn_times
  /\ \A i, j \in Slot : pid[i] = pid[j] /\ pid[i] # 0 => i = j
  /\ \A i \in Slot : Live(i) => pid[i] # 0

\* What a task that is not blocked waited for has ended.
Waited ==
  /\ current # NULL => status[current] \in Ready /\ awaited[current] = 0
  /\ \A i \in Slot : status[i] \in Ready \cup {"SLEEPING"} /\ awaited[i] # 0 =>
       \A j \in Entry(awaited[i]) : ~Live(j)

Openers(b) == {i \in Slot : Live(i) /\ b \in open[i]}

\* A box has as many users at least as tasks that have it open.
Counted ==
  /\ \A i \in Slot : using_box[i] \subseteq open[i]
  /\ \A b \in Box : Cardinality(Openers(b)) <= num_of_users[b]

\* The lists that tasks block in.
BlockHeads == Heads \ {ready_queue, sleep_wait_queue}

Located(W) ==
  /\ W[ready_queue] = {i \in Slot : i # current /\ status[i] \in Ready}
  /\ W[sleep_wait_queue] = {i \in Slot : status[i] = "SLEEPING"}
  /\ \A i \in Slot : status[i] = "BLOCKED" <=> \E h \in BlockHeads : i \in W[h]
  /\ \A b \in Box : \A i \in W[box_queue(b)] : b \in open[i] /\ awaited[i] = 0
  /\ \A j \in Slot : pid[j] # 0 => \A i \in W[pwaitqueue(j)] : awaited[i] = pid[j]

Queued == \E W : Behind(links, Node, Heads, Slot, W) /\ Located(W)

IInv == TypeOK /\ PidsGiven /\ Waited /\ Counted /\ Queued

-----------------------------------------------------------------------------
(* Nodes and entries. *)

LEMMA NodesAre ==
  /\ Slot \subseteq Node /\ Heads \subseteq Node /\ Heads \cap Slot = {}
  /\ ready_queue \in Heads /\ sleep_wait_queue \in Heads /\ ready_queue # sleep_wait_queue
  /\ \A b \in Box : box_queue(b) \in BlockHeads
  /\ \A i \in Slot : pwaitqueue(i) \in Node \ Slot
  /\ \A i \in Slot : pwaitqueue(i) \in Heads <=> pid[i] # 0
  /\ \A i \in Slot : pwaitqueue(i) \notin {ready_queue, sleep_wait_queue}
  /\ \A b, c \in Box : box_queue(b) = box_queue(c) => b = c
  /\ \A i, j \in Slot : pwaitqueue(i) = pwaitqueue(j) => i = j
  /\ \A i \in Slot, b \in Box : pwaitqueue(i) # box_queue(b)
  /\ \A h \in BlockHeads :
       \/ \E b \in Box : h = box_queue(b)
       \/ \E i \in Slot : pid[i] # 0 /\ h = pwaitqueue(i)
  /\ NULL \notin Slot
<1>1. NumPcbs \in Nat /\ NumPcbs > 0 /\ NumBoxes \in Nat /\ NULL \notin Int
  BY ProcessAssumption
<1>2. /\ ready_queue \in Int /\ sleep_wait_queue = ready_queue + 1
      /\ \A b \in Box : box_queue(b) = 2 * NumPcbs + b /\ b \in 1 .. NumBoxes
      /\ \A i \in Slot : pwaitqueue(i) = NumPcbs + i /\ i \in 1 .. NumPcbs
      /\ ready_queue = 2 * NumPcbs + NumBoxes + 1
  BY <1>1 DEF ready_queue, sleep_wait_queue, box_queue, pwaitqueue, Box, Slot
<1>3. /\ Heads = {ready_queue, sleep_wait_queue} \cup {box_queue(b) : b \in Box}
                   \cup {pwaitqueue(i) : i \in {j \in Slot : pid[j] # 0}}
  BY DEF Heads
<1>4. Node = 1 .. ready_queue + 1 /\ Slot = 1 .. NumPcbs
  BY <1>2 DEF Node, Slot
<1>5. /\ \A b \in Box : box_queue(b) \in Node \ Slot
                        /\ box_queue(b) \notin {ready_queue, sleep_wait_queue}
      /\ \A i \in Slot : pwaitqueue(i) \in Node \ Slot
                         /\ pwaitqueue(i) \notin {ready_queue, sleep_wait_queue}
      /\ ready_queue \in Node \ Slot /\ sleep_wait_queue \in Node \ Slot
      /\ ready_queue # sleep_wait_queue
      /\ Slot \subseteq Node /\ NULL \notin Slot
  BY <1>1, <1>2, <1>4
<1>6. /\ \A b, c \in Box : box_queue(b) = box_queue(c) => b = c
      /\ \A i, j \in Slot : pwaitqueue(i) = pwaitqueue(j) => i = j
      /\ \A i \in Slot, b \in Box : pwaitqueue(i) # box_queue(b)
  BY <1>1, <1>2
<1>7. \A i \in Slot : pwaitqueue(i) \in Heads <=> pid[i] # 0
  BY <1>3, <1>5, <1>6
<1> QED
  BY <1>3, <1>5, <1>6, <1>7 DEF BlockHeads

LEMMA SlotsFinite == IsFiniteSet(Slot) /\ IsFiniteSet(Node)
<1>1. 1 \in Int /\ NumPcbs \in Int /\ sleep_wait_queue \in Int
  BY ProcessAssumption DEF sleep_wait_queue, ready_queue
<1> QED
  BY <1>1, FS_Interval DEF Slot, Node

\* The running task is in no list.
LEMMA CurrentNowhere ==
  ASSUME IInv, current # NULL, NEW W, Located(W)
  PROVE  /\ current \in Slot /\ status[current] \in Ready /\ awaited[current] = 0
         /\ Live(current) /\ \A h \in Heads : current \notin W[h]
<1>1. current \in Slot /\ status[current] \in Ready /\ awaited[current] = 0
  BY DEF IInv, TypeOK, Waited
<1> QED
  BY <1>1 DEF Located, BlockHeads, Ready, Live

\* No list holds a task that has ended.
LEMMA EndedNowhere ==
  ASSUME NEW W, Located(W), NEW i \in Slot, ~Live(i)
  PROVE  \A h \in Heads : i \notin W[h]
BY DEF Located, BlockHeads, Ready, Live

LEMMA CountedKept ==
  ASSUME IInv, UNCHANGED boxes, \A i \in Slot : Live(i)' => Live(i)
  PROVE  Counted'
<1>1. \A b \in Box : Openers(b)' \subseteq Openers(b)
  BY DEF Openers, boxes
<1>2. ASSUME NEW b \in Box
      PROVE  Cardinality(Openers(b)') <= num_of_users[b]
  <2>1. IsFiniteSet(Openers(b))
    BY SlotsFinite, FS_Subset DEF Openers
  <2>2. IsFiniteSet(Openers(b)') /\ Cardinality(Openers(b)') <= Cardinality(Openers(b))
    BY <2>1, <1>1, FS_Subset
  <2>3. Cardinality(Openers(b)) \in Nat /\ Cardinality(Openers(b)') \in Nat
    BY <2>1, <2>2, FS_CardinalityType
  <2> QED
    BY <2>2, <2>3 DEF IInv, TypeOK, Counted
<1> QED
  BY <1>2 DEF IInv, Counted, boxes

LEMMA PidsKept ==
  ASSUME IInv, UNCHANGED <<pid, spawn_times>>, \A i \in Slot : Live(i)' => Live(i),
         \A i \in Slot : awaited'[i] <= spawn_times
  PROVE  PidsGiven'
BY DEF IInv, PidsGiven

-----------------------------------------------------------------------------
(* Giving up the CPU. *)

\* The running task goes to the tail of a list, where its new status says.
LEMMA GivesUp ==
  ASSUME IInv, current # NULL, NEW q \in Heads, NEW s \in {"READY", "SLEEPING", "BLOCKED"},
         GiveUpCpu(q, s),
         UNCHANGED <<pid, boxes, spawn_times>>,
         NEW p \in Nat, p <= spawn_times, awaited' = [awaited EXCEPT ![current] = p],
         s # "BLOCKED" => p = 0,
         q = ready_queue <=> s = "READY",
         q = sleep_wait_queue <=> s = "SLEEPING",
         \A b \in Box : q = box_queue(b) => b \in open[current] /\ p = 0,
         \A j \in Slot : pid[j] # 0 /\ q = pwaitqueue(j) => p = pid[j]
  PROVE  IInv'
<1>1. PICK W : Behind(links, Node, Heads, Slot, W) /\ Located(W)
  BY DEF IInv, Queued
<1>2. /\ current \in Slot /\ status[current] \in Ready /\ awaited[current] = 0
      /\ Live(current) /\ \A h \in Heads : current \notin W[h]
  BY <1>1, CurrentNowhere
<1>3. /\ links' = enqueue(links, q, current) /\ current' = NULL
      /\ status' = [status EXCEPT ![current] = s]
  BY DEF GiveUpCpu
<1>4. PICK V : V = [W EXCEPT ![q] = @ \cup {current}]
  OBVIOUS
<1>5. Heads' = Heads
  BY DEF Heads
<1>6. Behind(links', Node, Heads, Slot, V)
  BY <1>1, <1>2, <1>3, <1>4, BehindEnqueue
<1>7. /\ \A i \in Slot : i # current => status'[i] = status[i] /\ awaited'[i] = awaited[i]
      /\ status'[current] = s /\ awaited'[current] = p
  BY <1>2, <1>3 DEF IInv, TypeOK
<1>8. \A i \in Slot : Live(i)' <=> Live(i)
  BY <1>2, <1>7 DEF Live
<1>9. \A h \in Heads : V[h] = IF h = q THEN W[h] \cup {current} ELSE W[h]
  BY <1>1, <1>4 DEF Behind
<1>10. Located(V)'
  <2>0. \A h \in Heads : V[h] \in SUBSET Slot
    BY <1>6 DEF Behind
  <2>a. /\ ready_queue \in Heads /\ sleep_wait_queue \in Heads
        /\ \A i \in Slot : i # current'
    BY <1>3, NodesAre
  <2>b. /\ \A i \in Slot : i \in W[ready_queue] <=> i # current /\ status[i] \in Ready
        /\ \A i \in Slot : i \in W[sleep_wait_queue] <=> status[i] = "SLEEPING"
    BY <1>1 DEF Located
  <2>1. V[ready_queue] = {i \in Slot : i # current' /\ status'[i] \in Ready}
    <3>1. ASSUME NEW i \in Slot
          PROVE  i \in V[ready_queue] <=> status'[i] \in Ready
      <4>1. CASE i = current
        <5>1. i \in V[ready_queue] <=> q = ready_queue
          BY <4>1, <2>a, <2>b, <1>9
        <5>2. s \in Ready <=> s = "READY"
          BY DEF Ready
        <5> QED
          BY <4>1, <5>1, <5>2, <1>7
      <4>2. CASE i # current
        <5>1. i \in V[ready_queue] <=> i \in W[ready_queue]
          BY <4>2, <2>a, <1>9
        <5>2. status'[i] = status[i]
          BY <4>2, <1>7
        <5> QED
          BY <4>2, <5>1, <5>2, <2>b
      <4> QED
        BY <4>1, <4>2
    <3> QED
      BY <3>1, <2>0, <2>a
  <2>2. V[sleep_wait_queue] = {i \in Slot : status'[i] = "SLEEPING"}
    <3>1. ASSUME NEW i \in Slot
          PROVE  i \in V[sleep_wait_queue] <=> status'[i] = "SLEEPING"
      <4>1. CASE i = current
        <5>1. i \in V[sleep_wait_queue] <=> q = sleep_wait_queue
          BY <4>1, <2>a, <2>b, <1>2, <1>9 DEF Ready
        <5> QED
          BY <4>1, <5>1, <1>7
      <4>2. CASE i # current
        <5>1. i \in V[sleep_wait_queue] <=> i \in W[sleep_wait_queue]
          BY <4>2, <2>a, <1>9
        <5>2. status'[i] = status[i]
          BY <4>2, <1>7
        <5> QED
          BY <4>2, <5>1, <5>2, <2>b
      <4> QED
        BY <4>1, <4>2
    <3> QED
      BY <3>1, <2>0, <2>a
  <2>3. ASSUME NEW i \in Slot
        PROVE  status'[i] = "BLOCKED" <=> \E h \in BlockHeads' : i \in V[h]
    <3>1. BlockHeads' = BlockHeads /\ BlockHeads \subseteq Heads
      BY <1>5 DEF BlockHeads
    <3>2. CASE i = current
      <4>1. \A h \in BlockHeads : i \in V[h] <=> h = q
        BY <3>1, <3>2, <1>2, <1>9
      <4>2. q \in BlockHeads <=> s = "BLOCKED"
        BY DEF BlockHeads
      <4> QED
        BY <3>1, <3>2, <4>1, <4>2, <1>7
    <3>3. CASE i # current
      <4>1. \A h \in BlockHeads : i \in V[h] <=> i \in W[h]
        BY <3>1, <3>3, <1>9
      <4>2. status[i] = "BLOCKED" <=> \E h \in BlockHeads : i \in W[h]
        BY <1>1 DEF Located
      <4> QED
        BY <3>1, <3>3, <4>1, <4>2, <1>7
    <3> QED
      BY <3>2, <3>3
  <2>4. ASSUME NEW b \in Box, NEW i \in V[box_queue(b)]
        PROVE  b \in open'[i] /\ awaited'[i] = 0
    <3>1. box_queue(b) \in Heads /\ open' = open
      BY NodesAre DEF BlockHeads, boxes
    <3>2. CASE i = current
      BY <2>4, <3>1, <3>2, <1>2, <1>7, <1>9
    <3>3. CASE i # current
      <4>1. i \in W[box_queue(b)] /\ i \in Slot
        BY <2>4, <3>1, <3>3, <1>1, <1>9 DEF Behind
      <4> QED
        BY <3>1, <3>3, <4>1, <1>1, <1>7 DEF Located
    <3> QED
      BY <3>2, <3>3
  <2>5. ASSUME NEW j \in Slot, pid'[j] # 0, NEW i \in V[pwaitqueue(j)]
        PROVE  awaited'[i] = pid'[j]
    <3>1. pwaitqueue(j) \in Heads /\ pid' = pid
      BY <2>5, NodesAre
    <3>2. CASE i = current
      <4>1. q = pwaitqueue(j)
        BY <2>5, <3>1, <3>2, <1>2, <1>9
      <4>2. pid[j] # 0
        BY <2>5, <3>1
      <4>3. p = pid[j]
        BY <4>1, <4>2
      <4> QED
        BY <3>1, <3>2, <4>3, <1>7, <1>8
    <3>3. CASE i # current
      <4>1. i \in W[pwaitqueue(j)] /\ i \in Slot
        BY <2>5, <3>1, <3>3, <1>1, <1>9 DEF Behind
      <4>2. pid[j] # 0 /\ awaited[i] = pid[j]
        BY <2>5, <3>1, <4>1, <1>1 DEF Located
      <4> QED
        BY <3>1, <3>3, <4>1, <4>2, <1>7, <1>8
    <3> QED
      BY <3>2, <3>3
  <2> QED
    BY <2>1, <2>2, <2>3, <2>4, <2>5 DEF Located
<1>11. TypeOK'
  BY <1>2, <1>3 DEF IInv, TypeOK, Ready, boxes
<1>12. PidsGiven'
  BY <1>7, <1>8, PidsKept DEF IInv, PidsGiven
<1>13. Waited'
  <2>1. \A r : Entry(r)' = Entry(r)
    BY DEF Entry
  <2> QED
    BY <2>1, <1>2, <1>3, <1>7, <1>8 DEF IInv, Waited, Ready, Entry
<1>14. Counted'
  BY <1>8, CountedKept
<1> QED
  BY <1>5, <1>6, <1>10, <1>11, <1>12, <1>13, <1>14 DEF IInv, Queued

-----------------------------------------------------------------------------
(* Waking the tasks of a list. *)

\* The loop runs as often as there are tasks in the list, and each turn moves one.
LEMMA UnblockAllIs ==
  ASSUME NEW L, NEW W, Behind(L, Node, Heads, Slot, W), NEW q \in Heads, q # ready_queue
  PROVE  /\ Woken(L, q) = W[q]
         /\ Behind(UnblockAll(L, q), Node, Heads, Slot,
                   [W EXCEPT ![q] = {}, ![ready_queue] = @ \cup W[q]])
<1> DEFINE body(f, k) == [n \in 0 .. k |-> IF n = 0 THEN L ELSE MoveFirst(f[n - 1], q, ready_queue)]
<1>1. W \in [Heads -> SUBSET Slot] /\ ready_queue \in Heads
  BY NodesAre DEF Behind
<1>2. Woken(L, q) = W[q]
  BY <1>1, SlotsFinite, BehindRing DEF Woken
<1>3. /\ IsFiniteSet(W[q]) /\ Cardinality(W[q]) \in Nat
      /\ Cardinality(W[q]) <= NumPcbs /\ NumPcbs \in Nat
  <2>1. NumPcbs \in Nat /\ 1 \in Int /\ NumPcbs \in Int /\ ~(1 > NumPcbs)
    BY ProcessAssumption
  <2>2. Cardinality(1 .. NumPcbs) = IF 1 > NumPcbs THEN 0 ELSE NumPcbs - 1 + 1
    BY <2>1, FS_Interval
  <2>3. Cardinality(Slot) = NumPcbs
    BY <2>1, <2>2 DEF Slot
  <2>4. W[q] \subseteq Slot
    BY <1>1
  <2>5. IsFiniteSet(W[q]) /\ Cardinality(W[q]) <= Cardinality(Slot)
    BY <2>4, SlotsFinite, FS_Subset
  <2> QED
    BY <2>1, <2>3, <2>5, FS_CardinalityType
<1>4. ASSUME NEW k \in Nat
      PROVE  \E f : f = body(f, k)
  <2> DEFINE bad == {m \in Nat : ~\E f : f = body(f, m)}
  <2> SUFFICES ASSUME bad # {}
               PROVE  FALSE
    BY DEF bad
  <2>1. PICK m \in bad : \A j \in bad : m <= j
    <3>1. bad \in SUBSET Nat
      OBVIOUS
    <3> HIDE DEF bad
    <3> QED
      BY <3>1, LeastNat
  <2>2. m \in Nat
    BY <2>1
  <2>3. CASE m = 0
    <3>1. PICK f : f = [n \in 0 .. 0 |-> L]
      OBVIOUS
    <3>2. f = body(f, 0)
      BY <3>1
    <3> QED
      BY <2>1, <2>3, <3>2
  <2>4. CASE m # 0
    <3>1. m - 1 \in Nat /\ m - 1 \notin bad
      <4>1. m - 1 \in Nat /\ ~(m <= m - 1)
        BY <2>2, <2>4
      <4> HIDE DEF bad
      <4> QED
        BY <4>1, <2>1
    <3>2. PICK f : f = body(f, m - 1)
      BY <3>1
    <3>3. PICK g : g = [n \in 0 .. m |-> IF n = m THEN MoveFirst(f[m - 1], q, ready_queue) ELSE f[n]]
      OBVIOUS
    <3>4. ASSUME NEW n \in 0 .. m
          PROVE  g[n] = IF n = 0 THEN L ELSE MoveFirst(g[n - 1], q, ready_queue)
      <4>1. CASE n = m
        BY <4>1, <3>3, <2>4, <2>2
      <4>2. CASE n # m
        <5>1. n \in 0 .. m - 1 /\ (n # 0 => n - 1 \in 0 .. m /\ n - 1 # m)
          BY <4>2, <2>2
        <5>2. f[n] = IF n = 0 THEN L ELSE MoveFirst(f[n - 1], q, ready_queue)
          BY <3>2, <5>1
        <5> QED
          BY <5>1, <5>2, <3>3, <4>2
      <4> QED
        BY <4>1, <4>2
    <3>5. g = body(g, m)
      BY <3>3, <3>4
    <3> QED
      BY <3>5, <2>1
  <2> QED
    BY <2>3, <2>4
<1>5. PICK n \in Nat : n = Cardinality(W[q])
  BY <1>3
<1> DEFINE moved == CHOOSE f : f = body(f, NumPcbs)
<1>6. UnblockAll(L, q) = moved[n]
  BY <1>2, <1>5 DEF UnblockAll
<1>7. moved = body(moved, NumPcbs)
  BY <1>3, <1>4
<1> HIDE DEF moved
<1>8. /\ moved[0] = L
      /\ \A m \in 1 .. n : moved[m] = MoveFirst(moved[m - 1], q, ready_queue)
  BY <1>3, <1>5, <1>7
<1> DEFINE Part(M, X) ==
      Behind(M, Node, Heads, Slot, [W EXCEPT ![q] = @ \ X, ![ready_queue] = @ \cup X])
<1>9. ASSUME NEW m \in 0 .. n
      PROVE  \E X \in SUBSET W[q] : Cardinality(X) = m /\ Part(moved[m], X)
  <2> DEFINE Good(k) == \E X \in SUBSET W[q] : Cardinality(X) = k /\ Part(moved[k], X)
             bad == {k \in 0 .. n : ~Good(k)}
  <2> SUFFICES ASSUME bad # {}
               PROVE  FALSE
    BY DEF bad
  <2>1. PICK k \in bad : \A j \in bad : k <= j
    <3>1. bad \in SUBSET Nat
      OBVIOUS
    <3> HIDE DEF bad
    <3> QED
      BY <3>1, LeastNat
  <2>2. k \in 0 .. n /\ ~Good(k)
    BY <2>1
  <2>3. CASE k = 0
    <3>1. {} \in SUBSET W[q] /\ Cardinality({}) = 0
      BY FS_EmptySet
    <3>2. [W EXCEPT ![q] = @ \ {}, ![ready_queue] = @ \cup {}] = W
      BY <1>1
    <3>3. Part(moved[0], {})
      BY <3>2, <1>8
    <3> QED
      BY <3>1, <3>3, <2>2, <2>3
  <2>4. CASE k # 0
    <3>1. k - 1 \in 0 .. n /\ k - 1 \notin bad /\ k \in 1 .. n /\ k - 1 < n
      BY <2>1, <2>2, <2>4
    <3>2. Good(k - 1)
      BY <3>1
    <3>3. PICK X \in SUBSET W[q] : Cardinality(X) = k - 1 /\ Part(moved[k - 1], X)
      BY <3>2
    <3>4. PICK V : V = [W EXCEPT ![q] = @ \ X, ![ready_queue] = @ \cup X]
      OBVIOUS
    <3>5. V[q] = W[q] \ X /\ V \in [Heads -> SUBSET Slot]
      BY <3>3, <3>4, <1>1
    <3>6. W[q] \ X # {}
      <4>1. W[q] \ X = {} => X = W[q]
        OBVIOUS
      <4> QED
        BY <4>1, <3>1, <3>3, <1>5
    <3>7. Behind(moved[k - 1], Node, Heads, Slot, V)
      BY <3>3, <3>4
    <3>8. PICK i : i = peek(moved[k - 1], q)
      OBVIOUS
    <3>9. /\ i \in V[q]
          /\ Behind(MoveFirst(moved[k - 1], q, ready_queue), Node, Heads, Slot,
                    [V EXCEPT ![q] = @ \ {i}, ![ready_queue] = @ \cup {i}])
      BY <3>5, <3>6, <3>7, <3>8, <1>1, BehindMove
    <3>10. PICK Y : Y = X \cup {i}
      OBVIOUS
    <3>11. [V EXCEPT ![q] = @ \ {i}, ![ready_queue] = @ \cup {i}] =
             [W EXCEPT ![q] = @ \ Y, ![ready_queue] = @ \cup Y]
      <4> DEFINE A == [V EXCEPT ![q] = @ \ {i}, ![ready_queue] = @ \cup {i}]
                 B == [W EXCEPT ![q] = @ \ Y, ![ready_queue] = @ \cup Y]
      <4>1. ASSUME NEW h \in Heads
            PROVE  A[h] = B[h]
        BY <3>4, <3>10, <1>1
      <4>2. A = [h \in Heads |-> A[h]] /\ B = [h \in Heads |-> B[h]]
        BY <3>5, <1>1
      <4> HIDE DEF A, B
      <4>3. A = B
        BY <4>1, <4>2
      <4> QED
        BY <4>3 DEF A, B
    <3>12. Y \in SUBSET W[q] /\ i \notin X
      BY <3>3, <3>5, <3>9, <3>10
    <3>13. Cardinality(Y) = k
      <4>1. IsFiniteSet(X)
        BY <3>3, <1>3, FS_Subset
      <4>2. Cardinality(X \cup {i}) = Cardinality(X) + 1
        BY <4>1, <3>12, FS_AddElement
      <4> QED
        BY <4>2, <3>1, <3>3, <3>10
    <3>14. Part(moved[k], Y)
      BY <3>1, <3>9, <3>11, <1>8
    <3> QED
      BY <3>12, <3>13, <3>14, <2>2
  <2> QED
    BY <2>3, <2>4
<1>10. PICK X \in SUBSET W[q] : Cardinality(X) = n /\ Part(moved[n], X)
  <2>1. n \in 0 .. n
    OBVIOUS
  <2> HIDE DEF Part
  <2> QED
    BY <2>1, <1>9
<1>11. X = W[q]
  BY <1>3, <1>5, <1>10, FS_Subset
<1>12. [W EXCEPT ![q] = @ \ W[q], ![ready_queue] = @ \cup W[q]] =
         [W EXCEPT ![q] = {}, ![ready_queue] = @ \cup W[q]]
  BY <1>1
<1> QED
  BY <1>2, <1>6, <1>10, <1>11, <1>12

\* The tasks X of the list of q are ready, the tasks K, of which none runs, have ended.
WakeStep(W, V, q, X, K) ==
  /\ Behind(links, Node, Heads, Slot, W) /\ Located(W)
  /\ q \in Heads /\ q # ready_queue /\ X \subseteq W[q]
  /\ K \subseteq Slot /\ current \notin K
  /\ status' = [i \in Slot |-> IF i \in X \ K THEN "READY"
                               ELSE IF i \in K THEN "EXITED" ELSE status[i]]
  /\ UNCHANGED <<pid, current, spawn_times, open, awaited>>
  /\ \A i \in X \ K : awaited[i] # 0 => \A j \in Entry(awaited[i]) : j \in K \/ ~Live(j)
  /\ Behind(links', Node, Heads, Slot, V)
  /\ \A h \in Heads : V[h] = IF h = q THEN W[h] \ (X \cup K)
                             ELSE IF h = ready_queue THEN (W[h] \cup X) \ K
                             ELSE W[h] \ K

LEMMA Wakes ==
  ASSUME IInv, NEW W, NEW V, NEW q, NEW X, NEW K, WakeStep(W, V, q, X, K)
  PROVE  /\ status' \in [Slot -> Ready \cup {"SLEEPING", "BLOCKED", "EXITED"}]
         /\ PidsGiven' /\ Waited' /\ Queued'
         /\ \A i \in Slot : Live(i)' <=> Live(i) /\ i \notin K
<1> USE DEF WakeStep
<1>1. \A h \in Heads : W[h] \in SUBSET Slot /\ V[h] \in SUBSET Slot
  BY DEF Behind
<1>2. \A i \in Slot : status[i] \in Ready \cup {"SLEEPING", "BLOCKED", "EXITED"}
  BY DEF IInv, TypeOK
<1>3. \A i \in Slot : status'[i] = IF i \in X \ K THEN "READY"
                                   ELSE IF i \in K THEN "EXITED" ELSE status[i]
  OBVIOUS
<1>4. status' \in [Slot -> Ready \cup {"SLEEPING", "BLOCKED", "EXITED"}]
  BY <1>2 DEF Ready
<1>5. /\ ready_queue \in Heads /\ sleep_wait_queue \in Heads /\ ready_queue # sleep_wait_queue
      /\ BlockHeads \subseteq Heads /\ ready_queue \notin BlockHeads
      /\ sleep_wait_queue \notin BlockHeads
  BY NodesAre DEF BlockHeads
<1>6. /\ \A i \in Slot : i \in W[ready_queue] <=> i # current /\ status[i] \in Ready
      /\ \A i \in Slot : i \in W[sleep_wait_queue] <=> status[i] = "SLEEPING"
      /\ \A i \in Slot : status[i] = "BLOCKED" <=> \E h \in BlockHeads : i \in W[h]
  BY DEF Located
<1>7. \A i \in X : i \in Slot /\ i # current /\ status[i] \in {"SLEEPING", "BLOCKED"}
  <2> SUFFICES ASSUME NEW i \in X
               PROVE  i \in Slot /\ i # current /\ status[i] \in {"SLEEPING", "BLOCKED"}
    OBVIOUS
  <2>1. i \in W[q] /\ i \in Slot
    BY <1>1
  <2>2. status[i] \in {"SLEEPING", "BLOCKED"}
    BY <2>1, <1>5, <1>6 DEF BlockHeads
  <2>3. i = current => status[i] \in Ready
    BY <2>1, NodesAre DEF IInv, Waited
  <2> QED
    BY <2>1, <2>2, <2>3 DEF Ready
<1>8. \A i \in Slot : Live(i)' <=> Live(i) /\ i \notin K
  BY <1>3, <1>7 DEF Live
<1>9. Heads' = Heads /\ BlockHeads' = BlockHeads /\ \A r : Entry(r)' = Entry(r)
  BY DEF Heads, BlockHeads, Entry
<1>10. PidsGiven'
  BY <1>8, PidsKept DEF IInv, PidsGiven
<1>11. Waited'
  <2>1. ASSUME current' # NULL
        PROVE  status'[current'] \in Ready /\ awaited'[current'] = 0
    <3>1. current \in Slot /\ current' = current /\ current \notin X
      BY <2>1, <1>7 DEF IInv, TypeOK
    <3> QED
      BY <3>1, <2>1, <1>3 DEF IInv, Waited
  <2>2. ASSUME NEW i \in Slot, status'[i] \in Ready \cup {"SLEEPING"}, awaited'[i] # 0,
               NEW j \in Slot, pid'[j] = awaited'[i]
        PROVE  ~Live(j)'
    <3>1. awaited[i] # 0 /\ j \in Entry(awaited[i]) /\ j \in Slot
      BY <2>2, <1>9 DEF Entry
    <3>2. CASE i \in X \ K
      BY <3>1, <3>2, <1>8
    <3>3. CASE i \notin X \ K
      <4>1. status[i] \in Ready \cup {"SLEEPING"}
        BY <3>3, <2>2, <1>3 DEF Ready
      <4> QED
        BY <4>1, <3>1, <1>8 DEF IInv, Waited
    <3> QED
      BY <3>2, <3>3
  <2> QED
    BY <2>1, <2>2 DEF Waited, Entry
<1>12. Located(V)'
  <2>1. V[ready_queue] = {i \in Slot : i # current' /\ status'[i] \in Ready}
    <3>1. ASSUME NEW i \in Slot
          PROVE  i \in V[ready_queue] <=> i # current /\ status'[i] \in Ready
      <4>1. i \in V[ready_queue] <=> (i \in W[ready_queue] \/ i \in X) /\ i \notin K
        BY <1>5
      <4>2. CASE i \in X \ K
        BY <4>1, <4>2, <1>3, <1>7 DEF Ready
      <4>3. CASE i \in K
        BY <4>1, <4>3, <1>3 DEF Ready
      <4>4. CASE i \notin X \cup K
        BY <4>1, <4>4, <1>3, <1>6
      <4> QED
        BY <4>2, <4>3, <4>4
    <3> QED
      BY <3>1, <1>1, <1>5
  <2>2. V[sleep_wait_queue] = {i \in Slot : status'[i] = "SLEEPING"}
    <3>1. ASSUME NEW i \in Slot
          PROVE  i \in V[sleep_wait_queue] <=> status'[i] = "SLEEPING"
      <4>1. CASE i \in K
        BY <4>1, <1>3, <1>5
      <4>2. CASE i \in X \ K
        <5>1. i \notin V[sleep_wait_queue]
          <6>1. CASE q = sleep_wait_queue
            BY <6>1, <4>2, <1>5
          <6>2. CASE q # sleep_wait_queue
            <7>1. i \notin W[sleep_wait_queue]
              BY <6>2, <4>2, <1>5, BehindOnce
            <7> QED
              BY <7>1, <6>2, <1>5
          <6> QED
            BY <6>1, <6>2
        <5> QED
          BY <5>1, <4>2, <1>3
      <4>3. CASE i \notin X \cup K
        <5>1. i \in V[sleep_wait_queue] <=> i \in W[sleep_wait_queue]
          BY <4>3, <1>5
        <5> QED
          BY <5>1, <4>3, <1>3, <1>6
      <4> QED
        BY <4>1, <4>2, <4>3
    <3> QED
      BY <3>1, <1>1, <1>5
  <2>3. ASSUME NEW i \in Slot
        PROVE  status'[i] = "BLOCKED" <=> \E h \in BlockHeads' : i \in V[h]
    <3>1. CASE i \in K
      BY <3>1, <1>3, <1>5, <1>9
    <3>2. CASE i \in X \ K
      <4>1. ASSUME NEW h \in BlockHeads
            PROVE  i \notin V[h]
        <5>1. h \in Heads /\ h # ready_queue
          BY <1>5
        <5>2. CASE h = q
          BY <5>2, <3>2
        <5>3. CASE h # q
          <6>1. i \notin W[h]
            BY <5>1, <5>3, <3>2, BehindOnce
          <6> QED
            BY <6>1, <5>1, <5>3
        <5> QED
          BY <5>2, <5>3
      <4> QED
        BY <4>1, <3>2, <1>3, <1>9
    <3>3. CASE i \notin X \cup K
      <4>1. \A h \in BlockHeads : i \in V[h] <=> i \in W[h]
        BY <3>3, <1>5
      <4> QED
        BY <4>1, <3>3, <1>3, <1>6, <1>9
    <3> QED
      BY <3>1, <3>2, <3>3
  <2>4. \A h \in Heads : h # ready_queue => V[h] \subseteq W[h]
    OBVIOUS
  <2>5. ASSUME NEW b \in Box, NEW i \in V[box_queue(b)]
        PROVE  b \in open'[i] /\ awaited'[i] = 0
    <3>1. i \in W[box_queue(b)]
      BY <2>4, NodesAre, <1>5
    <3> QED
      BY <3>1 DEF Located
  <2>6. ASSUME NEW j \in Slot, pid'[j] # 0, NEW i \in V[pwaitqueue(j)]
        PROVE  awaited'[i] = pid'[j]
    <3>1. pid[j] # 0 /\ pwaitqueue(j) \in Heads /\ pwaitqueue(j) # ready_queue
      BY <2>6, NodesAre
    <3>2. i \in W[pwaitqueue(j)]
      BY <3>1, <2>4
    <3>3. awaited[i] = pid[j]
      BY <3>1, <3>2 DEF Located
    <3> QED
      BY <3>2, <3>3, <1>8
  <2> QED
    BY <2>1, <2>2, <2>3, <2>5, <2>6 DEF Located
<1> QED
  BY <1>4, <1>8, <1>9, <1>10, <1>11, <1>12 DEF Queued

-----------------------------------------------------------------------------
(* The calls and the scheduler. *)

LEMMA Yields ==
  ASSUME IInv, Yield
  PROVE  IInv'
<1>1. current # NULL /\ GiveUpCpu(ready_queue, "READY")
  BY DEF Yield, Calling
<1>2. awaited' = [awaited EXCEPT ![current] = 0] /\ UNCHANGED <<pid, boxes, spawn_times>>
  BY <1>1 DEF Yield, IInv, Waited, TypeOK
<1>3. 0 \in Nat /\ 0 <= spawn_times
  BY DEF IInv, TypeOK
<1>4. /\ ready_queue \in Heads /\ ready_queue # sleep_wait_queue
      /\ \A b \in Box : ready_queue # box_queue(b)
      /\ \A j \in Slot : ready_queue # pwaitqueue(j)
  BY NodesAre DEF BlockHeads
<1> QED
  BY <1>1, <1>2, <1>3, <1>4, GivesUp

LEMMA Sleeps ==
  ASSUME IInv, Sleep
  PROVE  IInv'
<1>1. current # NULL /\ GiveUpCpu(sleep_wait_queue, "SLEEPING")
  BY DEF Sleep, Calling
<1>2. awaited' = [awaited EXCEPT ![current] = 0] /\ UNCHANGED <<pid, boxes, spawn_times>>
  BY <1>1 DEF Sleep, IInv, Waited, TypeOK
<1>3. 0 \in Nat /\ 0 <= spawn_times
  BY DEF IInv, TypeOK
<1>4. /\ sleep_wait_queue \in Heads /\ ready_queue # sleep_wait_queue
      /\ \A b \in Box : sleep_wait_queue # box_queue(b)
      /\ \A j \in Slot : sleep_wait_queue # pwaitqueue(j)
  BY NodesAre DEF BlockHeads
<1> QED
  BY <1>1, <1>2, <1>3, <1>4, GivesUp

LEMMA Blocks ==
  ASSUME IInv, NEW b \in Box, BlockOnBox(b)
  PROVE  IInv'
<1>1. current # NULL /\ GiveUpCpu(box_queue(b), "BLOCKED") /\ b \in open[current]
  BY DEF BlockOnBox, Calling
<1>2. awaited' = [awaited EXCEPT ![current] = 0] /\ UNCHANGED <<pid, boxes, spawn_times>>
  BY <1>1 DEF BlockOnBox, IInv, Waited, TypeOK
<1>3. 0 \in Nat /\ 0 <= spawn_times
  BY DEF IInv, TypeOK
<1>4. /\ box_queue(b) \in Heads /\ box_queue(b) \notin {ready_queue, sleep_wait_queue}
      /\ \A c \in Box : box_queue(b) = box_queue(c) => b = c
      /\ \A j \in Slot : box_queue(b) # pwaitqueue(j)
  BY NodesAre DEF BlockHeads
<1> QED
  BY <1>1, <1>2, <1>3, <1>4, GivesUp

\* The entry that has the pid is the only one, whether its task lives or not.
LEMMA Waits ==
  ASSUME IInv, NEW p \in 1 .. MaxSpawns, Wait(p)
  PROVE  IInv'
<1>1. current # NULL /\ GiveUpCpu(WaitQueue(p), "BLOCKED")
  BY DEF Wait, Calling
<1>2. awaited' = [awaited EXCEPT ![current] = p] /\ UNCHANGED <<pid, boxes, spawn_times>>
  BY DEF Wait
<1>3. PICK i \in Slot : pid[i] = p
  BY DEF Wait, Entry
<1>4. p \in Nat /\ p # 0 /\ p <= spawn_times
  BY <1>3, ProcessAssumption DEF IInv, PidsGiven
<1>5. \A j \in Entry(p) : j = i
  BY <1>3, <1>4 DEF IInv, PidsGiven, Entry
<1>6. WaitQueue(p) = pwaitqueue(i)
  <2>1. \A x \in Entry(p) : \A y \in Entry(p) : x <= y
    BY <1>5, ProcessAssumption DEF Slot, Entry
  <2>2. i \in Entry(p)
    BY <1>3 DEF Entry
  <2>3. First(Entry(p)) \in Entry(p)
    BY <2>1, <2>2 DEF First
  <2> QED
    BY <2>3, <1>5 DEF WaitQueue
<1>7. /\ pwaitqueue(i) \in Heads /\ pwaitqueue(i) \notin {ready_queue, sleep_wait_queue}
      /\ \A b \in Box : pwaitqueue(i) # box_queue(b)
      /\ \A j \in Slot : pwaitqueue(i) = pwaitqueue(j) => i = j
  BY <1>3, <1>4, NodesAre
<1> QED
  BY <1>1, <1>2, <1>3, <1>4, <1>6, <1>7, GivesUp

LEMMA SleeperWakes ==
  ASSUME IInv, WakeSleeper
  PROVE  IInv'
<1>1. PICK W : Behind(links, Node, Heads, Slot, W) /\ Located(W)
  BY DEF IInv, Queued
<1>2. PICK i : i = peek(links, sleep_wait_queue)
  OBVIOUS
<1>3. /\ W[sleep_wait_queue] # {} /\ sleep_wait_queue \in Heads /\ ready_queue \in Heads
      /\ sleep_wait_queue # ready_queue
  BY <1>1, NodesAre, BehindPeek DEF WakeSleeper
<1>4. PICK V : V = [W EXCEPT ![sleep_wait_queue] = @ \ {i}, ![ready_queue] = @ \cup {i}]
  OBVIOUS
<1>5. i \in W[sleep_wait_queue] /\ Behind(links', Node, Heads, Slot, V)
  <2>1. /\ i \in W[sleep_wait_queue]
        /\ Behind(MoveFirst(links, sleep_wait_queue, ready_queue), Node, Heads, Slot,
                  [W EXCEPT ![sleep_wait_queue] = @ \ {i}, ![ready_queue] = @ \cup {i}])
    BY <1>1, <1>2, <1>3, BehindMove
  <2> QED
    BY <2>1, <1>4 DEF WakeSleeper
<1>6. /\ \A h \in Heads : V[h] = IF h = sleep_wait_queue THEN W[h] \ ({i} \cup {})
                                 ELSE IF h = ready_queue THEN (W[h] \cup {i}) \ {}
                                 ELSE W[h] \ {}
  BY <1>1, <1>3, <1>4 DEF Behind
<1>7. {i} \in SUBSET W[sleep_wait_queue] /\ {} \in SUBSET Slot
  BY <1>5
<1>8. status' = [j \in Slot |-> IF j \in {i} \ {} THEN "READY"
                                ELSE IF j \in {} THEN "EXITED" ELSE status[j]]
  BY <1>2 DEF WakeSleeper, IInv, TypeOK
<1>9. \A j \in {i} \ {} : awaited[j] # 0 => \A k \in Entry(awaited[j]) : k \in {} \/ ~Live(k)
  BY <1>1, <1>5 DEF Located, IInv, Waited
<1>10. UNCHANGED <<pid, current, boxes, spawn_times, awaited>> /\ open' = open
  BY DEF WakeSleeper, boxes
<1>11. /\ status' \in [Slot -> Ready \cup {"SLEEPING", "BLOCKED", "EXITED"}]
       /\ PidsGiven' /\ Waited' /\ Queued'
       /\ \A j \in Slot : Live(j)' <=> Live(j) /\ j \notin {}
  <2>1. WakeStep(W, V, sleep_wait_queue, {i}, {})
    BY <1>1, <1>3, <1>5, <1>6, <1>7, <1>8, <1>9, <1>10 DEF WakeStep
  <2> QED
    BY <2>1, Wakes
<1> QED
  BY <1>10, <1>11, CountedKept DEF IInv, TypeOK, boxes

LEMMA BoxWakes ==
  ASSUME IInv, NEW b \in Box, WakeBox(b)
  PROVE  IInv'
<1>1. PICK W : Behind(links, Node, Heads, Slot, W) /\ Located(W)
  BY DEF IInv, Queued
<1>2. PICK q \in Heads : q = box_queue(b) /\ q # ready_queue
  BY NodesAre DEF BlockHeads
<1>3. PICK V : V = [W EXCEPT ![q] = {}, ![ready_queue] = @ \cup W[q]]
  OBVIOUS
<1>4. Woken(links, q) = W[q] /\ Behind(links', Node, Heads, Slot, V)
  BY <1>1, <1>2, <1>3, UnblockAllIs DEF WakeBox
<1>5. /\ \A h \in Heads : V[h] = IF h = q THEN W[h] \ (W[q] \cup {})
                                 ELSE IF h = ready_queue THEN (W[h] \cup W[q]) \ {}
                                 ELSE W[h] \ {}
  BY <1>1, <1>2, <1>3, NodesAre DEF Behind
<1>6. W[q] \in SUBSET W[q] /\ {} \in SUBSET Slot
  OBVIOUS
<1>7. status' = [j \in Slot |-> IF j \in W[q] \ {} THEN "READY"
                                ELSE IF j \in {} THEN "EXITED" ELSE status[j]]
  BY <1>2, <1>4 DEF WakeBox, WithReady
<1>8. \A j \in W[q] \ {} : awaited[j] # 0 => \A k \in Entry(awaited[j]) : k \in {} \/ ~Live(k)
  BY <1>1, <1>2 DEF Located
<1>9. UNCHANGED <<pid, current, boxes, spawn_times, awaited>> /\ open' = open
  BY DEF WakeBox, boxes
<1>10. /\ status' \in [Slot -> Ready \cup {"SLEEPING", "BLOCKED", "EXITED"}]
       /\ PidsGiven' /\ Waited' /\ Queued'
       /\ \A j \in Slot : Live(j)' <=> Live(j) /\ j \notin {}
  <2>1. WakeStep(W, V, q, W[q], {})
    BY <1>1, <1>2, <1>4, <1>5, <1>6, <1>7, <1>8, <1>9 DEF WakeStep
  <2> QED
    BY <2>1, Wakes
<1> QED
  BY <1>9, <1>10, CountedKept DEF IInv, TypeOK, boxes

LEMMA Picks ==
  ASSUME IInv, PickNext
  PROVE  IInv'
<1>1. PICK W : Behind(links, Node, Heads, Slot, W) /\ Located(W)
  BY DEF IInv, Queued
<1>2. /\ W[ready_queue] # {} /\ ready_queue \in Heads /\ sleep_wait_queue \in Heads
      /\ ready_queue # sleep_wait_queue
  BY <1>1, NodesAre, BehindPeek DEF PickNext
<1>3. PICK i : i = peek(links, ready_queue)
  OBVIOUS
<1>4. i \in W[ready_queue] /\ i \in Slot
  BY <1>1, <1>2, <1>3, BehindPeek
<1>5. PICK V : V = [W EXCEPT ![ready_queue] = @ \ {i}]
  OBVIOUS
<1>6. Behind(links', Node, Heads, Slot, V)
  BY <1>1, <1>2, <1>3, <1>4, <1>5, BehindUnlink DEF PickNext, dequeue
<1>7. /\ current = NULL /\ current' = i /\ awaited' = [awaited EXCEPT ![i] = 0]
      /\ UNCHANGED <<status, pid, boxes, spawn_times>>
  BY <1>3 DEF PickNext
<1>8. /\ \A h \in Heads : V[h] = IF h = ready_queue THEN W[h] \ {i} ELSE W[h]
      /\ \A h \in Heads : h # ready_queue => i \notin W[h]
  BY <1>1, <1>2, <1>4, <1>5, BehindOnce DEF Behind
<1>9. status[i] \in Ready
  BY <1>1, <1>4 DEF Located
<1>10. /\ \A j \in Slot : Live(j)' <=> Live(j)
       /\ Heads' = Heads /\ BlockHeads' = BlockHeads /\ \A r : Entry(r)' = Entry(r)
  BY <1>7 DEF Live, Heads, BlockHeads, Entry
<1>11. TypeOK'
  BY <1>4, <1>7 DEF IInv, TypeOK, boxes
<1>12. PidsGiven' /\ Counted'
  BY <1>4, <1>7, <1>10, PidsKept, CountedKept DEF IInv, PidsGiven, TypeOK
<1>13. Waited'
  <2>1. awaited'[i] = 0 /\ \A j \in Slot : j # i => awaited'[j] = awaited[j]
    BY <1>4, <1>7 DEF IInv, TypeOK
  <2>2. ASSUME NEW j \in Slot, status'[j] \in Ready \cup {"SLEEPING"}, awaited'[j] # 0,
               NEW k \in Slot, pid'[k] = awaited'[j]
        PROVE  ~Live(k)'
    <3>1. awaited[j] # 0 /\ status[j] \in Ready \cup {"SLEEPING"} /\ pid[k] = awaited[j]
      BY <2>1, <2>2, <1>7
    <3> QED
      BY <3>1, <1>10 DEF IInv, Waited, Entry
  <2> QED
    BY <2>1, <2>2, <1>7, <1>9 DEF Waited, Entry
<1>14. Located(V)'
  <2>1. V[ready_queue] = {j \in Slot : j # current' /\ status'[j] \in Ready}
    <3>1. W[ready_queue] = {j \in Slot : j # NULL /\ status[j] \in Ready}
      BY <1>1, <1>7 DEF Located
    <3>2. V[ready_queue] = W[ready_queue] \ {i}
      BY <1>2, <1>8
    <3> QED
      BY <3>1, <3>2, <1>7, NodesAre
  <2>2. V[sleep_wait_queue] = {j \in Slot : status'[j] = "SLEEPING"}
    BY <1>1, <1>2, <1>7, <1>8 DEF Located
  <2>3. ASSUME NEW j \in Slot
        PROVE  status'[j] = "BLOCKED" <=> \E h \in BlockHeads' : j \in V[h]
    <3>1. \A h \in BlockHeads : V[h] = W[h]
      BY <1>8 DEF BlockHeads
    <3> QED
      BY <3>1, <1>1, <1>7, <1>10 DEF Located
  <2>4. ASSUME NEW b \in Box, NEW j \in V[box_queue(b)]
        PROVE  b \in open'[j] /\ awaited'[j] = 0
    <3>1. box_queue(b) \in Heads /\ box_queue(b) # ready_queue
      BY NodesAre DEF BlockHeads
    <3>2. j \in W[box_queue(b)] /\ j # i
      BY <3>1, <1>8
    <3> QED
      BY <3>2, <1>1, <1>7 DEF Located, boxes, IInv, TypeOK
  <2>5. ASSUME NEW j \in Slot, pid'[j] # 0, NEW k \in V[pwaitqueue(j)]
        PROVE  awaited'[k] = pid'[j]
    <3>1. pid[j] # 0 /\ pwaitqueue(j) \in Heads /\ pwaitqueue(j) # ready_queue
      BY <2>5, <1>7, NodesAre
    <3>2. k \in W[pwaitqueue(j)] /\ k # i /\ k \in Slot
      BY <3>1, <1>1, <1>8 DEF Behind
    <3>3. awaited[k] = pid[j]
      BY <3>1, <3>2, <1>1 DEF Located
    <3> QED
      BY <3>2, <3>3, <1>7, <1>10 DEF IInv, TypeOK
  <2> QED
    BY <2>1, <2>2, <2>3, <2>4, <2>5 DEF Located
<1> QED
  BY <1>6, <1>10, <1>11, <1>12, <1>13, <1>14 DEF IInv, Queued

-----------------------------------------------------------------------------
(* Boxes. *)

LEMMA OpenersFinite ==
  ASSUME NEW b \in Box
  PROVE  IsFiniteSet(Openers(b)) /\ Cardinality(Openers(b)) \in Nat
<1>1. Openers(b) \subseteq Slot
  BY DEF Openers
<1>2. IsFiniteSet(Openers(b))
  BY <1>1, SlotsFinite, FS_Subset
<1> QED
  BY <1>2, FS_CardinalityType

\* Whose user is the only one, nobody else waits in the queues of the box.
LEMMA SoleUser ==
  ASSUME IInv, NEW W, Behind(links, Node, Heads, Slot, W), Located(W),
         NEW b \in Box, NEW i \in Slot, Live(i), b \in open[i], num_of_users[b] = 1
  PROVE  W[box_queue(b)] \subseteq {i}
<1> SUFFICES ASSUME NEW j \in W[box_queue(b)]
             PROVE  j = i
  OBVIOUS
<1>1. box_queue(b) \in BlockHeads /\ box_queue(b) \in Heads /\ j \in Slot
  BY NodesAre DEF BlockHeads, Behind
<1>2. status[j] = "BLOCKED" /\ b \in open[j]
  BY <1>1 DEF Located
<1>3. j \in Openers(b) /\ i \in Openers(b)
  BY <1>1, <1>2 DEF Openers, Live
<1>4. Cardinality(Openers(b)) <= 1 /\ Cardinality(Openers(b)) \in Nat /\ IsFiniteSet(Openers(b))
  BY OpenersFinite DEF IInv, Counted
<1>5. Cardinality(Openers(b)) # 0
  BY <1>3, <1>4, FS_EmptySet
<1>6. \E x : Openers(b) = {x}
  <2>1. Cardinality(Openers(b)) = 1
    BY <1>4, <1>5
  <2>2. \A S : IsFiniteSet(S) => (Cardinality(S) = 1 <=> \E x : S = {x})
    BY FS_Singleton
  <2> QED
    BY <2>1, <2>2, <1>4
<1> QED
  BY <1>3, <1>6

ResetHeads(B) == {box_queue(b) : b \in {c \in B : num_of_users[c] = 1}}

\* M is L but for the heads R, which lead to themselves.
ResetIn(L, M, R) ==
  /\ R \subseteq Heads
  /\ DOMAIN L.next = Node /\ DOMAIN L.prev = Node
  /\ DOMAIN M.next = Node /\ DOMAIN M.prev = Node
  /\ \A n \in Node : /\ M.next[n] = IF n \in R THEN n ELSE L.next[n]
                     /\ M.prev[n] = IF n \in R THEN n ELSE L.prev[n]

LEMMA ClosedFields ==
  ASSUME NEW L, NEW W, Behind(L, Node, Heads, Slot, W), NEW B \in SUBSET Box
  PROVE  ResetIn(L, WithClosed(L, B), ResetHeads(B))
<1>1. ResetHeads(B) \subseteq Heads
  BY NodesAre DEF BlockHeads, ResetHeads
<1>2. DOMAIN L.next = Node /\ DOMAIN L.prev = Node
  BY NodesAre, BehindAlone
<1>3. PICK R : R = ResetHeads(B)
  OBVIOUS
<1>4. WithClosed(L, B) = [prev |-> [n \in Node |-> IF n \in R THEN n ELSE L.prev[n]],
                          next |-> [n \in Node |-> IF n \in R THEN n ELSE L.next[n]]]
  BY <1>3 DEF WithClosed, ResetHeads
<1> QED
  BY <1>1, <1>2, <1>3, <1>4 DEF ResetIn

\* Queues that nobody waits in are not changed by emptying them.
LEMMA ClosedQueues ==
  ASSUME NEW L, NEW W, Behind(L, Node, Heads, Slot, W), NEW B \in SUBSET Box,
         \A b \in B : num_of_users[b] = 1 => W[box_queue(b)] = {}
  PROVE  Behind(WithClosed(L, B), Node, Heads, Slot, W)
<1>1. PICK R : R = ResetHeads(B)
  OBVIOUS
<1>2. ResetIn(L, WithClosed(L, B), R)
  BY <1>1, ClosedFields
<1>3. \A h \in R : h \in Heads /\ W[h] = {}
  BY <1>1, <1>2 DEF ResetIn, ResetHeads
<1>4. \A h \in R : L.next[h] = h /\ L.prev[h] = h
  BY <1>3, BehindAlone
<1>5. SameFields(L, WithClosed(L, B), Node)
  BY <1>2, <1>4 DEF SameFields, ResetIn
<1> QED
  BY <1>5, BehindSame

\* A task that is killed may itself wait in a queue that is emptied before it is
\* taken out: its fields still lead to the head, and that is as good.
LEMMA ClosedUnlinked ==
  ASSUME NEW L, NEW W, Behind(L, Node, Heads, Slot, W), NEW B \in SUBSET Box,
         NEW h \in Heads, NEW i \in W[h],
         \A b \in B : num_of_users[b] = 1 => W[box_queue(b)] \subseteq {i}
  PROVE  Behind(Unlink(WithClosed(L, B), i), Node, Heads, Slot, [W EXCEPT ![h] = @ \ {i}])
<1>1. PICK R : R = ResetHeads(B)
  OBVIOUS
<1>2. PICK M : M = WithClosed(L, B)
  OBVIOUS
<1>3. /\ R \subseteq Heads
      /\ DOMAIN L.next = Node /\ DOMAIN L.prev = Node
      /\ DOMAIN M.next = Node /\ DOMAIN M.prev = Node
      /\ \A n \in Node : /\ M.next[n] = IF n \in R THEN n ELSE L.next[n]
                         /\ M.prev[n] = IF n \in R THEN n ELSE L.prev[n]
  <2>1. ResetIn(L, M, R)
    BY <1>1, <1>2, ClosedFields
  <2> QED
    BY <2>1 DEF ResetIn
<1>4. \A g \in R : g \in Heads /\ W[g] \subseteq {i}
  BY <1>1, <1>3 DEF ResetHeads
<1>5. i \in Slot /\ i \in Node /\ i \notin R /\ Heads \subseteq Node
  BY <1>3, NodesAre DEF Behind
<1>6. M.next[i] = L.next[i] /\ M.prev[i] = L.prev[i]
  BY <1>3, <1>5
<1>7. ASSUME NEW g \in R, g # h
      PROVE  L.next[g] = g /\ L.prev[g] = g
  <2>1. W[g] = {}
    BY <1>4, <1>7, BehindOnce
  <2> QED
    BY <2>1, <1>4, BehindAlone
<1>8. ASSUME h \in R
      PROVE  L.next[i] = h /\ L.prev[i] = h
  <2>1. W[h] = {i}
    BY <1>4, <1>8
  <2> QED
    BY <2>1, BehindAlone
<1>9. SameFields(Unlink(L, i), Unlink(M, i), Node)
  <2>1. /\ Unlink(L, i).next = [L.next EXCEPT ![L.prev[i]] = L.next[i]]
        /\ Unlink(L, i).prev = [L.prev EXCEPT ![L.next[i]] = L.prev[i]]
        /\ Unlink(M, i).next = [M.next EXCEPT ![L.prev[i]] = L.next[i]]
        /\ Unlink(M, i).prev = [M.prev EXCEPT ![L.next[i]] = L.prev[i]]
    BY <1>6 DEF Unlink
  <2>2. ASSUME NEW n \in Node
        PROVE  /\ Unlink(M, i).next[n] = Unlink(L, i).next[n]
               /\ Unlink(M, i).prev[n] = Unlink(L, i).prev[n]
    <3>1. /\ Unlink(L, i).next[n] = IF n = L.prev[i] THEN L.next[i] ELSE L.next[n]
          /\ Unlink(L, i).prev[n] = IF n = L.next[i] THEN L.prev[i] ELSE L.prev[n]
          /\ Unlink(M, i).next[n] = IF n = L.prev[i] THEN L.next[i] ELSE M.next[n]
          /\ Unlink(M, i).prev[n] = IF n = L.next[i] THEN L.prev[i] ELSE M.prev[n]
      BY <2>1, <1>3
    <3>2. CASE n \notin R
      BY <3>1, <3>2, <1>3
    <3>3. CASE n \in R /\ n # h
      BY <3>1, <3>3, <1>3, <1>7
    <3>4. CASE n \in R /\ n = h
      BY <3>1, <3>4, <1>8
    <3> QED
      BY <3>2, <3>3, <3>4
  <2>3. DOMAIN Unlink(M, i).next = Node /\ DOMAIN Unlink(M, i).prev = Node
    BY <2>1, <1>3
  <2> QED
    BY <2>2, <2>3 DEF SameFields
<1>10. Behind(Unlink(L, i), Node, Heads, Slot, [W EXCEPT ![h] = @ \ {i}])
  BY BehindUnlink
<1> QED
  BY <1>2, <1>9, <1>10, BehindSame

LEMMA WaitedKept ==
  ASSUME IInv, UNCHANGED <<status, pid, current, spawn_times, awaited>>
  PROVE  PidsGiven' /\ Waited'
<1>1. PidsGiven'
  BY DEF IInv, PidsGiven, Live
<1>2. Waited'
  BY DEF IInv, Waited, Live, Entry
<1> QED
  BY <1>1, <1>2

LEMMA Opens ==
  ASSUME IInv, NEW b \in Box, OpenBox(b)
  PROVE  IInv'
<1>1. PICK W : Behind(links, Node, Heads, Slot, W) /\ Located(W)
  BY DEF IInv, Queued
<1>2. /\ current \in Slot /\ Live(current) /\ b \notin open[current]
      /\ UNCHANGED <<links, status, pid, current, spawn_times, awaited>>
      /\ open' = [open EXCEPT ![current] = @ \cup {b}]
      /\ num_of_users' = [num_of_users EXCEPT ![b] = @ + 1]
  BY <1>1, CurrentNowhere DEF OpenBox, Calling
<1>3. /\ \A i \in Slot : Live(i)' <=> Live(i)
      /\ Heads' = Heads /\ BlockHeads' = BlockHeads /\ \A r : Entry(r)' = Entry(r)
  BY <1>2 DEF Live, Heads, BlockHeads, Entry
<1>4. \A i \in Slot : open'[i] = IF i = current THEN open[i] \cup {b} ELSE open[i]
  BY <1>2 DEF IInv, TypeOK
<1>5. /\ using_box' \in [Slot -> SUBSET Box]
      /\ \A i \in Slot : using_box'[i] \subseteq open'[i]
  <2>1. CASE num_of_users[b] > 0
    BY <2>1, <1>4 DEF OpenBox, IInv, TypeOK, Counted
  <2>2. CASE ~(num_of_users[b] > 0)
    <3>1. using_box' = [using_box EXCEPT ![current] = @ \cup {b}]
      BY <2>2 DEF OpenBox
    <3> QED
      BY <3>1, <1>2, <1>4 DEF IInv, TypeOK, Counted
  <2> QED
    BY <2>1, <2>2
<1>6. TypeOK'
  <2>1. num_of_users' \in [Box -> Int] /\ open' \in [Slot -> SUBSET Box]
    BY <1>2 DEF IInv, TypeOK
  <2> QED
    BY <2>1, <1>2, <1>5 DEF IInv, TypeOK
<1>7. PidsGiven' /\ Waited'
  BY <1>2, WaitedKept
<1>8. ASSUME NEW c \in Box
      PROVE  Cardinality(Openers(c)') <= num_of_users'[c]
  <2>1. IsFiniteSet(Openers(c)) /\ Cardinality(Openers(c)) \in Nat
    BY OpenersFinite
  <2>2. Cardinality(Openers(c)) <= num_of_users[c] /\ num_of_users[c] \in Int
    BY DEF IInv, Counted, TypeOK
  <2>3. CASE c = b
    <3>1. Openers(c)' = Openers(c) \cup {current} /\ current \notin Openers(c)
      BY <2>3, <1>2, <1>3, <1>4 DEF Openers
    <3>2. Cardinality(Openers(c) \cup {current}) = Cardinality(Openers(c)) + 1
      BY <2>1, <3>1, FS_AddElement
    <3>3. num_of_users'[c] = num_of_users[c] + 1
      BY <2>3, <1>2 DEF IInv, TypeOK
    <3> QED
      BY <2>1, <2>2, <3>1, <3>2, <3>3
  <2>4. CASE c # b
    <3>1. Openers(c)' = Openers(c)
      BY <2>4, <1>3, <1>4 DEF Openers
    <3>2. num_of_users'[c] = num_of_users[c]
      BY <2>4, <1>2 DEF IInv, TypeOK
    <3> QED
      BY <2>2, <3>1, <3>2
  <2> QED
    BY <2>3, <2>4
<1>9. Located(W)'
  <2>1. ASSUME NEW c \in Box, NEW i \in W[box_queue(c)]
        PROVE  c \in open'[i] /\ awaited'[i] = 0
    <3>1. i \in Slot /\ c \in open[i] /\ awaited[i] = 0
      BY <1>1, NodesAre DEF Behind, Located, BlockHeads
    <3> QED
      BY <3>1, <1>2, <1>4
  <2> QED
    BY <2>1, <1>1, <1>2, <1>3 DEF Located
<1>10. Queued'
  BY <1>1, <1>2, <1>3, <1>9 DEF Queued
<1> QED
  BY <1>5, <1>6, <1>7, <1>8, <1>10 DEF IInv, Counted

LEMMA Closes ==
  ASSUME IInv, NEW b \in Box, CloseBox(b)
  PROVE  IInv'
<1>1. PICK W : Behind(links, Node, Heads, Slot, W) /\ Located(W)
  BY DEF IInv, Queued
<1>2. /\ current \in Slot /\ Live(current) /\ b \in open[current]
      /\ \A h \in Heads : current \notin W[h]
      /\ UNCHANGED <<status, pid, current, spawn_times, awaited>>
      /\ open' = [open EXCEPT ![current] = @ \ {b}]
      /\ using_box' = [using_box EXCEPT ![current] = @ \ {b}]
      /\ num_of_users' = [c \in Box |-> IF c \in {b} THEN num_of_users[c] - 1 ELSE num_of_users[c]]
      /\ links' = WithClosed(links, {b})
  BY <1>1, CurrentNowhere DEF CloseBox, CloseAll, Calling
<1>3. /\ \A i \in Slot : Live(i)' <=> Live(i)
      /\ Heads' = Heads /\ BlockHeads' = BlockHeads /\ \A r : Entry(r)' = Entry(r)
  BY <1>2 DEF Live, Heads, BlockHeads, Entry
<1>4. \A i \in Slot :
        /\ open'[i] = IF i = current THEN open[i] \ {b} ELSE open[i]
        /\ using_box'[i] = IF i = current THEN using_box[i] \ {b} ELSE using_box[i]
  BY <1>2 DEF IInv, TypeOK
<1>5. TypeOK'
  BY <1>2 DEF IInv, TypeOK
<1>6. PidsGiven' /\ Waited'
  BY <1>2, WaitedKept
<1>7. ASSUME NEW c \in Box
      PROVE  Cardinality(Openers(c)') <= num_of_users'[c]
  <2>1. IsFiniteSet(Openers(c)) /\ Cardinality(Openers(c)) \in Nat
    BY OpenersFinite
  <2>2. Cardinality(Openers(c)) <= num_of_users[c] /\ num_of_users[c] \in Int
    BY DEF IInv, Counted, TypeOK
  <2>3. CASE c = b
    <3>1. Openers(c)' = Openers(c) \ {current} /\ current \in Openers(c)
      BY <2>3, <1>2, <1>3, <1>4 DEF Openers
    <3>2. Cardinality(Openers(c) \ {current}) = Cardinality(Openers(c)) - 1
      BY <2>1, <3>1, FS_RemoveElement
    <3>3. num_of_users'[c] = num_of_users[c] - 1
      BY <2>3, <1>2
    <3> QED
      BY <2>1, <2>2, <3>1, <3>2, <3>3
  <2>4. CASE c # b
    <3>1. Openers(c)' = Openers(c)
      BY <2>4, <1>3, <1>4 DEF Openers
    <3>2. num_of_users'[c] = num_of_users[c]
      BY <2>4, <1>2
    <3> QED
      BY <2>2, <3>1, <3>2
  <2> QED
    BY <2>3, <2>4
<1>8. Counted'
  BY <1>4, <1>7 DEF IInv, Counted
<1>9. Behind(links', Node, Heads, Slot, W)
  <2>1. num_of_users[b] = 1 => W[box_queue(b)] = {}
    <3>1. box_queue(b) \in Heads
      BY NodesAre DEF BlockHeads
    <3>2. num_of_users[b] = 1 => W[box_queue(b)] \subseteq {current}
      BY <1>1, <1>2, SoleUser
    <3> QED
      BY <3>1, <3>2, <1>2
  <2> QED
    BY <2>1, <1>1, <1>2, ClosedQueues
<1>10. Located(W)'
  <2>1. ASSUME NEW c \in Box, NEW i \in W[box_queue(c)]
        PROVE  c \in open'[i] /\ awaited'[i] = 0
    <3>1. i \in Slot /\ c \in open[i] /\ awaited[i] = 0 /\ i # current
      BY <1>1, <1>2, NodesAre DEF Behind, Located, BlockHeads
    <3> QED
      BY <3>1, <1>2, <1>4
  <2> QED
    BY <2>1, <1>1, <1>2, <1>3 DEF Located
<1> QED
  BY <1>3, <1>5, <1>6, <1>8, <1>9, <1>10 DEF IInv, Queued

\* Those who wait for a task that exits stay where they are.
LEMMA Exits ==
  ASSUME IInv, Exit
  PROVE  IInv'
<1>1. PICK W : Behind(links, Node, Heads, Slot, W) /\ Located(W)
  BY DEF IInv, Queued
<1>2. /\ current \in Slot /\ Live(current) /\ status[current] \in Ready
      /\ \A h \in Heads : current \notin W[h]
      /\ status' = [status EXCEPT ![current] = "EXITED"] /\ current' = NULL
      /\ UNCHANGED <<links, pid, boxes, spawn_times, awaited>>
  BY <1>1, CurrentNowhere DEF Exit, Calling
<1>3. \A i \in Slot : status'[i] = IF i = current THEN "EXITED" ELSE status[i]
  BY <1>2 DEF IInv, TypeOK
<1>4. /\ \A i \in Slot : Live(i)' <=> Live(i) /\ i # current
      /\ Heads' = Heads /\ BlockHeads' = BlockHeads /\ \A r : Entry(r)' = Entry(r)
  BY <1>2, <1>3 DEF Live, Heads, BlockHeads, Entry
<1>5. TypeOK'
  BY <1>2 DEF IInv, TypeOK, boxes
<1>6. PidsGiven' /\ Counted'
  BY <1>2, <1>4, PidsKept, CountedKept DEF IInv, PidsGiven
<1>7. Waited'
  BY <1>2, <1>3, <1>4 DEF IInv, Waited, Ready, Entry
<1>8. Located(W)'
  <2>1. W[ready_queue] = {i \in Slot : i # current' /\ status'[i] \in Ready}
    <3>1. W[ready_queue] = {i \in Slot : i # current /\ status[i] \in Ready}
      BY <1>1 DEF Located
    <3>2. \A i \in Slot : i # NULL
      BY NodesAre
    <3> QED
      BY <3>1, <3>2, <1>2, <1>3 DEF Ready
  <2>2. W[sleep_wait_queue] = {i \in Slot : status'[i] = "SLEEPING"}
    BY <1>1, <1>2, <1>3 DEF Located, Ready
  <2>3. ASSUME NEW i \in Slot
        PROVE  status'[i] = "BLOCKED" <=> \E h \in BlockHeads' : i \in W[h]
    <3>1. CASE i = current
      BY <3>1, <1>2, <1>3, <1>4 DEF BlockHeads
    <3>2. CASE i # current
      BY <3>2, <1>1, <1>3, <1>4 DEF Located
    <3> QED
      BY <3>1, <3>2
  <2>4. ASSUME NEW b \in Box, NEW i \in W[box_queue(b)]
        PROVE  b \in open'[i] /\ awaited'[i] = 0
    BY <1>1, <1>2 DEF Located, boxes
  <2>5. ASSUME NEW j \in Slot, pid'[j] # 0, NEW i \in W[pwaitqueue(j)]
        PROVE  awaited'[i] = pid'[j]
    <3>1. pid[j] # 0
      BY <2>5, <1>2
    <3>2. awaited[i] = pid[j]
      BY <3>1, <1>1 DEF Located
    <3> QED
      BY <3>1, <3>2, <1>2
  <2> QED
    BY <2>1, <2>2, <2>3, <2>4, <2>5 DEF Located
<1> QED
  BY <1>1, <1>2, <1>4, <1>5, <1>6, <1>7, <1>8 DEF IInv, Queued

\* do_spawn() of a new task: its entry is in no list, and nobody waits in its own.
LEMMA Spawns ==
  ASSUME IInv, Spawn, FreeSlots # {}, Intact'
  PROVE  IInv'
<1>1. PICK W : Behind(links, Node, Heads, Slot, W) /\ Located(W)
  BY DEF IInv, Queued
<1>2. PICK i : i = First(FreeSlots)
  OBVIOUS
<1>3. i \in Slot /\ status[i] = "EXITED" /\ ~Live(i)
  <2>1. FreeSlots \in SUBSET Nat
    BY ProcessAssumption DEF FreeSlots, Slot
  <2>2. \E j \in FreeSlots : \A k \in FreeSlots : j <= k
    BY <2>1, LeastNat
  <2>3. i \in FreeSlots
    BY <2>2, <1>2 DEF First
  <2> QED
    BY <2>3 DEF FreeSlots, Live
<1>4. i # current /\ \A h \in Heads : i \notin W[h]
  <2>1. i # NULL
    BY <1>3, NodesAre
  <2>2. i # current
    BY <2>1, <1>3 DEF IInv, Waited, Ready
  <2> QED
    BY <2>2, <1>1, <1>3, EndedNowhere
<1>5. /\ links' = enqueue(queue_init(links, pwaitqueue(i)), ready_queue, i)
      /\ status' = [status EXCEPT ![i] = "FIRST_TIME"]
      /\ pid' = [pid EXCEPT ![i] = spawn_times + 1]
      /\ using_box' = [using_box EXCEPT ![i] = {}]
      /\ open' = [open EXCEPT ![i] = {}]
      /\ awaited' = [awaited EXCEPT ![i] = 0]
      /\ spawn_times' = spawn_times + 1 /\ UNCHANGED <<current, num_of_users>>
  BY <1>2 DEF Spawn, UsesNone
<1>6. \A j \in Slot :
        /\ status'[j] = IF j = i THEN "FIRST_TIME" ELSE status[j]
        /\ pid'[j] = IF j = i THEN spawn_times + 1 ELSE pid[j]
        /\ using_box'[j] = IF j = i THEN {} ELSE using_box[j]
        /\ open'[j] = IF j = i THEN {} ELSE open[j]
        /\ awaited'[j] = IF j = i THEN 0 ELSE awaited[j]
  BY <1>3, <1>5 DEF IInv, TypeOK
<1>7. spawn_times \in Nat /\ spawn_times + 1 # 0
  BY DEF IInv, TypeOK
<1>8. \A j \in Slot : Live(j)' <=> Live(j) \/ j = i
  BY <1>6 DEF Live
<1>9. TypeOK'
  <2>1. status' \in [Slot -> Ready \cup {"SLEEPING", "BLOCKED", "EXITED"}]
    BY <1>5 DEF IInv, TypeOK, Ready
  <2>2. /\ pid' \in [Slot -> Nat] /\ spawn_times' \in Nat /\ awaited' \in [Slot -> Nat]
        /\ current' \in Slot \cup {NULL} /\ num_of_users' \in [Box -> Int]
    <3>1. PICK n \in Nat : n = spawn_times + 1
      BY <1>7
    <3>2. pid' = [pid EXCEPT ![i] = n] /\ spawn_times' = n
      BY <3>1, <1>5
    <3>3. pid' \in [Slot -> Nat]
      BY <3>1, <3>2 DEF IInv, TypeOK
    <3>4. awaited' \in [Slot -> Nat]
      BY <1>5 DEF IInv, TypeOK
    <3>5. current' \in Slot \cup {NULL}
      BY <1>5 DEF IInv, TypeOK
    <3>6. num_of_users' \in [Box -> Int]
      BY <1>5 DEF IInv, TypeOK
    <3> QED
      BY <3>1, <3>2, <3>3, <3>4, <3>5, <3>6
  <2>3. using_box' \in [Slot -> SUBSET Box] /\ open' \in [Slot -> SUBSET Box]
    BY <1>5 DEF IInv, TypeOK
  <2> QED
    BY <2>1, <2>2, <2>3 DEF TypeOK
<1>10. PidsGiven'
  <2>1. \A j \in Slot : pid[j] \in Nat /\ pid[j] <= spawn_times
                        /\ awaited[j] \in Nat /\ awaited[j] <= spawn_times
    BY DEF IInv, TypeOK, PidsGiven
  <2>2. \A j \in Slot : pid'[j] <= spawn_times' /\ awaited'[j] <= spawn_times'
    BY <2>1, <1>5, <1>6, <1>7
  <2>3. ASSUME NEW j \in Slot, NEW k \in Slot, pid'[j] = pid'[k], pid'[j] # 0
        PROVE  j = k
    BY <2>1, <2>3, <1>6, <1>7 DEF IInv, PidsGiven
  <2>4. \A j \in Slot : Live(j)' => pid'[j] # 0
    BY <1>6, <1>7, <1>8 DEF IInv, PidsGiven
  <2> QED
    BY <2>2, <2>3, <2>4 DEF PidsGiven
<1>11. Waited'
  <2>1. current' # NULL => status'[current'] \in Ready /\ awaited'[current'] = 0
    BY <1>4, <1>5, <1>6 DEF IInv, TypeOK, Waited
  <2>2. ASSUME NEW j \in Slot, status'[j] \in Ready \cup {"SLEEPING"}, awaited'[j] # 0,
               NEW k \in Slot, pid'[k] = awaited'[j]
        PROVE  ~Live(k)'
    <3>1. j # i /\ awaited[j] # 0 /\ status[j] \in Ready \cup {"SLEEPING"}
      BY <2>2, <1>6
    <3>2. awaited[j] <= spawn_times /\ awaited[j] \in Nat
      BY DEF IInv, PidsGiven, TypeOK
    <3>3. k # i
      BY <2>2, <3>1, <3>2, <1>6, <1>7
    <3>4. k \in Entry(awaited[j])
      BY <2>2, <3>1, <3>3, <1>6 DEF Entry
    <3> QED
      BY <3>1, <3>3, <3>4, <1>8 DEF IInv, Waited
  <2> QED
    BY <2>1, <2>2 DEF Waited, Entry
<1>12. Counted'
  <2>1. \A b \in Box : Openers(b)' = Openers(b)
    BY <1>3, <1>6, <1>8 DEF Openers
  <2> QED
    BY <2>1, <1>5, <1>6 DEF IInv, Counted
<1>13. /\ pwaitqueue(i) \in Node /\ pwaitqueue(i) \notin Slot
       /\ pwaitqueue(i) \notin {ready_queue, sleep_wait_queue}
       /\ ready_queue \in Heads /\ sleep_wait_queue \in Heads
  BY <1>3, NodesAre
<1>14. pwaitqueue(i) \in Heads => W[pwaitqueue(i)] = {}
  <2>1. pid[i] # 0 => is_empty(links, pwaitqueue(i))
    BY <1>2 DEF Spawn, Intact
  <2> QED
    BY <2>1, <1>1, <1>3, NodesAre, BehindPeek
<1>15. Heads' = Heads \cup {pwaitqueue(i)} /\ BlockHeads' = BlockHeads \cup {pwaitqueue(i)}
  <2>1. \A j \in Slot : pid'[j] # 0 <=> pid[j] # 0 \/ j = i
    BY <1>6, <1>7
  <2>2. Heads' = Heads \cup {pwaitqueue(i)}
    BY <2>1, <1>3 DEF Heads
  <2> QED
    BY <2>2, <1>13 DEF BlockHeads
<1>16. PICK U : U = [g \in Heads \cup {pwaitqueue(i)} |-> IF g = pwaitqueue(i) THEN {} ELSE W[g]]
  OBVIOUS
<1>17. Behind(queue_init(links, pwaitqueue(i)), Node, Heads', Slot, U)
  BY <1>1, <1>13, <1>14, <1>15, <1>16, BehindInit
<1>18. PICK V : V = [U EXCEPT ![ready_queue] = @ \cup {i}]
  OBVIOUS
<1>19. Behind(links', Node, Heads', Slot, V)
  <2>1. \A g \in Heads' : i \notin U[g]
    BY <1>4, <1>15, <1>16
  <2>2. ready_queue \in Heads'
    BY <1>13, <1>15
  <2> QED
    BY <2>1, <2>2, <1>3, <1>5, <1>17, <1>18, BehindEnqueue
<1>20. /\ V[pwaitqueue(i)] = {} /\ V[ready_queue] = W[ready_queue] \cup {i}
       /\ \A h \in Heads : h \notin {ready_queue, pwaitqueue(i)} => V[h] = W[h]
  BY <1>13, <1>16, <1>18
<1>21. Located(V)'
  <2>1. V[ready_queue] = {j \in Slot : j # current' /\ status'[j] \in Ready}
    <3>1. W[ready_queue] = {j \in Slot : j # current /\ status[j] \in Ready}
      BY <1>1 DEF Located
    <3>2. \A j \in Slot : j \in V[ready_queue] <=> j # current' /\ status'[j] \in Ready
      BY <3>1, <1>4, <1>5, <1>6, <1>20 DEF Ready
    <3> QED
      BY <3>1, <3>2, <1>3, <1>20
  <2>2. V[sleep_wait_queue] = {j \in Slot : status'[j] = "SLEEPING"}
    <3>1. W[sleep_wait_queue] = {j \in Slot : status[j] = "SLEEPING"}
      BY <1>1 DEF Located
    <3>2. V[sleep_wait_queue] = W[sleep_wait_queue]
      BY <1>13, <1>20, NodesAre
    <3> QED
      BY <3>1, <3>2, <1>3, <1>6
  <2>3. ASSUME NEW j \in Slot
        PROVE  status'[j] = "BLOCKED" <=> \E h \in BlockHeads' : j \in V[h]
    <3>1. \A h \in BlockHeads' : j \in V[h] <=> h \in BlockHeads /\ j \in W[h]
      BY <1>14, <1>15, <1>20 DEF BlockHeads
    <3>2. status[j] = "BLOCKED" <=> \E h \in BlockHeads : j \in W[h]
      BY <1>1 DEF Located
    <3>3. BlockHeads \subseteq BlockHeads'
      BY <1>15
    <3> QED
      BY <3>1, <3>2, <3>3, <1>3, <1>6
  <2>4. ASSUME NEW b \in Box, NEW j \in V[box_queue(b)]
        PROVE  b \in open'[j] /\ awaited'[j] = 0
    <3>1. box_queue(b) \in Heads /\ box_queue(b) \notin {ready_queue, pwaitqueue(i)}
      BY <1>3, NodesAre DEF BlockHeads
    <3>2. j \in W[box_queue(b)] /\ j \in Slot /\ j # i
      BY <3>1, <1>1, <1>4, <1>20 DEF Behind
    <3> QED
      BY <3>2, <1>1, <1>6 DEF Located
  <2>5. ASSUME NEW j \in Slot, pid'[j] # 0, NEW k \in V[pwaitqueue(j)]
        PROVE  awaited'[k] = pid'[j]
    <3>1. j # i /\ pid[j] # 0
      BY <2>5, <1>6, <1>20
    <3>2. /\ pwaitqueue(j) \in Heads
          /\ pwaitqueue(j) \notin {ready_queue, pwaitqueue(i)}
      BY <3>1, <1>3, NodesAre
    <3>3. k \in W[pwaitqueue(j)] /\ k \in Slot /\ k # i
      BY <3>2, <1>1, <1>4, <1>20 DEF Behind
    <3>4. awaited[k] = pid[j]
      BY <3>1, <3>3, <1>1 DEF Located
    <3> QED
      BY <3>1, <3>3, <3>4, <1>6, <1>8
  <2> QED
    BY <2>1, <2>2, <2>3, <2>4, <2>5 DEF Located
<1> QED
  BY <1>9, <1>10, <1>11, <1>12, <1>19, <1>21 DEF IInv, Queued

\* do_spawn() with the table full.
LEMMA SpawnsNone ==
  ASSUME IInv, Spawn, FreeSlots = {}
  PROVE  IInv'
<1>1. /\ UNCHANGED <<links, status, pid, current, boxes, awaited>>
      /\ spawn_times' = spawn_times + 1
  BY DEF Spawn, boxes
<1>2. TypeOK'
  BY <1>1 DEF IInv, TypeOK, boxes
<1>3. PidsGiven'
  BY <1>1 DEF IInv, PidsGiven, TypeOK, Live
<1>4. Waited' /\ Queued'
  <2>1. /\ links' = links /\ status' = status /\ pid' = pid /\ current' = current
        /\ open' = open /\ awaited' = awaited
    BY <1>1 DEF boxes
  <2>2. PICK W : Behind(links, Node, Heads, Slot, W) /\ Located(W)
    BY DEF IInv, Queued
  <2>3. Heads' = Heads /\ BlockHeads' = BlockHeads
    BY <2>1 DEF Heads, BlockHeads
  <2>4. Waited'
    BY <2>1 DEF IInv, Waited, Entry, Live
  <2>5. Located(W)'
    BY <2>1, <2>2, <2>3 DEF Located, Live
  <2> QED
    BY <2>1, <2>2, <2>3, <2>4, <2>5 DEF Queued
<1>5. Counted'
  BY <1>1, CountedKept DEF Live
<1> QED
  BY <1>2, <1>3, <1>4, <1>5 DEF IInv

\* A task that has not ended and does not run is in a list.
LEMMA LiveSomewhere ==
  ASSUME IInv, NEW W, Located(W), NEW i \in Slot, Live(i), i # current
  PROVE  \E h \in Heads : i \in W[h]
<1>1. status[i] \in Ready \cup {"SLEEPING", "BLOCKED"}
  BY DEF IInv, TypeOK, Live
<1>2. ready_queue \in Heads /\ sleep_wait_queue \in Heads /\ BlockHeads \subseteq Heads
  BY NodesAre DEF BlockHeads
<1> QED
  BY <1>1, <1>2 DEF Located

\* The entry that has a pid is the first of those that have it.
LEMMA EntryFirst ==
  ASSUME IInv, NEW p \in 1 .. MaxSpawns, NEW i \in Entry(p)
  PROVE  First(Entry(p)) = i
<1>1. p \in Nat /\ p # 0
  BY ProcessAssumption
<1>2. \A j \in Entry(p) : j = i
  BY <1>1 DEF IInv, PidsGiven, Entry
<1>3. \A x \in Entry(p) : \A y \in Entry(p) : x <= y
  BY <1>2, ProcessAssumption DEF Slot, Entry
<1>4. First(Entry(p)) \in Entry(p)
  BY <1>3 DEF First
<1> QED
  BY <1>2, <1>4

\* Those who wait for a task that another ends are ready.
WaitersWoken ==
  \A i, j \in Slot :
    /\ i # current /\ Live(i) /\ ~Live(i)'
    /\ j # i /\ status[j] = "BLOCKED" /\ awaited[j] = pid[i]
    => status'[j] = "READY"

\* do_kill() of another task that has not ended: it is unlinked, wherever it is,
\* its waiters go on, and what it opened itself is given back.
LEMMA Kills ==
  ASSUME IInv, NEW p \in 1 .. MaxSpawns, Kill(p), Intact'
  PROVE  /\ IInv'
         /\ WaitersWoken
<1>1. PICK W : Behind(links, Node, Heads, Slot, W) /\ Located(W)
  BY DEF IInv, Queued
<1>2. PICK i \in Entry(p) : i = First(Entry(p)) /\ Live(i) /\ i # current /\ CloseAll(using_box[i])
  <2>1. PICK k \in Entry(p) : TRUE
    BY DEF Kill
  <2>2. k = First(Entry(p))
    BY EntryFirst
  <2> QED
    BY <2>1, <2>2 DEF Kill, Intact
<1>3. PICK B \in SUBSET Box : B = using_box[i] /\ B \subseteq open[i]
  BY <1>2 DEF IInv, TypeOK, Counted, Entry
<1>4. PICK M : M = Unlink(WithClosed(links, B), i)
  OBVIOUS
<1>5. /\ i \in Slot /\ pid[i] = p /\ p # 0
      /\ IsRing(M, pwaitqueue(i)) =>
           /\ links' = UnblockAll(M, pwaitqueue(i))
           /\ status' = WithReady(M, pwaitqueue(i), [status EXCEPT ![i] = "EXITED"])
      /\ UNCHANGED <<pid, current, spawn_times, open, awaited>>
  <2>1. i \in Slot /\ pid[i] = p /\ p # 0
    BY <1>2, ProcessAssumption DEF Entry
  <2>2. stopped' = ~IsRing(M, pwaitqueue(i))
    BY <1>2, <1>3, <1>4 DEF Kill
  <2>3. ~stopped' => /\ links' = UnblockAll(M, pwaitqueue(i))
                     /\ status' = WithReady(M, pwaitqueue(i), [status EXCEPT ![i] = "EXITED"])
    BY <1>2, <1>3, <1>4 DEF Kill
  <2>4. UNCHANGED <<pid, current, spawn_times, open, awaited>>
    BY DEF Kill
  <2> QED
    BY <2>1, <2>2, <2>3, <2>4
<1>6. /\ current \in Slot /\ \A h \in Heads : current \notin W[h]
      /\ using_box' = [using_box EXCEPT ![current] = @ \ B]
      /\ num_of_users' = [b \in Box |-> IF b \in B THEN num_of_users[b] - 1 ELSE num_of_users[b]]
  BY <1>1, <1>2, <1>3, CurrentNowhere DEF CloseAll, Kill, Calling
<1>7. PICK h \in Heads : i \in W[h]
  BY <1>1, <1>2, <1>5, LiveSomewhere
<1>8. PICK U : U = [W EXCEPT ![h] = @ \ {i}]
  OBVIOUS
<1>9. Behind(M, Node, Heads, Slot, U)
  <2>1. ASSUME NEW b \in B, num_of_users[b] = 1
        PROVE  W[box_queue(b)] \subseteq {i}
    BY <2>1, <1>1, <1>2, <1>3, <1>5, SoleUser
  <2> QED
    BY <2>1, <1>1, <1>4, <1>7, <1>8, ClosedUnlinked
<1>10. PICK q \in Heads : q = pwaitqueue(i) /\ q # ready_queue
  BY <1>5, NodesAre
<1>11. PICK V : V = [U EXCEPT ![q] = {}, ![ready_queue] = @ \cup U[q]]
  OBVIOUS
<1>12. /\ Woken(M, q) = U[q] /\ Behind(links', Node, Heads, Slot, V)
       /\ status' = WithReady(M, q, [status EXCEPT ![i] = "EXITED"])
  <2>1. IsRing(M, q)
    BY <1>9, <1>10, SlotsFinite, BehindRing
  <2>2. /\ links' = UnblockAll(M, q)
        /\ status' = WithReady(M, q, [status EXCEPT ![i] = "EXITED"])
    BY <2>1, <1>5, <1>10
  <2>3. Woken(M, q) = U[q] /\ Behind(UnblockAll(M, q), Node, Heads, Slot, V)
    BY <1>9, <1>10, <1>11, UnblockAllIs
  <2> QED
    BY <2>2, <2>3
<1>13. /\ \A g \in Heads : U[g] = W[g] \ {i}
       /\ \A g \in Heads : i \notin U[g]
  <2>1. \A g \in Heads : g # h => i \notin W[g]
    BY <1>1, <1>7, BehindOnce
  <2>2. \A g \in Heads : U[g] = IF g = h THEN W[g] \ {i} ELSE W[g]
    BY <1>1, <1>8 DEF Behind
  <2> QED
    BY <2>1, <2>2
<1>14. WakeStep(W, V, q, U[q], {i})
  <2>1. U[q] \subseteq W[q] /\ {i} \subseteq Slot /\ current \notin {i} /\ U[q] \ {i} = U[q]
    BY <1>2, <1>5, <1>13
  <2>2. status' = [k \in Slot |-> IF k \in U[q] \ {i} THEN "READY"
                                  ELSE IF k \in {i} THEN "EXITED" ELSE status[k]]
    BY <2>1, <1>5, <1>12 DEF WithReady, IInv, TypeOK
  <2>3. ASSUME NEW k \in U[q] \ {i}, awaited[k] # 0, NEW j \in Entry(awaited[k])
        PROVE  j \in {i}
    <3>1. awaited[k] = pid[i]
      BY <1>1, <1>5, <1>10, <1>13 DEF Located
    <3> QED
      BY <2>3, <3>1, <1>5 DEF Entry, IInv, PidsGiven
  <2>4. \A g \in Heads : V[g] = IF g = q THEN W[g] \ (U[q] \cup {i})
                                ELSE IF g = ready_queue THEN (W[g] \cup U[q]) \ {i}
                                ELSE W[g] \ {i}
    <3>1. U \in [Heads -> SUBSET Slot] /\ ready_queue \in Heads
      BY <1>9, NodesAre DEF Behind
    <3>2. \A g \in Heads : V[g] = IF g = q THEN {}
                                  ELSE IF g = ready_queue THEN U[g] \cup U[q] ELSE U[g]
      BY <3>1, <1>10, <1>11
    <3>3. W[q] \ (U[q] \cup {i}) = {}
      BY <1>13
    <3>4. (W[ready_queue] \cup U[q]) \ {i} = U[ready_queue] \cup U[q]
      BY <3>1, <1>13
    <3> QED
      BY <3>2, <3>3, <3>4, <1>13
  <2> QED
    BY <2>1, <2>2, <2>3, <2>4, <1>1, <1>5, <1>10, <1>12 DEF WakeStep
<1>15. /\ status' \in [Slot -> Ready \cup {"SLEEPING", "BLOCKED", "EXITED"}]
       /\ PidsGiven' /\ Waited' /\ Queued'
       /\ \A k \in Slot : Live(k)' <=> Live(k) /\ k \notin {i}
  BY <1>14, Wakes
<1>16. TypeOK'
  <2>1. using_box' \in [Slot -> SUBSET Box] /\ num_of_users' \in [Box -> Int]
    BY <1>6 DEF IInv, TypeOK
  <2> QED
    BY <2>1, <1>5, <1>15 DEF IInv, TypeOK
<1>17. ASSUME NEW b \in Box
       PROVE  Cardinality(Openers(b)') <= num_of_users'[b]
  <2>1. IsFiniteSet(Openers(b)) /\ Cardinality(Openers(b)) \in Nat
    BY OpenersFinite
  <2>2. Cardinality(Openers(b)) <= num_of_users[b] /\ num_of_users[b] \in Int
    BY DEF IInv, Counted, TypeOK
  <2>3. Openers(b)' = Openers(b) \ {i}
    BY <1>5, <1>15 DEF Openers
  <2>4. Cardinality(Openers(b) \ {i}) =
          IF i \in Openers(b) THEN Cardinality(Openers(b)) - 1 ELSE Cardinality(Openers(b))
    BY <2>1, FS_RemoveElement
  <2>5. b \in B => i \in Openers(b)
    BY <1>2, <1>3, <1>5 DEF Openers
  <2>6. num_of_users'[b] = IF b \in B THEN num_of_users[b] - 1 ELSE num_of_users[b]
    BY <1>6
  <2> QED
    BY <2>1, <2>2, <2>3, <2>4, <2>5, <2>6
<1>18. Counted'
  BY <1>5, <1>6, <1>17 DEF IInv, TypeOK, Counted
<1>19. ASSUME NEW k \in Slot, Live(k), ~Live(k)', NEW j \in Slot, j # k,
              status[j] = "BLOCKED", awaited[j] = pid[k]
       PROVE  status'[j] = "READY"
  <2>1. k = i
    BY <1>15, <1>19
  <2>2. PICK g \in BlockHeads : j \in W[g]
    BY <1>1, <1>19 DEF Located
  <2>3. PICK m \in Slot : pid[m] # 0 /\ g = pwaitqueue(m)
    BY <2>1, <2>2, <1>1, <1>5, <1>19, NodesAre DEF Located
  <2>4. m = i
    BY <2>1, <2>2, <2>3, <1>1, <1>5, <1>19 DEF Located, IInv, PidsGiven
  <2>5. j \in U[q] \ {i}
    BY <2>1, <2>2, <2>3, <2>4, <1>10, <1>13, <1>19
  <2> QED
    BY <2>5, <1>14 DEF WakeStep
<1> QED
  BY <1>15, <1>16, <1>18, <1>19 DEF IInv, WaitersWoken

-----------------------------------------------------------------------------
(* The invariant. *)

LEMMA InitIInv ==
  ASSUME Init
  PROVE  IInv
<1>1. /\ status = [i \in Slot |-> IF i = 1 THEN "FIRST_TIME" ELSE "EXITED"]
      /\ pid = [i \in Slot |-> IF i = 1 THEN 1 ELSE 0]
      /\ current = 1 /\ spawn_times = 1 /\ 1 \in Slot
      /\ using_box = [i \in Slot |-> {}] /\ open = [i \in Slot |-> {}]
      /\ num_of_users = [b \in Box |-> 0] /\ awaited = [i \in Slot |-> 0]
  BY ProcessAssumption DEF Init, Slot
<1>2. TypeOK
  BY <1>1 DEF TypeOK, Ready
<1>3. PidsGiven /\ Waited
  BY <1>1, NodesAre DEF PidsGiven, Waited, Live, Ready
<1>4. Counted
  <2>1. \A b \in Box : Openers(b) = {} /\ num_of_users[b] = 0
    BY <1>1 DEF Openers
  <2>2. Cardinality({}) = 0
    BY FS_EmptySet
  <2> QED
    BY <2>1, <2>2, <1>1 DEF Counted
<1>5. PICK W : W = [h \in Heads |-> {}]
  OBVIOUS
<1>6. Located(W)
  <2>1. /\ W[ready_queue] = {} /\ W[sleep_wait_queue] = {}
        /\ \A h \in BlockHeads : W[h] = {}
        /\ \A b \in Box : W[box_queue(b)] = {}
        /\ \A j \in Slot : pid[j] # 0 => W[pwaitqueue(j)] = {}
    BY <1>5, NodesAre DEF BlockHeads
  <2> QED
    BY <2>1, <1>1 DEF Located, Ready
<1>7. Behind(links, Node, Heads, Slot, W)
  <2>1. PICK qs : qs = [h \in Heads |-> <<>>]
    OBVIOUS
  <2>2. \A h \in Heads : h \in Node /\ h # 1 /\ h \notin Slot
                         /\ h \notin {pwaitqueue(i) : i \in Slot \ {1}}
    BY <1>1, NodesAre
  <2>3. \A h \in Heads : links.next[h] = h /\ links.prev[h] = h
    BY <2>2 DEF Init
  <2>4. \A h \in Heads : Chain(links, <<>>, h)
    BY <2>3 DEF Chain, Nd
  <2>5. DOMAIN links.next = Node /\ DOMAIN links.prev = Node
    BY DEF Init
  <2>6. Lists(links, Node, Heads, Slot, qs)
    BY <2>1, <2>4, <2>5, NodesAre DEF Lists, OncePlaced
  <2>7. AreIn(W, Heads, Slot, qs)
    BY <2>1, <1>5 DEF AreIn
  <2> QED
    BY <2>6, <2>7, <1>5 DEF Behind
<1> QED
  BY <1>2, <1>3, <1>4, <1>6, <1>7 DEF IInv, Queued

\* A step that changes nothing that the invariant is about.
LEMMA Unchanged ==
  ASSUME IInv, UNCHANGED <<links, status, pid, current, boxes, spawn_times, awaited>>
  PROVE  IInv'
<1>1. /\ UNCHANGED <<links, status, pid, current, spawn_times, awaited>>
      /\ UNCHANGED <<using_box, num_of_users, open>>
  BY DEF boxes
<1>2. PICK W : Behind(links, Node, Heads, Slot, W) /\ Located(W)
  BY DEF IInv, Queued
<1>3. Heads' = Heads /\ BlockHeads' = BlockHeads
  BY <1>1 DEF Heads, BlockHeads
<1>4. Located(W)'
  BY <1>1, <1>2, <1>3 DEF Located, Live
<1>5. Queued'
  BY <1>1, <1>2, <1>3, <1>4 DEF Queued
<1>6. TypeOK' /\ Counted'
  BY <1>1 DEF IInv, TypeOK, Counted, Openers, Live
<1>7. PidsGiven' /\ Waited'
  BY <1>1, WaitedKept DEF IInv
<1> QED
  BY <1>5, <1>6, <1>7 DEF IInv

LEMMA Steps ==
  ASSUME IInv, [Next]_vars, Intact'
  PROVE  IInv'
<1>1. CASE Yield
  BY <1>1, Yields
<1>2. CASE Sleep
  BY <1>2, Sleeps
<1>3. CASE WakeSleeper
  BY <1>3, SleeperWakes
<1>4. CASE PickNext
  BY <1>4, Picks
<1>5. CASE Exit
  BY <1>5, Exits
<1>6. CASE Spawn
  BY <1>6, Spawns, SpawnsNone
<1>7. CASE \E b \in Box : OpenBox(b) \/ CloseBox(b) \/ BlockOnBox(b) \/ WakeBox(b)
  BY <1>7, Opens, Closes, Blocks, BoxWakes
<1>8. CASE \E p \in 1 .. MaxSpawns : Kill(p) \/ Wait(p)
  BY <1>8, Kills, Waits
<1>9. CASE \E p \in 1 .. MaxSpawns : WaitForNobody(p)
  BY <1>9, Unchanged DEF WaitForNobody
<1>10. CASE UNCHANGED vars
  BY <1>10, Unchanged DEF vars
<1> QED
  BY <1>1, <1>2, <1>3, <1>4, <1>5, <1>6, <1>7, <1>8, <1>9, <1>10 DEF Next

\* What is damaged stays damaged.
LEMMA Corrupts ==
  ASSUME [Next]_vars, corrupted
  PROVE  corrupted'
<1>1. UNCHANGED corrupted \/ Spawn \/ \E p \in 1 .. MaxSpawns : Kill(p)
  BY DEF Next, vars, flags, Yield, Sleep, WakeSleeper, PickNext, Exit, OpenBox, CloseBox,
         BlockOnBox, WakeBox, Wait, WaitForNobody
<1>2. ASSUME Spawn
      PROVE  corrupted'
  BY <1>2 DEF Spawn, flags
<1>3. ASSUME NEW p \in 1 .. MaxSpawns, Kill(p)
      PROVE  corrupted'
  BY <1>3 DEF Kill
<1> QED
  BY <1>1, <1>2, <1>3

Safe == Intact => IInv

LEMMA Invariant == Spec => []Safe
<1>1. Init => Safe
  BY InitIInv DEF Safe
<1>2. Safe /\ [Next]_vars => Safe'
  BY Steps, Corrupts DEF Safe, Intact
<1> QED
  BY <1>1, <1>2, PTL DEF Spec

-----------------------------------------------------------------------------
(* Theorems. *)

\* kernel.c:275-279: until a task in no queue is killed or a waitqueue in use is
\* initialised, the queues are rings and every task is in the one queue that its
\* status names.
LEMMA LinkedNow ==
  ASSUME IInv
  PROVE  TasksLinked
<1>1. PICK W : Behind(links, Node, Heads, Slot, W) /\ Located(W)
  BY DEF IInv, Queued
<1>2. \A h \in Heads : IsRing(links, h) /\ \A i \in Slot : Linked(links, h, i) <=> i \in W[h]
  BY <1>1, SlotsFinite, BehindRing
<1>3. ASSUME NEW i \in Slot, NEW in, in = {h \in Heads : Linked(links, h, i)}
      PROVE  /\ Cardinality(in) = (IF Live(i) /\ i # current THEN 1 ELSE 0)
             /\ i = current => status[i] \in {"FIRST_TIME", "READY"}
             /\ ready_queue \in in <=>
                  Live(i) /\ i # current /\ status[i] \in {"FIRST_TIME", "READY"}
             /\ sleep_wait_queue \in in <=> status[i] = "SLEEPING"
  <2>1. in = {h \in Heads : i \in W[h]}
    BY <1>2, <1>3
  <2>2. i = current => status[i] \in {"FIRST_TIME", "READY"}
    BY NodesAre DEF IInv, Waited, Ready
  <2>3. ready_queue \in in <=>
          Live(i) /\ i # current /\ status[i] \in {"FIRST_TIME", "READY"}
    BY <2>1, <1>1, NodesAre DEF Located, Live, Ready
  <2>4. sleep_wait_queue \in in <=> status[i] = "SLEEPING"
    BY <2>1, <1>1, NodesAre DEF Located
  <2>5. CASE Live(i) /\ i # current
    <3>1. PICK h \in Heads : i \in W[h]
      BY <2>5, <1>1, LiveSomewhere
    <3>2. \A g \in Heads : i \in W[g] => g = h
      BY <3>1, <1>1, BehindOnce
    <3>3. in = {h}
      BY <3>1, <3>2, <2>1
    <3>4. Cardinality({h}) = 1
      BY FS_Singleton
    <3> QED
      BY <3>3, <3>4, <2>2, <2>3, <2>4, <2>5
  <2>6. CASE ~(Live(i) /\ i # current)
    <3>1. i # NULL
      BY NodesAre
    <3>2. \A h \in Heads : i \notin W[h]
      BY <3>1, <2>6, <1>1, CurrentNowhere, EndedNowhere
    <3>3. in = {}
      BY <3>2, <2>1
    <3>4. Cardinality({}) = 0
      BY FS_EmptySet
    <3> QED
      BY <3>3, <3>4, <2>2, <2>3, <2>4, <2>6
  <2> QED
    BY <2>5, <2>6
<1> QED
  BY <1>2, <1>3 DEF TasksLinked

THEOREM TasksAreLinked == Spec => []TasksLinked
<1>1. Safe => TasksLinked
  BY LinkedNow DEF Safe, TasksLinked
<1> QED
  BY <1>1, Invariant, PTL

\* Whoever ends but the running task is killed.
LEMMA OthersEndByKill ==
  ASSUME IInv, Next, NEW i \in Slot, i # current, Live(i), ~Live(i)'
  PROVE  \E p \in 1 .. MaxSpawns : Kill(p)
<1>1. status \in [Slot -> Ready \cup {"SLEEPING", "BLOCKED", "EXITED"}]
  BY DEF IInv, TypeOK
<1>2. status[i] # "EXITED" /\ status'[i] = "EXITED"
  BY DEF Live
<1>3. ASSUME NEW q, NEW t \in {"READY", "SLEEPING", "BLOCKED"}, GiveUpCpu(q, t)
      PROVE  FALSE
  BY <1>1, <1>2, <1>3 DEF GiveUpCpu
<1>4. ~Yield /\ ~Sleep /\ (\A b \in Box : ~BlockOnBox(b))
      /\ \A p \in 1 .. MaxSpawns : ~Wait(p)
  BY <1>3 DEF Yield, Sleep, BlockOnBox, Wait
<1>5. ~WakeSleeper /\ ~Exit
  BY <1>1, <1>2 DEF WakeSleeper, Exit
<1>6. ~Spawn
  BY <1>1, <1>2 DEF Spawn
<1>7. ~PickNext /\ (\A b \in Box : ~OpenBox(b) /\ ~CloseBox(b))
      /\ \A p \in 1 .. MaxSpawns : ~WaitForNobody(p)
  BY <1>2 DEF PickNext, OpenBox, CloseBox, WaitForNobody
<1>8. \A b \in Box : ~WakeBox(b)
  BY <1>2 DEF WakeBox, WithReady
<1> QED
  BY <1>4, <1>5, <1>6, <1>7, <1>8 DEF Next

\* kernel.c:278-279: under the same condition, all who wait for a task that is
\* killed become ready, and are linked in the ready queue.
WaitersGoOn ==
  \A i, j \in Slot :
    /\ Intact' /\ i # current /\ Live(i) /\ ~Live(i)'
    /\ j # i /\ status[j] = "BLOCKED" /\ awaited[j] = pid[i]
    => status'[j] = "READY" /\ Linked(links', ready_queue, j)

THEOREM KillsWakeWaiters == Spec => KillWakesWaiters
<1>1. ASSUME IInv, Next, Intact', IInv', NEW i \in Slot, NEW j \in Slot,
             i # current, Live(i), ~Live(i)',
             j # i, status[j] = "BLOCKED", awaited[j] = pid[i]
      PROVE  status'[j] = "READY" /\ Linked(links', ready_queue, j)
  <2>1. PICK p \in 1 .. MaxSpawns : Kill(p)
    BY <1>1, OthersEndByKill
  <2>2. status'[j] = "READY"
    BY <1>1, <2>1, Kills DEF WaitersWoken
  <2>3. j # current'
    <3>1. current' = current /\ current \in Slot /\ status[current] \in Ready
      BY <1>1, <2>1 DEF Kill, Calling, IInv, TypeOK, Waited
    <3> QED
      BY <3>1, <1>1 DEF Ready
  <2>4. PICK W : Behind(links', Node, Heads', Slot, W) /\ Located(W)'
    BY <1>1 DEF IInv, Queued
  <2>5. j \in W[ready_queue]
    BY <2>2, <2>3, <2>4 DEF Located, Ready
  <2>6. ready_queue \in Heads'
    BY DEF Heads
  <2> QED
    BY <2>2, <2>4, <2>5, <2>6, SlotsFinite, BehindRing
<1>2. Safe /\ Safe' /\ [Next]_vars /\ ([Next]_vars /\ corrupted => corrupted') => [WaitersGoOn]_vars
  BY <1>1 DEF WaitersGoOn, Safe, Intact
<1>3. Spec => [][WaitersGoOn]_vars
  BY <1>2, Corrupts, Invariant, PTL DEF Spec
<1> QED
  BY <1>3 DEF KillWakesWaiters, WaitersGoOn

\* kernel.c:270-273: under the same condition, the boxes that a killed task gives
\* back are not those that another has open.
THEOREM BoxesStay == Spec => []BoxesKept
<1>1. Safe => BoxesKept
  BY DEF Safe, IInv, Counted, Openers, BoxesKept
<1> QED
  BY <1>1, Invariant, PTL

\* The states in which a wait has just returned.
WaitsEnd ==
  \A i \in Slot : Intact /\ awaited[i] # 0 /\ awaited'[i] = 0 /\ current' = i =>
    \A j \in Entry(awaited[i]) : ~Live(j)

\* syslib.h:72-76: under the same condition, a wait returns when the task that had
\* the pid has ended.
THEOREM WaitsEndWithTask == Spec => WaitEndsWithTask
<1>1. ASSUME IInv, Next, NEW i \in Slot, awaited[i] # 0, awaited'[i] = 0, current' = i
      PROVE  \A j \in Entry(awaited[i]) : ~Live(j)
  <2>1. i # NULL /\ i # current
    BY <1>1, NodesAre DEF IInv, Waited
  <2>2. current' # current /\ current' # NULL /\ awaited' # awaited
    BY <1>1, <2>1
  <2>3. PickNext
    BY <1>1, <2>2 DEF Next, Yield, Sleep, WakeSleeper, Exit, Spawn, OpenBox, CloseBox,
                      BlockOnBox, WakeBox, Kill, Wait, WaitForNobody, GiveUpCpu
  <2>4. PICK W : Behind(links, Node, Heads, Slot, W) /\ Located(W)
    BY <1>1 DEF IInv, Queued
  <2>5. ready_queue \in Heads /\ ~is_empty(links, ready_queue) /\ i = peek(links, ready_queue)
    BY <1>1, <2>3, NodesAre DEF PickNext
  <2>6. i \in W[ready_queue]
    BY <2>4, <2>5, BehindPeek
  <2>7. status[i] \in Ready
    BY <2>4, <2>6 DEF Located
  <2> QED
    BY <1>1, <2>7 DEF IInv, Waited
<1>2. Safe /\ [Next]_vars => [WaitsEnd]_vars
  BY <1>1 DEF WaitsEnd, Safe
<1>3. Spec => [][WaitsEnd]_vars
  BY <1>2, Invariant, PTL DEF Spec
<1> QED
  BY <1>3 DEF WaitEndsWithTask, WaitsEnd
=============================================================================
