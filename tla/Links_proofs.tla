---------------------------- MODULE Links_proofs ----------------------------
(***************************************************************************)
(* queue.c implements sequences: for any heads and items, finitely many,   *)
(* any deadlines and any calls that enqueue only what is in no queue.      *)
(* Then the scheduler of project 3, which takes tasks out of the middle of *)
(* its ready queue and keeps the queue of those that sleep sorted.         *)
(***************************************************************************)
EXTENDS TaskQueue, Priority, QueueLemmas, SequenceTheorems

\* The nodes are lists of some sequences, and of those alone.
Listed == \E qs : Lists(nodes, Node, Heads, Item, qs)

IInv == key \in [Item -> Nat] /\ Listed

-----------------------------------------------------------------------------
(* Sequences: insertion and removal, written as in SequenceQueues. *)

LEMMA CutIs ==
  ASSUME NEW I, NEW s \in Seq(I), NEW a \in 1 .. Len(s) + 1, NEW b \in 0 .. Len(s), a <= b + 1
  PROVE  /\ SubSeq(s, a, b) \in Seq(I) /\ Len(SubSeq(s, a, b)) = b - a + 1
         /\ \A m \in 1 .. b - a + 1 : SubSeq(s, a, b)[m] = s[a + m - 1]
<1>1. Len(s) \in Nat /\ a \in Int /\ b \in Int
  OBVIOUS
<1>2. \A m \in a .. b : s[m] \in I
  BY <1>1
<1>3. /\ SubSeq(s, a, b) \in Seq(I)
      /\ Len(SubSeq(s, a, b)) = IF a <= b THEN b - a + 1 ELSE 0
      /\ \A m \in 1 .. b - a + 1 : SubSeq(s, a, b)[m] = s[a + m - 1]
  BY <1>1, <1>2, SubSeqProperties
<1> QED BY <1>1, <1>3

LEMMA InsertedSubSeq ==
  ASSUME NEW I, NEW s \in Seq(I), NEW i \in I, NEW k \in 1 .. Len(s) + 1
  PROVE  Inserted(s, k, i) = SubSeq(s, 1, k - 1) \o <<i>> \o SubSeq(s, k, Len(s))
<1>1. PICK n \in Nat : n = Len(s)
  OBVIOUS
<1>2. PICK t : t = Inserted(s, k, i)
  OBVIOUS
<1>3. k \in Int /\ 1 <= k /\ k <= n + 1
  BY <1>1
<1>4. PICK a : a = SubSeq(s, 1, k - 1)
  OBVIOUS
<1>5. a \in Seq(I) /\ Len(a) = k - 1 /\ \A m \in 1 .. k - 1 : a[m] = s[m]
  <2>1. 1 \in 1 .. Len(s) + 1 /\ k - 1 \in 0 .. Len(s) /\ 1 <= (k - 1) + 1
    BY <1>1, <1>3
  <2>2. /\ a \in Seq(I) /\ Len(a) = (k - 1) - 1 + 1
        /\ \A m \in 1 .. (k - 1) - 1 + 1 : a[m] = s[1 + m - 1]
    BY <2>1, <1>4, CutIs
  <2>3. (k - 1) - 1 + 1 = k - 1 /\ \A m \in 1 .. k - 1 : 1 + m - 1 = m
    BY <1>3
  <2> QED BY <2>2, <2>3
<1>6. PICK b : b = SubSeq(s, k, n)
  OBVIOUS
<1>7. b \in Seq(I) /\ Len(b) = n - k + 1 /\ \A m \in 1 .. n - k + 1 : b[m] = s[k + m - 1]
  <2>1. k \in 1 .. Len(s) + 1 /\ n \in 0 .. Len(s) /\ k <= n + 1
    BY <1>1, <1>3
  <2> QED BY <2>1, <1>6, CutIs
<1>8. PICK c : c = a \o <<i>>
  OBVIOUS
<1>9. c \in Seq(I) /\ Len(c) = k /\ c[k] = i /\ \A m \in 1 .. k - 1 : c[m] = s[m]
  <2>1. c = Append(a, i)
    BY <1>5, <1>8, AppendIsConcat
  <2>2. /\ c \in Seq(I) /\ Len(c) = Len(a) + 1 /\ c[Len(a) + 1] = i
        /\ \A m \in 1 .. Len(a) : c[m] = a[m]
    BY <2>1, <1>5, AppendProperties
  <2>3. Len(a) + 1 = k /\ Len(a) = k - 1
    BY <1>3, <1>5
  <2> QED BY <2>2, <2>3, <1>5
<1>10. PICK d : d = c \o b
  OBVIOUS
<1>11. /\ d \in Seq(I) /\ Len(d) = n + 1
       /\ \A m \in 1 .. n + 1 : d[m] = IF m <= k THEN c[m] ELSE b[m - k]
  <2>1. /\ d \in Seq(I) /\ Len(d) = Len(c) + Len(b)
        /\ \A m \in 1 .. Len(c) + Len(b) : d[m] = IF m <= Len(c) THEN c[m] ELSE b[m - Len(c)]
    BY <1>7, <1>9, <1>10, ConcatProperties
  <2>2. k + (n - k + 1) = n + 1
    BY <1>1, <1>3
  <2>3. Len(c) + Len(b) = n + 1
    BY <2>2, <1>7, <1>9
  <2> QED BY <2>1, <2>3, <1>9
<1>12. t \in Seq(I) /\ Len(t) = n + 1
       /\ \A m \in 1 .. n + 1 : t[m] = IF m < k THEN s[m] ELSE IF m = k THEN i ELSE s[m - 1]
  <2>1. HasInserted(t, I, s, 0, k, i)
    BY <1>2, InsertedIs
  <2> QED BY <2>1, <1>1 DEF HasInserted
<1>13. ASSUME NEW m \in 1 .. n + 1 PROVE d[m] = t[m]
  <2>1. CASE m < k
    <3>1. m \in 1 .. k - 1 /\ m <= k
      BY <2>1, <1>3
    <3> QED BY <3>1, <2>1, <1>9, <1>11, <1>12
  <2>2. CASE m = k
    <3>1. m <= k /\ ~(m < k)
      BY <2>2, <1>3
    <3> QED BY <3>1, <2>2, <1>9, <1>11, <1>12
  <2>3. CASE m > k
    <3>1. m - k \in 1 .. n - k + 1 /\ k + (m - k) - 1 = m - 1 /\ ~(m <= k) /\ ~(m < k) /\ m # k
      BY <2>3, <1>1, <1>3
    <3>2. d[m] = b[m - k]
      BY <3>1, <1>11
    <3>3. b[m - k] = s[k + (m - k) - 1]
      BY <3>1, <1>7
    <3>4. t[m] = s[m - 1]
      BY <3>1, <1>12
    <3> QED BY <3>1, <3>2, <3>3, <3>4
  <2> QED BY <2>1, <2>2, <2>3, <1>3
<1>14. d = t
  BY <1>11, <1>12, <1>13
<1> QED BY <1>1, <1>2, <1>4, <1>6, <1>8, <1>10, <1>14

LEMMA InsertedLast ==
  ASSUME NEW I, NEW s \in Seq(I), NEW i \in I
  PROVE  Inserted(s, Len(s) + 1, i) = Append(s, i)
<1>1. PICK n \in Nat : n = Len(s) /\ n + 1 \in 1 .. Len(s) + 1
  OBVIOUS
<1>2. PICK t : t = Inserted(s, n + 1, i)
  OBVIOUS
<1>3. t \in Seq(I) /\ Len(t) = n + 1
      /\ \A m \in 1 .. n + 1 : t[m] = IF m < n + 1 THEN s[m] ELSE IF m = n + 1 THEN i ELSE s[m - 1]
  <2>1. HasInserted(t, I, s, 0, n + 1, i)
    BY <1>1, <1>2, InsertedIs
  <2> QED BY <2>1, <1>1 DEF HasInserted
<1>4. \A m \in 1 .. n + 1 : t[m] = Append(s, i)[m]
  BY <1>1, <1>3
<1> QED BY <1>1, <1>2, <1>3, <1>4

LEMMA RemovedSubSeq ==
  ASSUME NEW I, NEW s \in Seq(I), NEW k \in 1 .. Len(s)
  PROVE  Removed(s, k) = SubSeq(s, 1, k - 1) \o SubSeq(s, k + 1, Len(s))
<1>1. PICK n \in Nat : n = Len(s)
  OBVIOUS
<1>2. PICK t : t = Removed(s, k)
  OBVIOUS
<1>3. k \in Int /\ 1 <= k /\ k <= n
  BY <1>1
<1>4. PICK a : a = SubSeq(s, 1, k - 1)
  OBVIOUS
<1>5. a \in Seq(I) /\ Len(a) = k - 1 /\ \A m \in 1 .. k - 1 : a[m] = s[m]
  <2>1. 1 \in 1 .. Len(s) + 1 /\ k - 1 \in 0 .. Len(s) /\ 1 <= (k - 1) + 1
    BY <1>1, <1>3
  <2>2. /\ a \in Seq(I) /\ Len(a) = (k - 1) - 1 + 1
        /\ \A m \in 1 .. (k - 1) - 1 + 1 : a[m] = s[1 + m - 1]
    BY <2>1, <1>4, CutIs
  <2>3. (k - 1) - 1 + 1 = k - 1 /\ \A m \in 1 .. k - 1 : 1 + m - 1 = m
    BY <1>3
  <2> QED BY <2>2, <2>3
<1>6. PICK b : b = SubSeq(s, k + 1, n)
  OBVIOUS
<1>7. b \in Seq(I) /\ Len(b) = n - k /\ \A m \in 1 .. n - k : b[m] = s[k + m]
  <2>1. k + 1 \in 1 .. Len(s) + 1 /\ n \in 0 .. Len(s) /\ k + 1 <= n + 1
    BY <1>1, <1>3
  <2>2. /\ b \in Seq(I) /\ Len(b) = n - (k + 1) + 1
        /\ \A m \in 1 .. n - (k + 1) + 1 : b[m] = s[(k + 1) + m - 1]
    BY <2>1, <1>6, CutIs
  <2>3. n - (k + 1) + 1 = n - k /\ \A m \in 1 .. n - k : (k + 1) + m - 1 = k + m
    BY <1>1, <1>3
  <2> QED BY <2>2, <2>3
<1>8. PICK d : d = a \o b
  OBVIOUS
<1>9. /\ d \in Seq(I) /\ Len(d) = n - 1
      /\ \A m \in 1 .. n - 1 : d[m] = IF m <= k - 1 THEN a[m] ELSE b[m - (k - 1)]
  <2>1. /\ d \in Seq(I) /\ Len(d) = Len(a) + Len(b)
        /\ \A m \in 1 .. Len(a) + Len(b) : d[m] = IF m <= Len(a) THEN a[m] ELSE b[m - Len(a)]
    BY <1>5, <1>7, <1>8, ConcatProperties
  <2>2. (k - 1) + (n - k) = n - 1
    BY <1>1, <1>3
  <2>3. Len(a) + Len(b) = n - 1
    BY <2>2, <1>5, <1>7
  <2> QED BY <2>1, <2>3, <1>5
<1>10. t \in Seq(I) /\ Len(t) = n - 1
       /\ \A m \in 1 .. n - 1 : t[m] = IF m < k THEN s[m] ELSE s[m + 1]
  <2>1. HasRemoved(t, I, s, 0, k)
    BY <1>2, RemovedIs
  <2> QED BY <2>1, <1>1 DEF HasRemoved
<1>11. ASSUME NEW m \in 1 .. n - 1 PROVE d[m] = t[m]
  <2>1. CASE m < k
    <3>1. m \in 1 .. k - 1 /\ m <= k - 1
      BY <2>1, <1>3
    <3> QED BY <3>1, <2>1, <1>5, <1>9, <1>10
  <2>2. CASE m >= k
    <3>1. /\ m - (k - 1) \in 1 .. n - k /\ k + (m - (k - 1)) = m + 1
          /\ ~(m <= k - 1) /\ ~(m < k)
      BY <2>2, <1>1, <1>3
    <3>2. d[m] = b[m - (k - 1)]
      BY <3>1, <1>9
    <3>3. b[m - (k - 1)] = s[k + (m - (k - 1))]
      BY <3>1, <1>7
    <3>4. t[m] = s[m + 1]
      BY <3>1, <1>10
    <3> QED BY <3>1, <3>2, <3>3, <3>4
  <2> QED BY <2>1, <2>2, <1>3
<1>12. d = t
  BY <1>9, <1>10, <1>11
<1> QED BY <1>1, <1>2, <1>4, <1>6, <1>8, <1>12

LEMMA RemovedFirst ==
  ASSUME NEW I, NEW s \in Seq(I), s # <<>>
  PROVE  Removed(s, 1) = Tail(s)
<1>1. PICK n \in Nat : n = Len(s) /\ n > 0 /\ 1 \in 1 .. Len(s)
  OBVIOUS
<1>2. PICK t : t = Removed(s, 1)
  OBVIOUS
<1>3. t \in Seq(I) /\ Len(t) = n - 1
      /\ \A m \in 1 .. n - 1 : t[m] = IF m < 1 THEN s[m] ELSE s[m + 1]
  <2>1. HasRemoved(t, I, s, 0, 1)
    BY <1>1, <1>2, RemovedIs
  <2> QED BY <2>1, <1>1 DEF HasRemoved
<1>4. Tail(s) \in Seq(I) /\ Len(Tail(s)) = n - 1 /\ \A m \in 1 .. n - 1 : Tail(s)[m] = s[m + 1]
  BY <1>1
<1>5. \A m \in 1 .. n - 1 : t[m] = Tail(s)[m]
  BY <1>3, <1>4
<1> QED BY <1>2, <1>3, <1>4, <1>5

-----------------------------------------------------------------------------
(* The nodes as the sequences that SequenceQueues is about. *)

LEMMA ContentsAre ==
  ASSUME NEW L, NEW qs, Lists(L, Node, Heads, Item, qs)
  PROVE  /\ qs \in [Heads -> Seq(Item)] /\ [h \in Heads |-> Items(L, h)] = qs
         /\ \A h \in Heads : \A i : Linked(L, h, i) <=> \E k \in 1 .. Len(qs[h]) : qs[h][k] = i
<1>1. qs \in [Heads -> Seq(Item)]
  BY DEF Lists
<1>2. IsFiniteSet(Node)
  BY TaskQueueAssumption
<1>3. \A h \in Heads : Items(L, h) = qs[h]
  BY <1>2, ItemsAre
<1>4. \A h \in Heads : \A i : Linked(L, h, i) <=> \E k \in 1 .. Len(qs[h]) : qs[h][k] = i
  BY <1>2, ItemsAre
<1> QED BY <1>1, <1>3, <1>4

LEMMA FreeIs ==
  ASSUME NEW qs, Lists(nodes, Node, Heads, Item, qs), NEW i, Free(i)
  PROVE  InNone(Heads, qs, i) /\ \A h \in Heads : \A n \in DOMAIN qs[h] : qs[h][n] # i
<1>1. InNone(Heads, qs, i)
  BY ContentsAre DEF Free, InNone
<1>2. \A h \in Heads : DOMAIN qs[h] = 1 .. Len(qs[h])
  BY DEF Lists
<1> QED BY <1>1, <1>2 DEF InNone

LEMMA InitIInv == QueueInit => IInv /\ SQ!Init
<1> SUFFICES ASSUME QueueInit PROVE IInv /\ SQ!Init
  OBVIOUS
<1>1. PICK qs : qs = [h \in Heads |-> <<>>]
  OBVIOUS
<1>2. \A h \in Heads : qs[h] = <<>> /\ Len(qs[h]) = 0
  BY <1>1
<1>3. DOMAIN nodes.next = Node /\ DOMAIN nodes.prev = Node
      /\ \A h \in Heads : nodes.next[h] = h /\ nodes.prev[h] = h
  BY DEF QueueInit, Node
<1>4. \A h \in Heads : Chain(nodes, qs[h], h)
  BY <1>2, <1>3 DEF Chain, Nd
<1>5. qs \in [Heads -> Seq(Item)] /\ OncePlaced(Heads, qs)
  BY <1>1, <1>2 DEF OncePlaced
<1>6. Lists(nodes, Node, Heads, Item, qs)
  BY <1>3, <1>4, <1>5, TaskQueueAssumption DEF Lists, Node
<1>7. key \in [Item -> Nat]
  BY DEF QueueInit
<1>8. [h \in Heads |-> Items(nodes, h)] = qs
  BY <1>6, ContentsAre
<1> QED BY <1>1, <1>6, <1>7, <1>8 DEF IInv, Listed, SQ!Init

-----------------------------------------------------------------------------
(* Each call does to the nodes what SequenceQueues says of the sequences. *)

LEMMA PutStep ==
  ASSUME IInv, NEW q \in Fifo, NEW i \in Item, Put(q, i)
  PROVE  IInv' /\ SQ!Put(q, i)
<1>1. PICK qs : Lists(nodes, Node, Heads, Item, qs)
  BY DEF IInv, Listed
<1>2. q \in Heads /\ qs \in [Heads -> Seq(Item)] /\ qs[q] \in Seq(Item)
  BY <1>1 DEF Heads, Lists
<1>3. InNone(Heads, qs, i) /\ \A h \in Heads : \A n \in DOMAIN qs[h] : qs[h][n] # i
  BY <1>1, FreeIs DEF Put
<1>4. PICK k \in 1 .. Len(qs[q]) + 1 : k = Len(qs[q]) + 1 /\ Nd(qs[q], q, k) = q
  BY <1>2 DEF Nd
<1>5. PICK new : new = [qs EXCEPT ![q] = Append(@, i)]
  OBVIOUS
<1>6. [qs EXCEPT ![q] = Inserted(@, k, i)] = new
  BY <1>2, <1>4, <1>5, InsertedLast
<1>7. Lists(nodes', Node, Heads, Item, new)
  <2>1. Lists(enqueue(nodes, Nd(qs[q], q, k), i), Node, Heads, Item, [qs EXCEPT ![q] = Inserted(@, k, i)])
    BY <1>1, <1>2, <1>3, InsertLists
  <2> QED BY <2>1, <1>4, <1>6 DEF Put
<1>8. [h \in Heads |-> Items(nodes, h)] = qs
  BY <1>1, ContentsAre
<1>9. [h \in Heads |-> Items(nodes', h)] = new
  BY <1>7, ContentsAre
<1>10. key' = key
  BY DEF Put
<1>11. IInv'
  BY <1>7, <1>10 DEF IInv, Listed
<1> QED BY <1>3, <1>5, <1>8, <1>9, <1>10, <1>11 DEF SQ!Put, SQ!Free

LEMMA PutSortedStep ==
  ASSUME IInv, NEW q \in Sorted, NEW i \in Item, NEW d \in Key, PutSorted(q, i, d)
  PROVE  IInv' /\ SQ!PutSorted(q, i)
<1>1. PICK qs : Lists(nodes, Node, Heads, Item, qs)
  BY DEF IInv, Listed
<1>2. q \in Heads /\ qs \in [Heads -> Seq(Item)] /\ qs[q] \in Seq(Item)
  BY <1>1 DEF Heads, Lists
<1>3. InNone(Heads, qs, i) /\ \A h \in Heads : \A n \in DOMAIN qs[h] : qs[h][n] # i
  BY <1>1, FreeIs DEF PutSorted
<1>4. PICK S : S = {n \in Item : key'[i] <= key[n]}
  OBVIOUS
<1>5. PICK k \in 1 .. Len(qs[q]) + 1 :
        /\ SortedPlace(nodes, q, S) = Nd(qs[q], q, k)
        /\ \A m \in 1 .. k - 1 : qs[q][m] \notin S
        /\ k <= Len(qs[q]) => qs[q][k] \in S
  BY <1>1, <1>2, SortedPlaceIs, TaskQueueAssumption
<1>6. /\ key \in [Item -> Nat] /\ key' = [key EXCEPT ![i] = d] /\ d \in Nat
      /\ key'[i] = d /\ key' \in [Item -> Nat] /\ \A j \in Item : j # i => key'[j] = key[j]
  BY TaskQueueAssumption DEF IInv, PutSorted
<1>7. ASSUME NEW m \in 1 .. Len(qs[q])
      PROVE  qs[q][m] \in Item /\ key'[qs[q][m]] = key[qs[q][m]]
  <2>1. qs[q][m] \in Item /\ qs[q][m] # i
    BY <1>2, <1>3
  <2> QED BY <2>1, <1>6
<1>8. \A m \in 1 .. k - 1 : key'[qs[q][m]] < key'[i]
  <2> SUFFICES ASSUME NEW m \in 1 .. k - 1 PROVE key'[qs[q][m]] < key'[i]
    OBVIOUS
  <2>1. m \in 1 .. Len(qs[q])
    BY <1>2
  <2>2. qs[q][m] \in Item /\ key'[qs[q][m]] = key[qs[q][m]] /\ ~(key'[i] <= key[qs[q][m]])
    BY <2>1, <1>4, <1>5, <1>7
  <2>3. key[qs[q][m]] \in Nat /\ key'[i] \in Nat
    BY <2>2, <1>6
  <2> QED BY <2>2, <2>3
<1>9. k <= Len(qs[q]) => key'[i] <= key'[qs[q][k]]
  <2> SUFFICES ASSUME k <= Len(qs[q]) PROVE key'[i] <= key'[qs[q][k]]
    OBVIOUS
  <2>1. k \in 1 .. Len(qs[q])
    BY <1>2
  <2> QED BY <2>1, <1>4, <1>5, <1>7
<1>10. PICK new : new = [qs EXCEPT ![q] = SubSeq(@, 1, k - 1) \o <<i>> \o SubSeq(@, k, Len(@))]
  OBVIOUS
<1>11. [qs EXCEPT ![q] = Inserted(@, k, i)] = new
  BY <1>2, <1>10, InsertedSubSeq
<1>12. Lists(nodes', Node, Heads, Item, new)
  <2>1. Lists(enqueue(nodes, Nd(qs[q], q, k), i), Node, Heads, Item, [qs EXCEPT ![q] = Inserted(@, k, i)])
    BY <1>1, <1>2, <1>3, InsertLists
  <2>2. nodes' = enqueue(nodes, SortedPlace(nodes, q, S), i)
    BY <1>4 DEF PutSorted, NotLater, enqueue_sort
  <2> QED BY <2>1, <2>2, <1>5, <1>11
<1>13. [h \in Heads |-> Items(nodes, h)] = qs
  BY <1>1, ContentsAre
<1>14. [h \in Heads |-> Items(nodes', h)] = new
  BY <1>12, ContentsAre
<1>15. IInv'
  BY <1>6, <1>12 DEF IInv, Listed
<1>16. key' = [key EXCEPT ![i] = key'[i]] /\ key'[i] \in Nat
  BY <1>6
<1> QED BY <1>3, <1>8, <1>9, <1>10, <1>13, <1>14, <1>15, <1>16 DEF SQ!PutSorted, SQ!Free

LEMMA TakeStep ==
  ASSUME IInv, NEW q \in Heads, Take(q)
  PROVE  IInv' /\ SQ!Take(q)
<1>1. PICK qs : Lists(nodes, Node, Heads, Item, qs)
  BY DEF IInv, Listed
<1>2. qs \in [Heads -> Seq(Item)] /\ qs[q] \in Seq(Item)
  BY <1>1 DEF Lists
<1>3. qs[q] # <<>> /\ 1 \in 1 .. Len(qs[q]) /\ peek(nodes, q) = qs[q][1]
  BY <1>1, PeekIs DEF Take
<1>4. PICK new : new = [qs EXCEPT ![q] = Tail(@)]
  OBVIOUS
<1>5. [qs EXCEPT ![q] = Removed(@, 1)] = new
  BY <1>2, <1>3, <1>4, RemovedFirst
<1>6. Lists(nodes', Node, Heads, Item, new)
  <2>1. Lists(Unlink(nodes, qs[q][1]), Node, Heads, Item, [qs EXCEPT ![q] = Removed(@, 1)])
    BY <1>1, <1>3, RemoveLists
  <2> QED BY <2>1, <1>3, <1>5 DEF Take, dequeue
<1>7. [h \in Heads |-> Items(nodes, h)] = qs
  BY <1>1, ContentsAre
<1>8. [h \in Heads |-> Items(nodes', h)] = new
  BY <1>6, ContentsAre
<1>9. key' = key
  BY DEF Take
<1>10. IInv'
  BY <1>6, <1>9 DEF IInv, Listed
<1> QED BY <1>3, <1>4, <1>7, <1>8, <1>9, <1>10 DEF SQ!Take

LEMMA TakeOutStep ==
  ASSUME IInv, NEW q \in Sorted, NEW i \in Item, TakeOut(q, i)
  PROVE  IInv' /\ \E n \in DOMAIN [h \in Heads |-> Items(nodes, h)][q] : SQ!TakeOut(q, n)
<1>1. PICK qs : Lists(nodes, Node, Heads, Item, qs)
  BY DEF IInv, Listed
<1>2. q \in Heads /\ qs \in [Heads -> Seq(Item)] /\ qs[q] \in Seq(Item)
      /\ DOMAIN qs[q] = 1 .. Len(qs[q])
  BY <1>1 DEF Heads, Lists
<1>3. PICK k \in 1 .. Len(qs[q]) : qs[q][k] = i
  BY <1>1, <1>2, ContentsAre DEF TakeOut
<1>4. PICK new : new = [qs EXCEPT ![q] = SubSeq(@, 1, k - 1) \o SubSeq(@, k + 1, Len(@))]
  OBVIOUS
<1>5. [qs EXCEPT ![q] = Removed(@, k)] = new
  BY <1>2, <1>4, RemovedSubSeq
<1>6. Lists(nodes', Node, Heads, Item, new)
  <2>1. Lists(Unlink(nodes, qs[q][k]), Node, Heads, Item, [qs EXCEPT ![q] = Removed(@, k)])
    BY <1>1, <1>2, RemoveLists
  <2> QED BY <2>1, <1>3, <1>5 DEF TakeOut
<1>7. [h \in Heads |-> Items(nodes, h)] = qs
  BY <1>1, ContentsAre
<1>8. [h \in Heads |-> Items(nodes', h)] = new
  BY <1>6, ContentsAre
<1>9. key' = key
  BY DEF TakeOut
<1>10. IInv'
  BY <1>6, <1>9 DEF IInv, Listed
<1>11. SQ!TakeOut(q, k)
  BY <1>4, <1>7, <1>8, <1>9 DEF SQ!TakeOut
<1> QED BY <1>2, <1>7, <1>10, <1>11

LEMMA Steps ==
  ASSUME IInv, [QueueNext]_queueVars
  PROVE  IInv' /\ [SQ!Next]_SQ!vars
<1>1. ASSUME NEW q \in Heads, Take(q) PROVE IInv' /\ SQ!Next
  BY <1>1, TakeStep DEF SQ!Next
<1>2. ASSUME NEW i \in Item, NEW q \in Fifo, Put(q, i) PROVE IInv' /\ SQ!Next
  <2>1. q \in Heads
    BY DEF Heads
  <2> QED BY <1>2, <2>1, PutStep DEF SQ!Next
<1>3. ASSUME NEW i \in Item, NEW q \in Sorted, TakeOut(q, i) PROVE IInv' /\ SQ!Next
  BY <1>3, TakeOutStep DEF SQ!Next
<1>4. ASSUME NEW i \in Item, NEW q \in Sorted, NEW k \in Key, PutSorted(q, i, k)
      PROVE  IInv' /\ SQ!Next
  <2>1. q \in Heads
    BY DEF Heads
  <2> QED BY <1>4, <2>1, PutSortedStep DEF SQ!Next
<1>5. CASE UNCHANGED queueVars
  BY <1>5 DEF queueVars, IInv, Listed, SQ!vars
<1> QED BY <1>1, <1>2, <1>3, <1>4, <1>5 DEF QueueNext

THEOREM Invariant == QueueSpec => []IInv
<1>1. IInv /\ [QueueNext]_queueVars => IInv'
  BY Steps
<1> QED BY <1>1, InitIInv, PTL DEF QueueSpec

-----------------------------------------------------------------------------
(* What the users of the lists rely on. *)

\* The ring of each head comes back to it and is the same one backwards.
THEOREM RingsIntact == QueueSpec => []RingIntact
<1>1. IInv => RingIntact
  BY RingIs, TaskQueueAssumption DEF IInv, Listed, RingIntact
<1> QED BY <1>1, Invariant, PTL

\* Each list behaves as a sequence, sorted or first in first out: every call of
\* queue.c is a step of SequenceQueues on one sequence, and leaves the others.
THEOREM TaskQueueImplementsSequences == QueueSpec => ImplementsSequences
<1>1. IInv /\ [QueueNext]_queueVars => [SQ!Next]_SQ!vars
  BY Steps
<1> QED BY <1>1, InitIInv, Invariant, PTL DEF QueueSpec, ImplementsSequences, SQ!Spec

-----------------------------------------------------------------------------
(* The lists by what is in them, and one that is sorted. *)

Has(s, i) == \E k \in 1 .. Len(s) : s[k] = i
SortedBy(s, d) == \A a, b \in 1 .. Len(s) : a <= b => d[s[a]] <= d[s[b]]
NotBelow(I, d, i) == {n \in I : d[i] <= d[n]}

\* What the lists of the heads H are after i is put in one or taken out of it.
Gained(H, qs, new, h, i) ==
  /\ \A g \in H : g # h => new[g] = qs[g]
  /\ \A j : Has(new[h], j) <=> Has(qs[h], j) \/ j = i
Lost(H, qs, new, h, i) ==
  /\ \A g \in H : g # h => new[g] = qs[g]
  /\ \A j : Has(new[h], j) <=> Has(qs[h], j) /\ j # i
  /\ \A d : SortedBy(qs[h], d) => SortedBy(new[h], d)
Moved(H, qs, new, from, to, i) ==
  /\ \A g \in H : g # from /\ g # to => new[g] = qs[g]
  /\ \A j : Has(new[from], j) <=> Has(qs[from], j) /\ j # i
  /\ \A j : Has(new[to], j) <=> Has(qs[to], j) \/ j = i
  /\ \A d : SortedBy(qs[from], d) => SortedBy(new[from], d)

LEMMA InsertedHas ==
  ASSUME NEW I, NEW s \in Seq(I), NEW i \in I, NEW k \in 1 .. Len(s) + 1
  PROVE  \A j : Has(Inserted(s, k, i), j) <=> Has(s, j) \/ j = i
<1>1. PICK n \in Nat : n = Len(s)
  OBVIOUS
<1>2. PICK t : t = Inserted(s, k, i)
  OBVIOUS
<1>3. /\ Len(t) = n + 1
      /\ \A m \in 1 .. n + 1 : t[m] = IF m < k THEN s[m] ELSE IF m = k THEN i ELSE s[m - 1]
  <2>1. HasInserted(t, I, s, 0, k, i)
    BY <1>2, InsertedIs
  <2> QED BY <2>1, <1>1 DEF HasInserted
<1>4. ASSUME NEW m \in 1 .. n + 1 PROVE t[m] = i \/ Has(s, t[m])
  <2>1. m < k => m \in 1 .. n
    BY <1>1
  <2>2. m > k => m - 1 \in 1 .. n
    BY <1>1
  <2> QED BY <1>1, <1>3, <2>1, <2>2 DEF Has
<1>5. ASSUME NEW m \in 1 .. n PROVE Has(t, s[m])
  <2>1. m < k => m \in 1 .. n + 1 /\ t[m] = s[m]
    BY <1>3
  <2>2. ~(m < k) => m + 1 \in 1 .. n + 1 /\ t[m + 1] = s[m]
    <3> SUFFICES ASSUME ~(m < k) PROVE m + 1 \in 1 .. n + 1 /\ t[m + 1] = s[m]
      OBVIOUS
    <3>1. m + 1 \in 1 .. n + 1 /\ ~(m + 1 < k) /\ m + 1 # k /\ (m + 1) - 1 = m
      BY <1>1
    <3> QED BY <3>1, <1>3
  <2> QED BY <1>3, <2>1, <2>2 DEF Has
<1>6. Has(t, i)
  <2>1. k \in 1 .. n + 1 /\ t[k] = i
    BY <1>1, <1>3
  <2> QED BY <2>1, <1>3 DEF Has
<1> QED BY <1>1, <1>2, <1>3, <1>4, <1>5, <1>6 DEF Has

LEMMA RemovedHas ==
  ASSUME NEW I, NEW s \in Seq(I), NEW k \in 1 .. Len(s),
         \A a, b \in 1 .. Len(s) : s[a] = s[b] => a = b
  PROVE  \A j : Has(Removed(s, k), j) <=> Has(s, j) /\ j # s[k]
<1>1. PICK n \in Nat : n = Len(s)
  OBVIOUS
<1>2. PICK t : t = Removed(s, k)
  OBVIOUS
<1>3. /\ Len(t) = n - 1
      /\ \A m \in 1 .. n - 1 : t[m] = IF m < k THEN s[m] ELSE s[m + 1]
  <2>1. HasRemoved(t, I, s, 0, k)
    BY <1>2, RemovedIs
  <2> QED BY <2>1, <1>1 DEF HasRemoved
<1>4. ASSUME NEW m \in 1 .. n - 1 PROVE Has(s, t[m]) /\ t[m] # s[k]
  <2>1. m \in 1 .. n /\ m + 1 \in 1 .. n /\ m + 1 > m
    BY <1>1
  <2>2. CASE m < k
    <3>1. t[m] = s[m] /\ m # k
      BY <1>3, <2>2
    <3> QED BY <1>1, <2>1, <3>1 DEF Has
  <2>3. CASE ~(m < k)
    <3>1. t[m] = s[m + 1] /\ m + 1 # k
      BY <1>1, <1>3, <2>3
    <3> QED BY <1>1, <2>1, <3>1 DEF Has
  <2> QED BY <2>2, <2>3
<1>5. ASSUME NEW m \in 1 .. n, s[m] # s[k] PROVE Has(t, s[m])
  <2>1. m # k
    BY <1>5
  <2>2. CASE m < k
    <3>1. m \in 1 .. n - 1 /\ t[m] = s[m]
      BY <1>1, <1>3, <2>2
    <3> QED BY <1>3, <3>1 DEF Has
  <2>3. CASE m > k
    <3>1. m - 1 \in 1 .. n - 1 /\ ~(m - 1 < k) /\ (m - 1) + 1 = m
      BY <1>1, <2>3
    <3>2. t[m - 1] = s[m]
      BY <1>3, <3>1
    <3> QED BY <1>3, <3>1, <3>2 DEF Has
  <2> QED BY <1>1, <2>1, <2>2, <2>3
<1>6. ASSUME NEW j, Has(t, j) PROVE Has(s, j) /\ j # s[k]
  <2>1. PICK m \in 1 .. n - 1 : t[m] = j
    BY <1>3, <1>6 DEF Has
  <2> QED BY <1>4, <2>1
<1>7. ASSUME NEW j, Has(s, j), j # s[k] PROVE Has(t, j)
  <2>1. PICK m \in 1 .. n : s[m] = j
    BY <1>1, <1>7 DEF Has
  <2> QED BY <1>5, <1>7, <2>1
<1> QED BY <1>2, <1>6, <1>7

LEMMA InsertedSorted ==
  ASSUME NEW I, NEW s \in Seq(I), NEW i \in I, NEW k \in 1 .. Len(s) + 1, NEW d \in [I -> Nat],
         SortedBy(s, d), \A m \in 1 .. k - 1 : d[s[m]] <= d[i], k <= Len(s) => d[i] <= d[s[k]]
  PROVE  SortedBy(Inserted(s, k, i), d)
<1>1. PICK n \in Nat : n = Len(s)
  OBVIOUS
<1>2. PICK t : t = Inserted(s, k, i)
  OBVIOUS
<1>3. /\ Len(t) = n + 1
      /\ \A m \in 1 .. n + 1 : t[m] = IF m < k THEN s[m] ELSE IF m = k THEN i ELSE s[m - 1]
  <2>1. HasInserted(t, I, s, 0, k, i)
    BY <1>2, InsertedIs
  <2> QED BY <2>1, <1>1 DEF HasInserted
<1>4. \A m \in 1 .. n : s[m] \in I /\ d[s[m]] \in Nat
  BY <1>1
<1>5. d[i] \in Nat
  OBVIOUS
<1>6. ASSUME NEW m \in k .. n PROVE d[i] <= d[s[m]]
  <2>1. k \in 1 .. n /\ m \in 1 .. n /\ k <= m
    BY <1>1
  <2>2. d[i] <= d[s[k]] /\ d[s[k]] <= d[s[m]]
    BY <1>1, <2>1 DEF SortedBy
  <2> QED BY <1>4, <1>5, <2>1, <2>2
<1>7. ASSUME NEW a \in 1 .. n + 1, NEW b \in 1 .. n + 1, a <= b
      PROVE  d[t[a]] <= d[t[b]]
  <2>1. CASE b < k
    <3>1. a \in 1 .. n /\ b \in 1 .. n /\ t[a] = s[a] /\ t[b] = s[b]
      BY <1>1, <1>3, <1>7, <2>1
    <3> QED BY <1>1, <1>7, <3>1 DEF SortedBy
  <2>2. CASE b = k
    <3>1. t[b] = i
      BY <1>3, <2>2
    <3>2. a < k => a \in 1 .. k - 1 /\ t[a] = s[a]
      BY <1>3
    <3>3. a = k => t[a] = i
      BY <1>3
    <3>4. a < k \/ a = k
      BY <1>7, <2>2
    <3> QED BY <1>5, <3>1, <3>2, <3>3, <3>4
  <2>3. CASE b > k
    <3>1. b - 1 \in k .. n /\ b - 1 \in 1 .. n /\ t[b] = s[b - 1]
      BY <1>1, <1>3, <2>3
    <3>2. CASE a < k
      <4>1. a \in 1 .. n /\ a <= b - 1 /\ t[a] = s[a]
        BY <1>1, <1>3, <3>2, <2>3
      <4> QED BY <1>1, <3>1, <4>1 DEF SortedBy
    <3>3. CASE a = k
      <4>1. t[a] = i
        BY <1>3, <3>3
      <4> QED BY <1>6, <3>1, <4>1
    <3>4. CASE a > k
      <4>1. a - 1 \in 1 .. n /\ a - 1 <= b - 1 /\ t[a] = s[a - 1]
        BY <1>1, <1>3, <1>7, <3>4
      <4> QED BY <1>1, <3>1, <4>1 DEF SortedBy
    <3> QED BY <3>2, <3>3, <3>4
  <2> QED BY <2>1, <2>2, <2>3
<1> QED BY <1>2, <1>3, <1>7 DEF SortedBy

LEMMA RemovedSorted ==
  ASSUME NEW I, NEW s \in Seq(I), NEW k \in 1 .. Len(s), NEW d, SortedBy(s, d)
  PROVE  SortedBy(Removed(s, k), d)
<1>1. PICK n \in Nat : n = Len(s)
  OBVIOUS
<1>2. PICK t : t = Removed(s, k)
  OBVIOUS
<1>3. /\ Len(t) = n - 1
      /\ \A m \in 1 .. n - 1 : t[m] = IF m < k THEN s[m] ELSE s[m + 1]
  <2>1. HasRemoved(t, I, s, 0, k)
    BY <1>2, RemovedIs
  <2> QED BY <2>1, <1>1 DEF HasRemoved
<1>4. ASSUME NEW a \in 1 .. n - 1, NEW b \in 1 .. n - 1, a <= b
      PROVE  d[t[a]] <= d[t[b]]
  <2>1. PICK x \in 1 .. n : x = (IF a < k THEN a ELSE a + 1) /\ t[a] = s[x]
    BY <1>1, <1>3
  <2>2. PICK y \in 1 .. n : y = (IF b < k THEN b ELSE b + 1) /\ t[b] = s[y]
    BY <1>1, <1>3
  <2>3. x <= y
    BY <1>4, <2>1, <2>2
  <2> QED BY <1>1, <2>1, <2>2, <2>3 DEF SortedBy
<1> QED BY <1>2, <1>3, <1>4 DEF SortedBy

\* The fields of an item that is in no list say nothing.
LEMMA FreeFields ==
  ASSUME NEW L, NEW N, NEW H, NEW I, NEW qs, Lists(L, N, H, I, qs), NEW i \in I, InNone(H, qs, i),
         NEW M, DOMAIN M.next = N, DOMAIN M.prev = N,
         \A n \in N : n # i => M.next[n] = L.next[n] /\ M.prev[n] = L.prev[n]
  PROVE  Lists(M, N, H, I, qs)
<1>1. ASSUME NEW h \in H PROVE Chain(M, qs[h], h)
  <2>1. Len(qs[h]) \in Nat
    BY DEF Lists
  <2>2. ASSUME NEW k \in 0 .. Len(qs[h]) + 1 PROVE Nd(qs[h], h, k) \in N /\ Nd(qs[h], h, k) # i
    <3>1. k \in Nat
      BY <2>1
    <3>2. h # i
      BY DEF Lists
    <3> QED BY <3>1, <3>2, NodesIn DEF InNone
  <2>3. ASSUME NEW k \in 0 .. Len(qs[h])
        PROVE  M.next[Nd(qs[h], h, k)] = Nd(qs[h], h, k + 1) /\ M.prev[Nd(qs[h], h, k + 1)] = Nd(qs[h], h, k)
    <3>1. k \in 0 .. Len(qs[h]) + 1 /\ k + 1 \in 0 .. Len(qs[h]) + 1
      BY <2>1
    <3> QED BY <3>1, <2>2, NeighboursAre
  <2> QED BY <2>3 DEF Chain
<1> QED BY <1>1 DEF Lists

\* The calls of queue.c, each with what is in the lists after it.
LEMMA EnqueueHas ==
  ASSUME NEW L, NEW N, NEW H, NEW I, NEW qs, Lists(L, N, H, I, qs), NEW h \in H, NEW i \in I,
         InNone(H, qs, i)
  PROVE  \E new : Lists(enqueue(L, h, i), N, H, I, new) /\ Gained(H, qs, new, h, i)
<1>1. qs \in [H -> Seq(I)] /\ qs[h] \in Seq(I)
  BY DEF Lists
<1>2. PICK k \in 1 .. Len(qs[h]) + 1 : k = Len(qs[h]) + 1 /\ Nd(qs[h], h, k) = h
  BY <1>1 DEF Nd
<1>3. PICK new : new = [qs EXCEPT ![h] = Inserted(@, k, i)]
  OBVIOUS
<1>4. Lists(enqueue(L, h, i), N, H, I, new)
  BY <1>2, <1>3, InsertLists
<1>5. new[h] = Inserted(qs[h], k, i) /\ \A g \in H : g # h => new[g] = qs[g]
  BY <1>1, <1>3
<1>6. \A j : Has(new[h], j) <=> Has(qs[h], j) \/ j = i
  BY <1>1, <1>5, InsertedHas
<1> QED BY <1>4, <1>5, <1>6 DEF Gained

LEMMA EnqueueSortHas ==
  ASSUME NEW L, NEW N, NEW H, NEW I, NEW qs, Lists(L, N, H, I, qs), IsFiniteSet(N),
         NEW h \in H, NEW i \in I, InNone(H, qs, i), NEW d \in [I -> Nat], SortedBy(qs[h], d)
  PROVE  \E new : /\ Lists(enqueue_sort(L, h, i, NotBelow(I, d, i)), N, H, I, new)
                  /\ Gained(H, qs, new, h, i) /\ SortedBy(new[h], d)
<1>1. qs \in [H -> Seq(I)] /\ qs[h] \in Seq(I) /\ Len(qs[h]) \in Nat
  BY DEF Lists
<1>2. PICK S : S = NotBelow(I, d, i)
  OBVIOUS
<1>3. PICK k \in 1 .. Len(qs[h]) + 1 :
        /\ SortedPlace(L, h, S) = Nd(qs[h], h, k)
        /\ \A m \in 1 .. k - 1 : qs[h][m] \notin S
        /\ k <= Len(qs[h]) => qs[h][k] \in S
  BY SortedPlaceIs
<1>4. PICK new : new = [qs EXCEPT ![h] = Inserted(@, k, i)]
  OBVIOUS
<1>5. Lists(enqueue_sort(L, h, i, S), N, H, I, new)
  BY <1>3, <1>4, InsertLists DEF enqueue_sort
<1>6. new[h] = Inserted(qs[h], k, i) /\ \A g \in H : g # h => new[g] = qs[g]
  BY <1>1, <1>4
<1>7. ASSUME NEW m \in 1 .. k - 1 PROVE d[qs[h][m]] <= d[i]
  <2>1. m \in 1 .. Len(qs[h])
    BY <1>1
  <2>2. qs[h][m] \in I
    BY <1>1, <2>1
  <2>3. ~(d[i] <= d[qs[h][m]])
    BY <1>2, <1>3, <2>2 DEF NotBelow
  <2>4. d[i] \in Nat /\ d[qs[h][m]] \in Nat
    BY <2>2
  <2> QED BY <2>3, <2>4
<1>8. k <= Len(qs[h]) => d[i] <= d[qs[h][k]]
  BY <1>2, <1>3 DEF NotBelow
<1>9. SortedBy(new[h], d)
  <2>1. PICK s \in Seq(I) : s = qs[h]
    BY <1>1
  <2>2. k \in 1 .. Len(s) + 1 /\ SortedBy(s, d)
    BY <2>1
  <2>3. (\A m \in 1 .. k - 1 : d[s[m]] <= d[i]) /\ (k <= Len(s) => d[i] <= d[s[k]])
    BY <1>7, <1>8, <2>1
  <2>4. SortedBy(Inserted(s, k, i), d)
    BY <2>2, <2>3, InsertedSorted
  <2> QED BY <1>6, <2>1, <2>4
<1>10. \A j : Has(new[h], j) <=> Has(qs[h], j) \/ j = i
  BY <1>1, <1>6, InsertedHas
<1> QED BY <1>2, <1>5, <1>6, <1>9, <1>10 DEF Gained

LEMMA UnlinkHas ==
  ASSUME NEW L, NEW N, NEW H, NEW I, NEW qs, Lists(L, N, H, I, qs), NEW h \in H, NEW i, Has(qs[h], i)
  PROVE  \E new : Lists(Unlink(L, i), N, H, I, new) /\ InNone(H, new, i) /\ Lost(H, qs, new, h, i)
<1>1. /\ qs \in [H -> Seq(I)] /\ qs[h] \in Seq(I)
      /\ \A a, b \in 1 .. Len(qs[h]) : qs[h][a] = qs[h][b] => a = b
  BY DEF Lists, OncePlaced
<1>2. PICK k \in 1 .. Len(qs[h]) : qs[h][k] = i
  BY DEF Has
<1>3. PICK new : new = [qs EXCEPT ![h] = Removed(@, k)]
  OBVIOUS
<1>4. Lists(Unlink(L, i), N, H, I, new) /\ InNone(H, new, i)
  BY <1>2, <1>3, RemoveLists
<1>5. new[h] = Removed(qs[h], k) /\ \A g \in H : g # h => new[g] = qs[g]
  BY <1>1, <1>3
<1>6. \A j : Has(new[h], j) <=> Has(qs[h], j) /\ j # i
  BY <1>1, <1>2, <1>5, RemovedHas
<1>7. \A d : SortedBy(qs[h], d) => SortedBy(new[h], d)
  BY <1>1, <1>5, RemovedSorted
<1> QED BY <1>4, <1>5, <1>6, <1>7 DEF Lost

LEMMA MoveHas ==
  ASSUME NEW L, NEW N, NEW H, NEW I, NEW qs, Lists(L, N, H, I, qs),
         NEW from \in H, NEW to \in H, from # to, ~is_empty(L, from)
  PROVE  /\ peek(L, from) \in I /\ Has(qs[from], peek(L, from))
         /\ \E new : /\ Lists(MoveFirst(L, from, to), N, H, I, new)
                     /\ Moved(H, qs, new, from, to, peek(L, from))
<1>1. PICK i : i = peek(L, from)
  OBVIOUS
<1>2. i \in I /\ Has(qs[from], i)
  BY <1>1, PeekIs DEF Has
<1>3. PICK mid : Lists(Unlink(L, i), N, H, I, mid) /\ InNone(H, mid, i) /\ Lost(H, qs, mid, from, i)
  <2>1. from \in H /\ Has(qs[from], i)
    BY <1>2
  <2> QED BY <2>1, UnlinkHas
<1>4. PICK new : Lists(enqueue(Unlink(L, i), to, i), N, H, I, new) /\ Gained(H, mid, new, to, i)
  BY <1>2, <1>3, EnqueueHas
<1>5. MoveFirst(L, from, to) = enqueue(Unlink(L, i), to, i)
  BY <1>1 DEF MoveFirst, dequeue
<1>6. Moved(H, qs, new, from, to, i)
  BY <1>3, <1>4 DEF Moved, Lost, Gained
<1> QED BY <1>1, <1>2, <1>4, <1>5, <1>6

-----------------------------------------------------------------------------
(* The tasks of project 3.                                                   *)

\* The list heads of scheduler.c, and the queue that a task is in.
PcbHeads == {ready_queue, sleep_wait_queue, wait_queue}
Belongs(i, h) ==
  \/ h = ready_queue /\ ~Running(i) /\ status[i] \in {"FIRST_TIME", "READY"}
  \/ h = sleep_wait_queue /\ status[i] = "SLEEPING"
  \/ h = wait_queue /\ status[i] = "BLOCKED"

CurrentAlive ==
  ~scheduling => current \in Slot /\ status[current] \in {"FIRST_TIME", "READY"}

QueuesAre(qs) ==
  /\ Lists(links, Slot \cup PcbHeads, PcbHeads, Slot, qs)
  /\ \A h \in PcbHeads, i \in Slot : Has(qs[h], i) <=> Belongs(i, h)
  /\ SortedBy(qs[sleep_wait_queue], deadline)

PInv == TypeOK /\ CurrentAlive /\ \E qs : QueuesAre(qs)

LEMMA TasksAre ==
  ASSUME task \in Programs
  PROVE  /\ Len(task) \in 1 .. 4 /\ Slot = 1 .. Len(task)
         /\ Slot \cap PcbHeads = {} /\ IsFiniteSet(Slot \cup PcbHeads)
         /\ NULL \notin Slot
<1>1. \A p \in Programs : NULL \notin Int /\ Len(p) \in 1 .. 4 /\ DOMAIN p = 1 .. Len(p)
  BY PriorityAssumption
<1>2. Slot = 1 .. Len(task) /\ Len(task) \in 1 .. 4 /\ NULL \notin Int
  BY <1>1 DEF Slot
<1>3. \A i \in Slot : i \in Int /\ i > 0
  BY <1>2
<1>4. Slot \cap PcbHeads = {} /\ NULL \notin Slot
  BY <1>2, <1>3 DEF PcbHeads, ready_queue, sleep_wait_queue, wait_queue
<1>5. IsFiniteSet(Slot)
  <2>1. 1 \in Int /\ Len(task) \in Int
    BY <1>2
  <2> QED BY <2>1, <1>2, FS_Interval
<1>6. IsFiniteSet(PcbHeads)
  <2>1. IsFiniteSet({ready_queue, sleep_wait_queue, wait_queue})
    <3>1. IsFiniteSet({}) /\ {} \cup {ready_queue} = {ready_queue}
      BY FS_EmptySet
    <3>2. IsFiniteSet({ready_queue})
      BY <3>1, FS_AddElement
    <3>3. IsFiniteSet({ready_queue} \cup {sleep_wait_queue})
      BY <3>2, FS_AddElement
    <3>4. IsFiniteSet(({ready_queue} \cup {sleep_wait_queue}) \cup {wait_queue})
      BY <3>3, FS_AddElement
    <3>5. ({ready_queue} \cup {sleep_wait_queue}) \cup {wait_queue} = {ready_queue, sleep_wait_queue, wait_queue}
      OBVIOUS
    <3> QED BY <3>4, <3>5
  <2> QED BY <2>1 DEF PcbHeads
<1> QED BY <1>2, <1>4, <1>5, <1>6, FS_Union

LEMMA HeadsDiffer ==
  /\ ready_queue \in PcbHeads /\ sleep_wait_queue \in PcbHeads /\ wait_queue \in PcbHeads
  /\ ready_queue # sleep_wait_queue /\ ready_queue # wait_queue
  /\ sleep_wait_queue # wait_queue
BY DEF PcbHeads, ready_queue, sleep_wait_queue, wait_queue

\* What a step has to keep.
LEMMA Kept ==
  ASSUME task' = task, TypeOK', CurrentAlive',
         NEW qs, Lists(links', Slot \cup PcbHeads, PcbHeads, Slot, qs),
         \A h \in PcbHeads, i \in Slot : Has(qs[h], i) <=> Belongs(i, h)',
         SortedBy(qs[sleep_wait_queue], deadline')
  PROVE  PInv'
<1>1. Slot' = Slot
  BY DEF Slot
<1>2. QueuesAre(qs)'
  BY <1>1 DEF QueuesAre, PcbHeads, ready_queue, sleep_wait_queue, wait_queue
<1> QED BY <1>2 DEF PInv

\* What runs is in no queue.
LEMMA RunningIsFree ==
  ASSUME PInv, ~scheduling, NEW qs, QueuesAre(qs)
  PROVE  current \in Slot /\ InNone(PcbHeads, qs, current)
<1>1. current \in Slot /\ status[current] \in {"FIRST_TIME", "READY"}
  BY DEF PInv, CurrentAlive
<1>2. \A h \in PcbHeads : ~Belongs(current, h)
  BY <1>1 DEF Belongs, Running
<1>3. \A h \in PcbHeads : ~Has(qs[h], current)
  BY <1>1, <1>2 DEF QueuesAre
<1> QED BY <1>1, <1>3 DEF InNone, Has

\* Deadlines that grow in the same order leave a queue sorted.
LEMMA SameOrder ==
  ASSUME NEW I, NEW s \in Seq(I), NEW d, NEW e, SortedBy(s, d),
         \A i, j \in I : d[i] <= d[j] => e[i] <= e[j]
  PROVE  SortedBy(s, e)
<1>1. \A k \in 1 .. Len(s) : s[k] \in I
  OBVIOUS
<1> QED BY <1>1 DEF SortedBy

\* put_current_running() with do_scheduler(), and do_block().
LEMMA SwitchStep ==
  ASSUME PInv, current # NULL, ~scheduling,
         NEW h, NEW s, (h = ready_queue /\ s = "READY") \/ (h = wait_queue /\ s = "BLOCKED"),
         SwitchOut(enqueue(links, h, current), s),
         deadline' \in [Slot -> Nat],
         \A i, j \in Slot : deadline[i] <= deadline[j] => deadline'[i] <= deadline'[j]
  PROVE  PInv'
<1>1. PICK qs : QueuesAre(qs)
  BY DEF PInv
<1>2. current \in Slot /\ InNone(PcbHeads, qs, current) /\ h \in PcbHeads
  BY <1>1, RunningIsFree, HeadsDiffer
<1>3. PICK new : /\ Lists(enqueue(links, h, current), Slot \cup PcbHeads, PcbHeads, Slot, new)
                 /\ Gained(PcbHeads, qs, new, h, current)
  <2>1. Lists(links, Slot \cup PcbHeads, PcbHeads, Slot, qs)
    BY <1>1 DEF QueuesAre
  <2> QED BY <1>2, <2>1, EnqueueHas
<1>4. /\ links' = enqueue(links, h, current) /\ status' = [status EXCEPT ![current] = s]
      /\ scheduling' = TRUE /\ task' = task /\ priority' = priority /\ current' = current
  BY DEF SwitchOut
<1>5. TypeOK'
  <2>1. /\ task \in Programs
        /\ status \in [Slot -> {"FIRST_TIME", "READY", "SLEEPING", "BLOCKED", "EXITED"}]
        /\ priority \in [Slot -> Nat] /\ \A i \in Slot : \E k \in 1 .. 5 - i : priority[i] = 10 * k
        /\ current \in Slot \cup {NULL}
    BY DEF PInv, TypeOK
  <2>2. Slot' = Slot
    BY <1>4 DEF Slot
  <2>3. status' \in [Slot -> {"FIRST_TIME", "READY", "SLEEPING", "BLOCKED", "EXITED"}]
    BY <1>4, <2>1
  <2> QED BY <1>4, <2>1, <2>2, <2>3 DEF TypeOK
<1>6. CurrentAlive'
  BY <1>4 DEF CurrentAlive
<1>7. ASSUME NEW g \in PcbHeads, NEW i \in Slot PROVE Has(new[g], i) <=> Belongs(i, g)'
  <2>1. Has(qs[g], i) <=> Belongs(i, g)
    BY <1>1 DEF QueuesAre
  <2>2. status \in [Slot -> {"FIRST_TIME", "READY", "SLEEPING", "BLOCKED", "EXITED"}]
    BY DEF PInv, TypeOK
  <2>3. CASE i = current
    <3>1. status'[i] = s
      BY <1>4, <2>2, <2>3
    <3>2. Has(new[g], i) <=> g = h
      <4>1. ~Has(qs[g], i)
        BY <1>2, <2>3 DEF InNone, Has
      <4> QED BY <1>3, <2>3, <4>1 DEF Gained
    <3> QED BY <1>4, <3>1, <3>2, HeadsDiffer DEF Belongs, Running
  <2>4. CASE i # current
    <3>1. status'[i] = status[i]
      BY <1>4, <2>2, <2>4
    <3>2. Has(new[g], i) <=> Has(qs[g], i)
      BY <1>3, <2>4 DEF Gained
    <3> QED BY <1>4, <2>1, <2>4, <3>1, <3>2 DEF Belongs, Running
  <2> QED BY <2>3, <2>4
<1>8. SortedBy(new[sleep_wait_queue], deadline')
  <2>1. new[sleep_wait_queue] = qs[sleep_wait_queue]
    BY <1>3, HeadsDiffer DEF Gained
  <2>2. qs[sleep_wait_queue] \in Seq(Slot) /\ SortedBy(qs[sleep_wait_queue], deadline)
    BY <1>1, HeadsDiffer DEF QueuesAre, Lists
  <2> QED BY <2>1, <2>2, SameOrder
<1> QED BY <1>3, <1>4, <1>5, <1>6, <1>7, <1>8, Kept

LEMMA SleepStep ==
  ASSUME PInv, NEW time \in SleepTimes, DoSleep(time)
  PROVE  PInv'
<1>1. current # NULL /\ ~scheduling
  BY DEF DoSleep, Calling
<1>2. PICK qs : QueuesAre(qs)
  BY DEF PInv
<1>3. current \in Slot /\ InNone(PcbHeads, qs, current)
  BY <1>1, <1>2, RunningIsFree
<1>5. /\ links' = enqueue_sort(links, sleep_wait_queue, current, NotBelow(Slot, deadline', current))
      /\ status' = [status EXCEPT ![current] = "SLEEPING"]
      /\ deadline' = [deadline EXCEPT ![current] = time]
      /\ scheduling' = TRUE /\ task' = task /\ priority' = priority /\ current' = current
  BY DEF DoSleep, SwitchOut, LteDeadline, NotBelow
<1>6. deadline' \in [Slot -> Nat]
  <2>1. deadline \in [Slot -> Nat] /\ time \in Nat
    BY PriorityAssumption DEF PInv, TypeOK
  <2> QED BY <1>5, <2>1
<1>7. SortedBy(qs[sleep_wait_queue], deadline')
  <2>1. qs[sleep_wait_queue] \in Seq(Slot) /\ SortedBy(qs[sleep_wait_queue], deadline)
    BY <1>2, HeadsDiffer DEF QueuesAre, Lists
  <2>2. \A k \in 1 .. Len(qs[sleep_wait_queue]) :
          qs[sleep_wait_queue][k] \in Slot /\ qs[sleep_wait_queue][k] # current
    BY <1>3, <2>1, HeadsDiffer DEF InNone
  <2>3. \A i \in Slot : i # current => deadline'[i] = deadline[i]
    BY <1>5 DEF PInv, TypeOK
  <2> QED BY <2>1, <2>2, <2>3 DEF SortedBy
<1>8. PICK new : /\ Lists(links', Slot \cup PcbHeads, PcbHeads, Slot, new)
                 /\ Gained(PcbHeads, qs, new, sleep_wait_queue, current)
                 /\ SortedBy(new[sleep_wait_queue], deadline')
  <2>1. PICK d, h : d = deadline' /\ h = sleep_wait_queue
    OBVIOUS
  <2>2. Lists(links, Slot \cup PcbHeads, PcbHeads, Slot, qs)
    BY <1>2 DEF QueuesAre
  <2>3. IsFiniteSet(Slot \cup PcbHeads) /\ h \in PcbHeads
    BY <2>1, TasksAre, HeadsDiffer DEF PInv, TypeOK
  <2>4. d \in [Slot -> Nat] /\ SortedBy(qs[h], d)
    BY <1>6, <1>7, <2>1
  <2>5. \E new : /\ Lists(enqueue_sort(links, h, current, NotBelow(Slot, d, current)),
                          Slot \cup PcbHeads, PcbHeads, Slot, new)
                 /\ Gained(PcbHeads, qs, new, h, current) /\ SortedBy(new[h], d)
    BY <1>3, <2>2, <2>3, <2>4, EnqueueSortHas
  <2> QED BY <1>5, <2>1, <2>5
<1>9. status \in [Slot -> {"FIRST_TIME", "READY", "SLEEPING", "BLOCKED", "EXITED"}]
  BY DEF PInv, TypeOK
<1>10. TypeOK'
  <2>1. /\ task \in Programs
        /\ priority \in [Slot -> Nat] /\ \A i \in Slot : \E k \in 1 .. 5 - i : priority[i] = 10 * k
        /\ current \in Slot \cup {NULL}
    BY DEF PInv, TypeOK
  <2>2. Slot' = Slot
    BY <1>5 DEF Slot
  <2>3. status' \in [Slot -> {"FIRST_TIME", "READY", "SLEEPING", "BLOCKED", "EXITED"}]
    BY <1>5, <1>9
  <2> QED BY <1>5, <1>6, <2>1, <2>2, <2>3 DEF TypeOK
<1>11. CurrentAlive'
  BY <1>5 DEF CurrentAlive
<1>12. ASSUME NEW g \in PcbHeads, NEW i \in Slot PROVE Has(new[g], i) <=> Belongs(i, g)'
  <2>1. Has(qs[g], i) <=> Belongs(i, g)
    BY <1>2 DEF QueuesAre
  <2>2. CASE i = current
    <3>1. status'[i] = "SLEEPING"
      BY <1>5, <1>9, <2>2
    <3>2. Has(new[g], i) <=> g = sleep_wait_queue
      <4>1. ~Has(qs[g], i)
        BY <1>3, <2>2 DEF InNone, Has
      <4> QED BY <1>8, <2>2, <4>1 DEF Gained
    <3> QED BY <3>1, <3>2, HeadsDiffer DEF Belongs
  <2>3. CASE i # current
    <3>1. status'[i] = status[i]
      BY <1>5, <1>9, <2>3
    <3>2. Has(new[g], i) <=> Has(qs[g], i)
      BY <1>8, <2>3 DEF Gained
    <3> QED BY <1>5, <2>1, <2>3, <3>1, <3>2 DEF Belongs, Running
  <2> QED BY <2>2, <2>3
<1> QED BY <1>5, <1>8, <1>10, <1>11, <1>12, Kept

LEMMA ExitStep ==
  ASSUME PInv, Exit
  PROVE  PInv'
<1>1. current # NULL /\ ~scheduling
  BY DEF Exit, Calling
<1>2. PICK qs : QueuesAre(qs)
  BY DEF PInv
<1>3. current \in Slot /\ InNone(PcbHeads, qs, current)
  BY <1>1, <1>2, RunningIsFree
<1>4. /\ links' = links /\ status' = [status EXCEPT ![current] = "EXITED"]
      /\ scheduling' = TRUE /\ task' = task /\ priority' = priority /\ current' = current
      /\ deadline' = deadline
  BY DEF Exit, SwitchOut
<1>5. status \in [Slot -> {"FIRST_TIME", "READY", "SLEEPING", "BLOCKED", "EXITED"}]
  BY DEF PInv, TypeOK
<1>6. TypeOK'
  <2>1. Slot' = Slot
    BY <1>4 DEF Slot
  <2>2. status' \in [Slot -> {"FIRST_TIME", "READY", "SLEEPING", "BLOCKED", "EXITED"}]
    BY <1>4, <1>5
  <2> QED BY <1>4, <2>1, <2>2 DEF PInv, TypeOK
<1>7. CurrentAlive'
  BY <1>4 DEF CurrentAlive
<1>8. ASSUME NEW g \in PcbHeads, NEW i \in Slot PROVE Has(qs[g], i) <=> Belongs(i, g)'
  <2>1. Has(qs[g], i) <=> Belongs(i, g)
    BY <1>2 DEF QueuesAre
  <2>2. CASE i = current
    <3>1. status'[i] = "EXITED" /\ ~Has(qs[g], i)
      BY <1>3, <1>4, <1>5, <2>2 DEF InNone, Has
    <3> QED BY <3>1 DEF Belongs
  <2>3. CASE i # current
    <3>1. status'[i] = status[i]
      BY <1>4, <1>5, <2>3
    <3> QED BY <1>4, <2>1, <2>3, <3>1 DEF Belongs, Running
  <2> QED BY <2>2, <2>3
<1> QED BY <1>2, <1>4, <1>6, <1>7, <1>8, Kept DEF QueuesAre

\* unblock() of the first that waits, and a turn of check_sleeping().
LEMMA MoveStep ==
  ASSUME PInv,
         NEW h, NEW s, (h = sleep_wait_queue /\ s = "SLEEPING") \/ (h = wait_queue /\ s = "BLOCKED"),
         ~is_empty(links, h),
         links' = MoveFirst(links, h, ready_queue),
         status' = [status EXCEPT ![peek(links, h)] = "READY"],
         UNCHANGED <<task, priority, deadline, current, scheduling>>
  PROVE  PInv'
<1>1. PICK qs : QueuesAre(qs)
  BY DEF PInv
<1>2. PICK i : i = peek(links, h)
  OBVIOUS
<1>3. h \in PcbHeads /\ h # ready_queue
  BY HeadsDiffer
<1>4. /\ i \in Slot /\ Has(qs[h], i)
      /\ \E new : /\ Lists(links', Slot \cup PcbHeads, PcbHeads, Slot, new)
                  /\ Moved(PcbHeads, qs, new, h, ready_queue, i)
  <2>1. PICK r : r = ready_queue
    OBVIOUS
  <2>2. Lists(links, Slot \cup PcbHeads, PcbHeads, Slot, qs) /\ r \in PcbHeads /\ h # r
    BY <1>1, <1>3, <2>1, HeadsDiffer DEF QueuesAre
  <2>3. ~is_empty(links, h) /\ i = peek(links, h) /\ links' = MoveFirst(links, h, r)
    BY <1>2, <2>1
  <2>4. /\ peek(links, h) \in Slot /\ Has(qs[h], peek(links, h))
        /\ \E new : /\ Lists(MoveFirst(links, h, r), Slot \cup PcbHeads, PcbHeads, Slot, new)
                    /\ Moved(PcbHeads, qs, new, h, r, peek(links, h))
    BY <1>3, <2>2, <2>3, MoveHas
  <2> QED BY <2>1, <2>3, <2>4
<1>5. PICK new : /\ Lists(links', Slot \cup PcbHeads, PcbHeads, Slot, new)
                 /\ Moved(PcbHeads, qs, new, h, ready_queue, i)
  BY <1>4
<1>6. status \in [Slot -> {"FIRST_TIME", "READY", "SLEEPING", "BLOCKED", "EXITED"}]
  BY DEF PInv, TypeOK
<1>7. status[i] = s /\ ~Running(i)
  <2>1. Belongs(i, h)
    BY <1>1, <1>3, <1>4 DEF QueuesAre
  <2>2. status[i] = s
    BY <2>1, HeadsDiffer DEF Belongs
  <2> QED BY <2>2 DEF PInv, CurrentAlive, Running
<1>8. TypeOK'
  <2>1. Slot' = Slot
    BY DEF Slot
  <2>2. status' \in [Slot -> {"FIRST_TIME", "READY", "SLEEPING", "BLOCKED", "EXITED"}]
    BY <1>6
  <2> QED BY <2>1, <2>2 DEF PInv, TypeOK
<1>9. status'[i] = "READY" /\ \A j \in Slot : j # i => status'[j] = status[j]
  BY <1>2, <1>4, <1>6
<1>10. CurrentAlive'
  <2>1. Slot' = Slot
    BY DEF Slot
  <2>2. ~scheduling => current \in Slot /\ status[current] \in {"FIRST_TIME", "READY"}
    BY DEF PInv, CurrentAlive
  <2> QED BY <1>9, <2>1, <2>2 DEF CurrentAlive
<1>11. ASSUME NEW g \in PcbHeads, NEW j \in Slot PROVE Has(new[g], j) <=> Belongs(j, g)'
  <2>1. Has(qs[g], j) <=> Belongs(j, g)
    BY <1>1 DEF QueuesAre
  <2>2. CASE j = i
    <3>1. Belongs(j, g)' <=> g = ready_queue
      BY <1>7, <1>9, <2>2, HeadsDiffer DEF Belongs, Running
    <3>2. Has(qs[g], j) => g = h
      BY <1>7, <2>1, <2>2, HeadsDiffer DEF Belongs
    <3>3. Has(new[g], j) <=> g = ready_queue
      BY <1>3, <1>5, <2>2, <3>2 DEF Moved
    <3> QED BY <3>1, <3>3
  <2>3. CASE j # i
    <3>1. Has(new[g], j) <=> Has(qs[g], j)
      BY <1>5, <2>3 DEF Moved
    <3>2. Belongs(j, g)' <=> Belongs(j, g)
      BY <1>9, <2>3 DEF Belongs, Running
    <3> QED BY <2>1, <3>1, <3>2
  <2> QED BY <2>2, <2>3
<1>12. SortedBy(new[sleep_wait_queue], deadline')
  <2>1. SortedBy(qs[sleep_wait_queue], deadline)
    BY <1>1 DEF QueuesAre
  <2>2. CASE h = sleep_wait_queue
    BY <1>5, <2>1, <2>2 DEF Moved
  <2>3. CASE h # sleep_wait_queue
    <3>1. new[sleep_wait_queue] = qs[sleep_wait_queue]
      BY <1>5, <2>3, HeadsDiffer DEF Moved
    <3> QED BY <2>1, <3>1
  <2> QED BY <2>2, <2>3
<1> QED BY <1>5, <1>8, <1>10, <1>11, <1>12, Kept

LEMMA TimerStep ==
  ASSUME PInv, TimerIrq
  PROVE  PInv'
<1>1. deadline \in [Slot -> Nat] /\ Tick \in Nat
  BY PriorityAssumption DEF PInv, TypeOK
<1>2. deadline' = [i \in Slot |-> IF deadline[i] > Tick THEN deadline[i] - Tick ELSE 0]
  BY DEF TimerIrq
<1>3. deadline' \in [Slot -> Nat]
  <2>1. \A i \in Slot : (IF deadline[i] > Tick THEN deadline[i] - Tick ELSE 0) \in Nat
    BY <1>1
  <2> QED BY <1>2, <2>1
<1>4. \A i, j \in Slot : deadline[i] <= deadline[j] => deadline'[i] <= deadline'[j]
  BY <1>1, <1>2
<1>5. CASE IsThread(current)
  <2>1. UNCHANGED <<task, links, status, priority, current, scheduling>>
    BY <1>5 DEF TimerIrq
  <2>2. PICK qs : QueuesAre(qs)
    BY DEF PInv
  <2>3. Slot' = Slot
    BY <2>1 DEF Slot
  <2>4. TypeOK'
    BY <1>3, <2>1, <2>3 DEF PInv, TypeOK
  <2>5. CurrentAlive'
    BY <2>1, <2>3 DEF PInv, CurrentAlive
  <2>6. \A h \in PcbHeads, i \in Slot : Has(qs[h], i) <=> Belongs(i, h)'
    BY <2>1, <2>2 DEF QueuesAre, Belongs, Running
  <2>7. SortedBy(qs[sleep_wait_queue], deadline')
    <3>1. qs[sleep_wait_queue] \in Seq(Slot) /\ SortedBy(qs[sleep_wait_queue], deadline)
      BY <2>2, HeadsDiffer DEF QueuesAre, Lists
    <3> QED BY <1>4, <3>1, SameOrder
  <2> QED BY <2>1, <2>2, <2>4, <2>5, <2>6, <2>7, Kept DEF QueuesAre
<1>6. CASE ~IsThread(current)
  <2>1. current # NULL /\ ~scheduling /\ SwitchOut(enqueue(links, ready_queue, current), "READY")
    <3>1. scheduling \in BOOLEAN
      BY DEF PInv, TypeOK
    <3> QED BY <1>6, <3>1 DEF TimerIrq, PutCurrentRunning
  <2> QED BY <1>3, <1>4, <2>1, SwitchStep
<1> QED BY <1>5, <1>6

LEMMA CallStep ==
  ASSUME PInv, Yield \/ Block
  PROVE  PInv'
<1>1. /\ current # NULL /\ ~scheduling /\ deadline' = deadline
      /\ \/ SwitchOut(enqueue(links, ready_queue, current), "READY")
         \/ SwitchOut(enqueue(links, wait_queue, current), "BLOCKED")
  BY DEF Yield, Block, Calling, PutCurrentRunning
<1>2. /\ deadline' \in [Slot -> Nat]
      /\ \A i, j \in Slot : deadline[i] <= deadline[j] => deadline'[i] <= deadline'[j]
  BY <1>1 DEF PInv, TypeOK
<1> QED BY <1>1, <1>2, SwitchStep

LEMMA WakeStep ==
  ASSUME PInv, Unblock \/ WakeSleeper
  PROVE  PInv'
<1>1. CASE Unblock
  BY <1>1, MoveStep DEF Unblock
<1>2. CASE WakeSleeper
  BY <1>2, MoveStep DEF WakeSleeper, SleeperDue
<1> QED BY <1>1, <1>2

\* scheduler() finds a task whenever there is one.
LEMMA HighestIs ==
  ASSUME NEW I, NEW s \in Seq(I), s # <<>>, NEW p \in [I -> 0 .. 40]
  PROVE  \E n \in DOMAIN s : \A m \in DOMAIN s :
           p[s[n]] > p[s[m]] \/ (p[s[n]] = p[s[m]] /\ n <= m)
<1>1. DOMAIN s = 1 .. Len(s) /\ 1 \in DOMAIN s /\ \A n \in DOMAIN s : p[s[n]] \in 0 .. 40
  OBVIOUS
<1>2. PICK f : f = [n \in DOMAIN s |-> 40 - p[s[n]]]
  OBVIOUS
<1>3. ASSUME NEW n \in DOMAIN s PROVE f[n] \in Nat /\ f[n] = 40 - p[s[n]]
  <2>1. PICK a \in 0 .. 40 : a = p[s[n]]
    BY <1>1
  <2>2. 40 - a \in Nat
    OBVIOUS
  <2> QED BY <1>2, <2>1, <2>2
<1>4. PICK least \in {f[n] : n \in DOMAIN s} : \A l \in {f[n] : n \in DOMAIN s} : least <= l
  <2>1. {f[n] : n \in DOMAIN s} \in SUBSET Nat /\ {f[n] : n \in DOMAIN s} # {}
    BY <1>1, <1>3
  <2> QED BY <2>1, LeastNat
<1>5. PICK best \in {n \in DOMAIN s : f[n] = least} : \A n \in {m \in DOMAIN s : f[m] = least} : best <= n
  <2>1. {n \in DOMAIN s : f[n] = least} \in SUBSET Nat /\ {n \in DOMAIN s : f[n] = least} # {}
    BY <1>1, <1>4
  <2> QED BY <2>1, LeastNat
<1>6. ASSUME NEW m \in DOMAIN s
      PROVE  p[s[best]] > p[s[m]] \/ (p[s[best]] = p[s[m]] /\ best <= m)
  <2>1. best \in DOMAIN s /\ f[best] = least /\ least <= f[m] /\ (f[m] = least => best <= m)
    BY <1>4, <1>5
  <2>2. f[best] = 40 - p[s[best]] /\ f[m] = 40 - p[s[m]] /\ p[s[best]] \in 0 .. 40 /\ p[s[m]] \in 0 .. 40
    BY <1>1, <1>3, <2>1
  <2>3. PICK a \in 0 .. 40, b \in 0 .. 40 : a = p[s[best]] /\ b = p[s[m]]
    BY <2>2
  <2>4. PICK c \in Nat, l \in Nat : c = best /\ l = m
    BY <1>1, <2>1
  <2>5. 40 - a <= 40 - b /\ (40 - a = 40 - b => c <= l)
    BY <2>1, <2>2, <2>3, <2>4
  <2>6. a > b \/ (a = b /\ c <= l)
    BY <2>5
  <2> QED BY <2>3, <2>4, <2>6
<1> QED BY <1>5, <1>6

LEMMA HighestReady ==
  ASSUME PInv, ~is_empty(links, ready_queue), NEW qs, QueuesAre(qs)
  PROVE  Highest(links) \in Slot /\ Has(qs[ready_queue], Highest(links))
<1>1. PICK r : r = ready_queue
  OBVIOUS
<1>2. /\ Lists(links, Slot \cup PcbHeads, PcbHeads, Slot, qs)
      /\ IsFiniteSet(Slot \cup PcbHeads) /\ r \in PcbHeads
  BY <1>1, TasksAre, HeadsDiffer DEF QueuesAre, PInv, TypeOK
<1>3. ~is_empty(links, r)
  BY <1>1
<1>4. qs[r] # <<>> /\ qs[r] \in Seq(Slot)
  <2>1. qs[r] # <<>>
    BY <1>2, <1>3, PeekIs
  <2> QED BY <1>2, <2>1 DEF Lists
<1>5. Items(links, r) = qs[r]
  BY <1>2, ItemsAre
<1>6. priority \in [Slot -> 0 .. 40]
  <2>1. priority \in [Slot -> Nat]
    BY DEF PInv, TypeOK
  <2>2. ASSUME NEW i \in Slot PROVE priority[i] \in 0 .. 40
    <3>1. i \in 1 .. 4
      BY TasksAre DEF PInv, TypeOK
    <3>2. PICK k \in 1 .. 5 - i : priority[i] = 10 * k
      BY DEF PInv, TypeOK
    <3>3. k \in 1 .. 4
      BY <3>1
    <3> QED BY <3>2, <3>3
  <2> QED BY <2>1, <2>2
<1>7. \E n \in DOMAIN qs[r] : \A m \in DOMAIN qs[r] :
        \/ priority[qs[r][n]] > priority[qs[r][m]]
        \/ priority[qs[r][n]] = priority[qs[r][m]] /\ n <= m
  BY <1>4, <1>6, HighestIs
<1>8. \E n \in DOMAIN qs[r] : Highest(links) = qs[r][n]
  <2>1. PICK s : s = qs[r]
    OBVIOUS
  <2>2. Items(links, ready_queue) = s
    BY <1>1, <1>5, <2>1
  <2>3. PICK best :
          best = CHOOSE n \in DOMAIN s : \A m \in DOMAIN s :
                   \/ priority[s[n]] > priority[s[m]]
                   \/ priority[s[n]] = priority[s[m]] /\ n <= m
    OBVIOUS
  <2>4. best \in DOMAIN s
    BY <1>7, <2>1, <2>3
  <2>5. Highest(links) = s[best]
    BY <2>2, <2>3 DEF Highest
  <2> QED BY <2>1, <2>4, <2>5
<1> QED BY <1>1, <1>4, <1>8 DEF Has

LEMMA ExtractHas ==
  ASSUME NEW N, NEW H, NEW I, NEW qs, Lists(links, N, H, I, qs), NEW h \in H, NEW i \in I, Has(qs[h], i)
  PROVE  \E new : Lists(Extract(links, i), N, H, I, new) /\ Lost(H, qs, new, h, i)
<1>1. PICK new : Lists(Unlink(links, i), N, H, I, new) /\ InNone(H, new, i) /\ Lost(H, qs, new, h, i)
  BY UnlinkHas
<1>2. PICK M, K : M = Extract(links, i) /\ K = Unlink(links, i)
  OBVIOUS
<1>3. M = [prev |-> [K.prev EXCEPT ![i] = NULL], next |-> [K.next EXCEPT ![i] = NULL]]
  BY <1>2 DEF Extract
<1>4. DOMAIN K.next = N /\ DOMAIN K.prev = N
  BY <1>1, <1>2 DEF Lists
<1>5. /\ DOMAIN M.next = N /\ DOMAIN M.prev = N
      /\ \A n \in N : n # i => M.next[n] = K.next[n] /\ M.prev[n] = K.prev[n]
  BY <1>3, <1>4
<1>6. Lists(M, N, H, I, new)
  BY <1>1, <1>2, <1>5, FreeFields
<1> QED BY <1>1, <1>2, <1>6

LEMMA PaysFor ==
  ASSUME PInv, NEW i \in Slot
  PROVE  PriorityAfter(i) \in Nat /\ \E k \in 1 .. 5 - i : PriorityAfter(i) = 10 * k
<1>1. i \in 1 .. 4
  BY TasksAre DEF PInv, TypeOK
<1>2. PICK k \in 1 .. 5 - i : priority[i] = 10 * k
  BY DEF PInv, TypeOK
<1>3. k \in 1 .. 4
  BY <1>1
<1>4. CASE priority[i] > 10
  <2>1. k - 1 \in 1 .. 5 - i /\ PriorityAfter(i) = 10 * (k - 1)
    BY <1>1, <1>2, <1>3, <1>4 DEF PriorityAfter
  <2> QED BY <1>1, <2>1
<1>5. CASE ~(priority[i] > 10)
  <2>1. 5 - i \in 1 .. 5 - i /\ PriorityAfter(i) = 10 * (5 - i)
    BY <1>1, <1>5 DEF PriorityAfter
  <2> QED BY <1>1, <2>1
<1> QED BY <1>4, <1>5

LEMMA ScheduleStep ==
  ASSUME PInv, Schedule
  PROVE  PInv'
<1>1. PICK qs : QueuesAre(qs)
  BY DEF PInv
<1>2. PICK i : i = Highest(links)
  OBVIOUS
<1>3. i \in Slot /\ Has(qs[ready_queue], i)
  BY <1>1, <1>2, HighestReady DEF Schedule
<1>4. /\ current' = i /\ links' = Extract(links, i)
      /\ priority' = [priority EXCEPT ![i] = PriorityAfter(i)]
      /\ scheduling' = FALSE /\ scheduling = TRUE
      /\ task' = task /\ status' = status /\ deadline' = deadline
  BY <1>2 DEF Schedule, PInv, TypeOK
<1>5. PICK new : /\ Lists(links', Slot \cup PcbHeads, PcbHeads, Slot, new)
                 /\ Lost(PcbHeads, qs, new, ready_queue, i)
  <2>1. PICK r : r = ready_queue
    OBVIOUS
  <2>2. Lists(links, Slot \cup PcbHeads, PcbHeads, Slot, qs) /\ r \in PcbHeads /\ Has(qs[r], i)
    BY <1>1, <1>3, <2>1, HeadsDiffer DEF QueuesAre
  <2>3. \E new : /\ Lists(Extract(links, i), Slot \cup PcbHeads, PcbHeads, Slot, new)
                 /\ Lost(PcbHeads, qs, new, r, i)
    BY <1>3, <2>2, ExtractHas
  <2> QED BY <1>4, <2>1, <2>3
<1>6. TypeOK'
  <2>1. Slot' = Slot
    BY <1>4 DEF Slot
  <2>2. priority \in [Slot -> Nat] /\ \A j \in Slot : \E k \in 1 .. 5 - j : priority[j] = 10 * k
    BY DEF PInv, TypeOK
  <2>3. PriorityAfter(i) \in Nat /\ \E k \in 1 .. 5 - i : PriorityAfter(i) = 10 * k
    BY <1>3, PaysFor
  <2>4. priority' \in [Slot -> Nat]
    BY <1>4, <2>2, <2>3
  <2>5. ASSUME NEW j \in Slot PROVE \E k \in 1 .. 5 - j : priority'[j] = 10 * k
    <3>1. priority'[j] = IF j = i THEN PriorityAfter(i) ELSE priority[j]
      BY <1>4, <2>2
    <3> QED BY <2>2, <2>3, <3>1
  <2>6. /\ task' \in Programs /\ current' \in Slot \cup {NULL} /\ scheduling' \in BOOLEAN
        /\ status' \in [Slot -> {"FIRST_TIME", "READY", "SLEEPING", "BLOCKED", "EXITED"}]
        /\ deadline' \in [Slot -> Nat]
    BY <1>3, <1>4 DEF PInv, TypeOK
  <2> QED BY <2>1, <2>4, <2>5, <2>6 DEF TypeOK
<1>7. Belongs(i, ready_queue)
  BY <1>1, <1>3, HeadsDiffer DEF QueuesAre
<1>8. CurrentAlive'
  <2>1. status[i] \in {"FIRST_TIME", "READY"}
    BY <1>7, HeadsDiffer DEF Belongs
  <2>2. Slot' = Slot
    BY <1>4 DEF Slot
  <2> QED BY <1>3, <1>4, <2>1, <2>2 DEF CurrentAlive
<1>9. ASSUME NEW g \in PcbHeads, NEW j \in Slot PROVE Has(new[g], j) <=> Belongs(j, g)'
  <2>1. Has(qs[g], j) <=> Belongs(j, g)
    BY <1>1 DEF QueuesAre
  <2>2. Has(new[g], j) <=> Has(qs[g], j) /\ ~(g = ready_queue /\ j = i)
    BY <1>5 DEF Lost
  <2>3. Belongs(j, g)' <=> Belongs(j, g) /\ ~(g = ready_queue /\ j = i)
    BY <1>4, <1>7, HeadsDiffer DEF Belongs, Running
  <2> QED BY <2>1, <2>2, <2>3
<1>10. SortedBy(new[sleep_wait_queue], deadline')
  <2>1. new[sleep_wait_queue] = qs[sleep_wait_queue]
    BY <1>5, HeadsDiffer DEF Lost
  <2> QED BY <1>1, <1>4, <2>1 DEF QueuesAre
<1> QED BY <1>4, <1>5, <1>6, <1>8, <1>9, <1>10, Kept

\* The lists after _start() has put the first n tasks in the ready queue.
FirstReady(L, n) ==
  \E qs : /\ Lists(L, Slot \cup PcbHeads, PcbHeads, Slot, qs)
          /\ \A j : Has(qs[ready_queue], j) <=> j \in 1 .. n
          /\ qs[sleep_wait_queue] = <<>> /\ qs[wait_queue] = <<>>

LEMMA NoneReady ==
  ASSUME task \in Programs, NEW L,
         L.next = [n \in Slot \cup PcbHeads |-> IF n \in Slot THEN NULL ELSE n],
         L.prev = L.next
  PROVE  FirstReady(L, 0)
<1>1. PICK qs : qs = [h \in PcbHeads |-> <<>>]
  OBVIOUS
<1>2. \A h \in PcbHeads : qs[h] = <<>> /\ Len(qs[h]) = 0
  BY <1>1
<1>3. qs \in [PcbHeads -> Seq(Slot)]
  BY <1>1
<1>4. ASSUME NEW h \in PcbHeads PROVE Chain(L, qs[h], h)
  <2>1. h \notin Slot
    BY TasksAre
  <2>2. L.next[h] = h /\ L.prev[h] = h
    BY <2>1
  <2> QED BY <1>2, <2>2 DEF Chain, Nd
<1>5. OncePlaced(PcbHeads, qs)
  BY <1>2 DEF OncePlaced
<1>6. Lists(L, Slot \cup PcbHeads, PcbHeads, Slot, qs)
  BY <1>3, <1>4, <1>5, TasksAre DEF Lists
<1>7. \A j : Has(qs[ready_queue], j) <=> j \in 1 .. 0
  BY <1>2, HeadsDiffer DEF Has
<1> QED BY <1>2, <1>6, <1>7, HeadsDiffer DEF FirstReady

LEMMA OneMoreReady ==
  ASSUME task \in Programs, NEW n \in Slot, NEW L, FirstReady(L, n - 1)
  PROVE  FirstReady(enqueue(L, ready_queue, n), n)
<1>1. PICK qs : /\ Lists(L, Slot \cup PcbHeads, PcbHeads, Slot, qs)
                /\ \A j : Has(qs[ready_queue], j) <=> j \in 1 .. n - 1
                /\ qs[sleep_wait_queue] = <<>> /\ qs[wait_queue] = <<>>
  BY DEF FirstReady
<1>2. n \in Int /\ 1 <= n
  BY TasksAre
<1>3. InNone(PcbHeads, qs, n)
  <2>1. ~Has(qs[ready_queue], n)
    BY <1>1, <1>2
  <2>2. ~Has(qs[sleep_wait_queue], n) /\ ~Has(qs[wait_queue], n)
    BY <1>1 DEF Has
  <2> QED BY <2>1, <2>2 DEF PcbHeads, InNone, Has
<1>4. PICK new : /\ Lists(enqueue(L, ready_queue, n), Slot \cup PcbHeads, PcbHeads, Slot, new)
                 /\ Gained(PcbHeads, qs, new, ready_queue, n)
  <2>1. PICK r : r = ready_queue /\ r \in PcbHeads
    BY HeadsDiffer
  <2>2. \E new : /\ Lists(enqueue(L, r, n), Slot \cup PcbHeads, PcbHeads, Slot, new)
                 /\ Gained(PcbHeads, qs, new, r, n)
    BY <1>1, <1>3, <2>1, EnqueueHas
  <2> QED BY <2>1, <2>2
<1>5. \A j : Has(new[ready_queue], j) <=> j \in 1 .. n
  <2>1. \A j : j \in 1 .. n <=> j \in 1 .. n - 1 \/ j = n
    BY <1>2
  <2> QED BY <1>1, <1>4, <2>1 DEF Gained
<1>6. new[sleep_wait_queue] = <<>> /\ new[wait_queue] = <<>>
  BY <1>1, <1>4, HeadsDiffer DEF Gained
<1> QED BY <1>4, <1>5, <1>6 DEF FirstReady

\* The recursion of Init, of four turns at most.
LEMMA AllReady ==
  ASSUME Init
  PROVE  FirstReady(links, Len(task))
<1>1. PICK N \in 1 .. 4 : N = Len(task) /\ Slot = 1 .. N
  BY TasksAre DEF Init
<1>2. PICK self : self = [n \in Slot \cup {ready_queue, sleep_wait_queue, wait_queue} |->
                            IF n \in Slot THEN NULL ELSE n]
  OBVIOUS
<1>3. PICK zero : zero = [prev |-> self, next |-> self]
  OBVIOUS
<1>4. FirstReady(zero, 0)
  BY <1>2, <1>3, NoneReady DEF Init, PcbHeads
<1> DEFINE body(f) == [n \in 0 .. N |-> IF n = 0 THEN zero ELSE enqueue(f[n - 1], ready_queue, n)]
           filled == CHOOSE f : f = body(f)
<1>5. links = filled[N]
  BY <1>1, <1>2, <1>3 DEF Init
<1>6. \E f : f = body(f)
  <2>1. PICK g1 : g1 = enqueue(zero, ready_queue, 1)
    OBVIOUS
  <2>2. PICK g2 : g2 = enqueue(g1, ready_queue, 2)
    OBVIOUS
  <2>3. PICK g3 : g3 = enqueue(g2, ready_queue, 3)
    OBVIOUS
  <2>4. PICK g4 : g4 = enqueue(g3, ready_queue, 4)
    OBVIOUS
  <2>5. PICK g : g = [n \in 0 .. N |-> IF n = 0 THEN zero ELSE IF n = 1 THEN g1
                                       ELSE IF n = 2 THEN g2 ELSE IF n = 3 THEN g3 ELSE g4]
    OBVIOUS
  <2>6. ASSUME NEW n \in 0 .. N
        PROVE  g[n] = IF n = 0 THEN zero ELSE enqueue(g[n - 1], ready_queue, n)
    <3>1. n \in 0 .. 4
      OBVIOUS
    <3>2. CASE n = 0
      BY <2>5, <3>2
    <3>3. CASE n = 1
      <4>1. g[n] = g1 /\ g[n - 1] = zero
        BY <2>5, <3>3
      <4> QED BY <2>1, <3>3, <4>1
    <3>4. CASE n = 2
      <4>1. g[n] = g2 /\ g[n - 1] = g1
        BY <2>5, <3>4
      <4> QED BY <2>2, <3>4, <4>1
    <3>5. CASE n = 3
      <4>1. g[n] = g3 /\ g[n - 1] = g2
        BY <2>5, <3>5
      <4> QED BY <2>3, <3>5, <4>1
    <3>6. CASE n = 4
      <4>1. g[n] = g4 /\ g[n - 1] = g3
        BY <2>5, <3>6
      <4> QED BY <2>4, <3>6, <4>1
    <3> QED BY <3>1, <3>2, <3>3, <3>4, <3>5, <3>6
  <2>7. g = body(g)
    BY <2>5, <2>6
  <2> QED BY <2>7
<1>7. filled = body(filled)
  BY <1>6
<1> HIDE DEF filled
<1>8. \A n \in 0 .. N : filled[n] = IF n = 0 THEN zero ELSE enqueue(filled[n - 1], ready_queue, n)
  BY <1>7
<1>9. FirstReady(filled[0], 0)
  BY <1>4, <1>8
<1>10. ASSUME NEW n \in Slot, FirstReady(filled[n - 1], n - 1) PROVE FirstReady(filled[n], n)
  <2>1. n \in 0 .. N /\ n # 0
    BY <1>1
  <2>2. filled[n] = enqueue(filled[n - 1], ready_queue, n)
    BY <1>8, <2>1
  <2> QED BY <1>10, <2>2, OneMoreReady DEF Init
<1>11. FirstReady(filled[1], 1)
  <2>1. 1 \in Slot /\ 1 - 1 = 0
    BY <1>1
  <2> QED BY <1>9, <1>10, <2>1
<1>12. N >= 2 => FirstReady(filled[2], 2)
  <2>1. (N >= 2 => 2 \in Slot) /\ 2 - 1 = 1
    BY <1>1
  <2> QED BY <1>10, <1>11, <2>1
<1>13. N >= 3 => FirstReady(filled[3], 3)
  <2>1. (N >= 3 => 3 \in Slot /\ N >= 2) /\ 3 - 1 = 2
    BY <1>1
  <2> QED BY <1>10, <1>12, <2>1
<1>14. N = 4 => FirstReady(filled[4], 4)
  <2>1. (N = 4 => 4 \in Slot /\ N >= 3) /\ 4 - 1 = 3
    BY <1>1
  <2> QED BY <1>10, <1>13, <2>1
<1>15. FirstReady(filled[N], N)
  <2>1. N = 1 \/ N = 2 \/ N = 3 \/ N = 4
    OBVIOUS
  <2> QED BY <1>11, <1>12, <1>13, <1>14, <2>1
<1> QED BY <1>1, <1>5, <1>15

LEMMA InitPInv ==
  ASSUME Init
  PROVE  PInv
<1>1. Slot = 1 .. Len(task) /\ Len(task) \in 1 .. 4
  BY TasksAre DEF Init
<1>2. TypeOK
  <2>1. ASSUME NEW i \in Slot PROVE 10 * (5 - i) \in Nat /\ \E k \in 1 .. 5 - i : 10 * (5 - i) = 10 * k
    <3>1. 5 - i \in 1 .. 5 - i
      <4>1. i \in 1 .. 4
        <5>1. PICK n \in 1 .. 4 : n = Len(task)
          BY <1>1
        <5>2. i \in 1 .. n
          BY <1>1, <5>1
        <5> QED BY <5>2
      <4> QED BY <4>1
    <3> QED BY <1>1, <3>1
  <2>2. priority \in [Slot -> Nat] /\ \A i \in Slot : \E k \in 1 .. 5 - i : priority[i] = 10 * k
    BY <2>1 DEF Init
  <2> QED BY <2>2 DEF Init, TypeOK
<1>3. CurrentAlive
  BY DEF Init, CurrentAlive
<1>4. PICK qs : /\ Lists(links, Slot \cup PcbHeads, PcbHeads, Slot, qs)
                /\ \A j : Has(qs[ready_queue], j) <=> j \in 1 .. Len(task)
                /\ qs[sleep_wait_queue] = <<>> /\ qs[wait_queue] = <<>>
  BY AllReady DEF FirstReady
<1>5. ASSUME NEW h \in PcbHeads, NEW i \in Slot PROVE Has(qs[h], i) <=> Belongs(i, h)
  <2>1. status[i] = "FIRST_TIME" /\ ~Running(i)
    BY DEF Init, Running
  <2>2. Has(qs[h], i) <=> h = ready_queue
    BY <1>1, <1>4 DEF PcbHeads, Has
  <2> QED BY <2>1, <2>2, HeadsDiffer DEF Belongs
<1>6. SortedBy(qs[sleep_wait_queue], deadline)
  BY <1>4 DEF SortedBy
<1> QED BY <1>2, <1>3, <1>4, <1>5, <1>6 DEF PInv, QueuesAre

LEMMA TasksKept ==
  ASSUME PInv, [Next]_vars
  PROVE  PInv'
<1>1. CASE GiveUpCpu
  BY <1>1, CallStep, ExitStep, SleepStep DEF GiveUpCpu
<1>2. CASE Unblock \/ WakeSleeper
  BY <1>2, WakeStep
<1>3. CASE TimerIrq
  BY <1>3, TimerStep
<1>4. CASE Schedule
  BY <1>4, ScheduleStep
<1>5. CASE UNCHANGED vars
  <2>1. UNCHANGED <<task, links, status, priority, deadline, current, scheduling>>
    BY <1>5 DEF vars
  <2>2. PICK qs : QueuesAre(qs)
    BY DEF PInv
  <2>3. Slot' = Slot
    BY <2>1 DEF Slot
  <2>4. TypeOK' /\ CurrentAlive'
    BY <2>1, <2>3 DEF PInv, TypeOK, CurrentAlive
  <2>5. \A h \in PcbHeads, i \in Slot : Has(qs[h], i) <=> Belongs(i, h)'
    BY <2>1, <2>2 DEF QueuesAre, Belongs, Running
  <2> QED BY <2>1, <2>2, <2>4, <2>5, Kept DEF QueuesAre
<1> QED BY <1>1, <1>2, <1>3, <1>4, <1>5 DEF Next

LEMMA TasksInvariant == Spec => []PInv
<1>1. PInv /\ [Next]_vars => PInv'
  BY TasksKept
<1>2. Init => PInv
  BY InitPInv
<1> QED BY <1>1, <1>2, PTL DEF Spec

\* The queues of scheduler.c hold what the statuses say.
LEMMA QueuesHold ==
  ASSUME PInv
  PROVE  QueuesIntact
<1>1. PICK qs : QueuesAre(qs)
  BY DEF PInv
<1>2. IsFiniteSet(Slot \cup PcbHeads) /\ Lists(links, Slot \cup PcbHeads, PcbHeads, Slot, qs)
  BY <1>1, TasksAre DEF PInv, TypeOK, QueuesAre
<1>3. ASSUME NEW h \in PcbHeads PROVE IsRing(links, h)
  BY <1>2, RingIs
<1>4. ASSUME NEW h \in PcbHeads, NEW i \in Slot PROVE Linked(links, h, i) <=> Belongs(i, h)
  <2>1. Linked(links, h, i) <=> \E k \in 1 .. Len(qs[h]) : qs[h][k] = i
    BY <1>2, ItemsAre
  <2> QED BY <1>1, <2>1 DEF QueuesAre, Has
<1>5. ASSUME NEW i \in Slot
      PROVE  {q \in PcbHeads : Linked(links, q, i)} =
               IF Running(i) \/ status[i] = "EXITED" THEN {}
               ELSE {CASE status[i] = "SLEEPING" -> sleep_wait_queue
                       [] status[i] = "BLOCKED" -> wait_queue
                       [] OTHER -> ready_queue}
  <2>1. status[i] \in {"FIRST_TIME", "READY", "SLEEPING", "BLOCKED", "EXITED"}
    BY DEF PInv, TypeOK
  <2>2. Running(i) => status[i] \in {"FIRST_TIME", "READY"}
    BY DEF PInv, CurrentAlive, Running
  <2>3. {q \in PcbHeads : Linked(links, q, i)} = {q \in PcbHeads : Belongs(i, q)}
    BY <1>4
  <2>4. CASE Running(i) \/ status[i] = "EXITED"
    <3>1. \A q \in PcbHeads : ~Belongs(i, q)
      BY <2>2, <2>4 DEF Belongs
    <3> QED BY <2>3, <2>4, <3>1
  <2>5. CASE ~Running(i) /\ status[i] = "SLEEPING"
    <3>1. \A q \in PcbHeads : Belongs(i, q) <=> q = sleep_wait_queue
      BY <2>5, HeadsDiffer DEF Belongs
    <3> QED BY <2>3, <2>5, <3>1, HeadsDiffer
  <2>6. CASE ~Running(i) /\ status[i] = "BLOCKED"
    <3>1. \A q \in PcbHeads : Belongs(i, q) <=> q = wait_queue
      BY <2>6, HeadsDiffer DEF Belongs
    <3> QED BY <2>3, <2>6, <3>1, HeadsDiffer
  <2>7. CASE ~Running(i) /\ status[i] \in {"FIRST_TIME", "READY"}
    <3>1. \A q \in PcbHeads : Belongs(i, q) <=> q = ready_queue
      BY <2>7, HeadsDiffer DEF Belongs
    <3> QED BY <2>3, <2>7, <3>1, HeadsDiffer
  <2> QED BY <2>1, <2>4, <2>5, <2>6, <2>7
<1> QED BY <1>3, <1>5 DEF QueuesIntact, PcbHeads

\* When scheduler() goes on to pick a task, the first sleeper is not due, and the
\* others are behind it.
LEMMA NoSleeperOverdue ==
  ASSUME PInv, Schedule, NEW i \in Slot, status'[i] = "SLEEPING"
  PROVE  deadline[i] > 0
<1>1. PICK qs : QueuesAre(qs)
  BY DEF PInv
<1>2. PICK h : h = sleep_wait_queue
  OBVIOUS
<1>3. Lists(links, Slot \cup PcbHeads, PcbHeads, Slot, qs) /\ h \in PcbHeads
  BY <1>1, <1>2, HeadsDiffer DEF QueuesAre
<1>4. Has(qs[h], i)
  <2>1. Belongs(i, h)
    BY <1>2 DEF Schedule, Belongs
  <2> QED BY <1>1, <1>3, <2>1 DEF QueuesAre
<1>5. PICK k \in 1 .. Len(qs[h]) : qs[h][k] = i
  BY <1>4 DEF Has
<1>6. qs[h] # <<>> /\ qs[h] \in Seq(Slot)
  BY <1>3, <1>5 DEF Lists
<1>7. ~is_empty(links, h) /\ peek(links, h) = qs[h][1] /\ peek(links, h) \in Slot
  BY <1>3, <1>6, PeekIs
<1>8. deadline[qs[h][1]] # 0
  BY <1>2, <1>7 DEF Schedule, SleeperDue
<1>9. deadline[qs[h][1]] <= deadline[i]
  <2>1. SortedBy(qs[h], deadline)
    BY <1>1, <1>2 DEF QueuesAre
  <2>2. 1 \in 1 .. Len(qs[h]) /\ 1 <= k
    BY <1>5, <1>6
  <2> QED BY <1>5, <2>1, <2>2 DEF SortedBy
<1>10. deadline[i] \in Nat /\ deadline[qs[h][1]] \in Nat
  BY <1>7 DEF PInv, TypeOK
<1> QED BY <1>8, <1>9, <1>10

\* A task of project 3 never runs out of priority, nor gets more than it started
\* with, for any program of up to four tasks, any tick and any times of sleep.
THEOREM PrioritiesTyped == Spec => []TypeOK
<1>1. PInv => TypeOK
  BY DEF PInv
<1> QED BY <1>1, TasksInvariant, PTL

\* The queues of project 3 stay rings, and a task is in the queue of its status
\* and in no other, also when one is taken out of the middle of the ready queue.
THEOREM PriorityQueuesIntact == Spec => []QueuesIntact
<1>1. PInv => QueuesIntact
  BY QueuesHold
<1> QED BY <1>1, TasksInvariant, PTL

\* No task of project 3 is picked while one whose deadline has passed sleeps.
THEOREM SleepersWoken == Spec => SleepersWokenInTime
<1>1. PInv /\ [Next]_vars =>
        [scheduling /\ ~scheduling' =>
           \A i \in Slot : status'[i] = "SLEEPING" => deadline[i] > 0]_vars
  <2> SUFFICES ASSUME PInv, Next, scheduling, ~scheduling',
                      NEW i \in Slot, status'[i] = "SLEEPING"
               PROVE  deadline[i] > 0
    OBVIOUS
  <2>1. Schedule
    BY DEF Next, GiveUpCpu, Yield, Exit, Block, DoSleep, PutCurrentRunning, SwitchOut,
           Unblock, TimerIrq, WakeSleeper
  <2> QED BY <2>1, NoSleeperOverdue
<1> QED BY <1>1, TasksInvariant, PTL DEF Spec, SleepersWokenInTime
=============================================================================
