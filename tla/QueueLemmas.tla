---------------------------- MODULE QueueLemmas ----------------------------
(***************************************************************************)
(* Lemmas about queues, for every number of heads and of items.            *)
(*                                                                         *)
(* First about those of Queues, which are sequences: what the operations   *)
(* do to the places of the tasks; that a set of natural numbers has a      *)
(* least one, which is what a search finds first; and what counters that   *)
(* wrap round leave when they are taken modulo a capacity.                 *)
(*                                                                         *)
(* Then about those of Links, which are threaded through their items.      *)
(* Lists relates the two fields of every node to a sequence for every      *)
(* head; an item is in one place at most.  What a free item keeps in its   *)
(* fields is not said, because nothing depends on it.                      *)
(***************************************************************************)
EXTENDS Queues, Links, FiniteSetTheorems, TLAPS


\* enqueue(): the queues stay sequences and p is in q besides what was anywhere.
LEMMA EnqueueIn ==
  ASSUME NEW Q, NEW T, NEW qs \in [Q -> Seq(T)], NEW q \in Q, NEW p \in T
  PROVE  /\ Enqueue(qs, q, p) \in [Q -> Seq(T)]
         /\ \A r \in Q : \A u : InQueue(Enqueue(qs, q, p), r, u)
                              <=> InQueue(qs, r, u) \/ (r = q /\ u = p)
  <1> DEFINE new == Enqueue(qs, q, p)
  <1>1. /\ new \in [Q -> Seq(T)]
        /\ \A r \in Q \ {q} : new[r] = qs[r]
        /\ Len(new[q]) = Len(qs[q]) + 1
        /\ \A i \in 1 .. Len(qs[q]) : new[q][i] = qs[q][i]
        /\ new[q][Len(qs[q]) + 1] = p
    BY DEF Enqueue
  <1>2. \A r \in Q : DOMAIN new[r] = 1 .. Len(new[r]) /\ DOMAIN qs[r] = 1 .. Len(qs[r])
    BY <1>1
  <1>3. ASSUME NEW r \in Q, NEW u
        PROVE  InQueue(new, r, u) <=> InQueue(qs, r, u) \/ (r = q /\ u = p)
    <2>1. CASE r # q
      BY <1>1, <2>1 DEF InQueue
    <2>2. CASE r = q
      <3>1. Len(qs[q]) \in Nat
        BY <1>1
      <3>2. \A i \in 1 .. Len(new[q]) : i \in 1 .. Len(qs[q]) \/ i = Len(qs[q]) + 1
        BY <1>1, <3>1
      <3>3. 1 .. Len(qs[q]) \subseteq 1 .. Len(new[q]) /\ Len(qs[q]) + 1 \in 1 .. Len(new[q])
        BY <1>1, <3>1
      <3> QED
        BY <1>1, <1>2, <2>2, <3>2, <3>3 DEF InQueue
    <2> QED
      BY <2>1, <2>2
  <1> QED
    BY <1>1, <1>3

\* enqueue() of a task that is in no queue keeps every task in one place.
LEMMA EnqueueOnce ==
  ASSUME NEW Q, NEW T, NEW qs \in [Q -> Seq(T)], NEW q \in Q, NEW p \in T,
         LinkedOnce(qs), \A r \in Q : ~InQueue(qs, r, p)
  PROVE  LinkedOnce(Enqueue(qs, q, p))
  <1> DEFINE new == Enqueue(qs, q, p)
  <1>1. /\ new \in [Q -> Seq(T)]
        /\ \A r \in Q \ {q} : new[r] = qs[r]
        /\ Len(new[q]) = Len(qs[q]) + 1
        /\ \A i \in 1 .. Len(qs[q]) : new[q][i] = qs[q][i]
        /\ new[q][Len(qs[q]) + 1] = p
    BY DEF Enqueue
  <1>2. \A r \in Q : DOMAIN new[r] = 1 .. Len(new[r]) /\ DOMAIN qs[r] = 1 .. Len(qs[r])
    BY <1>1
  <1>3. \A r \in Q : Len(qs[r]) \in Nat
    BY <1>1
  <1>4. \A r \in Q : \A i \in 1 .. Len(qs[r]) : qs[r][i] # p
    BY <1>2 DEF InQueue
  <1>5. ASSUME NEW r \in Q, NEW i \in 1 .. Len(new[r])
        PROVE  \/ i \in 1 .. Len(qs[r]) /\ new[r][i] = qs[r][i] /\ new[r][i] # p
               \/ r = q /\ i = Len(qs[q]) + 1 /\ new[r][i] = p
    BY <1>1, <1>3, <1>4
  <1>6. DOMAIN new = Q /\ DOMAIN qs = Q
    BY <1>1
  <1>7. ASSUME NEW r1 \in Q, NEW r2 \in Q, NEW i \in 1 .. Len(new[r1]),
               NEW j \in 1 .. Len(new[r2]), new[r1][i] = new[r2][j]
        PROVE  r1 = r2 /\ i = j
    <2>1. CASE new[r1][i] = p
      BY <1>5, <1>7, <2>1
    <2>2. CASE new[r1][i] # p
      <3>1. /\ i \in 1 .. Len(qs[r1]) /\ j \in 1 .. Len(qs[r2])
            /\ qs[r1][i] = qs[r2][j]
        BY <1>5, <1>7, <2>2
      <3> QED
        BY <3>1, <1>2, <1>6 DEF LinkedOnce
    <2> QED
      BY <2>1, <2>2
  <1> QED
    BY <1>2, <1>6, <1>7 DEF LinkedOnce

\* dequeue(): the head leaves, and with LinkedOnce it is then in no queue.
LEMMA DequeueOnce ==
  ASSUME NEW Q, NEW T, NEW qs \in [Q -> Seq(T)], NEW q \in Q, qs[q] # <<>>, LinkedOnce(qs)
  PROVE  /\ Dequeue(qs, q) \in [Q -> Seq(T)]
         /\ Head(qs[q]) \in T
         /\ InQueue(qs, q, Head(qs[q]))
         /\ LinkedOnce(Dequeue(qs, q))
         /\ \A r \in Q : \A u : InQueue(Dequeue(qs, q), r, u)
                              <=> InQueue(qs, r, u) /\ u # Head(qs[q])
  <1> DEFINE new == Dequeue(qs, q)
  <1>1. /\ new \in [Q -> Seq(T)]
        /\ \A r \in Q \ {q} : new[r] = qs[r]
        /\ Len(new[q]) = Len(qs[q]) - 1
        /\ \A i \in 1 .. Len(new[q]) : new[q][i] = qs[q][i + 1]
        /\ Len(qs[q]) \in Nat \ {0}
        /\ Head(qs[q]) = qs[q][1] /\ Head(qs[q]) \in T
    BY DEF Dequeue
  <1>2. \A r \in Q : DOMAIN new[r] = 1 .. Len(new[r]) /\ DOMAIN qs[r] = 1 .. Len(qs[r])
    BY <1>1
  <1>3. DOMAIN new = Q /\ DOMAIN qs = Q
    BY <1>1
  <1>4. InQueue(qs, q, Head(qs[q]))
    BY <1>1, <1>2 DEF InQueue
  <1>5. ASSUME NEW r \in Q, NEW i \in 1 .. Len(new[r])
        PROVE  \E k \in 1 .. Len(qs[r]) :
                 new[r][i] = qs[r][k] /\ k = IF r = q THEN i + 1 ELSE i
    <2>1. CASE r = q
      <3>1. i + 1 \in 1 .. Len(qs[q]) /\ new[q][i] = qs[q][i + 1]
        BY <1>1, <2>1
      <3> QED
        BY <2>1, <3>1
    <2>2. CASE r # q
      BY <1>1, <2>2
    <2> QED
      BY <2>1, <2>2
  <1>6. \A r1, r2 \in Q : \A i \in 1 .. Len(qs[r1]), j \in 1 .. Len(qs[r2]) :
          qs[r1][i] = qs[r2][j] => r1 = r2 /\ i = j
    BY <1>2, <1>3 DEF LinkedOnce
  <1>7. LinkedOnce(new)
    <2>1. ASSUME NEW r1 \in Q, NEW r2 \in Q, NEW i \in 1 .. Len(new[r1]),
                 NEW j \in 1 .. Len(new[r2]), new[r1][i] = new[r2][j]
          PROVE  r1 = r2 /\ i = j
      <3>1. PICK k1 \in 1 .. Len(qs[r1]) :
              new[r1][i] = qs[r1][k1] /\ k1 = IF r1 = q THEN i + 1 ELSE i
        BY <1>5
      <3>2. PICK k2 \in 1 .. Len(qs[r2]) :
              new[r2][j] = qs[r2][k2] /\ k2 = IF r2 = q THEN j + 1 ELSE j
        BY <1>5
      <3>3. qs[r1][k1] = qs[r2][k2]
        BY <2>1, <3>1, <3>2
      <3>4. r1 = r2 /\ k1 = k2
        BY <1>6, <3>3
      <3> QED
        BY <3>1, <3>2, <3>4
    <2> QED
      BY <2>1, <1>2, <1>3 DEF LinkedOnce
  <1>8. ASSUME NEW r \in Q, NEW u
        PROVE  InQueue(new, r, u) <=> InQueue(qs, r, u) /\ u # Head(qs[q])
    <2>1. ASSUME InQueue(new, r, u) PROVE InQueue(qs, r, u) /\ u # Head(qs[q])
      <3>1. PICK i \in 1 .. Len(new[r]) : new[r][i] = u
        BY <2>1, <1>2 DEF InQueue
      <3>2. PICK k \in 1 .. Len(qs[r]) : u = qs[r][k] /\ k = IF r = q THEN i + 1 ELSE i
        BY <1>5, <3>1
      <3>3. 1 \in 1 .. Len(qs[q]) /\ ~(r = q /\ k = 1)
        BY <1>1, <3>2
      <3>4. u # qs[q][1]
        BY <1>6, <3>2, <3>3
      <3> QED
        BY <3>2, <3>4, <1>1, <1>2 DEF InQueue
    <2>2. ASSUME InQueue(qs, r, u), u # Head(qs[q]) PROVE InQueue(new, r, u)
      <3>1. PICK j \in 1 .. Len(qs[r]) : qs[r][j] = u
        BY <2>2, <1>2 DEF InQueue
      <3>2. CASE r # q
        BY <3>1, <3>2, <1>1, <1>2 DEF InQueue
      <3>3. CASE r = q
        <4>1. j # 1 /\ j - 1 \in 1 .. Len(new[q]) /\ new[q][j - 1] = u
          BY <3>1, <3>3, <2>2, <1>1
        <4> QED
          BY <4>1, <3>3, <1>2 DEF InQueue
      <3> QED
        BY <3>2, <3>3
    <2> QED
      BY <2>1, <2>2
  <1> QED
    BY <1>1, <1>4, <1>7, <1>8

\* Emptying a queue takes its tasks out and no others.
LEMMA FlushOnce ==
  ASSUME NEW Q, NEW T, NEW qs \in [Q -> Seq(T)], NEW q \in Q, LinkedOnce(qs)
  PROVE  /\ Flush(qs, q) \in [Q -> Seq(T)]
         /\ LinkedOnce(Flush(qs, q))
         /\ \A r \in Q : \A u : InQueue(Flush(qs, q), r, u) <=> InQueue(qs, r, u) /\ r # q
  <1> DEFINE new == Flush(qs, q)
  <1>1. new \in [Q -> Seq(T)] /\ new[q] = <<>> /\ \A r \in Q \ {q} : new[r] = qs[r]
    BY DEF Flush
  <1>2. DOMAIN new[q] = {} /\ DOMAIN new = Q /\ DOMAIN qs = Q
    BY <1>1
  <1>3. \A r \in Q : \A u : InQueue(new, r, u) <=> InQueue(qs, r, u) /\ r # q
    BY <1>1, <1>2 DEF InQueue
  <1>4. LinkedOnce(new)
    <2> SUFFICES ASSUME NEW r1 \in Q, NEW r2 \in Q, NEW i \in DOMAIN new[r1],
                        NEW j \in DOMAIN new[r2], new[r1][i] = new[r2][j]
                 PROVE  r1 = r2 /\ i = j
      BY <1>2 DEF LinkedOnce
    <2>1. r1 # q /\ r2 # q
      BY <1>2
    <2> QED
      BY <2>1, <1>1, <1>2 DEF LinkedOnce
  <1> QED
    BY <1>1, <1>3, <1>4

\* An empty queue holds nobody, a queue that holds somebody is not empty.
LEMMA EmptyQueue ==
  ASSUME NEW Q, NEW T, NEW qs \in [Q -> Seq(T)], NEW q \in Q
  PROVE  qs[q] = <<>> <=> \A u : ~InQueue(qs, q, u)
  <1>1. qs[q] \in Seq(T) /\ DOMAIN qs[q] = 1 .. Len(qs[q]) /\ Len(qs[q]) \in Nat
    OBVIOUS
  <1>2. qs[q] = <<>> => \A u : ~InQueue(qs, q, u)
    BY <1>1 DEF InQueue
  <1>3. qs[q] # <<>> => InQueue(qs, q, qs[q][1])
    BY <1>1 DEF InQueue
  <1> QED
    BY <1>2, <1>3

\* Numbers: induction, in the only form that needs no predicate as a parameter.
\* The initial segments 0 .. n are finite sets, and inclusion of those is
\* well-founded.
LEMMA LeastNat ==
  ASSUME NEW S \in SUBSET Nat, S # {}
  PROVE  \E n \in S : \A m \in S : n <= m
  <1> DEFINE Below == {0 .. n : n \in S}
  <1>1. IsWellFoundedOn(StrictSubsetOrdering(Nat), FiniteSubsetsOf(Nat))
    BY FS_StrictSubsetOrderingWellFounded
  <1>2. \A n \in Nat : IsFiniteSet(0 .. n) /\ 0 .. n \subseteq Nat
    BY FS_Interval
  <1>3. Below \subseteq FiniteSubsetsOf(Nat) /\ Below # {}
    BY <1>2 DEF FiniteSubsetsOf
  <1>4. PICK I \in Below : \A J \in Below : ~ (<<J, I>> \in StrictSubsetOrdering(Nat))
    BY <1>1, <1>3, WFMin
  <1>5. PICK n \in S : I = 0 .. n
    BY <1>4
  <1>6. ASSUME NEW m \in S, m < n PROVE FALSE
    <2>1. 0 .. m \in Below /\ 0 .. m \subseteq 0 .. n /\ n \in (0 .. n) \ (0 .. m)
      BY <1>6
    <2>2. <<0 .. m, 0 .. n>> \in StrictSubsetOrdering(Nat)
      BY <2>1, <1>2, <1>5 DEF StrictSubsetOrdering
    <2> QED BY <2>1, <2>2, <1>4, <1>5
  <1> QED BY <1>6

\* How far w is ahead of r, both counted modulo M.
LEMMA ModDifference ==
  ASSUME NEW M \in Nat \ {0}, NEW w \in 0 .. M - 1, NEW r \in 0 .. M - 1
  PROVE (w - r) % M = IF w >= r THEN w - r ELSE w - r + M
<1>1. CASE w >= r
  <2>1. w - r \in 0 .. M - 1
    BY <1>1
  <2> QED BY <1>1
<1>2. CASE w < r
  <2>1. w - r + M \in 0 .. M - 1
    BY <1>2
  <2> QED BY <1>2
<1> QED BY <1>1, <1>2

LEMMA DivMod ==
  ASSUME NEW C \in Nat \ {0}, NEW a \in Nat
  PROVE a = C * (a \div C) + (a % C) /\ a % C \in 0 .. C - 1 /\ a \div C \in Nat
  OBVIOUS

LEMMA UniqueRemainder ==
  ASSUME NEW C \in Nat \ {0}, NEW q \in Int, NEW p \in Int, NEW r \in 0 .. C - 1, NEW s \in 0 .. C - 1,
         C * q + r = C * p + s
  PROVE q = p /\ r = s
<1>1. CASE q > p
  <2>1. C * (q - p) >= C
    BY <1>1
  <2>2. C * (q - p) = s - r
    OBVIOUS
  <2> QED BY <2>1, <2>2
<1>2. CASE p > q
  <2>1. C * (p - q) >= C
    BY <1>2
  <2>2. C * (p - q) = r - s
    OBVIOUS
  <2> QED BY <2>1, <2>2
<1> QED BY <1>1, <1>2

\* A number that wraps round at a multiple of C leaves the same remainder.
LEMMA ModShift ==
  ASSUME NEW C \in Nat \ {0}, NEW M \in Nat, M % C = 0, NEW a \in Nat, a >= M
  PROVE (a - M) % C = a % C
<1>1. PICK k \in Nat : M = C * k
  <2>1. M = C * (M \div C) + (M % C) /\ M \div C \in Nat
    BY DivMod
  <2> QED BY <2>1
<1>2. PICK q \in Nat, s \in 0 .. C - 1 : a = C * q + s /\ s = a % C
  BY DivMod
<1>3. PICK p \in Nat, r \in 0 .. C - 1 : a - M = C * p + r /\ r = (a - M) % C
  <2> DEFINE b == a - M
  <2>1. b \in Nat
    OBVIOUS
  <2> HIDE DEF b
  <2>2. b = C * (b \div C) + (b % C) /\ b % C \in 0 .. C - 1 /\ b \div C \in Nat
    BY <2>1, DivMod
  <2> QED BY <2>2 DEF b
<1>4. C * (q - k) + s = C * p + r
  BY <1>1, <1>2, <1>3
<1>5. q - k \in Int
  OBVIOUS
<1>6. s = r
  <2> DEFINE z == q - k
  <2>1. z \in Int /\ C * z + s = C * p + r
     BY <1>4
  <2> HIDE DEF z
  <2> QED BY <2>1, UniqueRemainder
<1> QED BY <1>2, <1>3, <1>6

\* Numbers less than C apart have different remainders.
LEMMA ModNear ==
  ASSUME NEW C \in Nat \ {0}, NEW a \in Nat, NEW b \in Nat, a < b, b < a + C
  PROVE a % C # b % C
<1> SUFFICES ASSUME a % C = b % C PROVE FALSE
  OBVIOUS
<1>1. a = C * (a \div C) + (a % C) /\ a \div C \in Nat
  BY DivMod
<1>2. b = C * (b \div C) + (b % C) /\ b \div C \in Nat /\ b % C \in 0 .. C - 1
  BY DivMod
<1> DEFINE d == b \div C - a \div C
<1>3. C * d = b - a /\ d \in Int
  BY <1>1, <1>2
<1> HIDE DEF d
<1>4. CASE d <= 0
  <2>1. C * d <= 0
    BY <1>3, <1>4
  <2> QED BY <1>3, <2>1
<1>5. CASE d >= 1
  <2>1. C * d >= C
    BY <1>3, <1>5
  <2> QED BY <1>3, <2>1
<1> QED BY <1>3, <1>4, <1>5

-----------------------------------------------------------------------------
(* Lists. *)

\* The nodes of the ring of h, from h itself, number 0, round to h again.
Nd(s, h, k) == IF k \in 1 .. Len(s) THEN s[k] ELSE h

Chain(L, s, h) ==
  \A k \in 0 .. Len(s) :
    L.next[Nd(s, h, k)] = Nd(s, h, k + 1) /\ L.prev[Nd(s, h, k + 1)] = Nd(s, h, k)

OncePlaced(H, qs) ==
  \A h, g \in H : \A j \in 1 .. Len(qs[h]), k \in 1 .. Len(qs[g]) :
    qs[h][j] = qs[g][k] => h = g /\ j = k

\* qs are the lists of the heads H, of items of I, in the nodes N.
Lists(L, N, H, I, qs) ==
  /\ H \subseteq N /\ I \subseteq N /\ H \cap I = {}
  /\ qs \in [H -> Seq(I)] /\ OncePlaced(H, qs)
  /\ DOMAIN L.next = N /\ DOMAIN L.prev = N
  /\ \A h \in H : Chain(L, qs[h], h)

InNone(H, qs, i) == \A h \in H : \A k \in 1 .. Len(qs[h]) : qs[h][k] # i

Inserted(s, k, i) ==
  [m \in 1 .. Len(s) + 1 |-> IF m < k THEN s[m] ELSE IF m = k THEN i ELSE s[m - 1]]
Removed(s, k) == [m \in 1 .. Len(s) - 1 |-> IF m < k THEN s[m] ELSE s[m + 1]]

-----------------------------------------------------------------------------
(* Nodes. *)

LEMMA NodesIn ==
  ASSUME NEW L, NEW N, NEW H, NEW I, NEW qs, Lists(L, N, H, I, qs), NEW h \in H, NEW k \in Nat
  PROVE  /\ Len(qs[h]) \in Nat /\ Nd(qs[h], h, k) \in N
         /\ k \in 1 .. Len(qs[h]) => Nd(qs[h], h, k) = qs[h][k] /\ Nd(qs[h], h, k) \in I
         /\ k \notin 1 .. Len(qs[h]) => Nd(qs[h], h, k) = h
BY DEF Lists, Nd

\* Two places of the rings are two nodes.
LEMMA NodesDiffer ==
  ASSUME NEW L, NEW N, NEW H, NEW I, NEW qs, Lists(L, N, H, I, qs), NEW h \in H, NEW g \in H,
         NEW j \in 0 .. Len(qs[h]), NEW k \in 0 .. Len(qs[g]),
         Nd(qs[h], h, j) = Nd(qs[g], g, k)
  PROVE  h = g /\ j = k
<1>1. Len(qs[h]) \in Nat /\ Len(qs[g]) \in Nat /\ H \cap I = {}
  BY DEF Lists
<1>2. CASE j = 0 /\ k = 0
  BY <1>1, <1>2 DEF Nd
<1>3. CASE j = 0 /\ k # 0
  <2>1. k \in 1 .. Len(qs[g])
    BY <1>1, <1>3
  <2>2. Nd(qs[h], h, j) \in H /\ Nd(qs[g], g, k) \in I
    BY <1>3, <2>1 DEF Nd, Lists
  <2> QED BY <1>1, <2>2
<1>4. CASE j # 0 /\ k = 0
  <2>1. j \in 1 .. Len(qs[h])
    BY <1>1, <1>4
  <2>2. Nd(qs[h], h, j) \in I /\ Nd(qs[g], g, k) \in H
    BY <1>4, <2>1 DEF Nd, Lists
  <2> QED BY <1>1, <2>2
<1>5. CASE j # 0 /\ k # 0
  <2>1. j \in 1 .. Len(qs[h]) /\ k \in 1 .. Len(qs[g])
    BY <1>1, <1>5
  <2> QED BY <2>1 DEF Nd, Lists, OncePlaced
<1> QED BY <1>2, <1>3, <1>4, <1>5

\* The end of the ring is its beginning: so for the nodes 1 .. Len + 1 as well.
LEMMA NextNodesDiffer ==
  ASSUME NEW L, NEW N, NEW H, NEW I, NEW qs, Lists(L, N, H, I, qs), NEW h \in H, NEW g \in H,
         NEW j \in 1 .. Len(qs[h]) + 1, NEW k \in 1 .. Len(qs[g]) + 1,
         Nd(qs[h], h, j) = Nd(qs[g], g, k)
  PROVE  h = g /\ j = k
<1>1. Len(qs[h]) \in Nat /\ Len(qs[g]) \in Nat
  BY DEF Lists
<1>2. PICK a \in 0 .. Len(qs[h]) : a = IF j = Len(qs[h]) + 1 THEN 0 ELSE j
  BY <1>1
<1>3. PICK b \in 0 .. Len(qs[g]) : b = IF k = Len(qs[g]) + 1 THEN 0 ELSE k
  BY <1>1
<1>4. Nd(qs[h], h, a) = Nd(qs[h], h, j) /\ Nd(qs[g], g, b) = Nd(qs[g], g, k)
  BY <1>1, <1>2, <1>3 DEF Nd
<1>5. h = g /\ a = b
  BY <1>4, NodesDiffer
<1> QED BY <1>1, <1>2, <1>3, <1>5

LEMMA NeighboursAre ==
  ASSUME NEW L, NEW N, NEW H, NEW I, NEW qs, Lists(L, N, H, I, qs), NEW h \in H,
         NEW k \in 0 .. Len(qs[h])
  PROVE  /\ L.next[Nd(qs[h], h, k)] = Nd(qs[h], h, k + 1)
         /\ L.prev[Nd(qs[h], h, k + 1)] = Nd(qs[h], h, k)
BY DEF Lists, Chain

-----------------------------------------------------------------------------
(* enqueue() before the k-th node. *)

HasInserted(t, I, s, h, k, i) ==
  /\ t \in Seq(I) /\ Len(t) = Len(s) + 1
  /\ \A m \in 1 .. Len(s) + 1 : t[m] = IF m < k THEN s[m] ELSE IF m = k THEN i ELSE s[m - 1]
  /\ \A m \in 0 .. Len(s) + 2 :
       Nd(t, h, m) = IF m < k THEN Nd(s, h, m) ELSE IF m = k THEN i ELSE Nd(s, h, m - 1)

LEMMA InsertedIs ==
  ASSUME NEW I, NEW s \in Seq(I), NEW h, NEW i \in I, NEW k \in 1 .. Len(s) + 1
  PROVE  HasInserted(Inserted(s, k, i), I, s, h, k, i)
<1>1. PICK n \in Nat : n = Len(s)
  OBVIOUS
<1>2. \A m \in 1 .. n : s[m] \in I
  BY <1>1
<1>3. PICK t : t = Inserted(s, k, i)
  OBVIOUS
<1>4. /\ DOMAIN t = 1 .. n + 1
      /\ \A m \in 1 .. n + 1 : t[m] = IF m < k THEN s[m] ELSE IF m = k THEN i ELSE s[m - 1]
  BY <1>1, <1>3 DEF Inserted
<1>5. ASSUME NEW m \in 1 .. n + 1
      PROVE  (IF m < k THEN s[m] ELSE IF m = k THEN i ELSE s[m - 1]) \in I
  <2>1. CASE m < k
    <3>1. m \in 1 .. n
      BY <1>1, <2>1
    <3> QED BY <1>2, <2>1, <3>1
  <2>2. CASE m = k
    BY <2>2
  <2>3. CASE m > k
    <3>1. m - 1 \in 1 .. n /\ ~(m < k) /\ m # k
      BY <1>1, <2>3
    <3> QED BY <1>2, <3>1
  <2> QED BY <1>1, <2>1, <2>2, <2>3
<1>6. t \in [1 .. n + 1 -> I]
  BY <1>1, <1>3, <1>5 DEF Inserted
<1>7. t \in Seq(I) /\ Len(t) = n + 1
  BY <1>6
<1>8. ASSUME NEW m \in 0 .. n + 2
      PROVE  Nd(t, h, m) = IF m < k THEN Nd(s, h, m) ELSE IF m = k THEN i ELSE Nd(s, h, m - 1)
  <2>1. CASE m = 0
    BY <1>1, <1>7, <2>1 DEF Nd
  <2>2. CASE m = n + 2
    <3>1. ~(m < k) /\ m # k /\ m - 1 \notin 1 .. n /\ m \notin 1 .. n + 1
      BY <1>1, <2>2
    <3> QED BY <1>1, <1>7, <3>1 DEF Nd
  <2>3. CASE m \in 1 .. n + 1
    <3>1. Nd(t, h, m) = t[m]
      BY <1>7, <2>3 DEF Nd
    <3>2. m < k => m \in 1 .. n
      BY <1>1, <2>3
    <3>3. m > k => m - 1 \in 1 .. n
      BY <1>1, <2>3
    <3> QED BY <1>1, <1>4, <2>3, <3>1, <3>2, <3>3 DEF Nd
  <2> QED BY <2>1, <2>2, <2>3
<1> QED BY <1>1, <1>3, <1>4, <1>7, <1>8 DEF HasInserted

LEMMA InsertLists ==
  ASSUME NEW L, NEW N, NEW H, NEW I, NEW qs, Lists(L, N, H, I, qs), NEW h \in H,
         NEW k \in 1 .. Len(qs[h]) + 1, NEW i \in I, InNone(H, qs, i)
  PROVE  Lists(enqueue(L, Nd(qs[h], h, k), i), N, H, I, [qs EXCEPT ![h] = Inserted(@, k, i)])
<1>0. /\ qs \in [H -> Seq(I)] /\ H \subseteq N /\ I \subseteq N /\ H \cap I = {}
      /\ \A g \in H : qs[g] \in Seq(I) /\ Len(qs[g]) \in Nat
  BY DEF Lists
<1>1. PICK n \in Nat : n = Len(qs[h])
  BY <1>0
<1>2. PICK new : new = [qs EXCEPT ![h] = Inserted(@, k, i)]
  OBVIOUS
<1>3. /\ new[h] \in Seq(I) /\ Len(new[h]) = n + 1
      /\ \A m \in 1 .. n + 1 : new[h][m] = IF m < k THEN qs[h][m] ELSE IF m = k THEN i ELSE qs[h][m - 1]
      /\ \A m \in 0 .. n + 2 : Nd(new[h], h, m) =
           IF m < k THEN Nd(qs[h], h, m) ELSE IF m = k THEN i ELSE Nd(qs[h], h, m - 1)
  <2>1. new[h] = Inserted(qs[h], k, i)
    BY <1>0, <1>2
  <2>2. HasInserted(Inserted(qs[h], k, i), I, qs[h], h, k, i)
    BY <1>0, InsertedIs
  <2> QED BY <1>1, <2>1, <2>2 DEF HasInserted
<1>4. \A g \in H : g # h => new[g] = qs[g]
  BY <1>0, <1>2
<1>5. new \in [H -> Seq(I)]
  BY <1>0, <1>2, <1>3, <1>4
<1>6. PICK q : q = Nd(qs[h], h, k)
  OBVIOUS
<1>7. PICK p : p = Nd(qs[h], h, k - 1)
  OBVIOUS
<1>8. L.prev[q] = p /\ p \in N /\ q \in N
  <2>1. PICK j \in 0 .. Len(qs[h]) : j = k - 1 /\ j + 1 = k /\ j \in Nat /\ k \in Nat
    BY <1>0
  <2>2. L.prev[Nd(qs[h], h, j + 1)] = Nd(qs[h], h, j)
    BY NeighboursAre
  <2>3. Nd(qs[h], h, j) \in N /\ Nd(qs[h], h, k) \in N
    BY <2>1, NodesIn
  <2> QED BY <1>6, <1>7, <2>1, <2>2, <2>3
<1>9. \A g \in H : \A m \in Nat : Nd(qs[g], g, m) # i
  BY <1>0 DEF Nd, InNone
<1>10. PICK M : M = enqueue(L, q, i)
  OBVIOUS
<1>11. /\ DOMAIN M.next = N /\ DOMAIN M.prev = N
       /\ M.prev[i] = p /\ M.prev[q] = i /\ M.next[i] = q /\ M.next[p] = i
       /\ \A x \in N : x # i /\ x # q => M.prev[x] = L.prev[x]
       /\ \A x \in N : x # i /\ x # p => M.next[x] = L.next[x]
  <2>1. DOMAIN L.next = N /\ DOMAIN L.prev = N /\ i \in N
    BY <1>0 DEF Lists
  <2>2. p # i /\ q # i
    BY <1>1, <1>6, <1>7, <1>9
  <2>3. /\ M.prev = [L.prev EXCEPT ![i] = p, ![q] = i]
        /\ M.next = [L.next EXCEPT ![i] = q, ![p] = i]
    BY <1>8, <1>10 DEF enqueue
  <2> QED BY <1>8, <2>1, <2>2, <2>3
<1>12. ASSUME NEW g \in H, g # h PROVE Chain(M, new[g], g)
  <2> SUFFICES ASSUME NEW m \in 0 .. Len(qs[g])
               PROVE  /\ M.next[Nd(qs[g], g, m)] = Nd(qs[g], g, m + 1)
                      /\ M.prev[Nd(qs[g], g, m + 1)] = Nd(qs[g], g, m)
    BY <1>4, <1>12 DEF Chain
  <2>1. m \in Nat /\ m + 1 \in Nat /\ m + 1 \in 1 .. Len(qs[g]) + 1
    BY <1>0
  <2>2. Nd(qs[g], g, m) \in N /\ Nd(qs[g], g, m + 1) \in N
    BY <2>1, NodesIn
  <2>3. Nd(qs[g], g, m) # p
    <3>1. k - 1 \in 0 .. Len(qs[h])
      BY <1>1
    <3> QED BY <3>1, <1>7, <1>12, NodesDiffer
  <2>4. Nd(qs[g], g, m + 1) # q
    BY <2>1, <1>6, <1>12, NextNodesDiffer
  <2>5. Nd(qs[g], g, m) # i /\ Nd(qs[g], g, m + 1) # i
    BY <1>9, <2>1
  <2> QED BY <1>11, <2>2, <2>3, <2>4, <2>5, NeighboursAre
<1>13. Chain(M, new[h], h)
  <2> SUFFICES ASSUME NEW m \in 0 .. n + 1
               PROVE  /\ M.next[Nd(new[h], h, m)] = Nd(new[h], h, m + 1)
                      /\ M.prev[Nd(new[h], h, m + 1)] = Nd(new[h], h, m)
    BY <1>3 DEF Chain
  <2>1. m \in 0 .. n + 2 /\ m + 1 \in 0 .. n + 2 /\ k \in 1 .. n + 1 /\ (m + 1) - 1 = m
    BY <1>1
  <2>2. CASE m + 1 < k
    <3>1. Nd(new[h], h, m) = Nd(qs[h], h, m) /\ Nd(new[h], h, m + 1) = Nd(qs[h], h, m + 1)
      BY <1>3, <2>1, <2>2
    <3>2. m \in 0 .. n /\ m \in Nat /\ m + 1 \in Nat /\ m + 1 \in 1 .. n + 1 /\ k - 1 \in 0 .. n /\ m # k - 1 /\ m + 1 # k
      BY <2>1, <2>2
    <3>3. Nd(qs[h], h, m) \in N /\ Nd(qs[h], h, m + 1) \in N
      BY <3>2, NodesIn
    <3>4. Nd(qs[h], h, m) # p
      BY <1>1, <1>7, <3>2, NodesDiffer
    <3>5. Nd(qs[h], h, m + 1) # q
      BY <1>1, <1>6, <3>2, NextNodesDiffer
    <3>6. Nd(qs[h], h, m) # i /\ Nd(qs[h], h, m + 1) # i
      BY <1>9, <3>2
    <3>7. L.next[Nd(qs[h], h, m)] = Nd(qs[h], h, m + 1) /\ L.prev[Nd(qs[h], h, m + 1)] = Nd(qs[h], h, m)
      BY <1>1, <3>2, NeighboursAre
    <3> QED BY <1>11, <3>1, <3>3, <3>4, <3>5, <3>6, <3>7
  <2>3. CASE m + 1 = k
    <3>1. m < k /\ m = k - 1
      BY <2>1, <2>3
    <3>2. Nd(new[h], h, m) = p
      BY <1>3, <1>7, <2>1, <3>1
    <3>3. Nd(new[h], h, m + 1) = i
      BY <1>3, <2>1, <2>3
    <3> QED BY <1>11, <3>2, <3>3
  <2>4. CASE m = k
    <3>1. ~(m + 1 < k) /\ m + 1 # k /\ ~(m < k)
      BY <2>1, <2>4
    <3>2. Nd(new[h], h, m) = i /\ Nd(new[h], h, m + 1) = q
      BY <1>3, <1>6, <2>1, <2>4, <3>1
    <3> QED BY <1>11, <3>2
  <2>5. CASE m > k
    <3>1. /\ ~(m + 1 < k) /\ m + 1 # k /\ ~(m < k) /\ m # k
          /\ m - 1 \in 0 .. n /\ m - 1 \in Nat /\ m \in Nat /\ m \in 1 .. n + 1 /\ (m - 1) + 1 = m
          /\ k - 1 \in 0 .. n /\ m - 1 # k - 1
      BY <2>1, <2>5
    <3>2. Nd(new[h], h, m) = Nd(qs[h], h, m - 1) /\ Nd(new[h], h, m + 1) = Nd(qs[h], h, m)
      BY <1>3, <2>1, <3>1
    <3>3. Nd(qs[h], h, m - 1) \in N /\ Nd(qs[h], h, m) \in N
      BY <3>1, NodesIn
    <3>4. Nd(qs[h], h, m - 1) # p
      BY <1>1, <1>7, <3>1, NodesDiffer
    <3>5. Nd(qs[h], h, m) # q
      BY <1>1, <1>6, <3>1, NextNodesDiffer
    <3>6. Nd(qs[h], h, m - 1) # i /\ Nd(qs[h], h, m) # i
      BY <1>9, <3>1
    <3>7. L.next[Nd(qs[h], h, m - 1)] = Nd(qs[h], h, m) /\ L.prev[Nd(qs[h], h, m)] = Nd(qs[h], h, m - 1)
      BY <1>1, <3>1, NeighboursAre
    <3> QED BY <1>11, <3>2, <3>3, <3>4, <3>5, <3>6, <3>7
  <2> QED BY <2>1, <2>2, <2>3, <2>4, <2>5
<1>14. OncePlaced(H, new)
  <2>1. ASSUME NEW g \in H, NEW m \in 1 .. Len(new[g])
        PROVE  \/ g = h /\ m = k /\ new[g][m] = i
               \/ \E j \in 1 .. Len(qs[g]) :
                    new[g][m] = qs[g][j] /\ (IF g = h /\ m > k THEN j = m - 1 ELSE j = m) /\ ~(g = h /\ m = k)
    <3>1. CASE g # h
      BY <1>4, <3>1
    <3>2. CASE g = h /\ m = k
      BY <1>3, <3>2
    <3>3. CASE g = h /\ m < k
      <4>1. m \in 1 .. n /\ m \in 1 .. n + 1 /\ m # k /\ ~(m > k)
        BY <1>1, <1>3, <3>3
      <4>2. new[g][m] = qs[h][m]
        BY <1>3, <3>3, <4>1
      <4> QED BY <1>1, <3>3, <4>1, <4>2
    <3>4. CASE g = h /\ m > k
      <4>1. m - 1 \in 1 .. n /\ m \in 1 .. n + 1 /\ m # k /\ ~(m < k)
        BY <1>1, <1>3, <3>4
      <4>2. new[g][m] = qs[h][m - 1]
        BY <1>3, <3>4, <4>1
      <4> QED BY <1>1, <3>4, <4>1, <4>2
    <3>5. m \in Int /\ k \in Int
      BY <1>5, <1>1
    <3> QED BY <3>1, <3>2, <3>3, <3>4, <3>5
  <2>2. \A g \in H : \A j \in 1 .. Len(qs[g]) : qs[g][j] # i
    BY DEF InNone
  <2>3. ASSUME NEW f \in H, NEW g \in H, NEW a \in 1 .. Len(new[f]), NEW b \in 1 .. Len(new[g]),
               new[f][a] = new[g][b]
        PROVE  f = g /\ a = b
    <3>1. CASE new[f][a] = i
      <4>1. f = h /\ a = k
        BY <2>1, <2>2, <3>1
      <4>2. g = h /\ b = k
        <5>1. new[g][b] = i
          BY <2>3, <3>1
        <5> QED BY <2>1, <2>2, <5>1
      <4> QED BY <4>1, <4>2
    <3>2. CASE new[f][a] # i
      <4>1. PICK c \in 1 .. Len(qs[f]) :
               new[f][a] = qs[f][c] /\ (IF f = h /\ a > k THEN c = a - 1 ELSE c = a) /\ ~(f = h /\ a = k)
        BY <2>1, <3>2
      <4>2. PICK d \in 1 .. Len(qs[g]) :
               new[g][b] = qs[g][d] /\ (IF g = h /\ b > k THEN d = b - 1 ELSE d = b) /\ ~(g = h /\ b = k)
        BY <2>1, <2>3, <3>2
      <4>3. f = g /\ c = d
        <5>1. qs[f][c] = qs[g][d] /\ OncePlaced(H, qs)
          BY <2>3, <4>1, <4>2 DEF Lists
        <5> QED BY <5>1 DEF OncePlaced
      <4>4. a \in Int /\ b \in Int /\ k \in Int
        BY <1>5, <1>1
      <4> QED BY <4>1, <4>2, <4>3, <4>4
    <3> QED BY <3>1, <3>2
  <2> QED BY <2>3 DEF OncePlaced
<1>15. \A g \in H : Chain(M, new[g], g)
  BY <1>12, <1>13
<1> QED BY <1>0, <1>2, <1>5, <1>6, <1>10, <1>11, <1>14, <1>15 DEF Lists

-----------------------------------------------------------------------------
(* Taking the k-th item out: dequeue() for k = 1, and do_kill().  It stays   *)
(* as it is, and is in no list.                                              *)

HasRemoved(t, I, s, h, k) ==
  /\ t \in Seq(I) /\ Len(t) = Len(s) - 1
  /\ \A m \in 1 .. Len(s) - 1 : t[m] = IF m < k THEN s[m] ELSE s[m + 1]
  /\ \A m \in 0 .. Len(s) : Nd(t, h, m) = IF m < k THEN Nd(s, h, m) ELSE Nd(s, h, m + 1)

LEMMA RemovedIs ==
  ASSUME NEW I, NEW s \in Seq(I), NEW h, NEW k \in 1 .. Len(s)
  PROVE  HasRemoved(Removed(s, k), I, s, h, k)
<1>1. PICK n \in Nat : n = Len(s)
  OBVIOUS
<1>2. \A m \in 1 .. n : s[m] \in I
  BY <1>1
<1>3. PICK t : t = Removed(s, k)
  OBVIOUS
<1>4. /\ DOMAIN t = 1 .. n - 1
      /\ \A m \in 1 .. n - 1 : t[m] = IF m < k THEN s[m] ELSE s[m + 1]
  BY <1>1, <1>3 DEF Removed
<1>5. ASSUME NEW m \in 1 .. n - 1
      PROVE  (IF m < k THEN s[m] ELSE s[m + 1]) \in I
  <2>1. m \in 1 .. n /\ m + 1 \in 1 .. n
    BY <1>1
  <2> QED BY <1>2, <2>1
<1>6. t \in [1 .. n - 1 -> I]
  BY <1>1, <1>3, <1>5 DEF Removed
<1>7. t \in Seq(I) /\ Len(t) = n - 1
  <2>1. n - 1 \in Nat
    BY <1>1
  <2> QED BY <1>6, <2>1
<1>8. ASSUME NEW m \in 0 .. n
      PROVE  Nd(t, h, m) = IF m < k THEN Nd(s, h, m) ELSE Nd(s, h, m + 1)
  <2>1. CASE m = 0
    BY <1>1, <1>7, <2>1 DEF Nd
  <2>2. CASE m = n
    <3>1. ~(m < k) /\ m + 1 \notin 1 .. n /\ m \notin 1 .. n - 1
      BY <1>1, <2>2
    <3> QED BY <1>1, <1>7, <3>1 DEF Nd
  <2>3. CASE m \in 1 .. n - 1
    <3>1. Nd(t, h, m) = t[m]
      BY <1>7, <2>3 DEF Nd
    <3>2. m \in 1 .. n /\ m + 1 \in 1 .. n
      BY <1>1, <2>3
    <3> QED BY <1>1, <1>4, <2>3, <3>1, <3>2 DEF Nd
  <2> QED BY <2>1, <2>2, <2>3
<1> QED BY <1>1, <1>3, <1>4, <1>7, <1>8 DEF HasRemoved

LEMMA RemoveLists ==
  ASSUME NEW L, NEW N, NEW H, NEW I, NEW qs, Lists(L, N, H, I, qs), NEW h \in H,
         NEW k \in 1 .. Len(qs[h])
  PROVE  /\ Lists(Unlink(L, qs[h][k]), N, H, I, [qs EXCEPT ![h] = Removed(@, k)])
         /\ InNone(H, [qs EXCEPT ![h] = Removed(@, k)], qs[h][k])
<1>0. /\ qs \in [H -> Seq(I)] /\ H \subseteq N /\ I \subseteq N /\ H \cap I = {}
      /\ \A g \in H : qs[g] \in Seq(I) /\ Len(qs[g]) \in Nat
      /\ OncePlaced(H, qs)
  BY DEF Lists
<1>1. PICK n \in Nat : n = Len(qs[h])
  BY <1>0
<1>2. PICK new : new = [qs EXCEPT ![h] = Removed(@, k)]
  OBVIOUS
<1>3. /\ new[h] \in Seq(I) /\ Len(new[h]) = n - 1
      /\ \A m \in 1 .. n - 1 : new[h][m] = IF m < k THEN qs[h][m] ELSE qs[h][m + 1]
      /\ \A m \in 0 .. n :
           Nd(new[h], h, m) = IF m < k THEN Nd(qs[h], h, m) ELSE Nd(qs[h], h, m + 1)
  <2>1. new[h] = Removed(qs[h], k)
    BY <1>0, <1>2
  <2>2. HasRemoved(Removed(qs[h], k), I, qs[h], h, k)
    BY <1>0, RemovedIs
  <2> QED BY <1>1, <2>1, <2>2 DEF HasRemoved
<1>4. \A g \in H : g # h => new[g] = qs[g]
  BY <1>0, <1>2
<1>5. new \in [H -> Seq(I)]
  BY <1>0, <1>2, <1>3, <1>4
<1>6. PICK i \in I : i = qs[h][k] /\ i = Nd(qs[h], h, k)
  BY <1>0 DEF Nd
<1>7. PICK a : a = Nd(qs[h], h, k - 1)
  OBVIOUS
<1>8. PICK b : b = Nd(qs[h], h, k + 1)
  OBVIOUS
<1>9. L.prev[i] = a /\ L.next[i] = b /\ a \in N /\ b \in N
  <2>1. PICK j \in 0 .. Len(qs[h]) : j = k - 1 /\ j + 1 = k /\ j \in Nat /\ k \in Nat /\ k + 1 \in Nat
    BY <1>0
  <2>2. L.prev[Nd(qs[h], h, j + 1)] = Nd(qs[h], h, j)
    BY NeighboursAre
  <2>3. k \in 0 .. Len(qs[h])
    BY <1>0
  <2>4. L.next[Nd(qs[h], h, k)] = Nd(qs[h], h, k + 1)
    BY <2>3, NeighboursAre
  <2>5. Nd(qs[h], h, j) \in N /\ Nd(qs[h], h, k + 1) \in N
    BY <2>1, NodesIn
  <2> QED BY <1>6, <1>7, <1>8, <2>1, <2>2, <2>4, <2>5
<1>10. PICK M : M = Unlink(L, i)
  OBVIOUS
<1>11. /\ DOMAIN M.next = N /\ DOMAIN M.prev = N
       /\ M.prev[b] = a /\ M.next[a] = b
       /\ \A x \in N : x # b => M.prev[x] = L.prev[x]
       /\ \A x \in N : x # a => M.next[x] = L.next[x]
  <2>1. DOMAIN L.next = N /\ DOMAIN L.prev = N
    BY DEF Lists
  <2>2. M.prev = [L.prev EXCEPT ![b] = a] /\ M.next = [L.next EXCEPT ![a] = b]
    BY <1>9, <1>10 DEF Unlink
  <2> QED BY <1>9, <2>1, <2>2
<1>12. ASSUME NEW g \in H, g # h PROVE Chain(M, new[g], g)
  <2> SUFFICES ASSUME NEW m \in 0 .. Len(qs[g])
               PROVE  /\ M.next[Nd(qs[g], g, m)] = Nd(qs[g], g, m + 1)
                      /\ M.prev[Nd(qs[g], g, m + 1)] = Nd(qs[g], g, m)
    BY <1>4, <1>12 DEF Chain
  <2>1. m \in Nat /\ m + 1 \in Nat /\ m + 1 \in 1 .. Len(qs[g]) + 1
    BY <1>0
  <2>2. Nd(qs[g], g, m) \in N /\ Nd(qs[g], g, m + 1) \in N
    BY <2>1, NodesIn
  <2>3. Nd(qs[g], g, m) # a
    <3>1. k - 1 \in 0 .. Len(qs[h])
      BY <1>0
    <3> QED BY <3>1, <1>7, <1>12, NodesDiffer
  <2>4. Nd(qs[g], g, m + 1) # b
    <3>1. k + 1 \in 1 .. Len(qs[h]) + 1
      BY <1>0
    <3> QED BY <2>1, <3>1, <1>8, <1>12, NextNodesDiffer
  <2> QED BY <1>11, <2>2, <2>3, <2>4, NeighboursAre
<1>13. Chain(M, new[h], h)
  <2> SUFFICES ASSUME NEW m \in 0 .. n - 1
               PROVE  /\ M.next[Nd(new[h], h, m)] = Nd(new[h], h, m + 1)
                      /\ M.prev[Nd(new[h], h, m + 1)] = Nd(new[h], h, m)
    BY <1>3 DEF Chain
  <2>1. m \in 0 .. n /\ m + 1 \in 0 .. n /\ k \in 1 .. n
    BY <1>1
  <2>2. CASE m + 1 < k
    <3>1. Nd(new[h], h, m) = Nd(qs[h], h, m) /\ Nd(new[h], h, m + 1) = Nd(qs[h], h, m + 1)
      <4>1. m < k
        BY <2>1, <2>2
      <4> QED BY <1>3, <2>1, <2>2, <4>1
    <3>2. m \in Nat /\ m + 1 \in Nat /\ m + 1 \in 1 .. n + 1 /\ k - 1 \in 0 .. n /\ k + 1 \in 1 .. n + 1
            /\ m # k - 1 /\ m + 1 # k + 1
      BY <2>1, <2>2
    <3>3. Nd(qs[h], h, m) \in N /\ Nd(qs[h], h, m + 1) \in N
      BY <3>2, NodesIn
    <3>4. Nd(qs[h], h, m) # a
      BY <1>1, <1>7, <2>1, <3>2, NodesDiffer
    <3>5. Nd(qs[h], h, m + 1) # b
      BY <1>1, <1>8, <3>2, NextNodesDiffer
    <3>6. L.next[Nd(qs[h], h, m)] = Nd(qs[h], h, m + 1) /\ L.prev[Nd(qs[h], h, m + 1)] = Nd(qs[h], h, m)
      BY <1>1, <2>1, NeighboursAre
    <3> QED BY <1>11, <3>1, <3>3, <3>4, <3>5, <3>6
  <2>3. CASE m + 1 = k
    <3>1. m < k /\ m = k - 1 /\ ~(m + 1 < k)
      BY <2>1, <2>3
    <3>2. Nd(new[h], h, m) = a
      BY <1>3, <1>7, <2>1, <3>1
    <3>3. Nd(new[h], h, m + 1) = b
      BY <1>3, <1>8, <2>1, <2>3, <3>1
    <3> QED BY <1>11, <3>2, <3>3
  <2>4. CASE m + 1 > k
    <3>1. /\ ~(m + 1 < k) /\ ~(m < k) /\ m + 1 \in 0 .. n /\ m + 1 \in Nat /\ m + 2 \in Nat /\ m + 2 \in 1 .. n + 1
          /\ (m + 1) + 1 = m + 2 /\ k - 1 \in 0 .. n /\ k + 1 \in 1 .. n + 1 /\ m + 1 # k - 1 /\ m + 2 # k + 1
      BY <2>1, <2>4
    <3>2. Nd(new[h], h, m) = Nd(qs[h], h, m + 1) /\ Nd(new[h], h, m + 1) = Nd(qs[h], h, m + 2)
      BY <1>3, <2>1, <3>1
    <3>3. Nd(qs[h], h, m + 1) \in N /\ Nd(qs[h], h, m + 2) \in N
      BY <3>1, NodesIn
    <3>4. Nd(qs[h], h, m + 1) # a
      BY <1>1, <1>7, <3>1, NodesDiffer
    <3>5. Nd(qs[h], h, m + 2) # b
      BY <1>1, <1>8, <3>1, NextNodesDiffer
    <3>6. L.next[Nd(qs[h], h, m + 1)] = Nd(qs[h], h, m + 2) /\ L.prev[Nd(qs[h], h, m + 2)] = Nd(qs[h], h, m + 1)
      BY <1>1, <3>1, NeighboursAre
    <3> QED BY <1>11, <3>2, <3>3, <3>4, <3>5, <3>6
  <2> QED BY <2>1, <2>2, <2>3, <2>4
<1>14. ASSUME NEW g \in H, NEW m \in 1 .. Len(new[g])
       PROVE  \E j \in 1 .. Len(qs[g]) :
                new[g][m] = qs[g][j] /\ j = (IF g = h /\ m >= k THEN m + 1 ELSE m)
  <2>1. CASE g # h
    BY <1>4, <2>1
  <2>2. CASE g = h
    <3>1. m \in 1 .. n - 1 /\ m \in 1 .. n /\ m + 1 \in 1 .. n /\ k \in Int
      BY <1>1, <1>3, <2>2
    <3>2. new[h][m] = IF m < k THEN qs[h][m] ELSE qs[h][m + 1]
      BY <1>3, <3>1
    <3>3. CASE m < k
      <4>1. new[h][m] = qs[h][m] /\ ~(m >= k)
        BY <3>1, <3>2, <3>3
      <4> QED BY <1>1, <2>2, <3>1, <4>1
    <3>4. CASE m >= k
      <4>1. new[h][m] = qs[h][m + 1]
        BY <3>1, <3>2, <3>4
      <4> QED BY <1>1, <2>2, <3>1, <3>4, <4>1
    <3> QED BY <3>1, <3>3, <3>4
  <2> QED BY <2>1, <2>2
<1>15. OncePlaced(H, new)
  <2>1. ASSUME NEW f \in H, NEW g \in H, NEW c \in 1 .. Len(new[f]), NEW d \in 1 .. Len(new[g]),
               new[f][c] = new[g][d]
        PROVE  f = g /\ c = d
    <3>1. PICK j \in 1 .. Len(qs[f]) :
             new[f][c] = qs[f][j] /\ j = (IF f = h /\ c >= k THEN c + 1 ELSE c)
      BY <1>14
    <3>2. PICK l \in 1 .. Len(qs[g]) :
             new[g][d] = qs[g][l] /\ l = (IF g = h /\ d >= k THEN d + 1 ELSE d)
      BY <1>14
    <3>3. f = g /\ j = l
      <4>1. qs[f][j] = qs[g][l]
        BY <2>1, <3>1, <3>2
      <4> QED BY <1>0, <4>1 DEF OncePlaced
    <3>4. c \in Int /\ d \in Int /\ k \in Int
      BY <1>1, <1>5
    <3> QED BY <3>1, <3>2, <3>3, <3>4
  <2> QED BY <2>1 DEF OncePlaced
<1>16. InNone(H, new, i)
  <2>1. ASSUME NEW g \in H, NEW m \in 1 .. Len(new[g]), new[g][m] = i PROVE FALSE
    <3>1. PICK j \in 1 .. Len(qs[g]) :
             new[g][m] = qs[g][j] /\ j = (IF g = h /\ m >= k THEN m + 1 ELSE m)
      BY <1>14
    <3>2. g = h /\ j = k
      <4>1. qs[g][j] = qs[h][k]
        BY <1>6, <2>1, <3>1
      <4> QED BY <1>0, <4>1 DEF OncePlaced
    <3>3. m \in Int /\ k \in Int
      BY <1>1, <1>5
    <3> QED BY <3>1, <3>2, <3>3
  <2> QED BY <2>1 DEF InNone
<1>17. \A g \in H : Chain(M, new[g], g)
  BY <1>12, <1>13
<1>18. Lists(M, N, H, I, new)
  BY <1>0, <1>5, <1>11, <1>15, <1>17 DEF Lists
<1> QED BY <1>2, <1>6, <1>10, <1>16, <1>18

-----------------------------------------------------------------------------
(* What a head shows of its list. *)

LEMMA PeekIs ==
  ASSUME NEW L, NEW N, NEW H, NEW I, NEW qs, Lists(L, N, H, I, qs), NEW h \in H
  PROVE  /\ is_empty(L, h) <=> qs[h] = <<>>
         /\ qs[h] # <<>> => 1 \in 1 .. Len(qs[h]) /\ peek(L, h) = qs[h][1] /\ peek(L, h) \in I
<1>1. qs[h] \in Seq(I) /\ Len(qs[h]) \in Nat /\ h \notin I
  BY DEF Lists
<1>2. 0 \in 0 .. Len(qs[h]) /\ 0 + 1 = 1
  BY <1>1
<1>3. L.next[Nd(qs[h], h, 0)] = Nd(qs[h], h, 0 + 1)
  BY <1>2, NeighboursAre
<1>4. Nd(qs[h], h, 0) = h
  BY DEF Nd
<1>5. CASE qs[h] = <<>>
  <2>1. Nd(qs[h], h, 1) = h
    BY <1>5 DEF Nd
  <2> QED BY <1>2, <1>3, <1>4, <1>5, <2>1 DEF is_empty
<1>6. CASE qs[h] # <<>>
  <2>1. 1 \in 1 .. Len(qs[h])
    BY <1>1, <1>6
  <2>2. Nd(qs[h], h, 1) = qs[h][1] /\ qs[h][1] \in I
    BY <1>1, <2>1 DEF Nd
  <2> QED BY <1>1, <1>2, <1>3, <1>4, <1>6, <2>1, <2>2 DEF is_empty, peek
<1> QED BY <1>5, <1>6

-----------------------------------------------------------------------------
(* The definitions of Links that walk along a list find its sequence.        *)

\* A walk of k steps, whose definition is recursive, goes where the nodes say.
LEMMA WalkIs ==
  ASSUME NEW L, NEW c, NEW k \in Nat, \A m \in 0 .. k - 1 : L.next[c[m]] = c[m + 1]
  PROVE  At(L, c[0], k) = c[k]
<1> DEFINE body(f) == [m \in 0 .. k |-> IF m = 0 THEN c[0] ELSE L.next[f[m - 1]]]
           g == [m \in 0 .. k |-> c[m]]
           w == CHOOSE f : f = body(f)
<1>1. At(L, c[0], k) = w[k]
  BY DEF At
<1>2. g = body(g)
  OBVIOUS
<1>3. w = body(w)
  BY <1>2
<1> HIDE DEF w
<1>4. \A m \in 0 .. k : w[m] = c[m]
  <2> DEFINE bad == {m \in 0 .. k : w[m] # c[m]}
  <2> SUFFICES ASSUME bad # {} PROVE FALSE
    OBVIOUS
  <2>1. PICK m \in bad : \A j \in bad : m <= j
    <3>1. bad \in SUBSET Nat
      OBVIOUS
    <3> HIDE DEF bad
    <3> QED BY <3>1, LeastNat
  <2>2. w[m] = IF m = 0 THEN c[0] ELSE L.next[w[m - 1]]
    BY <1>3
  <2>3. CASE m = 0
    BY <2>1, <2>2, <2>3
  <2>4. CASE m # 0
    <3>1. m - 1 \in 0 .. k /\ m - 1 \notin bad
      BY <2>1, <2>4
    <3>2. w[m - 1] = c[m - 1] /\ L.next[c[m - 1]] = c[m]
      <4>1. m - 1 \in 0 .. k - 1 /\ (m - 1) + 1 = m
        BY <2>4
      <4> QED BY <3>1, <4>1
    <3> QED BY <2>1, <2>2, <2>4, <3>2
  <2> QED BY <2>3, <2>4
<1> QED BY <1>1, <1>4

LEMMA AtIs ==
  ASSUME NEW L, NEW N, NEW H, NEW I, NEW qs, Lists(L, N, H, I, qs), NEW h \in H,
         NEW k \in 0 .. Len(qs[h]) + 1
  PROVE  At(L, h, k) = Nd(qs[h], h, k)
<1>1. PICK n \in Nat : n = Len(qs[h])
  BY DEF Lists
<1>2. PICK c : c = [m \in 0 .. n + 1 |-> Nd(qs[h], h, m)]
  OBVIOUS
<1>3. c[0] = h /\ c[k] = Nd(qs[h], h, k) /\ k \in Nat
  BY <1>1, <1>2 DEF Nd
<1>4. ASSUME NEW m \in 0 .. k - 1 PROVE L.next[c[m]] = c[m + 1]
  <2>1. m \in 0 .. n /\ m \in 0 .. n + 1 /\ m + 1 \in 0 .. n + 1
    BY <1>1
  <2> QED BY <1>1, <1>2, <2>1, NeighboursAre
<1> QED BY <1>3, <1>4, WalkIs

\* A list and its head are no more than there are nodes.
LEMMA LengthBound ==
  ASSUME NEW L, NEW N, NEW H, NEW I, NEW qs, Lists(L, N, H, I, qs), IsFiniteSet(N), NEW h \in H
  PROVE  Len(qs[h]) \in 0 .. MaxLength(L) /\ Len(qs[h]) + 1 \in 1 .. MaxLength(L)
<1>1. PICK n \in Nat : n = Len(qs[h])
  BY DEF Lists
<1>2. Cardinality(N) \in Nat /\ MaxLength(L) = Cardinality(N)
  BY FS_CardinalityType DEF Lists, MaxLength
<1>3. IsFiniteSet(0 .. n) /\ Cardinality(0 .. n) = n + 1
  <2>1. 0 \in Int /\ n \in Int
    OBVIOUS
  <2>2. IsFiniteSet(0 .. n)
    BY <2>1, FS_Interval
  <2>3. Cardinality(0 .. n) = IF 0 > n THEN 0 ELSE n - 0 + 1
    BY <2>1, FS_Interval
  <2> QED BY <2>2, <2>3
<1>4. SUFFICES ASSUME Cardinality(N) < n + 1 PROVE FALSE
  BY <1>1, <1>2
<1>5. PICK f \in [0 .. n -> N] : \A m \in 0 .. n : f[m] = Nd(qs[h], h, m)
  <2>1. \A m \in 0 .. n : Nd(qs[h], h, m) \in N
    BY NodesIn
  <2>2. [m \in 0 .. n |-> Nd(qs[h], h, m)] \in [0 .. n -> N]
    BY <2>1
  <2> QED BY <2>2
<1>6. \E x, y \in 0 .. n : x # y /\ f[x] = f[y]
  BY <1>3, <1>4, FS_PigeonHole
<1> QED BY <1>1, <1>5, <1>6, NodesDiffer

LEMMA RingIs ==
  ASSUME NEW L, NEW N, NEW H, NEW I, NEW qs, Lists(L, N, H, I, qs), IsFiniteSet(N), NEW h \in H
  PROVE  IsRing(L, h)
<1>1. PICK n \in 0 .. MaxLength(L) : n = Len(qs[h]) /\ n \in Nat
  BY LengthBound DEF Lists
<1>2. At(L, h, n + 1) = h
  <2>1. n + 1 \in 0 .. Len(qs[h]) + 1 /\ n + 1 \notin 1 .. n
    BY <1>1
  <2>2. Nd(qs[h], h, n + 1) = h
    BY <1>1, <2>1 DEF Nd
  <2> QED BY <1>1, <2>1, <2>2, AtIs
<1>3. ASSUME NEW m \in 0 .. n PROVE L.prev[At(L, h, m + 1)] = At(L, h, m)
  <2>1. m \in 0 .. Len(qs[h]) + 1 /\ m + 1 \in 0 .. Len(qs[h]) + 1
    BY <1>1
  <2>2. At(L, h, m) = Nd(qs[h], h, m)
    BY <2>1, AtIs
  <2>3. At(L, h, m + 1) = Nd(qs[h], h, m + 1)
    BY <2>1, AtIs
  <2> QED BY <1>1, <2>2, <2>3, NeighboursAre
<1> QED BY <1>2, <1>3 DEF IsRing

LEMMA LengthIs ==
  ASSUME NEW L, NEW N, NEW H, NEW I, NEW qs, Lists(L, N, H, I, qs), IsFiniteSet(N), NEW h \in H
  PROVE  RingLength(L, h) = Len(qs[h])
<1>1. PICK n \in 0 .. MaxLength(L) : n = Len(qs[h]) /\ n \in Nat
  BY LengthBound DEF Lists
<1> DEFINE P(l) == At(L, h, l + 1) = h /\ \A m \in 1 .. l : At(L, h, m) # h
<1>2. At(L, h, n + 1) = h
  <2>1. n + 1 \in 0 .. Len(qs[h]) + 1 /\ n + 1 \notin 1 .. n
    BY <1>1
  <2>2. Nd(qs[h], h, n + 1) = h
    BY <1>1, <2>1 DEF Nd
  <2> QED BY <1>1, <2>1, <2>2, AtIs
<1>3. ASSUME NEW m \in 1 .. n PROVE At(L, h, m) # h
  <2>1. m \in 0 .. Len(qs[h]) + 1
    BY <1>1
  <2>2. Nd(qs[h], h, m) \in I /\ h \notin I
    BY <1>1 DEF Nd, Lists
  <2> QED BY <2>1, <2>2, AtIs
<1>4. P(n)
  BY <1>2, <1>3
<1>5. ASSUME NEW l \in 0 .. MaxLength(L), P(l) PROVE l = n
  <2>1. l \in Nat /\ n \in Nat
    BY DEF MaxLength
  <2>2. CASE l < n
    <3>1. l + 1 \in 1 .. n
      BY <2>1, <2>2
    <3> QED BY <1>3, <1>5, <3>1
  <2>3. CASE l > n
    <3>1. n + 1 \in 1 .. l
      BY <2>1, <2>3
    <3> QED BY <1>2, <1>5, <3>1
  <2> QED BY <2>1, <2>2, <2>3
<1>6. RingLength(L, h) = CHOOSE l \in 0 .. MaxLength(L) : P(l)
  BY DEF RingLength
<1> HIDE DEF P
<1>7. (CHOOSE l \in 0 .. MaxLength(L) : P(l)) = n
  BY <1>4, <1>5
<1> QED BY <1>1, <1>6, <1>7

LEMMA ItemsAre ==
  ASSUME NEW L, NEW N, NEW H, NEW I, NEW qs, Lists(L, N, H, I, qs), IsFiniteSet(N), NEW h \in H
  PROVE  /\ Items(L, h) = qs[h]
         /\ \A i : Linked(L, h, i) <=> \E k \in 1 .. Len(qs[h]) : qs[h][k] = i
<1>1. PICK n \in Nat : n = Len(qs[h]) /\ qs[h] \in Seq(I)
  BY DEF Lists
<1>2. RingLength(L, h) = n
  BY <1>1, LengthIs
<1>3. ASSUME NEW k \in 1 .. n PROVE At(L, h, k) = qs[h][k]
  <2>1. k \in 0 .. Len(qs[h]) + 1
    BY <1>1
  <2>2. Nd(qs[h], h, k) = qs[h][k]
    BY <1>1 DEF Nd
  <2> QED BY <2>1, <2>2, AtIs
<1>4. Items(L, h) = [k \in 1 .. n |-> qs[h][k]]
  BY <1>2, <1>3 DEF Items
<1>5. qs[h] = [k \in 1 .. n |-> qs[h][k]]
  BY <1>1
<1>6. \A i : Linked(L, h, i) <=> \E k \in 1 .. n : qs[h][k] = i
  BY <1>2, <1>3 DEF Linked
<1> QED BY <1>1, <1>4, <1>5, <1>6

-----------------------------------------------------------------------------
(* The search of enqueue_sort(). *)

\* It ends at the first item of S, or at the head after a full turn.
LEMMA SortedPlaceIs ==
  ASSUME NEW L, NEW N, NEW H, NEW I, NEW qs, Lists(L, N, H, I, qs), IsFiniteSet(N), NEW h \in H,
         NEW S
  PROVE  \E k \in 1 .. Len(qs[h]) + 1 :
           /\ SortedPlace(L, h, S) = Nd(qs[h], h, k)
           /\ \A m \in 1 .. k - 1 : qs[h][m] \notin S
           /\ k <= Len(qs[h]) => qs[h][k] \in S
<1>0. MaxLength(L) \in Nat
  BY FS_CardinalityType DEF Lists, MaxLength
<1>1. PICK n \in Nat : n = Len(qs[h]) /\ qs[h] \in Seq(I) /\ n + 1 \in 1 .. MaxLength(L)
  BY LengthBound DEF Lists
<1>2. \A k \in 1 .. n : At(L, h, k) = qs[h][k] /\ qs[h][k] \in I /\ qs[h][k] # h
  <2> SUFFICES ASSUME NEW k \in 1 .. n
               PROVE  At(L, h, k) = qs[h][k] /\ qs[h][k] \in I /\ qs[h][k] # h
    OBVIOUS
  <2>1. k \in 0 .. Len(qs[h]) + 1
    BY <1>1
  <2>2. Nd(qs[h], h, k) = qs[h][k] /\ qs[h][k] \in I /\ h \notin I
    BY <1>1 DEF Nd, Lists
  <2> QED BY <2>1, <2>2, AtIs
<1>3. At(L, h, n + 1) = h
  <2>1. n + 1 \in 0 .. Len(qs[h]) + 1 /\ n + 1 \notin 1 .. n
    BY <1>1
  <2>2. Nd(qs[h], h, n + 1) = h
    BY <1>1, <2>1 DEF Nd
  <2> QED BY <2>1, <2>2, AtIs
<1> DEFINE P(k) == /\ At(L, h, k) \in S \cup {h}
                   /\ \A m \in 1 .. k - 1 : At(L, h, m) \notin S \cup {h}
           Ends == {k \in 1 .. n + 1 : At(L, h, k) \in S \cup {h}}
<1>4. PICK k \in Ends : \A m \in Ends : k <= m
  <2>1. n + 1 \in Ends /\ Ends \subseteq Nat
    BY <1>3
  <2> HIDE DEF Ends
  <2> QED BY <2>1, LeastNat
<1>5. k \in 1 .. n + 1 /\ k \in 1 .. MaxLength(L) /\ P(k)
  <2>1. k \in 1 .. n + 1 /\ At(L, h, k) \in S \cup {h}
    BY <1>4
  <2>2. k \in 1 .. MaxLength(L)
    BY <2>1, <1>0, <1>1
  <2>3. ASSUME NEW m \in 1 .. k - 1 PROVE At(L, h, m) \notin S \cup {h}
    <3>1. m \in 1 .. n + 1 /\ ~(k <= m)
      BY <2>1
    <3> QED BY <3>1, <1>4
  <2> QED BY <2>1, <2>2, <2>3
<1>6. ASSUME NEW l \in 1 .. MaxLength(L), P(l) PROVE l = k
  <2>1. l \in Nat /\ k \in Nat /\ l >= 1 /\ k >= 1
    BY <1>0, <1>5
  <2>2. CASE l < k
    <3>1. l \in 1 .. k - 1
      BY <2>1, <2>2
    <3> QED BY <3>1, <1>5, <1>6
  <2>3. CASE l > k
    <3>1. k \in 1 .. l - 1
      BY <2>1, <2>3
    <3> QED BY <3>1, <1>5, <1>6
  <2> QED BY <2>1, <2>2, <2>3
<1>7. SortedPlace(L, h, S) = At(L, h, CHOOSE l \in 1 .. MaxLength(L) : P(l))
  BY DEF SortedPlace
<1>8. \A m \in 1 .. k - 1 : qs[h][m] \notin S
  <2> SUFFICES ASSUME NEW m \in 1 .. k - 1 PROVE qs[h][m] \notin S
    OBVIOUS
  <2>1. m \in 1 .. n
    BY <1>5
  <2> QED BY <2>1, <1>2, <1>5
<1>9. k <= n => qs[h][k] \in S
  <2> SUFFICES ASSUME k <= n PROVE qs[h][k] \in S
    OBVIOUS
  <2>1. k \in 1 .. n
    BY <1>5
  <2> QED BY <2>1, <1>2, <1>5
<1>10. At(L, h, k) = Nd(qs[h], h, k)
  <2>1. k \in 0 .. Len(qs[h]) + 1
    BY <1>1, <1>5
  <2> QED BY <2>1, AtIs
<1> HIDE DEF P
<1>11. (CHOOSE l \in 1 .. MaxLength(L) : P(l)) = k
  BY <1>5, <1>6
<1> QED BY <1>1, <1>5, <1>7, <1>8, <1>9, <1>10, <1>11

-----------------------------------------------------------------------------
(* The lists as sets, for where the order does not matter: W[h] are the items   *)
(* of the list of h.                                                            *)

AreIn(W, H, I, qs) ==
  \A h \in H : \A i \in I : i \in W[h] <=> \E k \in 1 .. Len(qs[h]) : qs[h][k] = i

Behind(L, N, H, I, W) ==
  /\ W \in [H -> SUBSET I]
  /\ \E qs : Lists(L, N, H, I, qs) /\ AreIn(W, H, I, qs)

LEMMA BehindOnce ==
  ASSUME NEW L, NEW N, NEW H, NEW I, NEW W, Behind(L, N, H, I, W), NEW h \in H, NEW g \in H,
         NEW i, i \in W[h], i \in W[g]
  PROVE  h = g /\ i \in I /\ i \notin H
<1>1. PICK qs : Lists(L, N, H, I, qs) /\ AreIn(W, H, I, qs)
  BY DEF Behind
<1>2. i \in I
  BY DEF Behind
<1>3. PICK j \in 1 .. Len(qs[h]) : qs[h][j] = i
  BY <1>1, <1>2 DEF AreIn
<1>4. PICK k \in 1 .. Len(qs[g]) : qs[g][k] = i
  BY <1>1, <1>2 DEF AreIn
<1> QED
  BY <1>1, <1>2, <1>3, <1>4 DEF Lists, OncePlaced

LEMMA BehindPeek ==
  ASSUME NEW L, NEW N, NEW H, NEW I, NEW W, Behind(L, N, H, I, W), NEW h \in H
  PROVE  /\ is_empty(L, h) <=> W[h] = {}
         /\ W[h] # {} => peek(L, h) \in W[h] /\ peek(L, h) \in I
<1>1. PICK qs : Lists(L, N, H, I, qs) /\ AreIn(W, H, I, qs)
  BY DEF Behind
<1>2. qs[h] \in Seq(I) /\ W[h] \in SUBSET I
  BY <1>1 DEF Lists, Behind
<1>3. W[h] = {} <=> qs[h] = <<>>
  BY <1>1, <1>2 DEF AreIn
<1>4. /\ is_empty(L, h) <=> qs[h] = <<>>
      /\ qs[h] # <<>> => 1 \in 1 .. Len(qs[h]) /\ peek(L, h) = qs[h][1] /\ peek(L, h) \in I
  BY <1>1, PeekIs
<1> QED
  BY <1>1, <1>3, <1>4 DEF AreIn

\* enqueue() behind a head.
LEMMA BehindEnqueue ==
  ASSUME NEW L, NEW N, NEW H, NEW I, NEW W, Behind(L, N, H, I, W), NEW h \in H, NEW i \in I,
         \A g \in H : i \notin W[g]
  PROVE  Behind(enqueue(L, h, i), N, H, I, [W EXCEPT ![h] = @ \cup {i}])
<1>1. PICK qs : Lists(L, N, H, I, qs) /\ AreIn(W, H, I, qs)
  BY DEF Behind
<1>2. qs[h] \in Seq(I) /\ qs \in [H -> Seq(I)] /\ W \in [H -> SUBSET I]
  BY <1>1 DEF Lists, Behind
<1>3. PICK n \in Nat : n = Len(qs[h])
  BY <1>2
<1>4. InNone(H, qs, i)
  BY <1>1 DEF InNone, AreIn
<1>5. n + 1 \in 1 .. Len(qs[h]) + 1 /\ Nd(qs[h], h, n + 1) = h
  BY <1>3 DEF Nd
<1>6. PICK t : t = Inserted(qs[h], n + 1, i)
  OBVIOUS
<1>7. PICK ts : ts = [qs EXCEPT ![h] = t]
  OBVIOUS
<1>8. Lists(enqueue(L, h, i), N, H, I, ts)
  <2>1. Lists(enqueue(L, Nd(qs[h], h, n + 1), i), N, H, I,
              [qs EXCEPT ![h] = Inserted(@, n + 1, i)])
    BY <1>1, <1>4, <1>5, InsertLists
  <2>2. [qs EXCEPT ![h] = Inserted(@, n + 1, i)] = ts
    BY <1>2, <1>6, <1>7
  <2> QED
    BY <2>1, <2>2, <1>5
<1>9. HasInserted(t, I, qs[h], h, n + 1, i)
  BY <1>2, <1>3, <1>5, <1>6, InsertedIs
<1>10. /\ Len(t) = n + 1 /\ t[n + 1] = i
       /\ \A m \in 1 .. n : t[m] = qs[h][m]
  BY <1>3, <1>9 DEF HasInserted
<1>11. AreIn([W EXCEPT ![h] = @ \cup {i}], H, I, ts)
  <2> SUFFICES ASSUME NEW g \in H, NEW j \in I
               PROVE  j \in [W EXCEPT ![h] = @ \cup {i}][g]
                        <=> \E k \in 1 .. Len(ts[g]) : ts[g][k] = j
    BY DEF AreIn
  <2>1. j \in W[g] <=> \E k \in 1 .. Len(qs[g]) : qs[g][k] = j
    BY <1>1 DEF AreIn
  <2>2. CASE g # h
    BY <2>1, <2>2, <1>2, <1>7
  <2>3. CASE g = h
    <3>1. ts[g] = t /\ [W EXCEPT ![h] = @ \cup {i}][g] = W[h] \cup {i}
      BY <2>3, <1>2, <1>7
    <3>2. (\E k \in 1 .. n + 1 : t[k] = j) <=> (\E k \in 1 .. n : qs[h][k] = j) \/ j = i
      BY <1>10
    <3> QED
      BY <3>1, <3>2, <2>1, <2>3, <1>3, <1>10
  <2> QED
    BY <2>2, <2>3
<1> QED
  BY <1>2, <1>8, <1>11 DEF Behind

\* An item is taken out from wherever it is.
LEMMA BehindUnlink ==
  ASSUME NEW L, NEW N, NEW H, NEW I, NEW W, Behind(L, N, H, I, W), NEW h \in H, NEW i \in W[h]
  PROVE  Behind(Unlink(L, i), N, H, I, [W EXCEPT ![h] = @ \ {i}])
<1>1. PICK qs : Lists(L, N, H, I, qs) /\ AreIn(W, H, I, qs)
  BY DEF Behind
<1>2. /\ qs[h] \in Seq(I) /\ qs \in [H -> Seq(I)] /\ W \in [H -> SUBSET I] /\ i \in I
      /\ \A j \in 1 .. Len(qs[h]), k \in 1 .. Len(qs[h]) : qs[h][j] = qs[h][k] => j = k
  BY <1>1 DEF Lists, OncePlaced, Behind
<1>3. PICK n \in Nat : n = Len(qs[h])
  BY <1>2
<1>4. PICK k \in 1 .. n : qs[h][k] = i
  BY <1>1, <1>2, <1>3 DEF AreIn
<1>5. PICK t : t = Removed(qs[h], k)
  OBVIOUS
<1>6. PICK ts : ts = [qs EXCEPT ![h] = t]
  OBVIOUS
<1>7. Lists(Unlink(L, i), N, H, I, ts)
  <2>1. Lists(Unlink(L, qs[h][k]), N, H, I, [qs EXCEPT ![h] = Removed(@, k)])
    BY <1>1, <1>3, RemoveLists
  <2>2. [qs EXCEPT ![h] = Removed(@, k)] = ts
    BY <1>2, <1>5, <1>6
  <2> QED
    BY <2>1, <2>2, <1>4
<1>8. HasRemoved(t, I, qs[h], h, k)
  BY <1>2, <1>3, <1>5, RemovedIs
<1>9. /\ Len(t) = n - 1
      /\ \A m \in 1 .. n - 1 : t[m] = IF m < k THEN qs[h][m] ELSE qs[h][m + 1]
  BY <1>3, <1>8 DEF HasRemoved
<1>10. ASSUME NEW j \in I
       PROVE  (\E m \in 1 .. n - 1 : t[m] = j) <=> (\E m \in 1 .. n : qs[h][m] = j) /\ j # i
  <2>1. ASSUME NEW m \in 1 .. n - 1, t[m] = j
        PROVE  (\E l \in 1 .. n : qs[h][l] = j) /\ j # i
    <3>1. CASE m < k
      <4>1. m \in 1 .. n /\ m # k /\ qs[h][m] = j
        BY <3>1, <2>1, <1>9
      <4> QED
        BY <4>1, <1>2, <1>3, <1>4
    <3>2. CASE ~(m < k)
      <4>1. m + 1 \in 1 .. n /\ m + 1 # k /\ qs[h][m + 1] = j
        BY <3>2, <2>1, <1>9
      <4> QED
        BY <4>1, <1>2, <1>3, <1>4
    <3> QED
      BY <3>1, <3>2
  <2>2. ASSUME NEW l \in 1 .. n, qs[h][l] = j, j # i
        PROVE  \E m \in 1 .. n - 1 : t[m] = j
    <3>1. l # k
      BY <2>2, <1>4
    <3>2. CASE l < k
      <4>1. l \in 1 .. n - 1 /\ t[l] = j
        BY <3>2, <2>2, <1>9
      <4> QED
        BY <4>1
    <3>3. CASE l > k
      <4>1. l - 1 \in 1 .. n - 1 /\ ~(l - 1 < k) /\ (l - 1) + 1 = l
        BY <3>3
      <4>2. t[l - 1] = j
        BY <4>1, <2>2, <1>9
      <4> QED
        BY <4>1, <4>2
    <3> QED
      BY <3>1, <3>2, <3>3
  <2> QED
    BY <2>1, <2>2
<1>11. AreIn([W EXCEPT ![h] = @ \ {i}], H, I, ts)
  <2> SUFFICES ASSUME NEW g \in H, NEW j \in I
               PROVE  j \in [W EXCEPT ![h] = @ \ {i}][g]
                        <=> \E m \in 1 .. Len(ts[g]) : ts[g][m] = j
    BY DEF AreIn
  <2>1. j \in W[g] <=> \E m \in 1 .. Len(qs[g]) : qs[g][m] = j
    BY <1>1 DEF AreIn
  <2>2. CASE g # h
    BY <2>1, <2>2, <1>2, <1>6
  <2>3. CASE g = h
    <3>1. ts[g] = t /\ [W EXCEPT ![h] = @ \ {i}][g] = W[h] \ {i}
      BY <2>3, <1>2, <1>6
    <3> QED
      BY <3>1, <2>1, <2>3, <1>3, <1>9, <1>10
  <2> QED
    BY <2>2, <2>3
<1> QED
  BY <1>2, <1>7, <1>11 DEF Behind

\* The first item goes from one list to another.
LEMMA BehindMove ==
  ASSUME NEW L, NEW N, NEW H, NEW I, NEW W, Behind(L, N, H, I, W),
         NEW from \in H, NEW to \in H, from # to, W[from] # {}
  PROVE  /\ peek(L, from) \in W[from]
         /\ Behind(MoveFirst(L, from, to), N, H, I,
                   [W EXCEPT ![from] = @ \ {peek(L, from)}, ![to] = @ \cup {peek(L, from)}])
<1>1. PICK i : i = peek(L, from)
  OBVIOUS
<1>2. i \in W[from] /\ i \in I
  BY <1>1, BehindPeek
<1>3. Behind(dequeue(L, from), N, H, I, [W EXCEPT ![from] = @ \ {i}])
  BY <1>1, <1>2, BehindUnlink DEF dequeue
<1>4. W \in [H -> SUBSET I]
  BY DEF Behind
<1>5. \A g \in H : i \notin [W EXCEPT ![from] = @ \ {i}][g]
  BY <1>2, <1>4, BehindOnce
<1>6. Behind(enqueue(dequeue(L, from), to, i), N, H, I,
             [[W EXCEPT ![from] = @ \ {i}] EXCEPT ![to] = @ \cup {i}])
  BY <1>2, <1>3, <1>5, BehindEnqueue
<1>7. [[W EXCEPT ![from] = @ \ {i}] EXCEPT ![to] = @ \cup {i}] =
        [W EXCEPT ![from] = @ \ {i}, ![to] = @ \cup {i}]
  BY <1>4
<1> QED
  BY <1>1, <1>2, <1>6, <1>7 DEF MoveFirst

LEMMA BehindRing ==
  ASSUME NEW L, NEW N, NEW H, NEW I, NEW W, Behind(L, N, H, I, W), IsFiniteSet(N), NEW h \in H
  PROVE  IsRing(L, h) /\ \A i \in I : Linked(L, h, i) <=> i \in W[h]
<1>1. PICK qs : Lists(L, N, H, I, qs) /\ AreIn(W, H, I, qs)
  BY DEF Behind
<1> QED
  BY <1>1, RingIs, ItemsAre DEF AreIn

\* The fields say it all.
SameFields(L, M, N) ==
  /\ DOMAIN M.next = N /\ DOMAIN M.prev = N
  /\ \A n \in N : M.next[n] = L.next[n] /\ M.prev[n] = L.prev[n]

LEMMA BehindSame ==
  ASSUME NEW L, NEW N, NEW H, NEW I, NEW W, Behind(L, N, H, I, W), NEW M, SameFields(L, M, N)
  PROVE  Behind(M, N, H, I, W)
<1>1. PICK qs : Lists(L, N, H, I, qs) /\ AreIn(W, H, I, qs)
  BY DEF Behind
<1>2. ASSUME NEW h \in H
      PROVE  Chain(M, qs[h], h)
  <2> SUFFICES ASSUME NEW k \in 0 .. Len(qs[h])
               PROVE  /\ M.next[Nd(qs[h], h, k)] = Nd(qs[h], h, k + 1)
                      /\ M.prev[Nd(qs[h], h, k + 1)] = Nd(qs[h], h, k)
    BY DEF Chain
  <2>1. Len(qs[h]) \in Nat /\ k \in Nat /\ k + 1 \in Nat
    BY <1>1 DEF Lists
  <2>2. Nd(qs[h], h, k) \in N /\ Nd(qs[h], h, k + 1) \in N
    BY <1>1, <2>1, NodesIn
  <2> QED
    BY <1>1, <2>2, NeighboursAre DEF SameFields
<1>3. Lists(M, N, H, I, qs)
  BY <1>1, <1>2 DEF Lists, SameFields
<1> QED
  BY <1>1, <1>3 DEF Behind

\* queue_init() of a node that is no head yet, or whose list is empty.
LEMMA BehindInit ==
  ASSUME NEW L, NEW N, NEW H, NEW I, NEW W, Behind(L, N, H, I, W), NEW h \in N, h \notin I,
         h \in H => W[h] = {}
  PROVE  Behind(queue_init(L, h), N, H \cup {h}, I,
                [g \in H \cup {h} |-> IF g = h THEN {} ELSE W[g]])
<1>1. PICK qs : Lists(L, N, H, I, qs) /\ AreIn(W, H, I, qs)
  BY DEF Behind
<1>2. PICK M : M = queue_init(L, h)
  OBVIOUS
<1>3. PICK ts : ts = [g \in H \cup {h} |-> IF g = h THEN <<>> ELSE qs[g]]
  OBVIOUS
<1>4. /\ DOMAIN M.next = N /\ DOMAIN M.prev = N /\ M.next[h] = h /\ M.prev[h] = h
      /\ \A n \in N \ {h} : M.next[n] = L.next[n] /\ M.prev[n] = L.prev[n]
  BY <1>1, <1>2 DEF queue_init, Lists
<1>5. ASSUME NEW g \in H, g # h, NEW k \in Nat
      PROVE  Nd(qs[g], g, k) \in N \ {h}
  BY <1>1, <1>5, NodesIn
<1>6. ASSUME NEW g \in H \cup {h}
      PROVE  Chain(M, ts[g], g)
  <2>1. CASE g = h
    BY <2>1, <1>3, <1>4 DEF Chain, Nd
  <2>2. CASE g # h
    <3>1. g \in H /\ ts[g] = qs[g] /\ Len(qs[g]) \in Nat
      BY <2>2, <1>1, <1>3 DEF Lists
    <3> SUFFICES ASSUME NEW k \in 0 .. Len(qs[g])
                 PROVE  /\ M.next[Nd(qs[g], g, k)] = Nd(qs[g], g, k + 1)
                        /\ M.prev[Nd(qs[g], g, k + 1)] = Nd(qs[g], g, k)
      BY <3>1 DEF Chain
    <3>2. k \in Nat /\ k + 1 \in Nat
      BY <3>1
    <3>3. Nd(qs[g], g, k) \in N \ {h} /\ Nd(qs[g], g, k + 1) \in N \ {h}
      BY <3>1, <3>2, <2>2, <1>5
    <3> QED
      BY <3>1, <3>3, <1>1, <1>4, NeighboursAre
  <2> QED
    BY <2>1, <2>2
<1>7. ts \in [H \cup {h} -> Seq(I)] /\ OncePlaced(H \cup {h}, ts)
  <2>1. \A g \in H \cup {h} : ts[g] = IF g = h THEN <<>> ELSE qs[g]
    BY <1>3
  <2>2. ts \in [H \cup {h} -> Seq(I)]
    BY <1>1, <1>3 DEF Lists
  <2>3. ASSUME NEW g \in H \cup {h}, NEW f \in H \cup {h}, NEW j \in 1 .. Len(ts[g]),
               NEW k \in 1 .. Len(ts[f]), ts[g][j] = ts[f][k]
        PROVE  g = f /\ j = k
    <3>1. g # h /\ f # h
      BY <2>1
    <3> QED
      BY <3>1, <2>1, <2>3, <1>1 DEF Lists, OncePlaced
  <2> QED
    BY <2>2, <2>3 DEF OncePlaced
<1>8. Lists(M, N, H \cup {h}, I, ts)
  BY <1>1, <1>4, <1>6, <1>7 DEF Lists
<1>9. PICK V : V = [g \in H \cup {h} |-> IF g = h THEN {} ELSE W[g]]
  OBVIOUS
<1>10. AreIn(V, H \cup {h}, I, ts)
  <2> SUFFICES ASSUME NEW g \in H \cup {h}, NEW i \in I
               PROVE  i \in V[g] <=> \E k \in 1 .. Len(ts[g]) : ts[g][k] = i
    BY DEF AreIn
  <2> QED
    BY <1>1, <1>3, <1>9 DEF AreIn
<1>11. V \in [H \cup {h} -> SUBSET I]
  BY <1>9 DEF Behind
<1> QED
  BY <1>2, <1>8, <1>9, <1>10, <1>11 DEF Behind

\* The fields of a head without items, and of one with a single item.
LEMMA BehindAlone ==
  ASSUME NEW L, NEW N, NEW H, NEW I, NEW W, Behind(L, N, H, I, W), NEW h \in H, NEW i
  PROVE  /\ DOMAIN L.next = N /\ DOMAIN L.prev = N
         /\ W[h] = {} => L.next[h] = h /\ L.prev[h] = h
         /\ W[h] = {i} => L.next[h] = i /\ L.prev[h] = i /\ L.next[i] = h /\ L.prev[i] = h
<1>1. PICK qs : Lists(L, N, H, I, qs) /\ AreIn(W, H, I, qs)
  BY DEF Behind
<1>2. PICK n \in Nat : n = Len(qs[h]) /\ qs[h] \in Seq(I)
  BY <1>1 DEF Lists
<1>3. /\ \A k \in 1 .. n : qs[h][k] \in W[h]
      /\ \A j, k \in 1 .. n : qs[h][j] = qs[h][k] => j = k
  BY <1>1, <1>2 DEF AreIn, Lists, OncePlaced
<1>4. \A k \in 0 .. n : /\ L.next[Nd(qs[h], h, k)] = Nd(qs[h], h, k + 1)
                        /\ L.prev[Nd(qs[h], h, k + 1)] = Nd(qs[h], h, k)
  BY <1>1, <1>2, NeighboursAre
<1>5. ASSUME W[h] = {}
      PROVE  L.next[h] = h /\ L.prev[h] = h
  <2>1. n = 0
    BY <1>2, <1>3, <1>5
  <2>2. Nd(qs[h], h, 0) = h /\ Nd(qs[h], h, 1) = h
    BY <1>2, <2>1 DEF Nd
  <2> QED
    BY <1>4, <2>1, <2>2
<1>6. ASSUME W[h] = {i}
      PROVE  L.next[h] = i /\ L.prev[h] = i /\ L.next[i] = h /\ L.prev[i] = h
  <2>1. i \in I
    BY <1>6 DEF Behind
  <2>2. PICK k \in 1 .. n : qs[h][k] = i
    BY <1>1, <1>2, <1>6, <2>1 DEF AreIn
  <2>3. n = 1
    <3>1. 1 \in 1 .. n /\ n \in 1 .. n
      BY <2>2
    <3>2. qs[h][1] = i /\ qs[h][n] = i
      BY <3>1, <1>3, <1>6
    <3> QED
      BY <3>1, <3>2, <1>3
  <2>4. qs[h][1] = i
    BY <2>2, <2>3
  <2>5. Nd(qs[h], h, 0) = h /\ Nd(qs[h], h, 1) = i /\ Nd(qs[h], h, 2) = h
    BY <1>2, <2>3, <2>4 DEF Nd
  <2>6. 0 \in 0 .. n /\ 1 \in 0 .. n /\ 0 + 1 = 1 /\ 1 + 1 = 2
    BY <2>3
  <2> QED
    BY <1>4, <2>5, <2>6
<1> QED
  BY <1>1, <1>5, <1>6 DEF Lists
=============================================================================
