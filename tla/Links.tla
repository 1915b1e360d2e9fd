------------------------------- MODULE Links -------------------------------
(***************************************************************************)
(* queue.c of project4_start_code (projects 3 and 5 have the same code):   *)
(* circular doubly linked lists threaded through the items, a list head    *)
(* being a node like the others.  L is the pair of fields of every node.   *)
(* An item that is taken out keeps its two fields, and what is done with   *)
(* them later is what the code does, also where it should not.             *)
(***************************************************************************)
EXTENDS Integers, Sequences, FiniteSets

\* queue_init(q).
queue_init(L, q) ==
  [prev |-> [L.prev EXCEPT ![q] = q], next |-> [L.next EXCEPT ![q] = q]]

is_empty(L, q) == L.next[q] = q
peek(L, q) == L.next[q]

\* enqueue(q, item): item goes before q, which is the tail if q is a head.
enqueue_one_way(L, q, item) ==   \* Mutant: not linked forwards
  [prev |-> [L.prev EXCEPT ![item] = L.prev[q], ![q] = item],
   next |-> [L.next EXCEPT ![item] = q]]
enqueue_first(L, q, item) ==    \* Mutant: put at the front
  [prev |-> [L.prev EXCEPT ![item] = q, ![L.next[q]] = item],
   next |-> [L.next EXCEPT ![item] = L.next[q], ![q] = item]]
enqueue(L, q, item) ==
  [prev |-> [L.prev EXCEPT ![item] = L.prev[q], ![q] = item],
   next |-> [L.next EXCEPT ![item] = q, ![L.prev[q]] = item]]

\* The neighbours of item are linked to one another.
Unlink(L, item) ==
  [prev |-> [L.prev EXCEPT ![L.next[item]] = L.prev[item]],
   next |-> [L.next EXCEPT ![L.prev[item]] = L.next[item]]]

dequeue_last(L, q) == Unlink(L, L.prev[q])   \* Mutant
dequeue(L, q) == Unlink(L, peek(L, q))

\* The first item of one queue goes to the tail of another.
MoveFirst(L, from, to) == enqueue(dequeue(L, from), to, peek(L, from))

-----------------------------------------------------------------------------
(* The lists as sequences. *)

\* The node that n steps along next lead to from q.
At(L, q, n) ==
  LET walk[m \in 0 .. n] == IF m = 0 THEN q ELSE L.next[walk[m - 1]] IN walk[n]

MaxLength(L) == Cardinality(DOMAIN L.next)

\* The ring of h comes back to it after n items, and backwards it is the same.
IsRing(L, h) ==
  \E n \in 0 .. MaxLength(L) :
    /\ At(L, h, n + 1) = h
    /\ \A m \in 0 .. n : L.prev[At(L, h, m + 1)] = At(L, h, m)

RingLength(L, h) == CHOOSE n \in 0 .. MaxLength(L) :
  At(L, h, n + 1) = h /\ \A m \in 1 .. n : At(L, h, m) # h
Items(L, h) == [n \in 1 .. RingLength(L, h) |-> At(L, h, n)]

Linked(L, h, item) == \E n \in 1 .. RingLength(L, h) : At(L, h, n) = item

\* The loop of enqueue_sort(q, elt, lte) ends at the first item that elt is not
\* greater than, one of notBelow, or at q after a full turn: elt goes before it.
SortedPlace(L, q, notBelow) ==
  LET n == CHOOSE n \in 1 .. MaxLength(L) :
             /\ At(L, q, n) \in notBelow \cup {q}
             /\ \A m \in 1 .. n - 1 : At(L, q, m) \notin notBelow \cup {q}
  IN At(L, q, n)
enqueue_sort(L, q, item, notBelow) == enqueue(L, SortedPlace(L, q, notBelow), item)
=============================================================================
