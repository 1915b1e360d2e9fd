--------------------------- MODULE SequenceQueues ---------------------------
(***************************************************************************)
(* What the users of queue.h rely on: a queue is a sequence of items, and  *)
(* an item is in one queue at most.                                        *)
(***************************************************************************)
EXTENDS Integers, Sequences

CONSTANTS
  Queue,
  Sorted,    \* the queues that items are taken out of the middle of
  Item

VARIABLES
  content,   \* the items of each queue, in order
  key        \* what a sorted queue is sorted by

vars == <<content, key>>

Init ==
  /\ content = [h \in Queue |-> <<>>]
  /\ key \in [Item -> Nat]

Free(i) == \A h \in Queue : \A n \in DOMAIN content[h] : content[h][n] # i

Put(h, i) ==
  /\ Free(i)
  /\ content' = [content EXCEPT ![h] = Append(@, i)]
  /\ UNCHANGED key

\* i, with its new key, goes before the first item whose key is not smaller.
PutSorted(h, i) ==
  /\ Free(i)
  /\ key'[i] \in Nat
  /\ key' = [key EXCEPT ![i] = key'[i]]
  /\ \E n \in 1 .. Len(content[h]) + 1 :
       /\ \A m \in 1 .. n - 1 : key'[content[h][m]] < key'[i]
       /\ n <= Len(content[h]) => key'[i] <= key'[content[h][n]]
       /\ content' = [content EXCEPT ![h] =
            SubSeq(@, 1, n - 1) \o <<i>> \o SubSeq(@, n, Len(@))]

Take(h) ==
  /\ content[h] # <<>>
  /\ content' = [content EXCEPT ![h] = Tail(@)]
  /\ UNCHANGED key

TakeOut(h, n) ==
  /\ content' = [content EXCEPT ![h] =
       SubSeq(@, 1, n - 1) \o SubSeq(@, n + 1, Len(@))]
  /\ UNCHANGED key

Next ==
  \/ \E h \in Queue : Take(h) \/ \E i \in Item : Put(h, i) \/ PutSorted(h, i)
  \/ \E h \in Sorted : \E n \in DOMAIN content[h] : TakeOut(h, n)

Spec == Init /\ [][Next]_vars
=============================================================================
