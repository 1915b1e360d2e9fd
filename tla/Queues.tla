------------------------------- MODULE Queues -------------------------------
(***************************************************************************)
(* The queues of queue.h as their users see them: a function from queue    *)
(* heads to the sequences of tasks linked behind them.  TaskQueue shows    *)
(* that the linked lists of queue.c behave so.                             *)
(***************************************************************************)
EXTENDS Integers, Sequences

EnqueueFirst(qs, q, p) == [qs EXCEPT ![q] = <<p>> \o @]   \* Mutant: at the head
Enqueue(qs, q, p) == [qs EXCEPT ![q] = Append(@, p)]

DequeueNothing(qs, q) == qs   \* Mutant: the task stays linked
Dequeue(qs, q) == [qs EXCEPT ![q] = Tail(@)]

\* Every task is dequeued in turn.
Flush(qs, q) == [qs EXCEPT ![q] = <<>>]

InQueue(qs, q, p) == \E i \in DOMAIN qs[q] : qs[q][i] = p

\* A task has one pair of links: it is in one queue at most, and once.
LinkedOnce(qs) ==
  \A q1, q2 \in DOMAIN qs : \A i \in DOMAIN qs[q1], j \in DOMAIN qs[q2] :
    qs[q1][i] = qs[q2][j] => q1 = q2 /\ i = j
=============================================================================
