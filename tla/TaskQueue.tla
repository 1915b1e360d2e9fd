----------------------------- MODULE TaskQueue -----------------------------
(***************************************************************************)
(* Any sequence of calls of queue.c on any number of lists.  The kernel    *)
(* uses a list as a FIFO queue or as one sorted by deadline; an item is    *)
(* put in a queue only while it is in none (QueueIntegrity of Scheduler).  *)
(***************************************************************************)
EXTENDS Links

CONSTANTS
  Fifo, Sorted,   \* the heads, by the way that items are put behind them
  Item,
  Key,            \* bound: the values of pcb.deadline
  Zeroed          \* what the two fields of a pcb hold at first

Heads == Fifo \cup Sorted
Node == Heads \cup Item

ASSUME TaskQueueAssumption ==
  /\ Fifo \cap Sorted = {} /\ Heads \cap Item = {} /\ Zeroed \notin Node
  /\ Key \subseteq Nat /\ IsFiniteSet(Node)

VARIABLES
  nodes,        \* the two fields of each node_t
  key           \* deadline of the pcb that the node is part of

queueVars == <<nodes, key>>

Free(i) == \A h \in Heads : ~Linked(nodes, h, i)

\* The heads are initialised; the nodes of the pcbs are zeroed memory.
QueueInit ==
  /\ LET zeroed == [n \in Node |-> IF n \in Heads THEN n ELSE Zeroed]
     IN nodes = [prev |-> zeroed, next |-> zeroed]
  /\ key \in [Item -> {0}]

Put(q, i) ==
  /\ Free(i)
  /\ nodes' = enqueue(nodes, q, i)
  /\ UNCHANGED key

NotLater(i, n) == key'[i] <= key[n]

PutSorted(q, i, k) ==
  /\ Free(i)
  /\ key' = [key EXCEPT ![i] = k]
  /\ nodes' = enqueue_sort(nodes, q, i, {n \in Item : NotLater(i, n)})

Take(q) ==
  /\ ~is_empty(nodes, q)
  /\ nodes' = dequeue(nodes, q)
  /\ UNCHANGED key

\* An item is taken out of the middle, as scheduler() of project 3 and do_kill()
\* do.  Here it is one of a sorted queue: what dequeue takes is then still told
\* apart in the others.
TakeOut(q, i) ==
  /\ Linked(nodes, q, i)
  /\ nodes' = Unlink(nodes, i)
  /\ UNCHANGED key

QueueNext ==
  \/ \E q \in Heads : Take(q)
  \/ \E i \in Item :
       \/ \E q \in Fifo : Put(q, i)
       \/ \E q \in Sorted : TakeOut(q, i) \/ \E k \in Key : PutSorted(q, i, k)

QueueSpec == QueueInit /\ [][QueueNext]_queueVars

-----------------------------------------------------------------------------
(* Properties. *)

\* The ring of each head comes back to it, and forwards and backwards are the
\* same ring: nothing is cut off, whatever stale fields the free items keep.
RingIntact == \A h \in Heads : IsRing(nodes, h)

\* The lists behave as sequences: no operation on one queue disturbs another.
SQ == INSTANCE SequenceQueues WITH
  Queue <- Heads, content <- [h \in Heads |-> Items(nodes, h)]
ImplementsSequences == SQ!Spec
=============================================================================
