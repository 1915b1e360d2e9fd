------------------------------ MODULE MCQueues ------------------------------
(* The two kinds of queue of the repository: the lists of queue.c under any  *)
(* sequence of calls, and the ring buffers of project 2 under its kernel.    *)
(* They share nothing; which of them is used is chosen in the first state.   *)
EXTENDS TaskQueue, Coop

VARIABLE part   \* what the steps are: a choice made once

MCInit == QueueInit /\ Init /\ part \in {"lists", "rings"}

MCNext ==
  /\ \/ part = "lists" /\ QueueNext /\ UNCHANGED vars
     \/ part = "rings" /\ Next /\ UNCHANGED queueVars
  /\ UNCHANGED part

MCSpec == MCInit /\ [][MCNext]_<<queueVars, vars, part>>
=============================================================================
