---------------------------- MODULE PrivateMemory ----------------------------
(***************************************************************************)
(* What the paging of project5_start_code promises the processes: each has *)
(* its own program and its own stack, zero at first, though they share the *)
(* few frames there are.                                                   *)
(***************************************************************************)
EXTENDS Integers

CONSTANTS Proc, Value, Image(_)

VARIABLES stack, last

Init == stack = [p \in Proc |-> 0] /\ last = [by |-> 0, op |-> "none", value |-> 0]

Did(p, op, v) == last' = [by |-> p, op |-> op, value |-> v]

Fetch(p) == Did(p, "fetch", Image(p)) /\ UNCHANGED stack
Load(p) == Did(p, "load", stack[p]) /\ UNCHANGED stack
Store(p, v) == Did(p, "store", v) /\ stack' = [stack EXCEPT ![p] = v]

Next == \E p \in Proc : Fetch(p) \/ Load(p) \/ \E v \in Value : Store(p, v)

Spec == Init /\ [][Next]_<<stack, last>>
=============================================================================
