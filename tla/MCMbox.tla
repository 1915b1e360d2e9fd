------------------------------- MODULE MCMbox -------------------------------
(* The instances of Mbox that are checked: three tasks and two names. *)
EXTENDS Mbox

CONSTANTS t1, t2, t3, x, y

\* The name x, which several tasks use, is the shorter one, so that its boxes may
\* be mangled.
Lengths == [n \in Name |-> IF n = x THEN 1 ELSE 2]

\* t1 sends to x and t3 receives; y has only a sender, t3.
OneSender == [n \in Name |-> IF n = x THEN {t1} ELSE {t3}]
OneReceiver == [n \in Name |-> IF n = x THEN {t3} ELSE {}]
Messages == [n \in Name |-> IF n = x THEN {1, 2} ELSE {1}]

\* As in test_sanguo, where two processes receive from the box of the third.
TwoReceivers == [n \in Name |-> {t2, t3}]
=============================================================================
