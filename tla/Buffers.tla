------------------------------ MODULE Buffers ------------------------------
(***************************************************************************)
(* What mbox.h promises of message boxes: "a bounded buffer which holds up *)
(* to MAX_MBOX_LENGTH items".  A message is added when there is room and   *)
(* taken, oldest first, when there is one.                                 *)
(***************************************************************************)
EXTENDS Integers, Sequences

CONSTANTS Task, Box, Message, Capacity

VARIABLES
  content,   \* the messages in each box, oldest first
  got        \* the message that each task received last

vars == <<content, got>>

Init ==
  /\ content = [b \in Box |-> <<>>]
  /\ got \in [Task -> Message]

Put(b, m) ==
  /\ Len(content[b]) < Capacity
  /\ content' = [content EXCEPT ![b] = Append(@, m)]
  /\ UNCHANGED got

Take(b, t) ==
  /\ content[b] # <<>>
  /\ got' = [got EXCEPT ![t] = Head(content[b])]
  /\ content' = [content EXCEPT ![b] = Tail(@)]

Next == \E b \in Box : (\E m \in Message : Put(b, m)) \/ (\E t \in Task : Take(b, t))

Spec == Init /\ [][Next]_vars
=============================================================================
