----------------------------- MODULE MCProcess -----------------------------
(* The programs that the runs of Process execute, as in test_sanguo: pid 1 is  *)
(* init, 2 and 3 wait for one another, 3 spawns again, 4 kills.                *)
EXTENDS Process

CallsSanguo ==
  [p \in 1 .. MaxSpawns |->
     CASE p = 1 -> {"spawn", "exit"}
       [] p = 2 -> {"mbox", "wait"}
       [] p = 3 -> {"mbox", "wait", "spawn"}
       [] p = 4 -> {"yield", "sleep", "kill"}
       [] OTHER -> {"yield", "mbox"}]
=============================================================================
