------------------------- MODULE MCSchedulerHistory -------------------------
(* The programs that the safety run of the scheduler executes: as in          *)
(* processes.c, init spawns the others and exits.  Each of them may exit too,  *)
(* so that entries are used again.                                             *)
EXTENDS SchedulerHistory

CallsAll ==
  [i \in 1 .. MaxSpawns |->
     IF i = 1 THEN {"spawn", "exit"} ELSE {"yield", "sleep", "sync", "exit"}]
=============================================================================
