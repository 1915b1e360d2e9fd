---------------------------- MODULE MCScheduler ----------------------------
(* The programs that the runs of Scheduler execute.  Pid 1 is init. *)
EXTENDS Scheduler

\* As in processes.c, init spawns the others and exits; each of them may exit
\* while init still spawns.
CallsReuse ==
  [i \in 1 .. MaxSpawns |->
     IF i = 1 THEN {"spawn", "exit"} ELSE {"getpid", "yield", "sleep", "exit"}]

\* Init goes on running as a process, pid 2 is clock_thread of th1.c, and the
\* others exit, so that their slots are given to threads again.
CallsClock ==
  [i \in 1 .. MaxSpawns |->
     IF i = 1 THEN {"spawn", "sleep"}
     ELSE IF i = 2 THEN {"yield"} ELSE {"sleep", "exit"}]
=============================================================================
