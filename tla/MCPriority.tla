----------------------------- MODULE MCPriority -----------------------------
(* The task[] of test_all, of the default tasks.c, of test_blocksleep, and    *)
(* one in which threads wait for one another.                                *)
EXTENDS Priority

Thread(calls) == [type |-> "KERNEL_THREAD", calls |-> calls]
Proc(calls) == [type |-> "PROCESS", calls |-> calls]

TestPrograms ==
  { << Thread({"yield"}), Proc({"sleep"}), Proc({"sleep", "yield", "exit"}) >>,
    << Thread({"yield"}), Thread({"yield"}), Proc({"sleep", "yield", "exit"}), Proc({"sleep"}) >>,
    << Thread({"sleep", "yield"}), Thread({"sleep", "yield", "exit"}) >>,
    << Thread({"yield", "unblock"}), Thread({"block", "unblock"}), Proc({"sleep"}), Proc({"yield"}) >> }
=============================================================================
