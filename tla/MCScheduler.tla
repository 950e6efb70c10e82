---------------------------- MODULE MCScheduler ----------------------------
(* Workloads for the scheduler. *)
EXTENDS Scheduler, TLC

\* A main program with children and threads, one of which may have a child.
Family ==
    1 :> {"thread", "process", "waitpid", "join", "exit", "exit_group"}
    @@ 2 :> {"process", "nanosleep", "exit", "exit_group"}
    @@ 3 :> {"exit"}
=============================================================================
