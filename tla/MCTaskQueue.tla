---------------------------- MODULE MCTaskQueue ----------------------------
(* The task queue on a small instance: two tasks of different priority.     *)
EXTENDS TaskQueue, TLC

CONSTANTS t1, t2, w1, w2

\* A Beast task (priority 1) and a task of the default priority.
MCPriority == t1 :> 1 @@ t2 :> 5

\* One lease may lapse under its holder: that of the task claimed last.
MCMaxLapses == t1 :> 1 @@ t2 :> 0

\* The processes of one agent are interchangeable.
MCSymmetry == Permutations({w1, w2})
=============================================================================
