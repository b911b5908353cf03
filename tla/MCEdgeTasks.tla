------------------------------ MODULE MCEdgeTasks ------------------------------
(* A hot and then a root task, two overlapping processes of the sentinel.     *)
EXTENDS EdgeTasks

CONSTANTS p1, p2, s1
MCTasks == 1 .. 2
MCTier == <<"hot", "root">>
================================================================================
