-------------------------- MODULE MCTaskOrchestrator --------------------------
(* Plans of up to three subtasks for TLC: none, a chain, three on their own,  *)
(* a fork from a direct tool, a join, a circle, and a dependency nobody has.  *)
EXTENDS TaskOrchestrator, TLC

Graph(d1, d2, d3) == (1 :> d1) @@ (2 :> d2) @@ (3 :> d3)
Planned(nodes, deps, direct, approved) ==
  [nodes |-> nodes, deps |-> deps, direct |-> direct, approved |-> approved]

MCPlans ==
  { Planned({}, Graph({}, {}, {}), {}, FALSE),
    Planned(1 .. 3, Graph({}, {1}, {2}), {}, FALSE),
    Planned(1 .. 3, Graph({}, {}, {}), {2, 3}, TRUE),
    Planned(1 .. 3, Graph({}, {1}, {1}), {1}, TRUE),
    Planned(1 .. 3, Graph({}, {}, {1, 2}), {}, TRUE),
    Planned(1 .. 2, Graph({2}, {1}, {}), {}, FALSE),
    Planned(1 .. 2, Graph({}, {Unknown}, {}), {}, TRUE) }
================================================================================
