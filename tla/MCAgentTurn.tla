------------------------------ MODULE MCAgentTurn ------------------------------
(* Two spellings of one query, and one call that gives its receipt again.   *)
EXTENDS AgentTurn

CONSTANTS q1, q2, sync
MCKey == [c \in {q1, q2, sync} |-> IF c = sync THEN "write" ELSE "query"]
MCQuery == {"query"}
MCReuse == {"write"}
(* One turn with everything, or two turns with fewer calls.                 *)
MCSettings ==
  LET one(a) == [adaptive |-> a, turns |-> 1, batch |-> 2, calls |-> {q1, q2},
                 limit |-> 4]
      two(a) == [adaptive |-> a, turns |-> 2, batch |-> 1, calls |-> {q1, sync},
                 limit |-> 4]
      again == [adaptive |-> FALSE, turns |-> 2, batch |-> 2, calls |-> {sync},
                limit |-> 2]
  IN  {one(TRUE), one(FALSE), two(TRUE), two(FALSE), again}
=================================================================================
