------------------------------ MODULE StepBudget ------------------------------
(***************************************************************************)
(* The step budget of one run of the agent's runtime:                       *)
(* core/adaptive_budget.py, AdaptiveStepController.  A controller is a      *)
(* value: before each model call it is asked for a decision, after each     *)
(* tool it is told what the result was worth.  The optional reviewer is     *)
(* left out, because nothing in the program supplies one.                   *)
(***************************************************************************)
EXTENDS Integers, Sequences

CONSTANTS HardSteps,      \* effective_max_steps
          InitialSteps,   \* policy.initial_steps
          LeaseSteps,     \* policy.lease_steps
          Reserve,        \* policy.finalization_reserve
          LowStreak,      \* policy.low_yield_streak
          ReplanRounds    \* policy.replan_low_yield_rounds

ASSUME BudgetAssumption ==
  /\ HardSteps \in Nat \ {0}
  /\ InitialSteps \in Nat \ {0}
  /\ LeaseSteps \in Nat \ {0}
  /\ Reserve \in Nat \ {0}
  /\ LowStreak \in Nat \ {0}
  /\ ReplanRounds \in Nat \ {0}

Least(a, b) == IF a <= b THEN a ELSE b
Greatest(a, b) == IF a >= b THEN a ELSE b

Gains == {"low", "medium", "high"}
Round == [step : Nat, useful : BOOLEAN]

(* The last step that may still call tools. *)
Cap == HardSteps - Least(Reserve, HardSteps - 1)

(* `rounds` says of each step whether one of its results was useful; `since` *)
(* is replan_step.                                                          *)
Controllers ==
  [enabled : BOOLEAN, lease : Nat, replanned : BOOLEAN, since : Nat,
   finalizing : BOOLEAN, rounds : Seq(Round), gain : Gains \cup {"unknown"}]

Controller(adaptive) ==
  LET enabled == adaptive /\ HardSteps >= 3
  IN  [enabled |-> enabled,
       lease |-> IF enabled THEN Least(Cap, InitialSteps) ELSE HardSteps,
       replanned |-> FALSE, since |-> 0, finalizing |-> FALSE,
       rounds |-> << >>, gain |-> "unknown"]

(* EvidenceBoard.record: a round is useful when one of its results was.     *)
(* The board of a controller that is not enabled is never read.             *)
Recorded(c, step, gain) ==
  LET n == Len(c.rounds)
      useful == gain # "low"
      same == n > 0 /\ c.rounds[n].step = step
  IN  IF ~ c.enabled THEN c
      ELSE [c EXCEPT !.gain = gain,
                     !.rounds = IF same
                                THEN [@ EXCEPT ![n].useful = @ \/ useful]
                                ELSE Append(@, [step |-> step, useful |-> useful])]

(* The last k rounds after step s brought nothing (low_rounds(s) >= k).     *)
Poor(c, s, k) ==
  \E n \in 0 .. Len(c.rounds) :
    /\ n + k <= Len(c.rounds)
    /\ \A i \in n + 1 .. Len(c.rounds) : ~ c.rounds[i].useful /\ c.rounds[i].step > s

Finalized(c) == [action |-> "finalize", ctl |-> [c EXCEPT !.finalizing = TRUE]]

Extended(c) ==
  LET grant == IF c.gain = "high" THEN LeaseSteps ELSE Least(2, LeaseSteps)
      lease == Least(Cap, c.lease + grant)
  IN  IF lease > c.lease
      THEN [action |-> "extend", ctl |-> [c EXCEPT !.lease = lease]]
      ELSE Finalized(c)

Replanned(c, next) ==
  [action |-> "replan",
   ctl |-> [c EXCEPT !.replanned = TRUE, !.since = next - 1,
                     !.lease = Least(Cap, Greatest(@, next + LeaseSteps - 1))]]

(* AdaptiveStepController.before_step.                                      *)
Decide(c, next) ==
  LET execute == [action |-> "execute", ctl |-> c]
      poor == Poor(c, 0, LowStreak)
  IN  IF ~ c.enabled THEN execute
      ELSE IF c.finalizing \/ (c.replanned /\ Poor(c, c.since, ReplanRounds))
        THEN Finalized(c)
      ELSE IF poor /\ ~ c.replanned /\ next <= Cap THEN Replanned(c, next)
      ELSE IF next <= c.lease THEN execute
      ELSE IF poor \/ next > Cap THEN Finalized(c)
      ELSE Extended(c)

===============================================================================
