----------------------------- MODULE MeetingStates -----------------------------
(***************************************************************************)
(* What a review meeting promises to those who only follow its state        *)
(* (features/review_meeting/room): the owner is asked at most once a round, *)
(* from the second round on, and never again in a round that was decided.   *)
(* ReviewRoom implements it; MeetingOutbox relies on it.                     *)
(***************************************************************************)
EXTENDS Integers

CONSTANT MaxRound  \* bound: rounds of the meeting
ASSUME RoundAssumption == MaxRound \in Nat \ {0}

VARIABLE meeting   \* its state, its round, and whether it is archived

Rounds == 1 .. MaxRound
Final == {"approved", "rejected"}

Start == meeting = [state |-> "open", round |-> 1, archived |-> FALSE]

(* advance and resume begin a round. *)
NextRound ==
  /\ meeting.state \in {"open", "changes_requested"} /\ ~ meeting.archived
  /\ meeting.round < MaxRound
  /\ meeting' = [meeting EXCEPT !.state = "open", !.round = @ + 1]

Ask ==
  /\ meeting.state = "open" /\ ~ meeting.archived /\ meeting.round >= 2
  /\ meeting' = [meeting EXCEPT !.state = "awaiting_approval"]

Verdict ==
  /\ meeting.state = "awaiting_approval" /\ ~ meeting.archived
  /\ \E outcome \in Final \cup {"changes_requested"} :
       meeting' = [meeting EXCEPT !.state = outcome]

Cancel ==
  /\ meeting.state \notin Final /\ ~ meeting.archived
  /\ meeting' = [meeting EXCEPT !.state = "rejected"]

Close ==
  /\ meeting.state \in Final /\ ~ meeting.archived
  /\ meeting' = [meeting EXCEPT !.archived = TRUE]

Course == NextRound \/ Ask \/ Verdict \/ Cancel \/ Close
Meeting == Start /\ [][Course]_meeting
===============================================================================
