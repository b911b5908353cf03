------------------------------ MODULE ReviewRoom ------------------------------
(***************************************************************************)
(* A review meeting (features/review_meeting: room, api, channel_commands   *)
(* and the HTTP adapter): rounds of reviews, waivers, the request for       *)
(* approval, and the owner's verdict, which comes from the command line,    *)
(* from a private chat in two steps, or from the mobile application over a  *)
(* network that loses and repeats requests.                                 *)
(*                                                                          *)
(* Every request holds the write lock of the database from its first        *)
(* reading to its commit, so a request is one step; what is spread over     *)
(* steps is the owner, who reads, waits and then decides.  A meeting asks   *)
(* for approval at most once a round, so a request is known by its round,   *)
(* and the number of the last event, which an order carries to prove that   *)
(* nothing happened since, is known by whether anything was appended.       *)
(***************************************************************************)
EXTENDS Integers, FiniteSets

CONSTANTS Names,      \* people who may take part
          MaxRound,   \* bound: rounds of the meeting
          Comments,   \* bound: who comments in which round
          Seats,      \* invitations to a single seat
          MaxPeople,  \* MAX_PARTICIPANTS
          Orders,     \* decisions prepared in a chat or in the application
          Nobody

ASSUME RoomAssumption ==
  /\ MaxRound \in Nat \ {0} /\ Comments \subseteq Names \X (1 .. MaxRound) /\ MaxPeople \in Nat
  /\ IsFiniteSet(Names) /\ Nobody \notin Names \cup Orders

VARIABLES meeting,  \* its row: state, round and whether it is archived
          invited,  \* invited_round of each participant, 0: not invited
          said,     \* reviews and comments among the events
          waived,   \* waivers among the events
          seats,    \* meeting_seat_grants
          live,     \* valid sessions of each participant
          orders,   \* confirmations and requests on their way
          verdicts  \* decisions among the events

people == <<invited, said, waived>>
access == <<seats, live>>
vars == <<meeting, people, access, orders, verdicts>>

States == INSTANCE MeetingStates
Rounds == States!Rounds
Final == States!Final
Decisions == {"approve", "revise", "reject", "cancel"}
Outcome == [approve |-> "approved", revise |-> "changes_requested",
            reject |-> "rejected", cancel |-> "rejected"]
NoSeat == [state |-> "free", by |-> Nobody]
NoOrder == [kind |-> "none", cancel |-> FALSE, fresh |-> FALSE, seen |-> FALSE, answer |-> "none"]

IsOpen == meeting.state = "open" /\ ~ meeting.archived
Taking == {n \in Names : invited[n] # 0}
Person(n) == invited[n] \in 1 .. meeting.round
Reviewed(n, r) == \E s \in said : s.kind = "review" /\ s.by = n /\ s.round = r
MissingEver == {n \in Names : /\ Person(n) /\ <<n, meeting.round>> \notin waived
                              /\ ~ \E r \in Rounds : Reviewed(n, r)}
Missing == {n \in Names : /\ Person(n) /\ <<n, meeting.round>> \notin waived
                          /\ ~ Reviewed(n, meeting.round)}
Issued == {s \in Seats : seats[s].state = "issued"}
Claimed(n) == \E s \in Seats : seats[s] = [state |-> "claimed", by |-> n]

(* The command line names the participants, the API invites to a first seat. *)
Init ==
  /\ meeting = [state |-> "open", round |-> 1, archived |-> FALSE]
  /\ invited \in [Names -> {0, 1}]
  /\ seats \in [Seats -> {NoSeat, [NoSeat EXCEPT !.state = "issued"]}]
  /\ Cardinality(Issued) = IF Taking = {} THEN 1 ELSE 0
  /\ said = {} /\ waived = {} /\ verdicts = {}
  /\ live = [n \in Names |-> 0]
  /\ orders = [o \in Orders |-> NoOrder]

(* append: an order that was prepared before does not know of this event.   *)
(* "seen" is left of its knowledge when only talk has been added since.     *)
Stale(moved) == [o \in Orders |-> [orders[o] EXCEPT !.fresh = FALSE, !.seen = @ /\ ~ moved]]
Appended == orders' = Stale(FALSE)
Moved == orders' = Stale(TRUE)

-------------------------------------------------------------------------------
(* Discussion.                                                              *)

Invite(n) ==
  /\ IsOpen /\ invited[n] = 0
  /\ invited' = [invited EXCEPT ![n] = meeting.round] /\ Appended
  /\ UNCHANGED <<meeting, said, waived, access, verdicts>>

Comment(n) ==
  /\ IsOpen /\ Person(n) /\ <<n, meeting.round>> \in Comments
  /\ said' = said \cup {[kind |-> "comment", by |-> n, round |-> meeting.round, to |-> Nobody]}
  /\ Appended
  /\ UNCHANGED <<meeting, invited, waived, access, verdicts>>

(* The host may also comment while the owner is asked; participants join and *)
(* leave, and votes of models are noted, while the meeting is open: nothing  *)
(* of it counts but that it is an event.                                     *)
Note ==
  /\ meeting.state \in {"open", "awaiting_approval"} /\ ~ meeting.archived
  /\ Appended
  /\ UNCHANGED <<meeting, people, access, verdicts>>

(* Whom a review may answer. *)
Sources(n) ==
  IF meeting.round = 1 THEN {Nobody}
  ELSE {m \in Names \ {n} : \E s \in said : s.by = m /\ s.round < meeting.round}

Submit(n) ==
  /\ IsOpen /\ Person(n) /\ ~ Reviewed(n, meeting.round)
  /\ \E to \in Sources(n) :
       said' = said \cup {[kind |-> "review", by |-> n, round |-> meeting.round, to |-> to]}
  /\ Appended
  /\ UNCHANGED <<meeting, invited, waived, access, verdicts>>

Waive ==
  /\ IsOpen
  /\ \E absent \in SUBSET Missing \ {{}} : waived' = waived \cup (absent \X {meeting.round})
  /\ Appended
  /\ UNCHANGED <<meeting, invited, said, access, verdicts>>

Advance ==
  /\ IsOpen /\ Missing = {} /\ meeting.round < MaxRound
  /\ meeting' = [meeting EXCEPT !.round = @ + 1]
  /\ Moved
  /\ UNCHANGED <<people, access, verdicts>>

Voices == {n \in Names : \E r \in Rounds : Reviewed(n, r)}
Replies == {s \in said : s.kind = "review" /\ s.round >= 2 /\ s.to # Nobody}
Ready == /\ meeting.round >= 2 /\ Missing = {}
         /\ Cardinality(Voices) >= 2 /\ Replies # {}

RequestApproval ==
  /\ IsOpen /\ Ready
  /\ meeting' = [meeting EXCEPT !.state = "awaiting_approval"] /\ Moved
  /\ UNCHANGED <<people, access, verdicts>>

ResumeInRound ==
  /\ meeting.state = "changes_requested" /\ ~ meeting.archived
  /\ meeting' = [meeting EXCEPT !.state = "open"]
  /\ Moved
  /\ UNCHANGED <<people, access, verdicts>>
Resume ==
  /\ meeting.state = "changes_requested" /\ ~ meeting.archived /\ meeting.round < MaxRound
  /\ meeting' = [meeting EXCEPT !.state = "open", !.round = @ + 1]
  /\ Moved
  /\ UNCHANGED <<people, access, verdicts>>

Archive ==
  /\ meeting.state \in Final /\ ~ meeting.archived
  /\ meeting' = [meeting EXCEPT !.archived = TRUE] /\ Moved
  /\ UNCHANGED <<people, access, verdicts>>

-------------------------------------------------------------------------------
(* Seats and their sessions.                                                *)

IssueSeat(s) ==
  /\ IsOpen /\ seats[s].state = "free"
  /\ Cardinality(Taking) + Cardinality(Issued) < MaxPeople
  /\ seats' = [seats EXCEPT ![s].state = "issued"] /\ Appended
  /\ UNCHANGED <<meeting, people, live, verdicts>>

(* A seat is claimed under a new name; a skill of this host needs no session. *)
Claim(s, n) ==
  /\ IsOpen /\ seats[s].state = "issued" /\ invited[n] = 0
  /\ Cardinality(Taking) < MaxPeople
  /\ seats' = [seats EXCEPT ![s] = [state |-> "claimed", by |-> n]]
  /\ live' \in {[live EXCEPT ![n] = 1], live}
  /\ invited' = [invited EXCEPT ![n] = meeting.round]
  /\ Appended
  /\ UNCHANGED <<meeting, said, waived, verdicts>>

RevokeSeat(s) ==
  /\ IsOpen /\ seats[s].state # "free"
  /\ seats' = [seats EXCEPT ![s].state = "revoked"]
  /\ live' = IF seats[s].by = Nobody THEN live ELSE [live EXCEPT ![seats[s].by] = 0]
  /\ Appended
  /\ UNCHANGED <<meeting, people, verdicts>>

(* A participant who has lost the session gets another one for the seat. *)
Recover(s) ==
  /\ IsOpen /\ seats[s].state = "claimed"
  /\ live' = [live EXCEPT ![seats[s].by] = 1] /\ Appended
  /\ UNCHANGED <<meeting, people, seats, verdicts>>

(* leave of the API: also from a meeting that has ended, with what is left. *)
LeaveSeat(n) ==
  /\ live[n] > 0
  /\ (meeting.state \in Final \/ meeting.archived) \/ IsOpen
  /\ live' = [live EXCEPT ![n] = @ - 1]
  /\ seats' = [s \in Seats |-> IF seats[s].by = n THEN [seats[s] EXCEPT !.state = "revoked"]
                               ELSE seats[s]]
  /\ Appended
  /\ UNCHANGED <<meeting, people, verdicts>>

Expire ==
  /\ \/ \E n \in Names : live[n] > 0 /\ live' = [live EXCEPT ![n] = 0] /\ UNCHANGED seats
     \/ \E s \in Issued : seats' = [seats EXCEPT ![s].state = "revoked"] /\ UNCHANGED live
  /\ UNCHANGED <<meeting, people, orders, verdicts>>

-------------------------------------------------------------------------------
(* The owner.                                                               *)

(* What a decision does to the meeting; "by" says which order brought it.   *)
Settle(decision, by, seen) ==
  /\ meeting' = [meeting EXCEPT !.state = Outcome[decision]]
  /\ verdicts' = verdicts \cup {[round |-> meeting.round, cancel |-> decision = "cancel", by |-> by,
                                 seen |-> seen]}
  /\ IF decision = "cancel"
     THEN /\ live' = [n \in Names |-> 0]
          /\ seats' = [s \in Seats |-> IF seats[s].state = "free" THEN seats[s]
                                       ELSE [seats[s] EXCEPT !.state = "revoked"]]
     ELSE UNCHANGED access

Decidable(cancel) ==
  /\ ~ meeting.archived
  /\ IF cancel THEN meeting.state \notin Final ELSE meeting.state = "awaiting_approval"

(* From the command line, with the key of the owner. *)
Decide ==
  /\ \E decision \in Decisions :
       Decidable(decision = "cancel") /\ Settle(decision, Nobody, TRUE)
  /\ Moved
  /\ UNCHANGED people

(* In the chat a decision is answered with a code; the application reads the *)
(* meeting and prepares a request.  Which verdict it is shows when it counts. *)
Prepare(o) ==
  /\ orders[o].kind = "none"
  /\ \E cancel \in BOOLEAN, kind \in {"code", "request"} :
       /\ Decidable(cancel) /\ (kind = "request" => ~ cancel)
       /\ orders' = [orders EXCEPT ![o] = [kind |-> kind, cancel |-> cancel, fresh |-> TRUE,
                                            seen |-> TRUE, answer |-> "none"]]
  /\ UNCHANGED <<meeting, people, access, verdicts>>

Applied(o) == \E v \in verdicts : v.by = o
AcceptedUnseen(o) == Decidable(orders[o].cancel)
Accepted(o) == orders[o].fresh /\ Decidable(orders[o].cancel)

Apply(o) ==
  /\ \E decision \in Decisions :
       /\ (decision = "cancel") = orders[o].cancel
       /\ Settle(decision, o, orders[o].seen)
  /\ orders' = [Stale(TRUE) EXCEPT ![o].answer = "done"]
Answer(o, answer) ==
  /\ orders' = [orders EXCEPT ![o].answer = answer]
  /\ UNCHANGED <<meeting, access, verdicts>>

(* The code is sent; a code is good for one decision. *)
Confirm(o) ==
  /\ orders[o].kind = "code" /\ ~ Applied(o)
  /\ (Accepted(o) /\ Apply(o)) \/ (~ Accepted(o) /\ Answer(o, "refused"))
  /\ UNCHANGED people

(* A copy of the request arrives; if one was applied before, it is told so.  *)
Request(o) ==
  /\ orders[o].kind = "request"
  /\ \/ Applied(o) /\ Answer(o, "done")
     \/ ~ Applied(o) /\ Accepted(o) /\ Apply(o)
     \/ ~ Applied(o) /\ ~ Accepted(o) /\ Answer(o, "refused")
  /\ UNCHANGED people

Discussion == \/ \E n \in Names : Invite(n) \/ Comment(n) \/ Submit(n)
              \/ Note \/ Waive \/ Advance \/ RequestApproval \/ Resume \/ Archive
Seating == \/ \E s \in Seats : IssueSeat(s) \/ RevokeSeat(s) \/ Recover(s) \/ \E n \in Names : Claim(s, n)
           \/ \E n \in Names : LeaveSeat(n)
           \/ Expire
Owner == Decide \/ \E o \in Orders : Prepare(o) \/ Confirm(o) \/ Request(o)
Next == Discussion \/ Seating \/ Owner

Spec == Init /\ [][Next]_vars

-------------------------------------------------------------------------------
(* The values of the variables. *)
TypeOK ==
  /\ meeting \in [state : {"open", "awaiting_approval", "changes_requested"} \cup Final,
                  round : Rounds, archived : BOOLEAN]
  /\ invited \in [Names -> 0 .. MaxRound] 
  /\ said \subseteq [kind : {"review", "comment"}, by : Names, round : Rounds, to : Names \cup {Nobody}]
  /\ waived \subseteq Names \X Rounds
  /\ seats \in [Seats -> [state : {"free", "issued", "claimed", "revoked"}, by : Names \cup {Nobody}]]
  /\ live \in [Names -> {0, 1}]
  /\ orders \in [Orders -> [kind : {"none", "code", "request"}, cancel : BOOLEAN, fresh : BOOLEAN,
                            seen : BOOLEAN, answer : {"none", "done", "refused"}]]
  /\ verdicts \subseteq [round : Rounds, cancel : BOOLEAN, by : Orders \cup {Nobody}, seen : BOOLEAN]

(* Whatever is said, claimed, revoked and decided, the meeting takes the      *)
(* course its followers rely on.                                             *)
Course == States!Meeting

(* While the owner is asked, and for good once the owner has approved, every *)
(* participant has spoken or is excused in the round that was put to the     *)
(* owner, and the minimum of an independent discussion has taken place.      *)
AskedIsReady ==
  meeting.state \in {"awaiting_approval", "approved"} =>
    /\ \A n \in Taking : Reviewed(n, meeting.round) \/ <<n, meeting.round>> \in waived
    /\ \E s, t \in said : s.kind = "review" /\ t.kind = "review" /\ s.by # t.by
    /\ \E s \in said : s.kind = "review" /\ s.round \in 2 .. meeting.round

(* A decision settles what its owner has seen when making it, however late   *)
(* it arrives; no round is settled by two verdicts, whoever brings them; and *)
(* an order that was refused was not applied and never will be: the owner    *)
(* may safely decide anew, also when an answer was lost and the request was  *)
(* repeated.                                                                 *)
DecidesWhatWasSeen ==
  /\ \A v, w \in verdicts : v.seen /\ (v.round = w.round /\ ~ v.cancel /\ ~ w.cancel => v = w)
  /\ \A o \in Orders : orders[o].answer = "refused" => ~ Applied(o)
===============================================================================
