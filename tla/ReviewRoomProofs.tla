---------------------------- MODULE ReviewRoomProofs ----------------------------
(***************************************************************************)
(* Proofs about ReviewRoom for any people, rounds, seats and orders: the      *)
(* meeting takes the course of MeetingStates; who is asked to approve sees a  *)
(* discussion that is complete; and a verdict is on what its owner has seen.  *)
(* The last needs to know of every order under way whether anything has       *)
(* happened since it was prepared, and of every round whether it is decided.  *)
(***************************************************************************)
EXTENDS ReviewRoom, FiniteSetTheorems, TLAPS

MeetingType == [state : {"open", "awaiting_approval", "changes_requested"} \cup Final,
                round : Rounds, archived : BOOLEAN]
SeatType == [state : {"free", "issued", "claimed", "revoked"}, by : Names \cup {Nobody}]
OrderType == [kind : {"none", "code", "request"}, cancel : BOOLEAN, fresh : BOOLEAN,
              seen : BOOLEAN, answer : {"none", "done", "refused"}]
SaidType == [kind : {"review", "comment"}, by : Names, round : Rounds, to : Names \cup {Nobody}]
VerdictType == [round : Rounds, cancel : BOOLEAN, by : Orders \cup {Nobody}, seen : BOOLEAN]

\* Nobody was invited, and nothing was said, in a round that is still to come.
SoFar ==
  /\ \A n \in Names : invited[n] <= meeting.round
  /\ \A s \in said : s.round <= meeting.round

\* A round that was decided is not open any more, and nobody is asked about it.
RoundsClosed ==
  \A v \in verdicts :
    /\ v.round <= meeting.round
    /\ ~ v.cancel /\ v.round = meeting.round =>
         meeting.state \notin {"open", "awaiting_approval"}

\* An order nothing has happened since can be applied, and its owner has seen
\* the meeting as it is; one that was refused will never be in that position.
OrdersKnown ==
  \A o \in Orders :
    /\ orders[o].fresh => /\ orders[o].kind # "none" /\ orders[o].seen
                          /\ Decidable(orders[o].cancel)
    /\ orders[o].answer = "refused" =>
         orders[o].kind # "none" /\ ~ orders[o].fresh /\ ~ Applied(o)

-------------------------------------------------------------------------------
(* The rows and the orders keep their shape.                                *)

LEMMA TypeDef ==
  TypeOK <=> /\ meeting \in MeetingType /\ invited \in [Names -> 0 .. MaxRound]
             /\ said \subseteq SaidType /\ waived \subseteq Names \X Rounds
             /\ seats \in [Seats -> SeatType] /\ live \in [Names -> {0, 1}]
             /\ orders \in [Orders -> OrderType] /\ verdicts \subseteq VerdictType
  BY DEF TypeOK, MeetingType, SaidType, SeatType, OrderType, VerdictType

LEMMA TypeNext ==
  TypeOK' <=> /\ meeting' \in MeetingType /\ invited' \in [Names -> 0 .. MaxRound]
              /\ said' \subseteq SaidType /\ waived' \subseteq Names \X Rounds
              /\ seats' \in [Seats -> SeatType] /\ live' \in [Names -> {0, 1}]
              /\ orders' \in [Orders -> OrderType] /\ verdicts' \subseteq VerdictType
  BY DEF TypeOK, MeetingType, SaidType, SeatType, OrderType, VerdictType

LEMMA RoundsAre == Rounds = 1 .. MaxRound /\ Final = {"approved", "rejected"}
  BY DEF Rounds, Final, States!Rounds, States!Final

(* What an event does to the orders under way: none of them is fresh.       *)
LEMMA StaleType ==
  ASSUME TypeOK, NEW moved \in BOOLEAN
  PROVE  /\ Stale(moved) \in [Orders -> OrderType]
         /\ \A o \in Orders : /\ ~ Stale(moved)[o].fresh
                              /\ Stale(moved)[o].kind = orders[o].kind
                              /\ Stale(moved)[o].cancel = orders[o].cancel
                              /\ Stale(moved)[o].answer = orders[o].answer
<1>1. orders \in [Orders -> OrderType]
  BY TypeDef
<1>2. ASSUME NEW o \in Orders
      PROVE  /\ Stale(moved)[o] \in OrderType /\ ~ Stale(moved)[o].fresh
             /\ Stale(moved)[o].kind = orders[o].kind
             /\ Stale(moved)[o].cancel = orders[o].cancel
             /\ Stale(moved)[o].answer = orders[o].answer
  <2>1. orders[o] \in OrderType
    BY <1>1
  <2>2. Stale(moved)[o] = [orders[o] EXCEPT !.fresh = FALSE, !.seen = orders[o].seen /\ ~ moved]
    BY DEF Stale
  <2>3. (orders[o].seen /\ ~ moved) \in BOOLEAN
    OBVIOUS
  <2>4. QED
    BY <2>1, <2>2, <2>3 DEF OrderType
<1>3. Stale(moved) = [o \in Orders |-> Stale(moved)[o]]
  BY DEF Stale
<1>4. QED
  BY <1>2, <1>3

LEMMA InitType == ASSUME RoomAssumption, Init PROVE TypeOK
<1>1. meeting \in MeetingType
  BY RoundsAre DEF Init, MeetingType, RoomAssumption
<1>2. invited \in [Names -> 0 .. MaxRound]
  BY DEF Init, RoomAssumption
<1>3. seats \in [Seats -> SeatType]
  BY DEF Init, SeatType, NoSeat
<1>4. orders \in [Orders -> OrderType]
  BY DEF Init, OrderType, NoOrder
<1>5. QED
  BY <1>1, <1>2, <1>3, <1>4, TypeDef DEF Init

(* Effects on the meeting of the actions that change it.                    *)
LEMMA MeetingStep ==
  ASSUME TypeOK, NEW state \in {"open", "awaiting_approval", "changes_requested"} \cup Final,
         NEW round \in Rounds, NEW archived \in BOOLEAN,
         meeting' = [meeting EXCEPT !.state = state, !.round = round, !.archived = archived]
  PROVE  /\ meeting' \in MeetingType
         /\ meeting'.state = state /\ meeting'.round = round /\ meeting'.archived = archived
<1>1. meeting \in MeetingType
  BY TypeDef
<1>2. QED
  BY <1>1 DEF MeetingType

LEMMA DiscussionType == ASSUME RoomAssumption, TypeOK, Discussion PROVE TypeOK'
<1> USE TypeDef, TypeNext
<1>1. ASSUME Appended \/ Moved PROVE orders' \in [Orders -> OrderType]
  BY <1>1, StaleType DEF Appended, Moved
<1>2. meeting \in MeetingType /\ meeting.round \in Rounds
  BY DEF MeetingType
<1>3. ASSUME NEW n \in Names, Invite(n) PROVE TypeOK'
  BY <1>1, <1>2, <1>3, RoundsAre DEF Invite, access
<1>4. ASSUME NEW n \in Names, Comment(n) PROVE TypeOK'
  <2>1. [kind |-> "comment", by |-> n, round |-> meeting.round, to |-> Nobody] \in SaidType
    BY <1>2 DEF SaidType
  <2>2. QED
    BY <1>1, <1>4, <2>1 DEF Comment, access
<1>5. CASE Note
  BY <1>1, <1>5 DEF Note, access, people
<1>6. ASSUME NEW n \in Names, Submit(n) PROVE TypeOK'
  <2>1. PICK to \in Sources(n) :
           said' = said \cup {[kind |-> "review", by |-> n, round |-> meeting.round, to |-> to]}
    BY <1>6 DEF Submit
  <2>2. to \in Names \cup {Nobody}
    BY <2>1 DEF Sources
  <2>3. [kind |-> "review", by |-> n, round |-> meeting.round, to |-> to] \in SaidType
    BY <1>2, <2>2 DEF SaidType
  <2>4. QED
    BY <1>1, <1>6, <2>1, <2>3 DEF Submit, access
<1>7. CASE Waive
  <2>1. waived' \subseteq Names \X Rounds
    BY <1>2, <1>7 DEF Waive, Missing
  <2>2. QED
    BY <1>1, <1>7, <2>1 DEF Waive, access
<1>8. CASE Advance
  <2>1. meeting' \in MeetingType
    BY <1>2, <1>8, RoundsAre DEF Advance, MeetingType, RoomAssumption
  <2>2. QED
    BY <1>1, <1>8, <2>1 DEF Advance, access, people
<1>9. CASE RequestApproval
  <2>1. meeting' \in MeetingType
    BY <1>2, <1>9 DEF RequestApproval, MeetingType
  <2>2. QED
    BY <1>1, <1>9, <2>1 DEF RequestApproval, access, people
<1>10. CASE Resume
  <2>1. meeting.round + 1 \in Rounds
    BY <1>2, <1>10, RoundsAre DEF Resume, RoomAssumption
  <2>2. meeting' \in MeetingType
    BY <1>2, <1>10, <2>1 DEF Resume, MeetingType
  <2>3. QED
    BY <1>1, <1>10, <2>2 DEF Resume, access, people
<1>11. CASE Archive
  <2>1. meeting' \in MeetingType
    BY <1>2, <1>11 DEF Archive, MeetingType
  <2>2. QED
    BY <1>1, <1>11, <2>1 DEF Archive, access, people
<1>12. QED
  BY <1>3, <1>4, <1>5, <1>6, <1>7, <1>8, <1>9, <1>10, <1>11 DEF Discussion

LEMMA SeatingType == ASSUME RoomAssumption, TypeOK, Seating PROVE TypeOK'
<1> USE TypeDef, TypeNext
<1>1. ASSUME Appended PROVE orders' \in [Orders -> OrderType]
  BY <1>1, StaleType DEF Appended
<1>2. meeting.round \in Rounds /\ seats \in [Seats -> SeatType] /\ live \in [Names -> {0, 1}]
  BY DEF MeetingType
<1>3. \A s \in Seats : seats[s].by \in Names \cup {Nobody}
  BY <1>2 DEF SeatType
<1>4. ASSUME NEW s \in Seats, NEW q \in {"free", "issued", "claimed", "revoked"},
             seats' = [seats EXCEPT ![s].state = q]
      PROVE  seats' \in [Seats -> SeatType]
  BY <1>2, <1>4 DEF SeatType
<1>5. ASSUME NEW s \in Seats, IssueSeat(s) PROVE TypeOK'
  BY <1>1, <1>4, <1>5 DEF IssueSeat, people
<1>6. ASSUME NEW s \in Seats, RevokeSeat(s) PROVE TypeOK'
  <2>1. live' \in [Names -> {0, 1}]
    BY <1>2, <1>6 DEF RevokeSeat
  <2>2. QED
    BY <1>1, <1>4, <1>6, <2>1 DEF RevokeSeat, people
<1>7. ASSUME NEW s \in Seats, Recover(s) PROVE TypeOK'
  <2>1. live' \in [Names -> {0, 1}]
    BY <1>2, <1>7 DEF Recover
  <2>2. QED
    BY <1>1, <1>7, <2>1 DEF Recover, people
<1>8. ASSUME NEW s \in Seats, NEW n \in Names, Claim(s, n) PROVE TypeOK'
  <2>1. live' \in [Names -> {0, 1}]
    BY <1>2, <1>8 DEF Claim
  <2>2. seats' \in [Seats -> SeatType]
    BY <1>2, <1>8 DEF Claim, SeatType
  <2>3. invited' \in [Names -> 0 .. MaxRound]
    BY <1>2, <1>8, RoundsAre DEF Claim
  <2>4. QED
    BY <1>1, <1>8, <2>1, <2>2, <2>3 DEF Claim
<1>9. ASSUME NEW n \in Names, LeaveSeat(n) PROVE TypeOK'
  <2>1. live' \in [Names -> {0, 1}]
    BY <1>2, <1>9 DEF LeaveSeat
  <2>2. ASSUME NEW s \in Seats
        PROVE  (IF seats[s].by = n THEN [seats[s] EXCEPT !.state = "revoked"]
                ELSE seats[s]) \in SeatType
    BY <1>2 DEF SeatType
  <2>3. seats' \in [Seats -> SeatType]
    BY <1>9, <2>2 DEF LeaveSeat
  <2>4. QED
    BY <1>1, <1>9, <2>1, <2>3 DEF LeaveSeat, people
<1>10. CASE Expire
  <2>1. live' \in [Names -> {0, 1}]
    BY <1>2, <1>10 DEF Expire
  <2>2. seats' \in [Seats -> SeatType]
    BY <1>2, <1>4, <1>10 DEF Expire, Issued
  <2>3. QED
    BY <1>10, <2>1, <2>2 DEF Expire, people
<1>11. QED
  BY <1>5, <1>6, <1>7, <1>8, <1>9, <1>10 DEF Seating

(* A decision: what it may be applied to, and what it leaves behind.        *)
LEMMA SettleType ==
  ASSUME RoomAssumption, TypeOK, NEW decision \in Decisions, NEW by \in Orders \cup {Nobody},
         NEW seen \in BOOLEAN, Settle(decision, by, seen)
  PROVE  /\ meeting' \in MeetingType /\ verdicts' \subseteq VerdictType
         /\ seats' \in [Seats -> SeatType] /\ live' \in [Names -> {0, 1}]
         /\ meeting' = [meeting EXCEPT !.state = Outcome[decision]]
         /\ meeting'.state = Outcome[decision] /\ meeting'.round = meeting.round
         /\ meeting'.archived = meeting.archived
         /\ Outcome[decision] \in Final \cup {"changes_requested"}
         /\ decision = "cancel" => Outcome[decision] = "rejected"
         /\ verdicts' = verdicts \cup {[round |-> meeting.round, cancel |-> decision = "cancel",
                                        by |-> by, seen |-> seen]}
<1>1. meeting \in MeetingType /\ seats \in [Seats -> SeatType] /\ live \in [Names -> {0, 1}]
      /\ verdicts \subseteq VerdictType
  BY TypeDef
<1>2. /\ Outcome[decision] \in Final \cup {"changes_requested"}
      /\ decision = "cancel" => Outcome[decision] = "rejected"
  BY RoundsAre DEF Decisions, Outcome
<1>3. /\ meeting' = [meeting EXCEPT !.state = Outcome[decision]]
      /\ verdicts' = verdicts \cup {[round |-> meeting.round, cancel |-> decision = "cancel",
                                     by |-> by, seen |-> seen]}
      /\ \/ live' = [n \in Names |-> 0]
            /\ seats' = [s \in Seats |-> IF seats[s].state = "free" THEN seats[s]
                                         ELSE [seats[s] EXCEPT !.state = "revoked"]]
         \/ live' = live /\ seats' = seats
  BY DEF Settle, access
<1>4. /\ meeting' \in MeetingType /\ meeting'.state = Outcome[decision]
      /\ meeting'.round = meeting.round /\ meeting'.archived = meeting.archived
  <2>1. Outcome[decision] \in {"open", "awaiting_approval", "changes_requested"} \cup Final
    BY <1>2
  <2>2. QED
    BY <1>1, <1>3, <2>1 DEF MeetingType
<1>5. verdicts' \subseteq VerdictType
  <2>1. meeting.round \in Rounds /\ (decision = "cancel") \in BOOLEAN
    BY <1>1 DEF MeetingType
  <2>2. [round |-> meeting.round, cancel |-> decision = "cancel", by |-> by, seen |-> seen]
          \in VerdictType
    BY <2>1 DEF VerdictType
  <2>3. QED
    BY <1>1, <1>3, <2>2
<1>6. live' \in [Names -> {0, 1}]
  BY <1>1, <1>3
<1>7. seats' \in [Seats -> SeatType]
  <2>1. ASSUME NEW s \in Seats
        PROVE  (IF seats[s].state = "free" THEN seats[s]
                ELSE [seats[s] EXCEPT !.state = "revoked"]) \in SeatType
    BY <1>1 DEF SeatType
  <2>2. QED
    BY <1>1, <1>3, <2>1
<1>8. QED
  BY <1>2, <1>3, <1>4, <1>5, <1>6, <1>7

LEMMA AnswerType ==
  ASSUME TypeOK, NEW o \in Orders, NEW answer \in {"done", "refused"}, NEW f \in [Orders -> OrderType]
  PROVE  /\ [f EXCEPT ![o].answer = answer] \in [Orders -> OrderType]
         /\ \A u \in Orders : u # o => [f EXCEPT ![o].answer = answer][u] = f[u]
         /\ [f EXCEPT ![o].answer = answer][o].kind = f[o].kind
         /\ [f EXCEPT ![o].answer = answer][o].cancel = f[o].cancel
         /\ [f EXCEPT ![o].answer = answer][o].fresh = f[o].fresh
         /\ [f EXCEPT ![o].answer = answer][o].seen = f[o].seen
         /\ [f EXCEPT ![o].answer = answer][o].answer = answer
<1>1. f[o] \in OrderType
  OBVIOUS
<1>2. [f[o] EXCEPT !.answer = answer] \in OrderType
  BY <1>1 DEF OrderType
<1>3. /\ [f[o] EXCEPT !.answer = answer].kind = f[o].kind
      /\ [f[o] EXCEPT !.answer = answer].cancel = f[o].cancel
      /\ [f[o] EXCEPT !.answer = answer].fresh = f[o].fresh
      /\ [f[o] EXCEPT !.answer = answer].seen = f[o].seen
      /\ [f[o] EXCEPT !.answer = answer].answer = answer
  BY <1>1 DEF OrderType
<1>4. /\ [f EXCEPT ![o].answer = answer] = [f EXCEPT ![o] = [f[o] EXCEPT !.answer = answer]]
      /\ [f EXCEPT ![o].answer = answer][o] = [f[o] EXCEPT !.answer = answer]
  OBVIOUS
<1>5. QED
  BY <1>2, <1>3, <1>4

LEMMA OwnerType == ASSUME RoomAssumption, TypeOK, Owner PROVE TypeOK'
<1> USE TypeDef, TypeNext
<1>1. \A moved \in BOOLEAN : Stale(moved) \in [Orders -> OrderType]
  BY StaleType
<1>2. orders \in [Orders -> OrderType] /\ \A o \in Orders : orders[o].seen \in BOOLEAN
  BY DEF OrderType
<1>3. CASE Decide
  <2>1. PICK decision \in Decisions : Settle(decision, Nobody, TRUE)
    BY <1>3 DEF Decide
  <2>2. QED
    BY <1>1, <1>3, <2>1, SettleType DEF Decide, people, Moved
<1>4. ASSUME NEW o \in Orders, Prepare(o) PROVE TypeOK'
  <2>1. PICK cancel \in BOOLEAN, kind \in {"code", "request"} :
           orders' = [orders EXCEPT ![o] = [kind |-> kind, cancel |-> cancel, fresh |-> TRUE,
                                            seen |-> TRUE, answer |-> "none"]]
    BY <1>4 DEF Prepare
  <2>2. [kind |-> kind, cancel |-> cancel, fresh |-> TRUE, seen |-> TRUE, answer |-> "none"]
          \in OrderType
    BY DEF OrderType
  <2>3. orders' \in [Orders -> OrderType]
    BY <1>2, <2>1, <2>2
  <2>4. QED
    BY <1>4, <2>3 DEF Prepare, people, access
<1>5. ASSUME NEW o \in Orders, Apply(o), UNCHANGED people PROVE TypeOK'
  <2>1. PICK decision \in Decisions : Settle(decision, o, orders[o].seen)
    BY <1>5 DEF Apply
  <2>2. orders' \in [Orders -> OrderType]
    BY <1>1, <1>5, AnswerType, ZenonT(60) DEF Apply
  <2>3. QED
    BY <1>2, <1>5, <2>1, <2>2, SettleType DEF people
<1>6. ASSUME NEW o \in Orders, Answer(o, "done") \/ Answer(o, "refused"), UNCHANGED people
      PROVE  TypeOK'
  <2>1. orders' \in [Orders -> OrderType]
    BY <1>2, <1>6, AnswerType DEF Answer
  <2>2. QED
    BY <1>6, <2>1 DEF Answer, people, access
<1>7. QED
  BY <1>3, <1>4, <1>5, <1>6 DEF Owner, Confirm, Request

LEMMA StepType == ASSUME RoomAssumption, TypeOK, [Next]_vars PROVE TypeOK'
<1>1. CASE UNCHANGED vars
  BY <1>1, TypeDef, TypeNext DEF vars, people, access
<1>2. QED
  BY <1>1, DiscussionType, SeatingType, OwnerType DEF Next

\* Whatever the order of requests, the rows, the seats, the orders under way
\* and the verdicts keep the shape the code gives them.
THEOREM TypeCorrect == ASSUME RoomAssumption PROVE Spec => []TypeOK
<1>1. Init => TypeOK
  BY InitType
<1>2. TypeOK /\ [Next]_vars => TypeOK'
  BY StepType
<1>3. QED
  BY <1>1, <1>2, PTL DEF Spec

-------------------------------------------------------------------------------
(* The kinds of steps there are.                                            *)

\* Talk, seats and sessions: only while the meeting is open does anything of
\* it count, and then for the round it is in.
Talk ==
  /\ UNCHANGED <<meeting, verdicts>>
  /\ orders' \in {Stale(FALSE), orders}
  /\ \/ UNCHANGED people
     \/ /\ IsOpen
        /\ \A n \in Names : invited'[n] \in {invited[n], meeting.round}
        /\ \A s \in said' : s \in said \/ s.round = meeting.round

\* A step of the meeting that is not a decision.
Turn == Advance \/ RequestApproval \/ Resume \/ Archive

\* A decision, brought by "by", whose owner has "seen" the meeting as it is.
Decided(decision, by, seen) ==
  /\ Decidable(decision = "cancel") /\ Settle(decision, by, seen)
  /\ UNCHANGED people

LEMMA TalkIs ==
  ASSUME TypeOK, \/ \E n \in Names : Invite(n) \/ Comment(n) \/ Submit(n)
                 \/ Note \/ Waive \/ Seating
  PROVE  Talk
<1>1. invited \in [Names -> 0 .. MaxRound] /\ said \subseteq SaidType
  BY TypeDef
<1>2. CASE \E n \in Names : Invite(n)
  BY <1>1, <1>2 DEF Invite, Talk, Appended
<1>3. CASE \E n \in Names : Comment(n)
  BY <1>1, <1>3 DEF Comment, Talk, Appended
<1>4. CASE \E n \in Names : Submit(n)
  BY <1>1, <1>4 DEF Submit, Talk, Appended
<1>5. CASE Note
  BY <1>5 DEF Note, Talk, Appended
<1>6. CASE Waive
  BY <1>1, <1>6 DEF Waive, Talk, Appended
<1>7. CASE \E s \in Seats : IssueSeat(s) \/ RevokeSeat(s) \/ Recover(s)
  BY <1>7 DEF IssueSeat, RevokeSeat, Recover, Talk, Appended
<1>8. CASE \E s \in Seats, n \in Names : Claim(s, n)
  BY <1>1, <1>8 DEF Claim, Talk, Appended
<1>9. CASE \E n \in Names : LeaveSeat(n)
  BY <1>9 DEF LeaveSeat, Talk, Appended
<1>10. CASE Expire
  BY <1>10 DEF Expire, Talk
<1>11. QED
  BY <1>2, <1>3, <1>4, <1>5, <1>6, <1>7, <1>8, <1>9, <1>10 DEF Seating

LEMMA Kinds ==
  ASSUME TypeOK, Next
  PROVE  \/ Talk
         \/ Turn /\ Moved /\ UNCHANGED <<people, verdicts>>
         \/ Decide
         \/ \E o \in Orders : Prepare(o)
         \/ \E o \in Orders : ~ Applied(o) /\ Accepted(o) /\ Apply(o) /\ UNCHANGED people
         \/ \E o \in Orders : /\ orders[o].kind # "none" /\ UNCHANGED people
                              /\ Answer(o, "done") \/ (~ Applied(o) /\ ~ Accepted(o) /\ Answer(o, "refused"))
<1>1. CASE Discussion
  <2>1. CASE Turn
    BY <2>1 DEF Turn, Advance, RequestApproval, Resume, Archive
  <2>2. QED
    BY <1>1, <2>1, TalkIs DEF Discussion, Turn
<1>2. CASE Seating
  BY <1>2, TalkIs
<1>3. CASE Owner
  <2>1. ASSUME NEW o \in Orders, Confirm(o) \/ Request(o)
        PROVE  \/ ~ Applied(o) /\ Accepted(o) /\ Apply(o) /\ UNCHANGED people
               \/ /\ orders[o].kind # "none" /\ UNCHANGED people
                  /\ Answer(o, "done") \/ (~ Applied(o) /\ ~ Accepted(o) /\ Answer(o, "refused"))
    BY <2>1 DEF Confirm, Request
  <2>2. QED
    BY <1>3, <2>1 DEF Owner
<1>4. QED
  BY <1>1, <1>2, <1>3 DEF Next

-------------------------------------------------------------------------------
(* The meeting implements MeetingStates.                                    *)

LEMMA TurnIs ==
  ASSUME RoomAssumption, TypeOK, Turn
  PROVE  \/ States!NextRound /\ meeting'.round = meeting.round + 1 /\ meeting'.state = "open"
         \/ /\ States!Ask /\ RequestApproval /\ meeting'.round = meeting.round
            /\ meeting'.state = "awaiting_approval"
         \/ States!Close /\ meeting'.round = meeting.round /\ meeting'.state = meeting.state
<1>1. meeting \in MeetingType
  BY TypeDef
<1>2. meeting.round \in Nat
  BY <1>1, RoundsAre DEF MeetingType, RoomAssumption
<1>3. CASE Advance
  <2>1. meeting' = [meeting EXCEPT !.state = "open", !.round = @ + 1]
    BY <1>1, <1>3 DEF Advance, IsOpen, MeetingType
  <2>2. meeting'.round = meeting.round + 1 /\ meeting'.state = "open"
    BY <1>1, <2>1 DEF MeetingType
  <2>3. QED
    BY <1>3, <2>1, <2>2 DEF Advance, IsOpen, States!NextRound
<1>4. CASE Resume
  <2>1. meeting' = [meeting EXCEPT !.state = "open", !.round = @ + 1]
    BY <1>4 DEF Resume
  <2>2. meeting'.round = meeting.round + 1 /\ meeting'.state = "open"
    BY <1>1, <2>1 DEF MeetingType
  <2>3. QED
    BY <1>4, <2>1, <2>2 DEF Resume, States!NextRound
<1>5. CASE RequestApproval
  <2>1. meeting' = [meeting EXCEPT !.state = "awaiting_approval"]
    BY <1>5 DEF RequestApproval
  <2>2. meeting'.round = meeting.round /\ meeting'.state = "awaiting_approval"
    BY <1>1, <2>1 DEF MeetingType
  <2>3. QED
    BY <1>5, <2>1, <2>2 DEF RequestApproval, IsOpen, Ready, States!Ask
<1>6. CASE Archive
  <2>1. meeting' = [meeting EXCEPT !.archived = TRUE]
    BY <1>6 DEF Archive
  <2>2. meeting'.round = meeting.round /\ meeting'.state = meeting.state
    BY <1>1, <2>1 DEF MeetingType
  <2>3. QED
    BY <1>6, <2>1, <2>2 DEF Archive, Final, States!Close
<1>7. QED
  BY <1>3, <1>4, <1>5, <1>6 DEF Turn

LEMMA DecidedIs ==
  ASSUME RoomAssumption, TypeOK, NEW decision \in Decisions, NEW by \in Orders \cup {Nobody},
         NEW seen \in BOOLEAN, Decided(decision, by, seen)
  PROVE  States!Verdict \/ States!Cancel
<1>1. /\ meeting' = [meeting EXCEPT !.state = Outcome[decision]]
      /\ Outcome[decision] \in Final \cup {"changes_requested"}
      /\ decision = "cancel" => Outcome[decision] = "rejected"
  BY SettleType DEF Decided
<1>2. CASE decision = "cancel"
  BY <1>1, <1>2 DEF Decided, Decidable, Final, States!Cancel
<1>3. CASE decision # "cancel"
  BY <1>1, <1>3 DEF Decided, Decidable, Final, States!Verdict
<1>4. QED
  BY <1>2, <1>3

LEMMA OwnerDecides ==
  ASSUME TypeOK, \/ Decide
                 \/ \E o \in Orders : Accepted(o) /\ Apply(o) /\ UNCHANGED people
  PROVE  \E decision \in Decisions, by \in Orders \cup {Nobody}, seen \in BOOLEAN :
           Decided(decision, by, seen)
<1>1. \A o \in Orders : orders[o].seen \in BOOLEAN
  BY TypeDef DEF OrderType
<1>2. CASE Decide
  BY <1>2 DEF Decide, Decided
<1>3. ASSUME NEW o \in Orders, Accepted(o), Apply(o), UNCHANGED people
      PROVE  \E decision \in Decisions, by \in Orders \cup {Nobody}, seen \in BOOLEAN :
               Decided(decision, by, seen)
  <2>1. PICK decision \in Decisions : /\ (decision = "cancel") = orders[o].cancel
                                      /\ Settle(decision, o, orders[o].seen)
    BY <1>3 DEF Apply
  <2>2. Decided(decision, o, orders[o].seen)
    BY <1>3, <2>1 DEF Accepted, Decided
  <2>3. QED
    BY <1>1, <2>2
<1>4. QED
  BY <1>2, <1>3

LEMMA CourseStep ==
  ASSUME RoomAssumption, TypeOK, [Next]_vars PROVE [States!Course]_meeting
<1>1. CASE UNCHANGED vars
  BY <1>1 DEF vars
<1>2. CASE Talk \/ (\E o \in Orders : Prepare(o) \/ Answer(o, "done") \/ Answer(o, "refused"))
  BY <1>2 DEF Talk, Prepare, Answer
<1>3. CASE Turn
  BY <1>3, TurnIs DEF States!Course
<1>4. CASE Decide \/ \E o \in Orders : Accepted(o) /\ Apply(o) /\ UNCHANGED people
  BY <1>4, OwnerDecides, DecidedIs DEF States!Course
<1>5. QED
  BY <1>1, <1>2, <1>3, <1>4, Kinds

\* Whatever is said, claimed, revoked and decided, and however often a request
\* is repeated, the meeting takes the course its followers rely on: the owner
\* is asked at most once a round and never again in a round that was decided.
THEOREM MeetingTakesItsCourse == ASSUME RoomAssumption PROVE Spec => Course
<1>1. Init => States!Start
  BY DEF Init, States!Start
<1>2. TypeOK /\ [Next]_vars => [States!Course]_meeting
  BY CourseStep
<1>3. QED
  BY <1>1, <1>2, TypeCorrect, PTL DEF Spec, Course, States!Meeting

-------------------------------------------------------------------------------
(* Who is asked sees a complete discussion.                                 *)

LEMMA TwoVoices ==
  ASSUME RoomAssumption, Cardinality(Voices) >= 2
  PROVE  \E m, n \in Voices : m # n
<1>1. IsFiniteSet(Voices) /\ Cardinality(Voices) \in Nat
  BY FS_Subset, FS_CardinalityType DEF Voices, RoomAssumption
<1>2. Cardinality(Voices) # 0 /\ Cardinality(Voices) # 1
  BY <1>1
<1>3. PICK m \in Voices : TRUE
  BY <1>1, <1>2, FS_EmptySet
<1>4. Voices # {m}
  BY <1>2, FS_Singleton
<1>5. QED
  BY <1>3, <1>4

LEMMA ReadyIs ==
  ASSUME RoomAssumption, TypeOK, SoFar, Ready
  PROVE  /\ \A n \in Taking : Reviewed(n, meeting.round) \/ <<n, meeting.round>> \in waived
         /\ \E s, t \in said : s.kind = "review" /\ t.kind = "review" /\ s.by # t.by
         /\ \E s \in said : s.kind = "review" /\ s.round \in 2 .. meeting.round
<1>1. ASSUME NEW n \in Taking
      PROVE  Reviewed(n, meeting.round) \/ <<n, meeting.round>> \in waived
  <2>1. n \in Names /\ invited[n] \in 0 .. MaxRound /\ invited[n] # 0 /\ invited[n] <= meeting.round
    BY TypeDef DEF Taking, SoFar
  <2>2. meeting.round \in Nat
    BY TypeDef, RoundsAre DEF MeetingType, RoomAssumption
  <2>3. Person(n)
    BY <2>1, <2>2 DEF Person, RoomAssumption
  <2>4. QED
    BY <2>1, <2>3 DEF Ready, Missing
<1>2. \E s, t \in said : s.kind = "review" /\ t.kind = "review" /\ s.by # t.by
  <2>1. PICK m, n \in Voices : m # n
    BY TwoVoices DEF Ready
  <2>2. (\E s \in said : s.kind = "review" /\ s.by = m) /\ \E s \in said : s.kind = "review" /\ s.by = n
    BY DEF Voices, Reviewed
  <2>3. QED
    BY <2>1, <2>2
<1>3. \E s \in said : s.kind = "review" /\ s.round \in 2 .. meeting.round
  <2>1. PICK s \in said : s.kind = "review" /\ s.round >= 2
    BY DEF Ready, Replies
  <2>2. s.round \in Nat /\ meeting.round \in Nat /\ s.round <= meeting.round
    BY TypeDef, RoundsAre DEF SaidType, MeetingType, SoFar, RoomAssumption
  <2>3. QED
    BY <2>1, <2>2
<1>4. QED
  BY <1>1, <1>2, <1>3

\* The round never goes back.
LEMMA RoundGrows ==
  ASSUME RoomAssumption, TypeOK, Next
  PROVE  meeting.round \in Nat /\ meeting'.round \in {meeting.round, meeting.round + 1}
<1>1. meeting.round \in Nat
  BY TypeDef, RoundsAre DEF MeetingType, RoomAssumption
<1>2. CASE Turn
  BY <1>1, <1>2, TurnIs
<1>3. CASE Decide \/ \E o \in Orders : Accepted(o) /\ Apply(o) /\ UNCHANGED people
  BY <1>1, <1>3, OwnerDecides, SettleType DEF Decided
<1>4. CASE Talk \/ (\E o \in Orders : Prepare(o) \/ Answer(o, "done") \/ Answer(o, "refused"))
  BY <1>1, <1>4 DEF Talk, Prepare, Answer
<1>5. QED
  BY <1>1, <1>2, <1>3, <1>4, Kinds

\* Only talk in an open meeting adds invitations, reviews or waivers.
LEMMA PeopleStep ==
  ASSUME TypeOK, Next
  PROVE  \/ UNCHANGED people
         \/ /\ IsOpen /\ UNCHANGED meeting
            /\ \A n \in Names : invited'[n] \in {invited[n], meeting.round}
            /\ \A s \in said' : s \in said \/ s.round = meeting.round
<1>1. CASE Decide
  BY <1>1 DEF Decide
<1>2. ASSUME NEW o \in Orders, Prepare(o) PROVE UNCHANGED people
  BY <1>2 DEF Prepare
<1>3. QED
  BY <1>1, <1>2, Kinds DEF Talk

LEMMA SoFarStep == ASSUME RoomAssumption, TypeOK, SoFar, Next PROVE SoFar'
<1>1. /\ meeting.round \in Nat /\ meeting'.round \in {meeting.round, meeting.round + 1}
      /\ \A n \in Names : invited[n] \in Nat
      /\ \A s \in said : s.round \in Nat
  BY RoundGrows, TypeDef, RoundsAre DEF SaidType, RoomAssumption
<1>2. CASE UNCHANGED people
  <2>1. invited' = invited /\ said' = said
    BY <1>2 DEF people
  <2>2. QED
    BY <1>1, <2>1 DEF SoFar
<1>3. CASE /\ UNCHANGED meeting
           /\ \A n \in Names : invited'[n] \in {invited[n], meeting.round}
           /\ \A s \in said' : s \in said \/ s.round = meeting.round
  <2>1. \A n \in Names : invited'[n] <= meeting.round
    BY <1>1, <1>3 DEF SoFar
  <2>2. \A s \in said' : s.round <= meeting.round
    BY <1>1, <1>3 DEF SoFar
  <2>3. QED
    BY <1>3, <2>1, <2>2 DEF SoFar
<1>4. QED
  BY <1>2, <1>3, PeopleStep

\* The meeting comes to ask, or to be approved, only by RequestApproval and by
\* a verdict on a meeting that asks.
LEMMA AskedStep ==
  ASSUME RoomAssumption, TypeOK, Next, meeting'.state \in {"awaiting_approval", "approved"}
  PROVE  \/ RequestApproval /\ meeting'.round = meeting.round /\ UNCHANGED people
         \/ /\ meeting.state \in {"awaiting_approval", "approved"}
            /\ meeting'.round = meeting.round /\ UNCHANGED people
<1>1. CASE Talk \/ (\E o \in Orders : Prepare(o) \/ ((Answer(o, "done") \/ Answer(o, "refused")) /\ UNCHANGED people))
  BY <1>1 DEF Talk, Prepare, Answer, IsOpen
<1>2. CASE Turn /\ UNCHANGED people
  BY <1>2, TurnIs
<1>3. CASE Decide \/ \E o \in Orders : Accepted(o) /\ Apply(o) /\ UNCHANGED people
  <2>1. PICK decision \in Decisions, by \in Orders \cup {Nobody}, seen \in BOOLEAN :
           Decided(decision, by, seen)
    BY <1>3, OwnerDecides
  <2>2. /\ meeting'.state = Outcome[decision] /\ meeting'.round = meeting.round
        /\ decision = "cancel" => Outcome[decision] = "rejected"
    BY <2>1, SettleType DEF Decided
  <2>3. decision # "cancel"
    BY <2>2
  <2>4. QED
    BY <2>1, <2>2, <2>3 DEF Decided, Decidable
<1>4. QED
  BY <1>1, <1>2, <1>3, Kinds

LEMMA AskedIsReadyStep ==
  ASSUME RoomAssumption, TypeOK, SoFar, AskedIsReady, Next PROVE AskedIsReady'
<1> SUFFICES ASSUME meeting'.state \in {"awaiting_approval", "approved"} PROVE AskedIsReady'
  BY DEF AskedIsReady
<1>1. /\ meeting'.round = meeting.round /\ invited' = invited /\ said' = said /\ waived' = waived
      /\ RequestApproval \/ meeting.state \in {"awaiting_approval", "approved"}
  BY AskedStep DEF people
<1>2. /\ \A n \in Taking : Reviewed(n, meeting.round) \/ <<n, meeting.round>> \in waived
      /\ \E s, t \in said : s.kind = "review" /\ t.kind = "review" /\ s.by # t.by
      /\ \E s \in said : s.kind = "review" /\ s.round \in 2 .. meeting.round
  <2>1. CASE RequestApproval
    BY <2>1, ReadyIs DEF RequestApproval
  <2>2. CASE meeting.state \in {"awaiting_approval", "approved"}
    BY <2>2 DEF AskedIsReady
  <2>3. QED
    BY <1>1, <2>1, <2>2
<1>3. QED
  BY <1>1, <1>2 DEF AskedIsReady, Taking, Reviewed

\* While the owner is asked, and for good once the owner has approved, every
\* participant has spoken or is excused in the round put to the owner, two
\* people have reviewed, and somebody has after the first round.
THEOREM AskedOnlyWhenReady == ASSUME RoomAssumption PROVE Spec => []AskedIsReady
<1> DEFINE I == SoFar /\ AskedIsReady
<1>1. Init => I
  BY RoundsAre DEF Init, SoFar, AskedIsReady, RoomAssumption
<1>2. TypeOK /\ I /\ [Next]_vars => I'
  <2> SUFFICES ASSUME TypeOK, I, [Next]_vars PROVE I'
    OBVIOUS
  <2>1. CASE UNCHANGED vars
    BY <2>1 DEF vars, people, SoFar, AskedIsReady, Taking, Reviewed
  <2>2. CASE Next
    BY <2>2, SoFarStep, AskedIsReadyStep
  <2>3. QED
    BY <2>1, <2>2
<1>3. QED
  <2> HIDE DEF I
  <2>1. I => AskedIsReady
    BY DEF I
  <2>2. QED
    BY <1>1, <1>2, <2>1, TypeCorrect, PTL DEF Spec

-------------------------------------------------------------------------------
(* A verdict is on what its owner has seen.                                 *)

\* A decision that counts finds the meeting waiting for it, and adds its entry.
Entry(v, decision, by) == v.round = meeting.round /\ v.cancel = (decision = "cancel") /\ v.by = by
LEMMA Settled ==
  ASSUME RoomAssumption, TypeOK, NEW decision \in Decisions, NEW by \in Orders \cup {Nobody},
         NEW seen \in BOOLEAN, Decided(decision, by, seen)
  PROVE  \E v : /\ verdicts' = verdicts \cup {v} /\ Entry(v, decision, by) /\ v.seen = seen
                /\ meeting'.round = meeting.round
                /\ meeting'.state \notin {"open", "awaiting_approval"}
                /\ decision # "cancel" => meeting.state = "awaiting_approval"
<1> DEFINE v == [round |-> meeting.round, cancel |-> decision = "cancel", by |-> by, seen |-> seen]
<1>1. /\ verdicts' = verdicts \cup {v} /\ meeting'.round = meeting.round
      /\ meeting'.state \in Final \cup {"changes_requested"}
  BY SettleType DEF Decided
<1>2. Entry(v, decision, by) /\ v.seen = seen
  BY DEF Entry
<1>3. decision # "cancel" => meeting.state = "awaiting_approval"
  BY DEF Decided, Decidable
<1>4. QED
  <2> HIDE DEF v
  <2>1. QED
    BY <1>1, <1>2, <1>3, RoundsAre

\* After a decision no order is fresh any more, and "by" has been answered.
Overtaken(by) ==
  \A o \in Orders : /\ ~ orders'[o].fresh /\ orders'[o].kind = orders[o].kind
                    /\ o # by => orders'[o].answer = orders[o].answer
                    /\ o = by => orders'[o].answer = "done"

\* The same, with the order that brought the decision: one that nothing has
\* happened since it was prepared, or the owner at the command line.
LEMMA SeenDecides ==
  ASSUME RoomAssumption, TypeOK, OrdersKnown,
         \/ Decide
         \/ \E o \in Orders : Accepted(o) /\ Apply(o) /\ UNCHANGED people
  PROVE  \E decision \in Decisions, by \in Orders \cup {Nobody} :
           Decided(decision, by, TRUE) /\ Overtaken(by)
<1>1. /\ Stale(TRUE) \in [Orders -> OrderType]
      /\ \A o \in Orders : /\ ~ Stale(TRUE)[o].fresh
                           /\ Stale(TRUE)[o].kind = orders[o].kind
                           /\ Stale(TRUE)[o].answer = orders[o].answer
  BY StaleType
<1>2. CASE Decide
  <2>1. PICK decision \in Decisions : Decided(decision, Nobody, TRUE)
    BY <1>2 DEF Decide, Decided
  <2>2. orders' = Stale(TRUE) /\ Nobody \notin Orders
    BY <1>2 DEF Decide, Moved, RoomAssumption
  <2>3. Overtaken(Nobody)
    BY <1>1, <2>2 DEF Overtaken
  <2>4. QED
    BY <2>1, <2>3
<1>3. ASSUME NEW o \in Orders, Accepted(o), Apply(o), UNCHANGED people
      PROVE  \E decision \in Decisions : Decided(decision, o, TRUE) /\ Overtaken(o)
  <2>1. PICK decision \in Decisions : /\ (decision = "cancel") = orders[o].cancel
                                      /\ Settle(decision, o, orders[o].seen)
    BY <1>3 DEF Apply
  <2>2. orders[o].seen = TRUE
    <3>1. orders[o].seen \in BOOLEAN
      BY TypeDef DEF OrderType
    <3>2. QED
      BY <1>3, <3>1 DEF Accepted, OrdersKnown
  <2>3. Decided(decision, o, TRUE)
    BY <1>3, <2>1, <2>2 DEF Accepted, Decided
  <2>4. orders' = [Stale(TRUE) EXCEPT ![o].answer = "done"]
    BY <1>3 DEF Apply
  <2>5. Overtaken(o)
    <3> DEFINE f == Stale(TRUE)
    <3>1. f \in [Orders -> OrderType] /\ orders' = [f EXCEPT ![o].answer = "done"]
      BY <1>1, <2>4
    <3> HIDE DEF f
    <3>2. /\ \A u \in Orders : u # o => orders'[u] = f[u]
          /\ orders'[o].kind = f[o].kind /\ orders'[o].fresh = f[o].fresh
          /\ orders'[o].answer = "done"
      BY <3>1, AnswerType
    <3> USE DEF f
    <3>3. QED
      BY <1>1, <3>2 DEF Overtaken
  <2>6. QED
    BY <2>3, <2>5
<1>4. QED
  BY <1>2, <1>3

LEMMA RoundsClosedStep ==
  ASSUME RoomAssumption, TypeOK, RoundsClosed, OrdersKnown, Next PROVE RoundsClosed'
<1>1. /\ meeting.round \in Nat /\ meeting'.round \in {meeting.round, meeting.round + 1}
      /\ \A v \in verdicts : v.round \in Nat
  BY RoundGrows, TypeDef, RoundsAre DEF VerdictType, RoomAssumption
<1>2. CASE UNCHANGED <<meeting, verdicts>>
  BY <1>2 DEF RoundsClosed
<1>3. CASE Turn /\ UNCHANGED verdicts
  <2> SUFFICES ASSUME NEW v \in verdicts
               PROVE  /\ v.round <= meeting'.round
                      /\ ~ v.cancel /\ v.round = meeting'.round =>
                           meeting'.state \notin {"open", "awaiting_approval"}
    BY <1>3 DEF RoundsClosed
  <2>1. v.round <= meeting.round
    BY DEF RoundsClosed
  <2>2. CASE meeting'.round = meeting.round + 1
    BY <1>1, <2>1, <2>2
  <2>3. CASE RequestApproval /\ meeting'.round = meeting.round
    BY <2>1, <2>3 DEF RequestApproval, IsOpen, RoundsClosed
  <2>4. CASE meeting'.round = meeting.round /\ meeting'.state = meeting.state
    BY <2>1, <2>4 DEF RoundsClosed
  <2>5. QED
    BY <1>3, <2>2, <2>3, <2>4, TurnIs
<1>4. CASE Decide \/ \E o \in Orders : Accepted(o) /\ Apply(o) /\ UNCHANGED people
  <2>1. PICK decision \in Decisions, by \in Orders \cup {Nobody} : Decided(decision, by, TRUE)
    BY <1>4, SeenDecides
  <2>2. PICK v : /\ verdicts' = verdicts \cup {v} /\ Entry(v, decision, by)
                 /\ meeting'.round = meeting.round
                 /\ meeting'.state \notin {"open", "awaiting_approval"}
    BY <2>1, Settled
  <2>3. \A w \in verdicts' : w.round <= meeting.round
    BY <1>1, <2>2 DEF RoundsClosed, Entry
  <2>4. QED
    BY <2>2, <2>3 DEF RoundsClosed
<1>5. QED
  BY <1>2, <1>3, <1>4, Kinds DEF Talk, Prepare, Answer

\* What was applied stays applied, and only a decision adds to it.
LEMMA OrdersKnownStep ==
  ASSUME RoomAssumption, TypeOK, OrdersKnown, Next PROVE OrdersKnown'
<1>1. orders \in [Orders -> OrderType]
  BY TypeDef
<1>2. \A moved \in BOOLEAN : \A o \in Orders :
         /\ ~ Stale(moved)[o].fresh /\ Stale(moved)[o].kind = orders[o].kind
         /\ Stale(moved)[o].answer = orders[o].answer
  BY StaleType
<1>3. CASE orders' \in {Stale(TRUE), Stale(FALSE)} /\ UNCHANGED verdicts
  <2>1. PICK moved \in BOOLEAN : orders' = Stale(moved)
    BY <1>3
  <2>2. \A o \in Orders : /\ ~ orders'[o].fresh /\ orders'[o].kind = orders[o].kind
                          /\ orders'[o].answer = orders[o].answer
    BY <1>2, <2>1
  <2>3. QED
    BY <1>3, <2>2 DEF OrdersKnown, Applied
<1>4. CASE UNCHANGED <<orders, meeting, verdicts>>
  BY <1>4 DEF OrdersKnown, Applied, Decidable
<1>5. ASSUME NEW o \in Orders, Prepare(o) PROVE OrdersKnown'
  <2>1. PICK cancel \in BOOLEAN, kind \in {"code", "request"} :
          /\ Decidable(cancel)
          /\ orders' = [orders EXCEPT ![o] = [kind |-> kind, cancel |-> cancel, fresh |-> TRUE,
                                              seen |-> TRUE, answer |-> "none"]]
    BY <1>5 DEF Prepare
  <2>2. /\ orders'[o].kind = kind /\ orders'[o].cancel = cancel /\ orders'[o].seen
        /\ orders'[o].answer = "none"
    BY <1>1, <2>1
  <2>3. \A u \in Orders \ {o} : orders'[u] = orders[u]
    BY <1>1, <2>1
  <2>4. UNCHANGED <<meeting, verdicts>>
    BY <1>5 DEF Prepare
  <2>5. QED
    BY <2>1, <2>2, <2>3, <2>4 DEF OrdersKnown, Applied, Decidable
<1>6. ASSUME NEW o \in Orders, NEW answer \in {"done", "refused"}, Answer(o, answer),
             orders[o].kind # "none", answer = "refused" => ~ Applied(o) /\ ~ Accepted(o)
      PROVE  OrdersKnown'
  <2>1. orders' = [orders EXCEPT ![o].answer = answer] /\ UNCHANGED <<meeting, verdicts>>
    BY <1>6 DEF Answer
  <2>2. /\ \A u \in Orders : u # o => orders'[u] = orders[u]
        /\ orders'[o].kind = orders[o].kind /\ orders'[o].cancel = orders[o].cancel
        /\ orders'[o].fresh = orders[o].fresh /\ orders'[o].seen = orders[o].seen
        /\ orders'[o].answer = answer
    BY <1>1, <2>1, AnswerType
  <2>3. orders[o].fresh => Accepted(o)
    BY DEF OrdersKnown, Accepted
  <2>4. QED
    BY <1>6, <2>1, <2>2, <2>3 DEF OrdersKnown, Applied, Decidable
<1>7. CASE Decide \/ \E o \in Orders : Accepted(o) /\ Apply(o) /\ UNCHANGED people
  <2>1. PICK decision \in Decisions, by \in Orders \cup {Nobody} :
           Decided(decision, by, TRUE) /\ Overtaken(by)
    BY <1>7, SeenDecides
  <2>2. PICK v : verdicts' = verdicts \cup {v} /\ Entry(v, decision, by)
    BY <2>1, Settled
  <2>3. \A o \in Orders : o # by => Applied(o)' = Applied(o)
    BY <2>2 DEF Applied, Entry
  <2>4. QED
    BY <2>1, <2>3 DEF OrdersKnown, Overtaken
<1>8. QED
  BY <1>3, <1>4, <1>5, <1>6, <1>7, Kinds DEF Talk, Moved

LEMMA VerdictStep ==
  ASSUME RoomAssumption, TypeOK, RoundsClosed, OrdersKnown, DecidesWhatWasSeen, Next
  PROVE  \A v, w \in verdicts' : v.seen /\ (v.round = w.round /\ ~ v.cancel /\ ~ w.cancel => v = w)
<1>1. CASE UNCHANGED verdicts
  BY <1>1 DEF DecidesWhatWasSeen
<1>2. CASE Decide \/ \E o \in Orders : Accepted(o) /\ Apply(o) /\ UNCHANGED people
  <2>1. PICK decision \in Decisions, by \in Orders \cup {Nobody} : Decided(decision, by, TRUE)
    BY <1>2, SeenDecides
  <2>2. PICK v : /\ verdicts' = verdicts \cup {v} /\ Entry(v, decision, by) /\ v.seen = TRUE
                 /\ decision # "cancel" => meeting.state = "awaiting_approval"
    BY <2>1, Settled
  <2>3. ~ v.cancel => \A w \in verdicts : w.cancel \/ w.round # v.round
    BY <2>2 DEF Entry, RoundsClosed
  <2>4. QED
    BY <2>2, <2>3 DEF DecidesWhatWasSeen
<1>3. QED
  BY <1>1, <1>2, Kinds DEF Talk, Prepare, Answer

\* A decision settles what its owner has seen when making it, however late it
\* arrives; no round is settled by two verdicts, whoever brings them; and an
\* order that was refused was not applied and never will be, also when its
\* answer was lost and the request was repeated.
THEOREM VerdictsOnWhatWasSeen == ASSUME RoomAssumption PROVE Spec => []DecidesWhatWasSeen
<1> DEFINE I == RoundsClosed /\ OrdersKnown /\ DecidesWhatWasSeen
<1>1. Init => I
  BY DEF Init, RoundsClosed, OrdersKnown, DecidesWhatWasSeen, NoOrder, Applied
<1>2. TypeOK /\ I /\ [Next]_vars => I'
  <2> SUFFICES ASSUME TypeOK, I, [Next]_vars PROVE I'
    OBVIOUS
  <2>1. CASE UNCHANGED vars
    BY <2>1 DEF vars, people, RoundsClosed, OrdersKnown, DecidesWhatWasSeen, Applied, Decidable
  <2>2. CASE Next
    <3>1. RoundsClosed' /\ OrdersKnown'
      BY <2>2, RoundsClosedStep, OrdersKnownStep
    <3>2. DecidesWhatWasSeen'
      BY <2>2, <3>1, VerdictStep DEF DecidesWhatWasSeen, OrdersKnown
    <3>3. QED
      BY <3>1, <3>2
  <2>3. QED
    BY <2>1, <2>2
<1>3. QED
  <2> HIDE DEF I
  <2>1. I => DecidesWhatWasSeen
    BY DEF I
  <2>2. QED
    BY <1>1, <1>2, <2>1, TypeCorrect, PTL DEF Spec
===============================================================================
