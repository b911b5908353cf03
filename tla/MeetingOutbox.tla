---------------------------- MODULE MeetingOutbox ----------------------------
(***************************************************************************)
(* The notices that tell the owner of a meeting waiting for a verdict       *)
(* (features/review_meeting/notifications), over the states of the meeting. *)
(*                                                                          *)
(* The request for approval writes a row of the outbox in its transaction.  *)
(* A notifier claims the row for a time, tells the owner over the channels  *)
(* of the configuration until one of them accepts, and writes the outcome.  *)
(* It may stop anywhere and be started again; the platform may have         *)
(* delivered a message it reports as failed.  One row a round, as there is  *)
(* one request a round.                                                     *)
(***************************************************************************)
EXTENDS MeetingStates

CONSTANTS Notifiers,    \* one is started by the plug-in
          MaxAttempts,  \* attempts of a notice: 5 in the code
          Channels      \* number of channels of the owner

ASSUME OutboxAssumption == MaxAttempts \in Nat \ {0} /\ Channels \in Nat \ {0}

VARIABLES outbox,    \* meeting_notification_outbox
          notifier,  \* what each notifier is about
          belated    \* messages that left although the owner was not asked any more

outboxVars == <<meeting, outbox, notifier, belated>>

NoNotice == [state |-> "none", attempts |-> 0, due |-> FALSE]
Resting == [pc |-> "idle", round |-> 1, left |-> 0, last |-> FALSE, outcome |-> "none"]
Settled == {"delivered", "cancelled", "failed"}

OutboxInit ==
  /\ Start
  /\ outbox = [r \in Rounds |-> NoNotice]
  /\ notifier = [n \in Notifiers |-> Resting]
  /\ belated = [r \in Rounds |-> 0]

(* request-approval writes the state and the row in one transaction.        *)
Requested ==
  /\ Ask
  /\ outbox' = [outbox EXCEPT ![meeting.round] = [NoNotice EXCEPT !.state = "pending", !.due = TRUE]]
  /\ UNCHANGED <<notifier, belated>>
Other == (NextRound \/ Verdict \/ Cancel \/ Close) /\ UNCHANGED <<outbox, notifier, belated>>

(* next_attempt has come. *)
Due(r) ==
  /\ outbox[r].state # "none" /\ ~ outbox[r].due
  /\ outbox' = [outbox EXCEPT ![r].due = TRUE]
  /\ UNCHANGED <<meeting, notifier, belated>>

Candidates == {r \in Rounds : /\ outbox[r].state \in {"pending", "sending"}
                              /\ outbox[r].attempts < MaxAttempts /\ outbox[r].due}
(* The owner is asked, and by this very request. *)
Asked(r) == meeting.state = "awaiting_approval" /\ ~ meeting.archived /\ meeting.round = r

ClaimUncounted(n) ==
  /\ notifier[n].pc = "idle"
  /\ \E r \in Candidates :
       /\ \A q \in Candidates : r <= q
       /\ IF Asked(r)
          THEN /\ outbox' = [outbox EXCEPT ![r] = [outbox[r] EXCEPT !.state = "sending", !.due = FALSE]]
               /\ notifier' = [notifier EXCEPT ![n] =
                    [pc |-> "check", round |-> r, left |-> Channels,
                     last |-> outbox[r].attempts + 1 = MaxAttempts, outcome |-> "none"]]
          ELSE outbox' = [outbox EXCEPT ![r].state = "cancelled"] /\ UNCHANGED notifier
  /\ UNCHANGED <<meeting, belated>>
ClaimNotice(n) ==
  /\ notifier[n].pc = "idle"
  /\ \E r \in Candidates :
       /\ \A q \in Candidates : r <= q
       /\ IF Asked(r)
          THEN /\ outbox' = [outbox EXCEPT ![r] =
                    [outbox[r] EXCEPT !.state = "sending", !.due = FALSE, !.attempts = @ + 1]]
               /\ notifier' = [notifier EXCEPT ![n] =
                    [pc |-> "check", round |-> r, left |-> Channels,
                     last |-> outbox[r].attempts + 1 = MaxAttempts, outcome |-> "none"]]
          ELSE outbox' = [outbox EXCEPT ![r].state = "cancelled"] /\ UNCHANGED notifier
  /\ UNCHANGED <<meeting, belated>>

CheckNever(n) ==
  /\ notifier[n].pc = "check"
  /\ notifier' = [notifier EXCEPT ![n].pc = "send"]
  /\ UNCHANGED <<meeting, outbox, belated>>
(* Asked again before every attempt and every fall-back. *)
CheckAsked(n) ==
  /\ notifier[n].pc = "check"
  /\ LET q == notifier[n]
     IN  notifier' = [notifier EXCEPT ![n] =
           IF Asked(q.round) THEN [q EXCEPT !.pc = "send"]
           ELSE [q EXCEPT !.pc = "write", !.outcome = "cancelled"]]
  /\ UNCHANGED <<meeting, outbox, belated>>

(* send_to: accepted, or not, be it delivered or not. *)
SendNotice(n) ==
  /\ notifier[n].pc = "send"
  /\ LET q == notifier[n]
     IN  /\ belated' = IF Asked(q.round) THEN belated ELSE [belated EXCEPT ![q.round] = @ + 1]
         /\ \/ notifier' = [notifier EXCEPT ![n] = [q EXCEPT !.pc = "write", !.outcome = "delivered"]]
            \/ notifier' = [notifier EXCEPT ![n] =
                    IF q.left > 1 THEN [q EXCEPT !.pc = "check", !.left = @ - 1]
                    ELSE [q EXCEPT !.pc = "write"]]
  /\ UNCHANGED <<meeting, outbox>>

WriteOutcome(n) ==
  /\ notifier[n].pc = "write"
  /\ LET q == notifier[n]
     IN  outbox' = [outbox EXCEPT ![q.round] =
           [outbox[q.round] EXCEPT !.due = FALSE,
                                   !.state = IF q.outcome # "none" THEN q.outcome
                                             ELSE IF q.last THEN "failed" ELSE "pending"]]
  /\ notifier' = [notifier EXCEPT ![n] = Resting]
  /\ UNCHANGED <<meeting, belated>>

NotifierStops(n) ==
  /\ notifier[n].pc # "idle"
  /\ notifier' = [notifier EXCEPT ![n] = Resting]
  /\ UNCHANGED <<meeting, outbox, belated>>

Notify(n) == ClaimNotice(n) \/ CheckAsked(n) \/ SendNotice(n) \/ WriteOutcome(n)
OutboxNext == \/ Requested
        \/ Other
        \/ \E r \in Rounds : Due(r)
        \/ \E n \in Notifiers : Notify(n) \/ NotifierStops(n)

OutboxSpec == OutboxInit /\ [][OutboxNext]_outboxVars

(* The notifier looks every few seconds, and time passes. *)
FairOutboxSpec ==
  /\ OutboxSpec
  /\ \A n \in Notifiers : WF_outboxVars(Notify(n))
  /\ \A r \in Rounds : WF_outboxVars(Due(r))

-------------------------------------------------------------------------------
(* The values of the variables. *)
NoticesTypeOK ==
  /\ outbox \in [Rounds -> [state : {"none", "pending", "sending"} \cup Settled,
                            attempts : 0 .. MaxAttempts, due : BOOLEAN]]
  /\ notifier \in [Notifiers -> [pc : {"idle", "check", "send", "write"}, round : Rounds,
                                 left : 0 .. Channels, last : BOOLEAN,
                                 outcome : {"none", "delivered", "cancelled"}]]
  /\ belated \in [Rounds -> Nat]

(* After the owner has decided, or the meeting was cancelled, at most one    *)
(* message about the request leaves: the one whose check came just before;   *)
(* no fall-back, no retry and no restarted notifier sends another.           *)
LateByOne == \A r \in Rounds : belated[r] <= 1

(* Every notice is settled, however often the notifier stops, unless it      *)
(* stops in the very last attempt, after which the row is left as it is.     *)
NoticeSettles ==
  \A r \in Rounds : outbox[r].state = "pending" ~>
    \/ outbox[r].state \in Settled
    \/ outbox[r].state = "sending" /\ outbox[r].attempts = MaxAttempts
===============================================================================
