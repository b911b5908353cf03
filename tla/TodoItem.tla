------------------------------ MODULE TodoItem ------------------------------
(***************************************************************************)
(* One todo that follows a case of another system (features/todo), with     *)
(* everybody who writes its row: the consumers of the case's events         *)
(* (features/billing/quality_todo), the person, and the ticks that remind.  *)
(*                                                                          *)
(* Every operation of the repository is one transaction and one action.     *)
(* What spans transactions is modelled in steps: a consumer records an      *)
(* event and then acknowledges it, and may stop in between; a tick reads    *)
(* the row, claims the reminder, sends it, and gives the claim back if the  *)
(* channel did not confirm.  Two consumers and two ticks may run at once:   *)
(* the timed one, and one started by a command.                             *)
(*                                                                          *)
(* A claim is written into notified_due_at as the moment of the tick that   *)
(* made it; the model writes the tick, and once the tick is over "past", or *)
(* "lost" if it stopped.  The due dates are moments whose time has come.    *)
(***************************************************************************)
EXTENDS Integers, Sequences

CONSTANTS Consumers, Ticks,
          Kinds,         \* of the todo: "code" (a quality case) or "notice" (a new bill)
          Dues,          \* due dates a person may set, and the one it is created with
          MaxRevision,   \* bound: events of the case
          MaxEdits       \* bound: operations of the person

ASSUME TodoAssumption ==
  /\ MaxRevision \in Nat \ {0} /\ MaxEdits \in Nat
  /\ Kinds \subseteq {"code", "notice"} /\ Dues # {}
  /\ Ticks \cap {"null", "past", "lost"} = {}

VARIABLES history,   \* the events of the case, the n-th with revision n
          acked,     \* revisions the other system has been told are recorded
          consumer,  \* what each consumer is about
          receipt,   \* todo_source_receipts
          row,       \* the row of todos
          tick,      \* what each tick is about
          kind,      \* kind of the row
          edits,     \* operations of the person so far
          told,      \* reminders confirmed since the reminder was armed
          hands,     \* the person has changed this row
          closed     \* cycle in which the person closed the row, 0 if not

todoVars == <<history, acked, consumer, receipt, row, tick, kind, edits, told, hands, closed>>
source == <<history, acked, consumer, receipt>>
ghosts == <<told, hands, closed>>

Revisions == 1 .. MaxRevision
Open == {"pending", "active"}
NoRow == [status |-> "none", revision |-> 0, cycle |-> 1, human |-> FALSE, enabled |-> TRUE,
          notified |-> "null", due |-> CHOOSE d \in Dues : TRUE, dueTold |-> CHOOSE d \in Dues : TRUE]
IdleConsumer == [pc |-> "idle", at |-> 1]
IdleTick == [pc |-> "idle", due |-> CHOOSE d \in Dues : TRUE, same |-> FALSE, fresh |-> FALSE]

TodoInit ==
  /\ history = <<>> /\ acked = {}
  /\ consumer = [c \in Consumers |-> IdleConsumer]
  /\ receipt = [revision |-> 0, cycle |-> 1]
  /\ row = NoRow
  /\ tick = [t \in Ticks |-> IdleTick]
  /\ kind \in Kinds
  /\ edits = 0 /\ told = 0 /\ hands = FALSE /\ closed = 0

-----------------------------------------------------------------------------
(* The other system: a case is found, found again, solved, and relapses.    *)

Resolved(r) == history[r].type = "resolved"
Happen ==
  /\ Len(history) < MaxRevision
  /\ \E type \in {"detected", "resolved"} :
       LET solved == Len(history) > 0 /\ Resolved(Len(history))
           cycle  == IF Len(history) = 0 THEN 1 ELSE history[Len(history)].cycle
       IN  /\ type = "resolved" => Len(history) > 0 /\ ~ solved /\ kind = "code"
           /\ history' = Append(history, [type |-> type, cycle |-> IF solved THEN cycle + 1 ELSE cycle])
  /\ UNCHANGED <<acked, consumer, receipt, row, tick, kind, edits, ghosts>>

(* The oldest event that was not acknowledged when quality_events was read.   *)
(* That another run records and acknowledges it meanwhile does not keep this  *)
(* one from applying it, however late.                                        *)
Fetch(c) ==
  /\ consumer[c].pc = "idle"
  /\ \E r \in Revisions \ acked :
       /\ r <= Len(history) /\ \A q \in Revisions \ acked : r <= q
       /\ consumer' = [consumer EXCEPT ![c] = [pc |-> "apply", at |-> r]]
  /\ UNCHANGED <<history, acked, receipt, row, tick, kind, edits, ghosts>>

-----------------------------------------------------------------------------
(* Recording an event.                                                      *)

Larger(a, b) == IF a >= b THEN a ELSE b
IsStaleByRow(revision, cycle) ==
  row.status # "none" /\ (revision <= row.revision \/ cycle < row.cycle)
(* A deleted row leaves its receipt behind. *)
IsStale(revision, cycle) ==
  LET seen == row.status # "none"
  IN  \/ revision <= Larger(IF seen THEN row.revision ELSE 0, receipt.revision)
      \/ cycle < Larger(IF seen THEN row.cycle ELSE 1, receipt.cycle)

(* The reminder may go out again: whatever was claimed belongs to the past. *)
Rearmed == told' = 0 /\ tick' = [t \in Ticks |-> [tick[t] EXCEPT !.fresh = FALSE]]

Protected(cycle) ==
  row.status = "dropped" \/ (row.status = "done" /\ (cycle <= row.cycle \/ row.human))

Upsert(revision, cycle) ==
  IF row.status = "none"
  THEN /\ row' = [NoRow EXCEPT !.status = "pending", !.revision = revision, !.cycle = cycle]
       /\ hands' = FALSE /\ closed' = 0 /\ Rearmed
  ELSE IF row.status = "done" /\ ~ Protected(cycle)
  THEN /\ row' = [row EXCEPT !.status = "pending", !.revision = revision, !.cycle = cycle,
                             !.notified = "null"]
       /\ UNCHANGED <<hands, closed>> /\ Rearmed
  ELSE /\ row' = [row EXCEPT !.revision = revision, !.cycle = cycle]
       /\ UNCHANGED <<tick, ghosts>>

Resolve(revision, cycle) ==
  /\ row' = IF row.status = "none" THEN row
            ELSE [row EXCEPT !.revision = revision, !.cycle = cycle,
                             !.status = IF @ \in Open /\ ~ row.human THEN "done" ELSE @]
  /\ UNCHANGED <<tick, ghosts>>

Apply(c) ==
  /\ consumer[c].pc = "apply"
  /\ LET r == consumer[c].at
         cycle == history[r].cycle
     IN  IF IsStale(r, cycle) THEN UNCHANGED <<receipt, row, tick, ghosts>>
         ELSE /\ receipt' = [revision |-> r, cycle |-> cycle]
              /\ IF Resolved(r) THEN Resolve(r, cycle) ELSE Upsert(r, cycle)
  /\ consumer' = [consumer EXCEPT ![c].pc = "ack"]
  /\ UNCHANGED <<history, acked, kind, edits>>

Ack(c) ==
  /\ consumer[c].pc = "ack"
  /\ acked' = acked \cup {consumer[c].at}
  /\ consumer' = [consumer EXCEPT ![c] = IdleConsumer]
  /\ UNCHANGED <<history, receipt, row, tick, kind, edits, ghosts>>

(* An error, the deadline, a stop: the rest waits for another run.  The      *)
(* acknowledgement may have arrived although its answer did not.             *)
GiveUp(c) ==
  /\ consumer[c].pc # "idle"
  /\ consumer[c].pc = "apply" => UNCHANGED acked
  /\ consumer[c].pc = "ack" => acked' \in {acked, acked \cup {consumer[c].at}}
  /\ consumer' = [consumer EXCEPT ![c] = IdleConsumer]
  /\ UNCHANGED <<history, receipt, row, tick, kind, edits, ghosts>>

-----------------------------------------------------------------------------
(* The person.                                                              *)

Edit ==
  /\ row.status # "none" /\ edits < MaxEdits
  /\ edits' = edits + 1
  /\ UNCHANGED <<source, kind>>

StartTodo ==   \* start
  /\ Edit /\ row' = [row EXCEPT !.status = "active", !.notified = "null", !.human = TRUE]
  /\ hands' = TRUE /\ closed' = 0 /\ Rearmed
Renew ==   \* resume
  /\ Edit /\ row' = [row EXCEPT !.status = "pending", !.notified = "null"]
  /\ hands' = TRUE /\ closed' = 0 /\ Rearmed
Snooze ==
  /\ Edit /\ row' = [row EXCEPT !.status = "snoozed", !.notified = "null"]
  /\ hands' = TRUE /\ closed' = 0 /\ Rearmed
Shelve ==
  /\ Edit /\ row' = [row EXCEPT !.status = "shelved"]
  /\ hands' = TRUE /\ closed' = 0 /\ UNCHANGED <<told, tick>>
CloseIt == \* done, drop
  /\ Edit /\ \E s \in {"done", "dropped"} : row' = [row EXCEPT !.status = s]
  /\ hands' = TRUE /\ closed' = row.cycle /\ UNCHANGED <<told, tick>>
Redate ==  \* update with due_at
  /\ Edit /\ \E d \in Dues : row' = [row EXCEPT !.due = d, !.notified = "null", !.human = TRUE]
  /\ hands' = TRUE /\ UNCHANGED closed /\ Rearmed
Rewrite == \* update of other fields
  /\ Edit /\ row' = [row EXCEPT !.human = TRUE]
  /\ hands' = TRUE /\ UNCHANGED <<told, closed, tick>>
Mute ==    \* update of notify_enabled, which leaves the row to its source
  /\ Edit /\ row' = [row EXCEPT !.enabled = ~ @]
  /\ UNCHANGED <<ghosts, tick>>
Delete ==
  /\ Edit /\ row' = NoRow
  /\ hands' = TRUE /\ closed' = 0 /\ told' = 0
  /\ tick' = [t \in Ticks |-> [tick[t] EXCEPT !.same = FALSE, !.fresh = FALSE]]

Person == StartTodo \/ Renew \/ Snooze \/ Shelve \/ CloseIt \/ Redate \/ Rewrite \/ Mute \/ Delete

-----------------------------------------------------------------------------
(* The ticks.                                                               *)

(* The first transaction of a tick wakes what was put off. *)
Wake(t) ==
  /\ tick[t].pc = "idle" /\ row.status = "snoozed"
  /\ row' = [row EXCEPT !.status = "pending"]
  /\ UNCHANGED <<source, tick, kind, edits, ghosts>>

Look(t) ==
  /\ tick[t].pc = "idle"
  /\ tick' = IF row.status \in Open /\ row.enabled /\ row.notified = "null"
             THEN [tick EXCEPT ![t] = [pc |-> "claim", due |-> row.due, same |-> TRUE, fresh |-> FALSE]]
             ELSE tick
  /\ UNCHANGED <<source, row, kind, edits, ghosts>>

(* The row is what was read, and still to be reminded of. *)
MayClaim(t) ==
  tick[t].same /\ row.status \in Open /\ row.enabled /\ row.notified = "null" /\ row.due = tick[t].due

Claim(t) ==   \* mark_notified_due
  /\ tick[t].pc = "claim"
  /\ IF MayClaim(t)
     THEN /\ row' = [row EXCEPT !.notified = t, !.dueTold = tick[t].due]
          /\ tick' = [tick EXCEPT ![t].pc = "send", ![t].fresh = TRUE]
     ELSE tick' = [tick EXCEPT ![t] = IdleTick] /\ UNCHANGED row
  /\ UNCHANGED <<source, kind, edits, ghosts>>

(* The row after the tick: its claim is a moment in the past. *)
After(t, r, mark) == [r EXCEPT !.notified = IF @ = t THEN mark ELSE @]

Confirmed(t) ==   \* the alert was delivered; a notice has done its work
  /\ tick[t].pc = "send"
  /\ told' = IF tick[t].fresh THEN told + 1 ELSE told
  /\ IF kind = "notice"
     THEN tick' = [tick EXCEPT ![t].pc = "finish"] /\ UNCHANGED row
     ELSE tick' = [tick EXCEPT ![t] = IdleTick] /\ row' = After(t, row, "past")
  /\ UNCHANGED <<source, kind, edits, hands, closed>>

Refused(t) ==
  /\ tick[t].pc = "send"
  /\ tick' = [tick EXCEPT ![t].pc = "release"]
  /\ UNCHANGED <<source, row, kind, edits, ghosts>>

ReleaseClaimForgotten(t) ==
  /\ tick[t].pc = "release"
  /\ row' = After(t, row, "past")
  /\ tick' = [tick EXCEPT ![t] = IdleTick]
  /\ UNCHANGED <<source, kind, edits, ghosts>>
ReleaseClaim(t) ==   \* release_notification_claim
  /\ tick[t].pc = "release"
  /\ row' = After(t, row, IF row.status \in Open THEN "null" ELSE "past")
  /\ tick' = [tick EXCEPT ![t] = IdleTick]
  /\ UNCHANGED <<source, kind, edits, ghosts>>

FinishNotice(t) ==    \* finish_notice
  /\ tick[t].pc = "finish"
  /\ row' = After(t, IF row.notified = t /\ row.status \in Open THEN [row EXCEPT !.status = "done"] ELSE row, "past")
  /\ tick' = [tick EXCEPT ![t] = IdleTick]
  /\ UNCHANGED <<source, kind, edits, ghosts>>

Stop(t) ==      \* the process ends, or an error leaves the tick
  /\ tick[t].pc # "idle"
  /\ row' = After(t, row, "lost")
  /\ tick' = [tick EXCEPT ![t] = IdleTick]
  /\ UNCHANGED <<source, kind, edits, ghosts>>

Consume(c) == Fetch(c) \/ Apply(c) \/ Ack(c) \/ GiveUp(c)
Remind(t) == \/ Wake(t) \/ Look(t) \/ Claim(t) \/ Confirmed(t) \/ Refused(t)
             \/ ReleaseClaim(t) \/ FinishNotice(t) \/ Stop(t)
TodoNext ==
  \/ Happen
  \/ Person
  \/ \E c \in Consumers : Consume(c)
  \/ \E t \in Ticks : Remind(t)

TodoSpec == TodoInit /\ [][TodoNext]_todoVars

(* The clock starts ticks again and again; not each of them is stopped, and  *)
(* the channel does not fail every single time.                              *)
FairTodoSpec ==
  /\ TodoSpec
  /\ \A t \in Ticks :
       /\ WF_todoVars(Look(t)) /\ SF_todoVars(Claim(t)) /\ SF_todoVars(Confirmed(t))
       /\ WF_todoVars(ReleaseClaim(t)) /\ WF_todoVars(FinishNotice(t))

-----------------------------------------------------------------------------
(* The values of the variables. *)
TodoTypeOK ==
  /\ history \in Seq([type : {"detected", "resolved"}, cycle : Revisions])
  /\ Len(history) <= MaxRevision /\ acked \subseteq Revisions
  /\ consumer \in [Consumers -> [pc : {"idle", "apply", "ack"}, at : Revisions]]
  /\ receipt \in [revision : 0 .. MaxRevision, cycle : Revisions]
  /\ row \in [status : Open \cup {"none", "snoozed", "shelved", "done", "dropped"},
              revision : 0 .. MaxRevision, cycle : Revisions, human : BOOLEAN, enabled : BOOLEAN,
              notified : Ticks \cup {"null", "past", "lost"}, due : Dues, dueTold : Dues]
  /\ tick \in [Ticks -> [pc : {"idle", "claim", "send", "release", "finish"}, due : Dues,
                         same : BOOLEAN, fresh : BOOLEAN]]
  /\ kind \in Kinds /\ edits \in 0 .. MaxEdits /\ told \in Nat
  /\ hands \in BOOLEAN /\ closed \in 0 .. MaxRevision

(* The newest event decides, in whatever order, by whichever consumer and    *)
(* however often the events are applied: unless the person has touched the   *)
(* row, it is open exactly if the newest recorded event says the case is.    *)
(* And no event is lost where a consumer stops: what the other system was    *)
(* told is recorded was applied, or a later event was.  What the person has   *)
(* closed stays closed through every event of the same cycle, new or         *)
(* repeated; only a relapse opens it again, and never a row that was dropped. *)
NewestWins ==
  /\ receipt.revision > 0 /\ kind = "code" /\ ~ hands =>
       (row.status \in Open <=> ~ Resolved(receipt.revision))
  /\ \A r \in acked : r <= receipt.revision
  /\ closed > 0 /\ row.status \notin {"done", "dropped"} => receipt.cycle > closed

(* A row marked as reminded was, once, and for the date it has.  However      *)
(* ticks overlap, the person is told once until the row is started, resumed,  *)
(* put off or given another date, or the case relapses; a claim whose alert   *)
(* was not confirmed is given back, unless the tick stopped in the middle;    *)
(* and the claim of a tick that read an earlier date does not keep the        *)
(* reminder of the new one from going out.                                    *)
RemindedOnce ==
  /\ told <= 1
  /\ row.status \in Open /\ row.notified = "past" => told > 0
  /\ row.notified # "null" => row.dueTold = row.due

(* The row follows its case and its person, and reminds once.                *)
ItemFollows == NewestWins /\ RemindedOnce

(* A row to be reminded of is reminded of, although the channel fails,       *)
(* unless it is closed, put off or muted first, or the tick stops in the     *)
(* middle of sending: then nobody learns of it.                              *)
DueIsTold ==
  row.status \in Open /\ row.enabled /\ row.notified = "null" ~>
    told > 0 \/ row.notified = "lost" \/ row.status \notin Open \/ ~ row.enabled
=============================================================================
