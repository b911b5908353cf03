---------------------------- MODULE OutputDelivery ----------------------------
(***************************************************************************)
(* Where the complete text of an answer goes when the channel cannot carry  *)
(* it (core/output_delivery.py), and what the reply says of it.             *)
(*                                                                          *)
(* One text, rendered any number of times: for a channel that is too short  *)
(* the first time, for one that carries it the second.  The result of a     *)
(* task keeps a record of its delivery between the renderings; a plain text *)
(* has none.  Mail and HedgeDoc may fail, and may have done their work all  *)
(* the same.                                                                *)
(***************************************************************************)
EXTENDS Naturals, Sequences

CONSTANTS Orders,      \* values of fallback_order
          MaxRenders   \* bound: calls of prepare_channel_output

VARIABLES policy,    \* resolve_output_policy, and whether the text is a task's
          record,    \* task_result.delivery
          partial,   \* task_result.status has become partial
          pc, queue, \* the rendering, and the destinations it has left
          fits, wants,   \* fits_inline and needs_external
          target,    \* the destination of this rendering
          reply,     \* the last reply
          accepted,  \* times a destination said it had taken the text
          reached,   \* destinations that have the text
          unnoted,   \* an outer destination took a task's result, unknown to its record
          renders

deliveryVars == <<policy, record, partial, pc, queue, fits, wants, target, reply, accepted, reached, unnoted, renders>>

External == {"hedgedoc", "email"}
Destinations == External \cup {"sqlite"}
Modes == Destinations \cup {"auto", "inline"}
Nowhere == "none"
Reply(whole, claim) == [whole |-> whole, claim |-> claim]

(* A destination may be asked for, or be the configured one. *)
DeliveryInit ==
  /\ policy \in [full : Modes, explicit : BOOLEAN, order : Orders, task : BOOLEAN]
  /\ record = [destination |-> Nowhere, archived |-> FALSE]
  /\ partial = FALSE
  /\ pc = "idle" /\ queue = <<>>
  /\ fits = TRUE /\ wants = FALSE
  /\ target = Nowhere
  /\ reply = Reply(TRUE, Nowhere)
  /\ accepted = [d \in External |-> 0]
  /\ reached = {}
  /\ unnoted = FALSE
  /\ renders = 0

Others(selected, order) == SelectSeq(order, LAMBDA d : d # selected)
(* _delivery_order: mail never becomes public, and HedgeDoc, asked for,      *)
(* never becomes mail (prepare_channel_output forbids it).                  *)
DeliveryOrder ==
  CASE policy.full = "inline" -> <<>>
    [] policy.full = "auto" -> policy.order
    [] policy.full = "email" -> <<"email", "sqlite">>
    [] policy.full = "sqlite" -> <<"sqlite">>
    [] policy.full = "hedgedoc" ->
         IF policy.explicit THEN <<"hedgedoc", "sqlite">>
         ELSE <<"hedgedoc">> \o Others("hedgedoc", policy.order)

(* prepare_channel_output: a channel that carries the text or not; the HTTP  *)
(* API carries everything.                                                  *)
Render ==
  /\ pc = "idle" /\ renders < MaxRenders
  /\ renders' = renders + 1
  /\ \E short, api \in BOOLEAN :
       LET asked == policy.explicit /\ policy.full \in Destinations
       IN  /\ fits' = (short \/ api)
           /\ wants' = (asked \/ (~ short /\ policy.full # "inline" /\ ~ api))
  /\ pc' = IF policy.task THEN "once" ELSE "plain"
  /\ UNCHANGED <<policy, record, partial, queue, target, reply, accepted, reached, unnoted>>

OnceAgain ==
  /\ pc = "once"
  /\ \E archived \in BOOLEAN :
       /\ record.archived => archived
       /\ record' = [record EXCEPT !.archived = archived,
            !.destination = IF wants /\ policy.full # "inline" THEN Nowhere ELSE "inline"]
       /\ reached' = IF archived THEN reached \cup {"sqlite"} ELSE reached
  /\ IF wants /\ policy.full # "inline"
     THEN pc' = "deliver" /\ queue' = DeliveryOrder /\ UNCHANGED target
     ELSE pc' = "answer" /\ target' = "inline" /\ UNCHANGED queue
  /\ UNCHANGED <<policy, partial, fits, wants, reply, accepted, unnoted, renders>>
(* deliver_task_result_once: what was delivered stays; the local archive     *)
(* comes first, and may fail.                                               *)
Once ==
  /\ pc = "once"
  /\ IF record.destination # Nowhere
     THEN pc' = "answer" /\ target' = record.destination /\ UNCHANGED <<record, reached, queue>>
     ELSE /\ \E archived \in BOOLEAN :
               /\ record.archived => archived
               /\ record' = [record EXCEPT !.archived = archived,
                    !.destination = IF wants /\ policy.full # "inline" THEN Nowhere ELSE "inline"]
               /\ reached' = IF archived THEN reached \cup {"sqlite"} ELSE reached
          /\ IF wants /\ policy.full # "inline"
             THEN pc' = "deliver" /\ queue' = DeliveryOrder /\ UNCHANGED target
             ELSE pc' = "answer" /\ target' = "inline" /\ UNCHANGED queue
  /\ UNCHANGED <<policy, partial, fits, wants, reply, accepted, unnoted, renders>>

(* A text that is not a task's. *)
Plain ==
  /\ pc = "plain"
  /\ IF wants THEN pc' = "again" /\ queue' = DeliveryOrder /\ UNCHANGED target
     ELSE pc' = "answer" /\ target' = "inline" /\ UNCHANGED queue
  /\ UNCHANGED <<policy, record, partial, fits, wants, reply, accepted, reached, unnoted, renders>>

(* _deliver_complete: the first destination that takes the text, or none.    *)
Delivered(d) ==
  /\ queue' = <<>>
  /\ IF pc = "deliver"
     THEN /\ record' = [record EXCEPT !.destination = d]
          /\ partial' = (partial \/ (d \notin External /\ ~ (d = "sqlite" /\ policy.full = "sqlite")))
          /\ UNCHANGED unnoted
     ELSE /\ unnoted' = (unnoted \/ (policy.task /\ d \in External))
          /\ UNCHANGED <<record, partial>>
  /\ IF pc = "deliver" /\ d = Nowhere
     THEN pc' = "retry" /\ UNCHANGED target ELSE pc' = "answer" /\ target' = d
Refused == queue' = Tail(queue) /\ UNCHANGED <<record, partial, pc, target, unnoted>>
Deliver ==
  /\ pc \in {"deliver", "again"}
  /\ IF queue = <<>> THEN Delivered(Nowhere) /\ UNCHANGED <<accepted, reached>>
     ELSE LET d == Head(queue)
          IN  \/ /\ d \in External /\ Delivered(d)
                 /\ accepted' = [accepted EXCEPT ![d] = @ + 1] /\ reached' = reached \cup {d}
              \/ /\ d \in External /\ Refused /\ UNCHANGED accepted
                 /\ reached' \in {reached, reached \cup {d}}
              \/ /\ d = "sqlite" /\ Delivered(d) /\ reached' = reached \cup {d} /\ UNCHANGED accepted
              \/ /\ d = "sqlite" /\ ~ (pc = "deliver" /\ record.archived)
                 /\ Refused /\ UNCHANGED <<accepted, reached>>
  /\ UNCHANGED <<policy, fits, wants, reply, renders>>

(* A result that went nowhere has no destination in its record, and is at    *)
(* once delivered like a text that has no record.                           *)
Retry ==
  /\ pc = "retry" /\ pc' = "again" /\ queue' = DeliveryOrder
  /\ UNCHANGED <<policy, record, partial, fits, wants, target, reply, accepted, reached, unnoted, renders>>

(* The reply: the text, or a summary with a note of where the text is.       *)
Answer ==
  /\ pc = "answer" /\ pc' = "idle"
  /\ reply' = IF ~ policy.task /\ policy.full = "inline" THEN Reply(TRUE, Nowhere)
              ELSE IF target = "inline" \/ ~ wants
                   THEN IF fits THEN Reply(TRUE, Nowhere) ELSE Reply(FALSE, "archive")
              ELSE Reply(FALSE, IF target = Nowhere THEN "failed" ELSE target)
  /\ target' = Nowhere
  /\ UNCHANGED <<policy, record, partial, queue, fits, wants, accepted, reached, unnoted, renders>>

DeliveryNext == Render \/ Once \/ Plain \/ Deliver \/ Retry \/ Answer
DeliverySpec == DeliveryInit /\ [][DeliveryNext]_deliveryVars

-------------------------------------------------------------------------------
(* A reply that leaves text out says where the text is, and there it is, or  *)
(* says that it is nowhere; and the result of a task, however often and for  *)
(* whatever channel it is rendered, is taken by one outer destination at     *)
(* most, unless its record does not know of one (README), and is partial     *)
(* when it is none of those it was meant for.  A text                       *)
(* reaches HedgeDoc, which others can read, only if HedgeDoc is chosen or    *)
(* the choice is left to the configured order; and one for HedgeDoc alone is *)
(* never mailed instead, whatever fails.                                    *)
ReportKept ==
  /\ reply.claim \in Destinations => reply.claim \in reached
  /\ policy.task => /\ (~ unnoted => accepted.email + accepted.hedgedoc <= 1)
                    /\ reply.claim = "failed" => partial
  /\ "hedgedoc" \in reached => policy.full \in {"auto", "hedgedoc"}
  /\ "email" \in reached => \/ policy.full \in {"auto", "email"}
                            \/ policy.full = "hedgedoc" /\ ~ policy.explicit

(* What the note of a reply in the channel itself says, "the complete text   *)
(* is in the local archive" (output_delivery.py:340): not checked, for it    *)
(* fails when the archive did (README).                                     *)
ArchiveHolds == reply.claim = "archive" => "sqlite" \in reached
===============================================================================
