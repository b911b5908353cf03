------------------------------- MODULE TaskSpecs -------------------------------
(***************************************************************************)
(* The life of one TaskSpec: core/task_spec.py (TaskSpecStore),             *)
(* core/task_spec_service.py (edit, enrich, review, confirm, acknowledge)   *)
(* and channels/api.py (schedule, start_task_spec_run, run_due_task_specs). *)
(*                                                                          *)
(* A request reads the row, works on its copy (often waiting for a model)   *)
(* and saves the whole row: reading and saving are steps of their own, and  *)
(* other requests come in between.  A content stands for the editable part  *)
(* of a specification and for its digest.                                   *)
(***************************************************************************)
EXTENDS Integers, FiniteSets

CONSTANTS Requests,    \* bound: requests served at a time
          Contents,    \* what the specification may say
          Sound,       \* contents that pass deterministic_preflight
          Modes,       \* instances: execution.schedule.mode
          MaxRevision  \* bound: revisions

NoDigest == 0
ASSUME SpecsAssumption ==
  /\ Contents \subseteq Nat \ {NoDigest} /\ Sound \subseteq Contents /\ Sound # {}
  /\ Modes \subseteq {"manual", "once", "repeat"} /\ MaxRevision \in Nat

VARIABLES mode,     \* the mode of the schedule
          row,      \* the row of the table task_specs
          request,  \* what each request has read and still has to do
          running,  \* the task is in _running_task_specs
          run       \* the execution each request may have started

vars == <<mode, row, request, running, run>>

Statuses == {"review_required", "draft", "blocked", "needs_ack", "approved", "deleted"}
Kinds == {"update", "enrich", "review", "confirm", "acknowledge", "schedule", "start", "tick"}
Rows == [content : Contents, validated : Contents \cup {NoDigest},
         generated : Contents \cup {NoDigest}, revision : 0 .. MaxRevision,
         status : Statuses, enabled : BOOLEAN, next : {"none", "later", "now"},
         last : {"none", "running", "succeeded", "failed", "interrupted"}]
Copies == [content : Contents \cup {NoDigest}, validated : Contents \cup {NoDigest},
           generated : Contents \cup {NoDigest}, revision : 0 .. MaxRevision, enabled : BOOLEAN]
NoRun == [pc |-> "none", granted |-> NoDigest, content |-> NoDigest]
(* What a request copies of the row: the specification, and `enabled`.      *)
Copy(r) == [content |-> r.content, validated |-> r.validated, generated |-> r.generated,
            revision |-> r.revision, enabled |-> r.enabled]
Nothing == [content |-> NoDigest, validated |-> NoDigest, generated |-> NoDigest,
            revision |-> 0, enabled |-> FALSE]
Idle == [kind |-> "none", pc |-> "idle", seen |-> Nothing]

Init ==
  /\ mode \in Modes
  /\ \E c \in Contents :
       row = [content |-> c, validated |-> NoDigest, generated |-> NoDigest, revision |-> 0,
              status |-> "review_required", enabled |-> FALSE, next |-> "none", last |-> "none"]
  /\ request = [q \in Requests |-> Idle]
  /\ running = FALSE
  /\ run = [q \in Requests |-> NoRun]

Gone == row.status = "deleted"
(* next_run_at: a moment that is already over is still the next one. *)
NextRuns(enabled) ==
  IF ~ enabled THEN {"none"} ELSE IF mode = "once" THEN {"later", "now"}
  ELSE IF mode = "repeat" THEN {"later"} ELSE {"none"}

(* TaskSpecStore.save: the row is replaced but for its last run; a row that *)
(* was deleted meanwhile is created again.                                  *)
Save(spec, status, enabled) ==
  \E next \in NextRuns(enabled) :
    row' = [content |-> spec.content, validated |-> spec.validated,
            generated |-> spec.generated, revision |-> spec.revision,
            status |-> status, enabled |-> enabled, next |-> next,
            last |-> IF Gone THEN "none" ELSE row.last]

-------------------------------------------------------------------------------

(* What a request must find to go on; a tick of the scheduler looks for     *)
(* what is due.                                                             *)
Allowed(kind) ==
  CASE kind = "acknowledge" -> row.status = "needs_ack"
    [] kind = "schedule" -> row.status = "approved"
    [] kind = "start" -> row.status = "approved" /\ row.validated = row.content
    [] kind = "tick" -> /\ row.status = "approved" /\ row.validated = row.content
                        /\ row.enabled /\ row.next = "now"
    [] OTHER -> TRUE

Read(q, kind) ==
  /\ request[q].pc = "idle" /\ ~ Gone /\ Allowed(kind)
  /\ kind \in {"update", "enrich"} => row.revision < MaxRevision
  /\ request' = [request EXCEPT ![q] = [kind |-> kind, pc |-> "read", seen |-> Copy(row)]]
  /\ UNCHANGED <<mode, row, running, run>>

Doing(q, kind) == request[q].kind = kind /\ request[q].pc = "read"
End(q) == request' = [request EXCEPT ![q] = Idle]
Seen(q) == request[q].seen
Unrun == UNCHANGED <<mode, running, run>>

UpdateKeepsDigest(q) ==
  /\ Doing(q, "update")
  /\ \E c \in Contents :
       Save([Seen(q) EXCEPT !.content = c, !.revision = @ + 1], row.status, FALSE)
  /\ End(q) /\ Unrun

Update(q) ==
  /\ Doing(q, "update")
  /\ \E c \in Contents :
       Save([Seen(q) EXCEPT !.content = c, !.validated = NoDigest, !.generated = NoDigest,
                            !.revision = @ + 1], "review_required", FALSE)
  /\ End(q) /\ Unrun

(* The specification is still the one that was given to the model.          *)
Current(q) ==
  /\ ~ Gone
  /\ row.revision = Seen(q).revision /\ row.content = Seen(q).content

(* The author model answers: the result is saved if nothing has changed.    *)
Enrich(q) ==
  /\ Doing(q, "enrich") /\ Current(q)
  /\ \E c \in Contents :
       Save([Seen(q) EXCEPT !.content = c, !.generated = c, !.validated = NoDigest,
                            !.revision = @ + 1],
            IF c \in Sound THEN "draft" ELSE "blocked", FALSE)
  /\ End(q) /\ Unrun

(* The model fails, or its answer comes too late.                           *)
EnrichInVain(q) ==
  /\ Doing(q, "enrich")
  /\ End(q) /\ UNCHANGED row /\ Unrun

(* The reviewer passes the specification, objects, or is not available; no  *)
(* reviewer is asked about one that breaks a hard rule.                     *)
Review(q) ==
  /\ Doing(q, "review")
  /\ IF Seen(q).content \notin Sound THEN Save(Seen(q), "blocked", FALSE)
     ELSE \/ Save([Seen(q) EXCEPT !.validated = Seen(q).content], "approved", FALSE)
          \/ \E status \in {"needs_ack", "review_required"} : Save(Seen(q), status, FALSE)
  /\ End(q) /\ Unrun

Confirm(q) ==
  /\ Doing(q, "confirm")
  /\ IF Seen(q).content \notin Sound \/ Seen(q).generated # Seen(q).content
     THEN Save(Seen(q), "blocked", FALSE)
     ELSE Save([Seen(q) EXCEPT !.validated = Seen(q).content], "approved", Seen(q).enabled)
  /\ End(q) /\ Unrun

Acknowledge(q) ==
  /\ Doing(q, "acknowledge")
  /\ Save([Seen(q) EXCEPT !.validated = Seen(q).content], "approved", FALSE)
  /\ End(q) /\ Unrun

Schedule(q) ==
  /\ Doing(q, "schedule")
  /\ \E enabled \in {FALSE, mode # "manual"} : Save(Seen(q), "approved", enabled)
  /\ End(q) /\ Unrun

Delete ==
  /\ ~ Gone
  /\ row' = [row EXCEPT !.status = "deleted", !.enabled = FALSE, !.next = "none",
                        !.last = "none", !.validated = NoDigest, !.generated = NoDigest]
  /\ UNCHANGED <<mode, request, running, run>>

-------------------------------------------------------------------------------
(* Runs: start_task_spec_run, by a user or by the tick.                     *)

Starting(q, pc) == request[q].kind \in {"start", "tick"} /\ request[q].pc = pc

ClaimUnlocked(q) ==
  /\ Starting(q, "read")
  /\ request' = [request EXCEPT ![q].pc = "claimed"] /\ running' = TRUE
  /\ UNCHANGED <<mode, row, run>>

(* Only one at a time; the tick tries again later.                          *)
Claim(q) ==
  /\ Starting(q, "read")
  /\ IF running THEN End(q) /\ UNCHANGED running
     ELSE request' = [request EXCEPT ![q].pc = "claimed"] /\ running' = TRUE
  /\ UNCHANGED <<mode, row, run>>

(* mark_started: a scheduled run uses its moment up.                        *)
Marked(scheduled) ==
  IF Gone THEN row
  ELSE IF ~ scheduled THEN [row EXCEPT !.last = "running"]
  ELSE [row EXCEPT !.last = "running", !.enabled = mode = "repeat",
                   !.next = IF mode = "repeat" THEN "later" ELSE "none"]

MarkStarted(q) ==
  /\ Starting(q, "claimed")
  /\ row' = Marked(request[q].kind = "tick")
  /\ run' = [run EXCEPT ![q] = [NoRun EXCEPT !.pc = "started", !.granted = Seen(q).content]]
  /\ End(q) /\ UNCHANGED <<mode, running>>

(* The store does not answer: the claim is never given back.                *)
MarkFails(q) ==
  /\ Starting(q, "claimed")
  /\ End(q) /\ UNCHANGED <<mode, row, running, run>>

(* The thread of the run reads the specification again, and executes it.    *)
Execute(q) ==
  /\ run[q].pc = "started" /\ ~ Gone
  /\ run' = [run EXCEPT ![q].pc = "executing", ![q].content = row.content]
  /\ UNCHANGED <<mode, row, request, running>>

Finished(ok) == IF Gone THEN row ELSE [row EXCEPT !.last = IF ok THEN "succeeded" ELSE "failed"]

(* Whatever report is returned counts as a success; only an exception, and  *)
(* a specification that is gone, as a failure.                              *)
Finish(q) ==
  /\ run[q].pc # "none" /\ (run[q].pc = "started" => Gone)
  /\ \E ok \in BOOLEAN : (ok => run[q].pc = "executing") /\ row' = Finished(ok)
  /\ run' = [run EXCEPT ![q] = NoRun] /\ running' = FALSE
  /\ UNCHANGED <<mode, request>>

Time ==
  /\ row.next = "later"
  /\ row' = [row EXCEPT !.next = "now"]
  /\ UNCHANGED <<mode, request, running, run>>

(* recover_interrupted *)
Recovered == IF row.last = "running" THEN [row EXCEPT !.last = "interrupted"] ELSE row

(* The process stops, and is started again.                                 *)
Restart ==
  /\ row' = Recovered
  /\ request' = [q \in Requests |-> Idle]
  /\ running' = FALSE /\ run' = [q \in Requests |-> NoRun]
  /\ UNCHANGED mode

Serve(q) ==
  \/ \E kind \in Kinds : Read(q, kind)
  \/ Update(q) \/ Enrich(q) \/ EnrichInVain(q) \/ Review(q) \/ Confirm(q) \/ Acknowledge(q)
  \/ Schedule(q) \/ Claim(q) \/ MarkStarted(q) \/ MarkFails(q)
Next == Delete \/ Time \/ Restart \/ \E q \in Requests : Serve(q) \/ Execute(q) \/ Finish(q)

Spec == Init /\ [][Next]_vars

-------------------------------------------------------------------------------

Active == {q \in Requests : run[q].pc # "none"}

(* Every variable keeps its shape, what a request has read is a row, and    *)
(* only an enabled row has a next run.                                      *)
TypeOK ==
  /\ row.next # "none" => row.enabled
  /\ mode \in Modes /\ row \in Rows /\ running \in BOOLEAN
  /\ request \in [Requests -> [kind : Kinds \cup {"none"}, pc : {"idle", "read", "claimed"},
                               seen : Copies]]
  /\ run \in [Requests -> [pc : {"none", "started", "executing"},
                           granted : Contents \cup {NoDigest}, content : Contents \cup {NoDigest}]]

(* Whichever requests overtake one another, a row that says approved holds  *)
(* the content that was validated, and one that keeps the hard rules.       *)
ApprovedIsValidated ==
  row.status = "approved" => row.validated = row.content /\ row.content \in Sound

(* A specification is executed once at a time, and a row says "running"     *)
(* only while it is: also after a restart.                                  *)
RunsOneAtATime ==
  /\ Cardinality(Active) <= 1
  /\ row.last = "running" => Active # {}

(* The result of a model never undoes what was saved, or deleted, while it  *)
(* was at work (enrich: "A concurrent user save wins").                     *)
EnrichGoesForward ==
  [][\A q \in Requests :
       (Doing(q, "enrich") /\ request'[q].pc = "idle" /\ row'.content # row.content)
         => ~ Gone /\ row'.revision = row.revision + 1]_vars

(* start_task_spec_run checks that the specification is approved and        *)
(* unchanged; what is executed is what was checked.                         *)
ExecutesApproved == \A q \in Requests : run[q].pc = "executing" => run[q].content = run[q].granted

===============================================================================
