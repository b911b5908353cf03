------------------------------ MODULE PhoneReview ------------------------------
(***************************************************************************)
(* The review of a batch of mode custom_ai (features/phone_app: service,    *)
(* repository, approval): its script is written by a model or by hand,      *)
(* approved by a reviewer, and executed with an approval that is consumed   *)
(* once.                                                                    *)
(*                                                                          *)
(* A step is one transaction, or one reading outside a transaction:         *)
(* update_draft_atomic and update_batch_status SELECT before their          *)
(* transaction begins, so that others come in between.  The hash of an      *)
(* approval is the pair of its script and its expiry (here its number; two  *)
(* approvals within a second, which share their expiry, are left out).      *)
(* From the claim on, the executor is that of PhoneBatch for one task, with *)
(* the phone always ready and no restart.                                   *)
(***************************************************************************)
EXTENDS Naturals, PhoneContracts

CONSTANTS Editors,       \* requests to write the script, at a time
          Reviewers,     \* requests to approve or reject, at a time
          Callers,       \* requests to execute, at a time
          MaxEdits,      \* bound: requests to write
          MaxApprovals   \* bound: approvals

ASSUME ReviewAssumption == MaxEdits \in Nat /\ MaxApprovals \in Nat

VARIABLES overlap,   \* instances: the requests of writers and reviewers overlap
          batch,     \* status and scripts_json of its row
          task,      \* status of its task
          approval,  \* its row in approvals
          editor, reviewer, caller,
          edits, approvals,
          reviewed,  \* scripts that were approved
          ran,       \* scripts that were handed to a worker
          claims,    \* claims made on the strength of each approval
          overtaken  \* an execution was claimed between the halves of an edit

reviewRows == <<batch, task, approval>>
requests == <<editor, reviewer, caller>>
reviewHistory == <<reviewed, ran, claims, overtaken>>
reviewVars == <<overlap, reviewRows, requests, edits, approvals, reviewHistory>>

NoScript == 0
Scripts == 1 .. MaxEdits
Stamps == 1 .. MaxApprovals
Locked == {"running", "queued"} \cup BatchFinal
NoApproval == [status |-> "none", consumed |-> FALSE, script |-> NoScript, stamp |-> 0, fresh |-> TRUE]
Standing(pc) == [pc |-> pc, script |-> NoScript, stamp |-> 0]

(* A request of a writer or a reviewer may come. *)
Comes == overlap \/ \A p \in {editor[e].pc : e \in Editors} \cup {reviewer[v].pc : v \in Reviewers} : p = "idle"

ReviewInit ==
  /\ overlap \in BOOLEAN
  /\ batch = [status |-> "draft", scripts |-> NoScript]
  /\ task = "draft"
  /\ approval = NoApproval
  /\ editor = [e \in Editors |-> Standing("idle")]
  /\ reviewer = [v \in Reviewers |-> Standing("idle")]
  /\ caller = [x \in Callers |-> Standing("idle")]
  /\ edits = 0 /\ approvals = 0
  /\ reviewed = {} /\ ran = {}
  /\ claims = [s \in Stamps |-> 0] /\ overtaken = FALSE

-------------------------------------------------------------------------------
(* Writing the script.                                                      *)

(* generate_scripts and update_draft: the script has passed the validation. *)
Draft(e) ==
  /\ editor[e].pc = "idle" /\ Comes /\ edits < MaxEdits /\ batch.status \notin Locked
  /\ \E s \in Scripts :
       editor' = [editor EXCEPT ![e] = [Standing("drafted") EXCEPT !.script = s]]
  /\ edits' = edits + 1
  /\ UNCHANGED <<overlap, reviewRows, reviewer, caller, approvals, reviewHistory>>

(* update_draft_atomic: the SELECT. *)
SelectDraft(e) ==
  /\ editor[e].pc = "drafted"
  /\ editor' = [editor EXCEPT ![e] =
       IF batch.status \notin Locked /\ BatchMayMove(batch.status, "pending_review")
       THEN [@ EXCEPT !.pc = "selected"] ELSE Standing("idle")]
  /\ UNCHANGED <<overlap, reviewRows, reviewer, caller, edits, approvals, reviewHistory>>

(* update_draft_atomic: the transaction, which revokes the approval. *)
WriteDraft(e) ==
  /\ editor[e].pc = "selected"
  /\ batch' = [status |-> "pending_review", scripts |-> editor[e].script]
  /\ approval' = IF approval.status = "approved"
                 THEN [approval EXCEPT !.status = "revoked", !.consumed = TRUE] ELSE approval
  /\ task' = "pending_review"
  /\ editor' = [editor EXCEPT ![e] = Standing("idle")]
  /\ UNCHANGED <<overlap, reviewer, caller, edits, approvals, reviewHistory>>

-------------------------------------------------------------------------------
(* Approving, rejecting, cancelling.                                        *)

(* approve_batch: the batch as it is read; there must be a script. *)
Read(v) ==
  /\ reviewer[v].pc = "idle" /\ Comes /\ approvals < MaxApprovals
  /\ batch.status \in {"pending_review", "draft"} /\ batch.scripts # NoScript
  /\ reviewer' = [reviewer EXCEPT ![v] = [pc |-> "read", script |-> batch.scripts, stamp |-> 0]]
  /\ UNCHANGED <<overlap, reviewRows, editor, caller, edits, approvals, reviewHistory>>

SaveApproval(v) ==
  /\ reviewer[v].pc = "read" /\ approvals < MaxApprovals
  /\ approvals' = approvals + 1
  /\ approval' = [NoApproval EXCEPT !.status = "approved", !.script = reviewer[v].script,
                                    !.stamp = approvals + 1]
  /\ reviewed' = reviewed \cup {reviewer[v].script}
  /\ reviewer' = [reviewer EXCEPT ![v] = Standing("saved")]
  /\ UNCHANGED <<overlap, batch, task, editor, caller, edits, ran, claims, overtaken>>

(* update_batch_status(approved): the SELECT, and the UPDATE. *)
ToApproved(v) ==
  /\ reviewer[v].pc = "saved"
  /\ reviewer' = [reviewer EXCEPT ![v] =
       Standing(IF BatchMayMove(batch.status, "approved") THEN "approving" ELSE "idle")]
  /\ UNCHANGED <<overlap, reviewRows, editor, caller, edits, approvals, reviewHistory>>
SetApproved(v) ==
  /\ reviewer[v].pc = "approving"
  /\ batch' = [batch EXCEPT !.status = "approved"]
  /\ reviewer' = [reviewer EXCEPT ![v] = Standing("idle")]
  /\ UNCHANGED <<overlap, task, approval, editor, caller, edits, approvals, reviewHistory>>

(* The half hour of the approval is over. *)
Expire ==
  /\ approval.status = "approved" /\ approval.fresh
  /\ approval' = [approval EXCEPT !.fresh = FALSE]
  /\ UNCHANGED <<overlap, batch, task, requests, edits, approvals, reviewHistory>>

(* cancel_batch_atomic. *)
Cancelled ==
  /\ batch.status \notin BatchFinal
  /\ LET to == IF batch.status = "running" THEN "cancel_requested" ELSE "cancelled"
     IN  /\ batch' = [batch EXCEPT !.status = to]
         /\ task' = IF task \in TaskOpen THEN to ELSE task
CancelBatch == Cancelled /\ UNCHANGED <<overlap, approval, requests, edits, approvals, reviewHistory>>

(* reject_batch looks at the status, then cancels. *)
ToReject(v) ==
  /\ reviewer[v].pc = "idle" /\ Comes /\ batch.status = "pending_review"
  /\ reviewer' = [reviewer EXCEPT ![v] = Standing("rejecting")]
  /\ UNCHANGED <<overlap, reviewRows, editor, caller, edits, approvals, reviewHistory>>
Reject(v) ==
  /\ reviewer[v].pc = "rejecting"
  /\ IF batch.status \in BatchFinal THEN UNCHANGED <<batch, task>> ELSE Cancelled
  /\ reviewer' = [reviewer EXCEPT ![v] = Standing("idle")]
  /\ UNCHANGED <<overlap, approval, editor, caller, edits, approvals, reviewHistory>>

-------------------------------------------------------------------------------
(* Executing.                                                               *)

Move(x, to) == caller' = [caller EXCEPT ![x] = to]
MoveTo(x, pc) == Move(x, [caller[x] EXCEPT !.pc = pc])

(* execute_batch: the batch, then its approval. *)
Check(x) ==
  /\ caller[x].pc = "idle" /\ batch.status = "approved"
  /\ Move(x, [pc |-> "checked", script |-> batch.scripts, stamp |-> 0])
  /\ UNCHANGED <<overlap, reviewRows, editor, reviewer, edits, approvals, reviewHistory>>
LookUp(x) ==
  /\ caller[x].pc = "checked"
  /\ Move(x, IF approval.status = "none" THEN Standing("idle")
             ELSE [caller[x] EXCEPT !.pc = "consume", !.stamp = approval.stamp])
  /\ UNCHANGED <<overlap, reviewRows, editor, reviewer, edits, approvals, reviewHistory>>

(* compute_canonical_hash *)
Hash(script, stamp) == <<script, stamp>>

ConsumeAgain(x) ==
  /\ caller[x].pc = "consume"
  /\ IF /\ approval.status = "approved" /\ approval.fresh
        /\ Hash(approval.script, approval.stamp) = Hash(caller[x].script, caller[x].stamp)
     THEN approval' = [approval EXCEPT !.consumed = TRUE] /\ MoveTo(x, "claim")
     ELSE approval' = approval /\ Move(x, Standing("idle"))
  /\ UNCHANGED <<overlap, batch, task, editor, reviewer, edits, approvals, reviewHistory>>
(* consume_approval_atomic: one UPDATE with all its conditions. *)
Consume(x) ==
  /\ caller[x].pc = "consume"
  /\ IF /\ approval.status = "approved" /\ ~ approval.consumed /\ approval.fresh
        /\ Hash(approval.script, approval.stamp) = Hash(caller[x].script, caller[x].stamp)
     THEN approval' = [approval EXCEPT !.consumed = TRUE] /\ MoveTo(x, "claim")
     ELSE approval' = approval /\ Move(x, Standing("idle"))
  /\ UNCHANGED <<overlap, batch, task, editor, reviewer, edits, approvals, reviewHistory>>

(* claim_batch_for_execution_atomic; the thread of the executor starts. *)
Claim(x) ==
  /\ caller[x].pc = "claim"
  /\ IF batch.status = "approved"
     THEN /\ batch' = [batch EXCEPT !.status = "queued"] /\ task' = "queued"
          /\ claims' = [claims EXCEPT ![caller[x].stamp] = @ + 1]
          /\ overtaken' = (overtaken \/ \E e \in Editors : editor[e].pc = "selected")
          /\ Move(x, Standing("begin"))
     ELSE UNCHANGED <<batch, task, claims, overtaken>> /\ Move(x, Standing("idle"))
  /\ UNCHANGED <<overlap, approval, editor, reviewer, edits, approvals, reviewed, ran>>

(* _execute_batch_internal reads the batch: this script will be handed over. *)
Begin(x) ==
  /\ caller[x].pc = "begin"
  /\ Move(x, IF batch.status \in Cancelling THEN Standing("idle")
             ELSE [Standing("lock") EXCEPT !.script = batch.scripts])
  /\ UNCHANGED <<overlap, reviewRows, editor, reviewer, edits, approvals, reviewHistory>>

Inside == {"toRunning", "setRunning", "attempt", "setAttempt", "dispatch", "sum", "setFinal"}
(* The lock of the phone, and the status read again under it. *)
Enter(x) ==
  /\ caller[x].pc = "lock" /\ \A y \in Callers : caller[y].pc \notin Inside
  /\ IF batch.status \in Cancelling THEN Move(x, Standing("idle")) ELSE MoveTo(x, "toRunning")
  /\ UNCHANGED <<overlap, reviewRows, editor, reviewer, edits, approvals, reviewHistory>>

(* update_batch_status(running). *)
ToRunning(x) ==
  /\ caller[x].pc = "toRunning"
  /\ IF BatchMayMove(batch.status, "running") THEN MoveTo(x, "setRunning") ELSE Move(x, Standing("idle"))
  /\ UNCHANGED <<overlap, reviewRows, editor, reviewer, edits, approvals, reviewHistory>>
SetRunning(x) ==
  /\ caller[x].pc = "setRunning" /\ MoveTo(x, "attempt")
  /\ batch' = [batch EXCEPT !.status = "running"]
  /\ UNCHANGED <<overlap, task, approval, editor, reviewer, edits, approvals, reviewHistory>>

(* The loop for the one task: start_task_attempt, then the last look. *)
Attempt(x) ==
  /\ caller[x].pc = "attempt"
  /\ MoveTo(x, IF batch.status \notin Cancelling /\ task \in {"queued", "approved", "running"}
               THEN "setAttempt" ELSE "sum")
  /\ UNCHANGED <<overlap, reviewRows, editor, reviewer, edits, approvals, reviewHistory>>
SetAttempt(x) ==
  /\ caller[x].pc = "setAttempt" /\ MoveTo(x, "dispatch")
  /\ task' = "running"
  /\ UNCHANGED <<overlap, batch, approval, editor, reviewer, edits, approvals, reviewHistory>>
(* The task and the script go to a worker; the receipt is saved if it may be. *)
Dispatch(x) ==
  /\ caller[x].pc = "dispatch" /\ MoveTo(x, "sum")
  /\ IF batch.status \in Cancelling THEN UNCHANGED <<task, ran>>
     ELSE /\ ran' = ran \cup {caller[x].script}
          /\ \E s \in {"succeeded", "failed"} :
               task' = IF TaskMayMove(task, s) THEN s ELSE task
  /\ UNCHANGED <<overlap, batch, approval, editor, reviewer, edits, approvals, reviewed, claims, overtaken>>

(* The verdict: SELECT and UPDATE. *)
SumUp(x) ==
  /\ caller[x].pc = "sum"
  /\ IF batch.status \in Cancelling
     THEN /\ batch' = [batch EXCEPT !.status = "cancelled"]
          /\ task' = IF batch.status = "cancel_requested" /\ task = "cancel_requested"
                     THEN "cancelled" ELSE task
          /\ Move(x, Standing("idle"))
     ELSE /\ UNCHANGED <<batch, task>>
          /\ Move(x, IF BatchMayMove(batch.status, "failed") THEN Standing("setFinal") ELSE Standing("idle"))
  /\ UNCHANGED <<overlap, approval, editor, reviewer, edits, approvals, reviewHistory>>
SetFinal(x) ==
  /\ caller[x].pc = "setFinal" /\ Move(x, Standing("idle"))
  /\ \E s \in {"succeeded", "failed"} : batch' = [batch EXCEPT !.status = s]
  /\ UNCHANGED <<overlap, task, approval, editor, reviewer, edits, approvals, reviewHistory>>

ReviewNext ==
  \/ \E e \in Editors : Draft(e) \/ SelectDraft(e) \/ WriteDraft(e)
  \/ \E v \in Reviewers : \/ Read(v) \/ SaveApproval(v) \/ ToApproved(v) \/ SetApproved(v)
                          \/ ToReject(v) \/ Reject(v)
  \/ Expire \/ CancelBatch
  \/ \E x \in Callers :
       \/ Check(x) \/ LookUp(x) \/ Consume(x) \/ Claim(x) \/ Begin(x) \/ Enter(x)
       \/ ToRunning(x) \/ SetRunning(x) \/ Attempt(x) \/ SetAttempt(x) \/ Dispatch(x)
       \/ SumUp(x) \/ SetFinal(x)

ReviewSpec == ReviewInit /\ [][ReviewNext]_reviewVars

-------------------------------------------------------------------------------
(* A worker is only given a script that somebody has approved as it is, if   *)
(* the requests of those who write and review follow each other and no      *)
(* execution is claimed between the SELECT and the write of an edit: the    *)
(* status and the script that approve_batch and the executor go by are those *)
(* of whatever is there by then (README).  And an approval is good for one  *)
(* execution: no two claims rest on it, although a late reviewer may set the *)
(* status of the batch back to approved.                                    *)
RunsWhatWasReviewed ==
  /\ ~ overlap /\ ~ overtaken => ran \subseteq reviewed
  /\ \A s \in Stamps : claims[s] <= 1
===============================================================================
