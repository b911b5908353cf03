-------------------------- MODULE PhoneContracts --------------------------
(***************************************************************************)
(* The status tables of the phone app,                                     *)
(* src/lite_agent/features/phone_app/contracts.py.  Every module of the    *)
(* phone app takes its statuses from here.                                 *)
(***************************************************************************)

BatchStatus ==
  {"draft", "pending_review", "approved", "queued", "running", "cancel_requested",
   "succeeded", "partial_failed", "failed", "cancelled"}

BatchTransitions == [s \in BatchStatus |->
  CASE s = "draft" -> {"pending_review", "approved", "queued", "cancelled"}
    [] s = "pending_review" -> {"approved", "draft", "cancelled"}
    [] s = "approved" -> {"queued", "cancelled", "pending_review"}
    [] s = "queued" -> {"running", "cancelled"}
    [] s = "running" -> {"succeeded", "partial_failed", "failed", "cancel_requested", "cancelled"}
    [] s = "cancel_requested" -> {"cancelled", "failed"}
    [] OTHER -> {}]

TaskStatus ==
  {"draft", "pending_review", "approved", "queued", "running", "cancel_requested",
   "succeeded", "failed", "timed_out", "needs_human_action", "cancelled",
   "execution_unknown"}

TaskTransitions == [s \in TaskStatus |->
  CASE s = "draft" -> {"pending_review", "approved", "queued", "cancelled"}
    [] s = "pending_review" -> {"approved", "draft", "cancelled"}
    [] s = "approved" -> {"queued", "running", "cancelled", "pending_review"}
    [] s = "queued" -> {"running", "cancelled"}
    [] s = "running" -> {"succeeded", "failed", "timed_out", "needs_human_action",
                         "cancel_requested", "cancelled", "execution_unknown"}
    [] s = "cancel_requested" -> {"cancelled", "failed"}
    [] s = "needs_human_action" -> {"queued", "cancelled"}
    [] OTHER -> {}]

\* What a receipt may turn a task into (the range of RECEIPT_STATUS_MAP; an
\* unknown status is taken for a failure).
ReceiptStatus ==
  {"succeeded", "failed", "timed_out", "needs_human_action", "cancelled", "execution_unknown"}

\* The checks of update_batch_status and save_task_receipt: a status may stay
\* as it is or follow the table.
BatchMayMove(from, to) == to = from \/ to \in BatchTransitions[from]
TaskMayMove(from, to) == to = from \/ to \in TaskTransitions[from]

\* The statuses the executor takes for "cancelled, stop".
Cancelling == {"cancelled", "cancel_requested"}
\* The statuses cancel_batch_atomic refuses to touch.
BatchFinal == {"succeeded", "failed", "partial_failed", "cancelled"}
\* The tasks cancel_batch_atomic takes along.
TaskOpen == {"draft", "pending_review", "approved", "queued", "running"}
=============================================================================
