---------------------------- MODULE PhoneBatch ----------------------------
(***************************************************************************)
(* Execution, cancellation and restart of the batches of one phone:        *)
(* src/lite_agent/features/phone_app/service.py and repository.py.         *)
(*                                                                         *)
(* execute_batch claims an approved batch and starts one executor thread   *)
(* for it, which takes the lock of the phone, walks the tasks of the       *)
(* batch, hands each to a worker through a lease of the hub and writes     *)
(* what came back.  Requests to cancel a batch and to resume the phone     *)
(* come from other threads, and the process may stop and start again.      *)
(*                                                                         *)
(* A step is one database transaction or one critical section of the hub   *)
(* or of the lock.  update_batch_status, start_task_attempt and            *)
(* save_task_receipt SELECT outside a transaction and UPDATE in another,   *)
(* so each is two steps; claim, cancel and finalize run under BEGIN        *)
(* IMMEDIATE and are one.  Batches of other phones share no status, lock   *)
(* or lease with these.  Workers attached directly to the service          *)
(* (worker_client) are left out: every task goes through the hub.          *)
(***************************************************************************)
EXTENDS Naturals, PhoneContracts

CONSTANTS
  Batches,      \* batches on the phone, created in mode fixed: approved from the start
  N,            \* tasks (apps) of each batch
  NoBatch,      \* the lock of the phone is free
  Outcomes,     \* statuses the worker may report
  Malformed,    \* batches whose filter values the filter classes refuse
  ResumeBy,     \* how the phone is resumed: by the request the server serves ("route"),
                \* by resume_device of the service with nothing between its check and
                \* its write ("service") or with other threads in between ("split")
  MaxCalls,     \* bound: execute_batch requests of one batch between check and claim
  MaxRestarts   \* bound: restarts of the process

ASSUME PhoneBatchAssumption ==
  /\ N \in Nat \ {0}
  /\ NoBatch \notin Batches
  /\ Outcomes \subseteq ReceiptStatus
  /\ Malformed \subseteq Batches
  /\ ResumeBy \subseteq {"route", "service", "split"}
  /\ MaxCalls \in Nat /\ MaxRestarts \in Nat

VARIABLES
  status, task, device,                 \* tables batches, tasks, device_states
  lock,                                 \* _device_locks[device_id]
  pc, at, good, bad, receipt, final,    \* the executor thread of each batch
  lease, orphans,                       \* leases of the hub
  calls, cancelling, resuming,          \* requests in progress
  accepted, handed, restarts            \* history: cancel requests answered with
                                        \* success, tasks handed to a worker, restarts

db      == <<status, task, device>>
thread  == <<pc, at, good, bad, receipt, final>>
hub     == <<lease, orphans>>
request == <<calls, cancelling, resuming>>
history == <<accepted, handed, restarts>>
vars    == <<db, lock, thread, hub, request, history>>

Tasks == 1 .. N

\* Where an executor thread is: in front of the lock, under the lock before
\* the batch runs, under the lock while it runs.
Waiting == {"begin", "lock"}
Starting == {"recheck", "block", "failTasks", "toRunning", "setRunning"}
Walking == {"loop", "attempt", "setAttempt", "check", "dispatch", "wait", "giveUp",
            "receipt", "save", "setTask", "confirm", "sum", "finish", "setFinal"}
Location == {"none"} \cup Waiting \cup Starting \cup Walking

\* A receipt as the executor uses it: the normalised status, whether the phone
\* was found ready afterwards, whether the task ended in the except branch.
Receipt == [status : ReceiptStatus, ready : BOOLEAN, raised : BOOLEAN]
Answer(s, r) == [status |-> s, ready |-> r, raised |-> FALSE]
Raised == [status |-> "failed", ready |-> FALSE, raised |-> TRUE]

TypeOK ==
  /\ status \in [Batches -> BatchStatus]
  /\ task \in [Batches -> [Tasks -> TaskStatus]]
  /\ device \in {"ready", "paused"}
  /\ lock \in Batches \cup {NoBatch}
  /\ pc \in [Batches -> Location]
  /\ at \in [Batches -> 1 .. (N + 1)]
  /\ good \in [Batches -> 0 .. N] /\ bad \in [Batches -> 0 .. N]
  /\ receipt \in [Batches -> Receipt]
  /\ final \in [Batches -> {"succeeded", "partial_failed", "failed"}]
  /\ lease \in [Batches -> {"none", "pending", "active", "flagged", "done"}]
  /\ orphans \in Nat
  /\ calls \in [Batches -> 0 .. MaxCalls]
  /\ cancelling \in [Batches -> BOOLEAN] /\ resuming \in BOOLEAN
  /\ accepted \in [Batches -> BOOLEAN]
  /\ handed \in [Batches -> [Tasks -> Nat]]
  /\ restarts \in 0 .. MaxRestarts

Init ==
  /\ status = [b \in Batches |-> "approved"]
  /\ task = [b \in Batches |-> [t \in Tasks |-> "approved"]]
  /\ device = "ready"
  /\ lock = NoBatch
  /\ pc = [b \in Batches |-> "none"]
  /\ at = [b \in Batches |-> 1]
  /\ good = [b \in Batches |-> 0] /\ bad = [b \in Batches |-> 0]
  /\ receipt = [b \in Batches |-> Raised]
  /\ final = [b \in Batches |-> "failed"]
  /\ lease = [b \in Batches |-> "none"] /\ orphans = 0
  /\ calls = [b \in Batches |-> 0]
  /\ cancelling = [b \in Batches |-> FALSE] /\ resuming = FALSE
  /\ accepted = [b \in Batches |-> FALSE]
  /\ handed = [b \in Batches |-> [t \in Tasks |-> 0]]
  /\ restarts = 0

-----------------------------------------------------------------------------
(* execute_batch.                                                          *)

\* The checks: the batch is approved, the phone is not paused.
Execute(b) ==
  /\ status[b] = "approved" /\ device = "ready"
  /\ calls[b] < MaxCalls
  /\ calls' = [calls EXCEPT ![b] = @ + 1]
  /\ UNCHANGED <<db, lock, thread, hub, cancelling, resuming, history>>

\* Variant: the claim does not look at the status again.
ClaimUnchecked(b) ==
  /\ calls[b] > 0
  /\ calls' = [calls EXCEPT ![b] = @ - 1]
  /\ status' = [status EXCEPT ![b] = "queued"]
  /\ task' = [task EXCEPT ![b] = [t \in Tasks |-> "queued"]]
  /\ pc' = [pc EXCEPT ![b] = "begin"]
  /\ at' = [at EXCEPT ![b] = 1]
  /\ UNCHANGED <<device, lock, good, bad, receipt, final, hub, cancelling, resuming, history>>

\* claim_batch_for_execution_atomic, then the start of the executor thread.
Claim(b) ==
  /\ calls[b] > 0
  /\ calls' = [calls EXCEPT ![b] = @ - 1]
  /\ IF status[b] = "approved"
     THEN /\ status' = [status EXCEPT ![b] = "queued"]
          /\ task' = [task EXCEPT ![b] = [t \in Tasks |-> "queued"]]
          /\ pc' = [pc EXCEPT ![b] = "begin"]
     ELSE UNCHANGED <<status, task, pc>>
  /\ UNCHANGED <<device, lock, at, good, bad, receipt, final, hub, cancelling, resuming, history>>

-----------------------------------------------------------------------------
(* _execute_batch_internal, up to the first task.                          *)

Goto(b, from, to) == pc[b] = from /\ pc' = [pc EXCEPT ![b] = to]

\* A step of a thread that only reads the database.
Look(b, from, to) ==
  /\ Goto(b, from, to)
  /\ UNCHANGED <<db, lock, at, good, bad, receipt, final, hub, request, history>>

\* Leaving the method from inside "with lock".
Leave(b) == pc' = [pc EXCEPT ![b] = "none"] /\ lock' = NoBatch

\* The thread stops at once when the batch is already cancelled.
Begin(b) == Look(b, "begin", IF status[b] \in Cancelling THEN "none" ELSE "lock")

Lock(b) ==
  /\ lock = NoBatch
  /\ Goto(b, "lock", "recheck")
  /\ lock' = b
  /\ UNCHANGED <<db, at, good, bad, receipt, final, hub, request, history>>

\* The status of the batch, then the state of the phone, read under the lock.
Recheck(b) ==
  /\ pc[b] = "recheck"
  /\ IF status[b] \in Cancelling
     THEN Leave(b)
     ELSE /\ Goto(b, "recheck", IF device = "paused" THEN "block" ELSE "toRunning")
          /\ UNCHANGED lock
  /\ UNCHANGED <<db, at, good, bad, receipt, final, hub, request, history>>

\* The phone is paused: update_batch_status(failed).  The table has no way
\* from queued or cancelled to failed, the refusal is ignored.
Block(b) ==
  /\ Goto(b, "block", "failTasks")
  /\ status' = [status EXCEPT ![b] = IF BatchMayMove(@, "failed") THEN "failed" ELSE @]
  /\ UNCHANGED <<task, device, lock, at, good, bad, receipt, final, hub, request, history>>

\* update_tasks_status_for_batch(failed), whatever the tasks are.
FailTasks(b) ==
  /\ pc[b] = "failTasks"
  /\ task' = [task EXCEPT ![b] = [t \in Tasks |-> "failed"]]
  /\ Leave(b)
  /\ UNCHANGED <<status, device, at, good, bad, receipt, final, hub, request, history>>

\* update_batch_status(running): the SELECT ...
ToRunning(b) ==
  /\ pc[b] = "toRunning"
  /\ IF BatchMayMove(status[b], "running")
     THEN Goto(b, "toRunning", "setRunning") /\ UNCHANGED lock
     ELSE Leave(b)
  /\ UNCHANGED <<db, at, good, bad, receipt, final, hub, request, history>>

\* ... and the UPDATE, which does not look at the status again.
SetRunning(b) ==
  /\ Goto(b, "setRunning", "loop")
  /\ status' = [status EXCEPT ![b] = "running"]
  /\ UNCHANGED <<task, device, lock, at, good, bad, receipt, final, hub, request, history>>

-----------------------------------------------------------------------------
(* One round of the loop over the tasks; at[b] is the task.                *)

\* The head of the loop: no task left, or the batch is cancelled: summary.
Loop(b) ==
  Look(b, "loop",
       IF at[b] > N \/ status[b] \in Cancelling THEN "sum" ELSE "attempt")

\* start_task_attempt: the SELECT; a task in no state to start is skipped ...
Attempt(b) ==
  /\ pc[b] = "attempt"
  /\ IF task[b][at[b]] \in {"queued", "approved", "running"}
     THEN Goto(b, "attempt", "setAttempt") /\ UNCHANGED at
     ELSE Goto(b, "attempt", "loop") /\ at' = [at EXCEPT ![b] = @ + 1]
  /\ UNCHANGED <<db, lock, good, bad, receipt, final, hub, request, history>>

\* ... and the UPDATE.
SetAttempt(b) ==
  /\ Goto(b, "setAttempt", "check")
  /\ task' = [task EXCEPT ![b][at[b]] = "running"]
  /\ UNCHANGED <<status, device, lock, at, good, bad, receipt, final, hub, request, history>>

\* The last look at the status before the worker is called.
Check(b) == Look(b, "check", IF status[b] \in Cancelling THEN "sum" ELSE "dispatch")

\* No worker is online for the phone: RuntimeError, the except branch.
Offline(b) ==
  /\ Goto(b, "dispatch", "save")
  /\ receipt' = [receipt EXCEPT ![b] = Raised]
  /\ UNCHANGED <<db, lock, at, good, bad, final, hub, request, history>>

\* dispatch_task_sync puts a lease in the queue of the hub and waits.
Enqueue(b) ==
  /\ Goto(b, "dispatch", "wait")
  /\ lease' = [lease EXCEPT ![b] = "pending"]
  /\ UNCHANGED <<db, lock, at, good, bad, receipt, final, orphans, request, history>>

\* The wait ends with a receipt ...
Wake(b) ==
  /\ lease[b] = "done"
  /\ Goto(b, "wait", "receipt")
  /\ lease' = [lease EXCEPT ![b] = "none"]
  /\ UNCHANGED <<db, lock, at, good, bad, receipt, final, orphans, request, history>>

\* ... or with its timeout.
Expire(b) ==
  /\ lease[b] # "done"
  /\ Look(b, "wait", "giveUp")

\* cancel_lease after the timeout: a queued lease is dropped, one a worker
\* holds stays in the table of the hub with nobody waiting for it.  The
\* receipt is timed_out and unverified even if the worker's has just come.
GiveUp(b) ==
  /\ Goto(b, "giveUp", "receipt")
  /\ lease' = [lease EXCEPT ![b] = "none"]
  /\ orphans' = orphans + (IF lease[b] \in {"active", "flagged"} THEN 1 ELSE 0)
  /\ receipt' = [receipt EXCEPT ![b] = Answer("timed_out", FALSE)]
  /\ UNCHANGED <<db, lock, at, good, bad, final, request, history>>

\* Variant: the phone is not paused when it was not found ready.
NoteReceiptOnly(b) ==
  /\ Goto(b, "receipt", "save")
  /\ receipt' = [receipt EXCEPT ![b] =
       IF b \in Malformed THEN Raised
       ELSE IF @.ready THEN @ ELSE Answer("needs_human_action", FALSE)]
  /\ UNCHANGED <<db, lock, at, good, bad, final, hub, request, history>>

\* A phone that is not ready is paused.  Then the filters of the batch are
\* built; if that raises, the task goes to the except branch.
NoteReceipt(b) ==
  /\ Goto(b, "receipt", "save")
  /\ device' = IF receipt[b].ready THEN device ELSE "paused"
  /\ receipt' = [receipt EXCEPT ![b] =
       IF b \in Malformed THEN Raised
       ELSE IF @.ready THEN @ ELSE Answer("needs_human_action", FALSE)]
  /\ UNCHANGED <<status, task, lock, at, good, bad, final, hub, request, history>>

\* What follows save_task_receipt, whether it wrote or refused: the end of
\* the except branch goes to the next task, the end of try confirms first.
Saved(b) ==
  IF receipt[b].raised
  THEN /\ pc' = [pc EXCEPT ![b] = "loop"]
       /\ bad' = [bad EXCEPT ![b] = @ + 1] /\ at' = [at EXCEPT ![b] = @ + 1]
  ELSE pc' = [pc EXCEPT ![b] = "confirm"] /\ UNCHANGED <<bad, at>>

\* save_task_receipt: the SELECT, which may refuse ...
Save(b) ==
  /\ pc[b] = "save"
  /\ IF TaskMayMove(task[b][at[b]], receipt[b].status)
     THEN Goto(b, "save", "setTask") /\ UNCHANGED <<bad, at>>
     ELSE Saved(b)
  /\ UNCHANGED <<db, lock, good, receipt, final, hub, request, history>>

\* ... and the UPDATE.
SetTask(b) ==
  /\ pc[b] = "setTask"
  /\ task' = [task EXCEPT ![b][at[b]] = receipt[b].status]
  /\ Saved(b)
  /\ UNCHANGED <<status, device, lock, good, receipt, final, hub, request, history>>

\* finalize_cancellation_atomic.
Finalize(b) ==
  /\ status' = [status EXCEPT ![b] = IF @ = "cancel_requested" THEN "cancelled" ELSE @]
  /\ task' = [task EXCEPT ![b] = [t \in Tasks |->
       IF @[t] = "cancel_requested" THEN "cancelled" ELSE @[t]]]

\* A cancellation in progress is confirmed, the task counted, and the loop
\* left if the phone was not ready.
Confirm(b) ==
  /\ IF receipt[b].ready
     THEN Goto(b, "confirm", "loop") /\ at' = [at EXCEPT ![b] = @ + 1]
     ELSE Goto(b, "confirm", "sum") /\ UNCHANGED at
  /\ IF status[b] = "cancel_requested" \/ receipt[b].status = "cancelled"
     THEN Finalize(b) ELSE UNCHANGED <<status, task>>
  /\ IF receipt[b].status = "succeeded"
     THEN good' = [good EXCEPT ![b] = @ + 1] /\ UNCHANGED bad
     ELSE bad' = [bad EXCEPT ![b] = @ + 1] /\ UNCHANGED good
  /\ UNCHANGED <<device, lock, receipt, final, hub, request, history>>

-----------------------------------------------------------------------------
(* The summary.                                                            *)

\* Variant: skipped and failed tasks do not count.
VerdictBySuccess(b) ==
  IF good[b] > 0 THEN "succeeded" ELSE "failed"

Verdict(b) ==
  CASE bad[b] = 0 /\ good[b] > 0 -> "succeeded"
    [] bad[b] > 0 /\ good[b] > 0 -> "partial_failed"
    [] OTHER -> "failed"

\* A batch found cancelled is finalized, any other gets its verdict.
Sum(b) ==
  /\ pc[b] = "sum"
  /\ IF status[b] \in Cancelling
     THEN Finalize(b) /\ Leave(b) /\ UNCHANGED final
     ELSE /\ Goto(b, "sum", "finish")
          /\ final' = [final EXCEPT ![b] = Verdict(b)]
          /\ UNCHANGED <<status, task, lock>>
  /\ UNCHANGED <<device, at, good, bad, receipt, hub, request, history>>

\* update_batch_status(verdict): the SELECT, whose refusal is ignored ...
Finish(b) ==
  /\ pc[b] = "finish"
  /\ IF BatchMayMove(status[b], final[b])
     THEN Goto(b, "finish", "setFinal") /\ UNCHANGED lock
     ELSE Leave(b)
  /\ UNCHANGED <<db, at, good, bad, receipt, final, hub, request, history>>

\* Variant: the lock of the phone is not given back.
SetFinalKeepLock(b) ==
  /\ Goto(b, "setFinal", "none")
  /\ status' = [status EXCEPT ![b] = final[b]]
  /\ UNCHANGED <<task, device, lock, at, good, bad, receipt, final, hub, request, history>>

\* ... and the UPDATE.
SetFinal(b) ==
  /\ pc[b] = "setFinal"
  /\ status' = [status EXCEPT ![b] = final[b]]
  /\ Leave(b)
  /\ UNCHANGED <<task, device, at, good, bad, receipt, final, hub, request, history>>

-----------------------------------------------------------------------------
(* The worker, seen through the hub.                                       *)

\* poll_task hands the lease out.
Take(b) ==
  /\ lease[b] = "pending"
  /\ lease' = [lease EXCEPT ![b] = "active"]
  /\ handed' = [handed EXCEPT ![b][at[b]] = @ + 1]
  /\ UNCHANGED <<db, lock, thread, orphans, request, accepted, restarts>>

\* submit_receipt: what the worker reports and whether it left the phone ready.
Report(b, s, r) ==
  /\ lease[b] \in {"active", "flagged"}
  /\ lease' = [lease EXCEPT ![b] = "done"]
  /\ receipt' = [receipt EXCEPT ![b] = Answer(s, r)]
  /\ UNCHANGED <<db, lock, pc, at, good, bad, final, orphans, request, history>>

\* The same, for a lease nobody waits for any more.
ReportLate ==
  /\ orphans > 0
  /\ orphans' = orphans - 1
  /\ UNCHANGED <<db, lock, thread, lease, request, history>>

-----------------------------------------------------------------------------
(* Other requests, and the restart.                                        *)

\* cancel_batch, first half: cancel_lease_by_batch.  A queued lease ends with
\* a receipt that has no attempt and no reset_status, one a worker holds is
\* flagged for the next heartbeat.
CancelLeases(b) ==
  /\ ~cancelling[b]
  /\ cancelling' = [cancelling EXCEPT ![b] = TRUE]
  /\ lease' = [lease EXCEPT ![b] =
       CASE @ = "pending" -> "done" [] @ = "active" -> "flagged" [] OTHER -> @]
  /\ receipt' = [receipt EXCEPT ![b] = IF lease[b] = "pending" THEN Answer("failed", FALSE) ELSE @]
  /\ UNCHANGED <<db, lock, pc, at, good, bad, final, orphans, calls, resuming, history>>

\* Variant: a batch that has ended may still be cancelled.
CancelBatchAny(b) ==
  /\ cancelling[b]
  /\ cancelling' = [cancelling EXCEPT ![b] = FALSE]
  /\ LET to == IF status[b] = "running" THEN "cancel_requested" ELSE "cancelled"
     IN  /\ status' = [status EXCEPT ![b] = to]
         /\ task' = [task EXCEPT ![b] = [t \in Tasks |-> IF @[t] \in TaskOpen THEN to ELSE @[t]]]
  /\ accepted' = [accepted EXCEPT ![b] = TRUE]
  /\ UNCHANGED <<device, lock, thread, hub, calls, resuming, handed, restarts>>

\* cancel_batch, second half: cancel_batch_atomic.
CancelBatch(b) ==
  /\ cancelling[b]
  /\ cancelling' = [cancelling EXCEPT ![b] = FALSE]
  /\ IF status[b] \in BatchFinal
     THEN UNCHANGED <<status, task, accepted>>
     ELSE LET to == IF status[b] = "running" THEN "cancel_requested" ELSE "cancelled"
          IN  /\ status' = [status EXCEPT ![b] = to]
              /\ task' = [task EXCEPT ![b] =
                   [t \in Tasks |-> IF @[t] \in TaskOpen THEN to ELSE @[t]]]
              /\ accepted' = [accepted EXCEPT ![b] = TRUE]
  /\ UNCHANGED <<device, lock, thread, hub, calls, resuming, handed, restarts>>

\* has_active_lease_for_device.
LeaseHeld == orphans > 0 \/ \E b \in Batches : lease[b] \in {"active", "flagged"}

\* handle_resume_device, what the server runs for POST device/resume: it writes
\* to the database and does not go through resume_device of the service.
ResumeRoute ==
  /\ "route" \in ResumeBy
  /\ device' = "ready"
  /\ UNCHANGED <<status, task, lock, thread, hub, request, history>>

\* resume_device, check and write with nothing in between ...
Resume ==
  /\ "service" \in ResumeBy /\ ~LeaseHeld
  /\ device' = "ready"
  /\ UNCHANGED <<status, task, lock, thread, hub, request, history>>

\* ... or as the two critical sections they are: the check in the hub ...
ResumeCheck ==
  /\ "split" \in ResumeBy /\ ~resuming /\ ~LeaseHeld
  /\ resuming' = TRUE
  /\ UNCHANGED <<db, lock, thread, hub, calls, cancelling, history>>

\* ... and the write to the database.
ResumeWrite ==
  /\ resuming
  /\ resuming' = FALSE
  /\ device' = "ready"
  /\ UNCHANGED <<status, task, lock, thread, hub, calls, cancelling, history>>

\* The recovery of _init_db: every batch left running or cancel_requested
\* ends, its tasks in flight are unknown, and the phone is paused.
Recover ==
  LET stale == {b \in Batches : status[b] \in {"running", "cancel_requested"}}
  IN  /\ status' = [b \in Batches |->
           IF b \notin stale THEN status[b]
           ELSE IF status[b] = "running" THEN "failed" ELSE "cancelled"]
      /\ task' = [b \in Batches |-> [t \in Tasks |->
           IF b \in stale /\ task[b][t] \in {"running", "cancel_requested"}
           THEN "execution_unknown" ELSE task[b][t]]]
      /\ device' = IF stale = {} THEN device ELSE "paused"

\* The process stops anywhere: threads, locks, leases and requests are gone.
Restart ==
  /\ restarts < MaxRestarts
  /\ restarts' = restarts + 1
  /\ Recover
  /\ lock' = NoBatch
  /\ pc' = [b \in Batches |-> "none"]
  /\ lease' = [b \in Batches |-> "none"] /\ orphans' = 0
  /\ calls' = [b \in Batches |-> 0]
  /\ cancelling' = [b \in Batches |-> FALSE] /\ resuming' = FALSE
  /\ UNCHANGED <<at, good, bad, receipt, final, accepted, handed>>

-----------------------------------------------------------------------------
Prepare(b) == Begin(b) \/ Lock(b) \/ Recheck(b) \/ Block(b) \/ FailTasks(b)
                \/ ToRunning(b) \/ SetRunning(b)
RunTask(b) == Loop(b) \/ Attempt(b) \/ SetAttempt(b) \/ Check(b) \/ Offline(b) \/ Enqueue(b)
                \/ Wake(b) \/ Expire(b) \/ GiveUp(b) \/ NoteReceipt(b)
                \/ Save(b) \/ SetTask(b) \/ Confirm(b)
Conclude(b) == Sum(b) \/ Finish(b) \/ SetFinal(b)

\* One step of the executor thread of batch b.
Executor(b) == Prepare(b) \/ RunTask(b) \/ Conclude(b)

\* One step of a worker.
Worker == (\E b \in Batches : Take(b))
            \/ (\E b \in Batches, s \in Outcomes, r \in BOOLEAN : Report(b, s, r))
            \/ ReportLate

Next ==
  \/ \E b \in Batches :
       Execute(b) \/ Claim(b) \/ Executor(b) \/ CancelLeases(b) \/ CancelBatch(b)
  \/ Worker
  \/ ResumeRoute \/ Resume \/ ResumeCheck \/ ResumeWrite
  \/ Restart

Spec == Init /\ [][Next]_vars

\* Threads of the server that can run do run.  Nothing is assumed of workers
\* or of the people who cancel, resume or restart.
Fairness == \A b \in Batches :
  WF_vars(Claim(b)) /\ WF_vars(Executor(b)) /\ WF_vars(CancelBatch(b))
FairSpec == Spec /\ Fairness

-----------------------------------------------------------------------------
(* What holds.                                                             *)

\* No task is handed to a worker twice, whatever calls of execute_batch,
\* cancellations, timeouts and restarts come together (claim_batch_for_
\* execution_atomic: no second dispatch by concurrent calls).
HandedOutOnce == \A b \in Batches, t \in Tasks : handed[b][t] <= 1

\* While a task is with the hub the phone is not paused: the state read under
\* the lock stays good for the whole walk over the tasks.  Batches whose
\* filters raise are the exception, see PausedStopsDispatch.
ReadyWhileDispatching == \A b \in Batches \ Malformed : pc[b] = "wait" => device = "ready"

\* A batch is running only while its executor thread walks its tasks, holding
\* the lock of the phone: no batch is left running for ever, over restarts too.
RunningIsDriven == \A b \in Batches : status[b] = "running" => pc[b] \in Walking /\ lock = b

\* The counters of the loop agree with the table of tasks: a batch reported
\* as succeeded has only succeeded tasks, and one reported as partly failed has
\* a succeeded task and one that is not, although skipped tasks and refused
\* receipts are not looked at when the verdict is made.
VerdictIsEarned ==
  \A b \in Batches :
    /\ status[b] = "succeeded" => \A t \in Tasks : task[b][t] = "succeeded"
    /\ status[b] = "partial_failed" =>
         (\E t \in Tasks : task[b][t] = "succeeded") /\ (\E t \in Tasks : task[b][t] # "succeeded")

\* A verdict, and the outcome of a task, are never written over by a late
\* cancellation, a second call or the recovery.
OutcomeKept ==
  [][\A b \in Batches :
       /\ status[b] \in {"succeeded", "partial_failed", "failed"} => status'[b] = status[b]
       /\ \A t \in Tasks : task[b][t] \in ReceiptStatus \ {"cancelled"} => task'[b][t] = task[b][t]]_vars

\* The tasks of one phone run one at a time: the workers hold at most one
\* lease of it, those nobody waits for included (_get_device_lock, R07).  It
\* takes the check of resume_device: it fails when ResumeBy has "route" or "split".
SerialOnPhone ==
  /\ \A b, c \in Batches : lease[b] \in {"active", "flagged"} /\ lease[c] \in {"active", "flagged"} => b = c
  /\ orphans > 0 => \A b \in Batches : lease[b] \notin {"active", "flagged"}
  /\ orphans <= 1

\* Every executor thread ends and gives the lock back, so a running batch
\* ends: the timeout of the lease bounds what a silent worker can hold up.
ExecutorEnds == \A b \in Batches : pc[b] # "none" ~> pc[b] = "none"

-----------------------------------------------------------------------------
(* What the comments say and the code does not do.                         *)

\* "First cancel_requested, confirmed as cancelled when the worker has stopped
\* and returned its receipt" (cancel_batch_atomic): as long as a worker holds a
\* task of the batch, the batch is not cancelled.
CancelledMeansStopped ==
  \A b \in Batches : status[b] = "cancelled" => lease[b] \notin {"active", "flagged"}

\* "Cancel the batch and end its leases" (cancel_batch): once the request was
\* answered with success, no worker executes a task of the batch unflagged.
CancelReachesLease == \A b \in Batches : accepted[b] => lease[b] # "active"

\* The paused phone ends a batch: an executor that has failed all tasks of its
\* batch does not leave the batch queued, where nothing will run it again.
BlockedFails ==
  \A b \in Batches :
    (\A t \in Tasks : task[b][t] = "failed") /\ pc[b] = "none" => status[b] # "queued"

\* "If the phone was not reset, stop dispatching to it" (R07), for every batch.
PausedStopsDispatch == \A b \in Batches : pc[b] = "wait" => device = "ready"
=============================================================================
