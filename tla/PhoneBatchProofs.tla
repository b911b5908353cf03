------------------------- MODULE PhoneBatchProofs -------------------------
(***************************************************************************)
(* Proofs about PhoneBatch, for any batches of a phone, any number of      *)
(* tasks, requests and restarts, and whatever the workers report.          *)
(***************************************************************************)
EXTENDS PhoneBatch, TLAPS

\* A thread between the head of the loop and the summary has a task.
InTask == Walking \ {"loop", "sum", "finish", "setFinal"}
\* A thread before the summary.
Counting == Waiting \cup Starting \cup InTask \cup {"loop"}
\* A thread under the lock of the phone.
Locked == Starting \cup Walking
\* A thread that has not handed out its next task.
Before == Waiting \cup Starting \cup {"loop", "attempt", "setAttempt", "check", "dispatch"}

\* The counters are bounded by the tasks walked over, and a batch that is still
\* approved has no thread.
Walk(b) ==
  /\ pc[b] \in InTask => at[b] <= N
  /\ pc[b] \in Counting => good[b] + bad[b] < at[b]
  /\ status[b] = "approved" => pc[b] = "none" /\ at[b] = 1 /\ good[b] = 0 /\ bad[b] = 0

Typed == TypeOK /\ \A b \in Batches : Walk(b)

\* The threads between recheck and the end of the method hold the lock, and a
\* running batch has one that walks its tasks.
Guarded(b) ==
  /\ pc[b] \in Locked <=> lock = b
  /\ status[b] = "running" => pc[b] \in Walking

\* The lease of a batch is there while its thread waits for it; a task behind
\* the one at hand has not been handed out.
Handing(b) ==
  /\ lease[b] # "none" => pc[b] \in {"wait", "giveUp"}
  /\ status[b] = "approved" => \A t \in Tasks : handed[b][t] = 0
  /\ \A t \in Tasks :
       /\ handed[b][t] <= 1
       /\ pc[b] \in Counting /\ t > at[b] => handed[b][t] = 0
       /\ pc[b] \in Before /\ t = at[b] => handed[b][t] = 0
       /\ lease[b] = "pending" /\ t = at[b] => handed[b][t] = 0

\* The phone is ready from the check under the lock until the receipt says
\* otherwise; what is written after that ends the walk.
Ready(b) ==
  /\ pc[b] \in {"toRunning", "setRunning", "loop", "attempt", "setAttempt", "check", "dispatch",
                "wait", "giveUp", "receipt"} => device = "ready"
  /\ pc[b] \in {"save", "setTask"} => device = "ready" \/ ~(receipt[b].raised \/ receipt[b].ready)
  /\ pc[b] = "confirm" => device = "ready" \/ ~receipt[b].ready
  /\ lease[b] = "done" => ~receipt[b].raised
  /\ pc[b] \in {"receipt", "confirm"} => ~receipt[b].raised

\* With no way to resume the phone around the check of its leases, a lease
\* nobody waits for keeps the phone from being used.
Alone ==
  /\ ~resuming
  /\ orphans <= 1
  /\ orphans > 0 =>
       \/ device = "paused"
       \/ \E b \in Batches : pc[b] = "receipt" /\ ~receipt[b].ready
-----------------------------------------------------------------------------
LEMMA Places ==
  /\ "none" \in Location /\ "begin" \in Location /\ "lock" \in Location /\ "recheck" \in Location
  /\ "block" \in Location /\ "failTasks" \in Location /\ "toRunning" \in Location
  /\ "setRunning" \in Location /\ "loop" \in Location /\ "attempt" \in Location
  /\ "setAttempt" \in Location /\ "check" \in Location /\ "dispatch" \in Location
  /\ "wait" \in Location /\ "giveUp" \in Location /\ "receipt" \in Location
  /\ "save" \in Location /\ "setTask" \in Location /\ "confirm" \in Location
  /\ "sum" \in Location /\ "finish" \in Location /\ "setFinal" \in Location
BY DEF Location, Waiting, Starting, Walking

LEMMA Values ==
  /\ "queued" \in BatchStatus /\ "running" \in BatchStatus /\ "failed" \in BatchStatus
  /\ "cancelled" \in BatchStatus /\ "cancel_requested" \in BatchStatus
  /\ "succeeded" \in BatchStatus /\ "partial_failed" \in BatchStatus
  /\ "queued" \in TaskStatus /\ "running" \in TaskStatus /\ "failed" \in TaskStatus
  /\ "cancelled" \in TaskStatus /\ "cancel_requested" \in TaskStatus
  /\ "execution_unknown" \in TaskStatus
  /\ ReceiptStatus \subseteq TaskStatus
BY DEF BatchStatus, TaskStatus, ReceiptStatus

LEMMA Answers ==
  /\ \A s \in ReceiptStatus, r \in BOOLEAN : Answer(s, r) \in Receipt
  /\ Raised \in Receipt
  /\ \A r \in Receipt : r.status \in ReceiptStatus
  /\ "timed_out" \in ReceiptStatus /\ "needs_human_action" \in ReceiptStatus
  /\ "failed" \in ReceiptStatus
BY DEF Answer, Raised, Receipt, ReceiptStatus

\* In front of the last task there is room for one more in every counter.
LEMMA Room ==
  ASSUME PhoneBatchAssumption, Typed, NEW b \in Batches, pc[b] \in InTask
  PROVE  at[b] + 1 \in 1 .. (N + 1) /\ good[b] + 1 \in 0 .. N /\ bad[b] + 1 \in 0 .. N
<1>1. at[b] <= N /\ good[b] + bad[b] < at[b]
  BY DEF Typed, Walk, Counting
<1>2. at[b] \in Nat /\ good[b] \in Nat /\ bad[b] \in Nat /\ N \in Nat
  BY DEF Typed, TypeOK, PhoneBatchAssumption
<1>3. QED
  BY <1>1, <1>2

LEMMA InTasks ==
  "attempt" \in InTask /\ "save" \in InTask /\ "setTask" \in InTask /\ "confirm" \in InTask
BY DEF InTask, Walking

LEMMA FinalizeTyped ==
  ASSUME PhoneBatchAssumption, TypeOK, NEW b \in Batches, Finalize(b)
  PROVE  status' \in [Batches -> BatchStatus] /\ task' \in [Batches -> [Tasks -> TaskStatus]]
<1>1. status' \in [Batches -> BatchStatus]
  BY Values DEF Finalize, TypeOK
<1>2. [t \in Tasks |-> IF task[b][t] = "cancel_requested" THEN "cancelled" ELSE task[b][t]]
        \in [Tasks -> TaskStatus]
  BY Values DEF TypeOK
<1>3. task' = [task EXCEPT ![b] =
        [t \in Tasks |-> IF task[b][t] = "cancel_requested" THEN "cancelled" ELSE task[b][t]]]
  BY DEF Finalize, TypeOK
<1>4. QED
  BY <1>1, <1>2, <1>3 DEF TypeOK

LEMMA Went ==
  ASSUME TypeOK, NEW b \in Batches, NEW from, NEW to \in Location, Goto(b, from, to)
  PROVE  pc' \in [Batches -> Location]
BY DEF Goto, TypeOK

LEMMA SavedTyped ==
  ASSUME PhoneBatchAssumption, Typed, NEW b \in Batches, pc[b] \in InTask, Saved(b)
  PROVE  /\ pc' \in [Batches -> Location] /\ at' \in [Batches -> 1 .. (N + 1)]
         /\ bad' \in [Batches -> 0 .. N]
<1>1. at[b] + 1 \in 1 .. (N + 1) /\ bad[b] + 1 \in 0 .. N
  BY Room
<1>2. CASE receipt[b].raised
  <2>1. /\ pc' = [pc EXCEPT ![b] = "loop"]
        /\ bad' = [bad EXCEPT ![b] = @ + 1] /\ at' = [at EXCEPT ![b] = @ + 1]
    BY <1>2 DEF Saved
  <2>2. QED
    BY <1>1, <2>1, Places DEF Typed, TypeOK
<1>3. CASE ~receipt[b].raised
  <2>1. pc' = [pc EXCEPT ![b] = "confirm"] /\ UNCHANGED <<bad, at>>
    BY <1>3 DEF Saved
  <2>2. QED
    BY <2>1, Places DEF Typed, TypeOK
<1>4. QED
  BY <1>2, <1>3

LEMMA TypedPrepare ==
  ASSUME PhoneBatchAssumption, Typed, NEW b \in Batches, Prepare(b)
  PROVE  TypeOK'
<1> USE PhoneBatchAssumption, Places, Values, Answers
        DEF PhoneBatchAssumption, Typed, TypeOK, db, thread, hub, request, history
<1>1. CASE Begin(b)
  BY <1>1 DEF Begin, Look, Goto
<1>2. CASE Lock(b)
  BY <1>2 DEF Lock, Goto
<1>3. CASE Recheck(b)
  <2>1. CASE status[b] \in Cancelling
    <3>1. Leave(b)
      BY <1>3, <2>1 DEF Recheck
    <3>2. pc' \in [Batches -> Location] /\ lock' \in Batches \cup {NoBatch}
      BY <3>1 DEF Leave
    <3>3. QED
      BY <1>3, <3>2 DEF Recheck
  <2>2. CASE ~(status[b] \in Cancelling)
    <3>1. UNCHANGED <<lock, db, at, good, bad, receipt, final, hub, request, history>>
      BY <1>3, <2>2 DEF Recheck
    <3>0. pc' = [pc EXCEPT ![b] = IF device = "paused" THEN "block" ELSE "toRunning"]
      BY ONLY <1>3, <2>2 DEF Recheck, Goto
    <3>2. pc' \in [Batches -> Location]
      BY <3>0
    <3>3. QED
      BY <3>1, <3>2
  <2>3. QED
    BY <2>1, <2>2
<1>4. CASE Block(b)
  BY <1>4 DEF Block, Goto
<1>5. CASE FailTasks(b)
  BY <1>5 DEF FailTasks, Leave
<1>6. CASE ToRunning(b)
  <2>1. CASE ~BatchMayMove(status[b], "running")
    <3>1. Leave(b)
      BY <1>6, <2>1 DEF ToRunning
    <3>2. pc' \in [Batches -> Location] /\ lock' \in Batches \cup {NoBatch}
      BY <3>1 DEF Leave
    <3>3. QED
      BY <1>6, <3>2 DEF ToRunning
  <2>2. CASE ~(~BatchMayMove(status[b], "running"))
    <3>1. Goto(b, "toRunning", "setRunning") /\ UNCHANGED lock
      BY <1>6, <2>2 DEF ToRunning
    <3>2. pc' \in [Batches -> Location]
      BY <3>1 DEF Goto
    <3>3. QED
      BY <1>6, <3>1, <3>2 DEF ToRunning
  <2>3. QED
    BY <2>1, <2>2
<1>7. CASE SetRunning(b)
  BY <1>7 DEF SetRunning, Goto
<1>8. QED
  BY <1>1, <1>2, <1>3, <1>4, <1>5, <1>6, <1>7 DEF Prepare

LEMMA TypedRunTask ==
  ASSUME PhoneBatchAssumption, Typed, NEW b \in Batches, RunTask(b)
  PROVE  TypeOK'
<1> USE PhoneBatchAssumption, Places, Values, Answers
        DEF PhoneBatchAssumption, Typed, TypeOK, db, thread, hub, request, history
<1>1. CASE Loop(b)
  BY <1>1 DEF Loop, Look, Goto
<1>2. CASE Attempt(b)
  <2>1. at[b] + 1 \in 1 .. (N + 1)
    BY <1>2, Room, InTasks DEF Attempt, Goto
  <2>2. pc' \in [Batches -> Location]
    <3>1. Goto(b, "attempt", "setAttempt") \/ Goto(b, "attempt", "loop")
      BY <1>2 DEF Attempt
    <3>2. QED
      BY <3>1, Went
  <2>3. at' \in [Batches -> 1 .. (N + 1)]
    BY <1>2, <2>1, ZenonT(60) DEF Attempt
  <2>4. QED
    BY <1>2, <2>2, <2>3 DEF Attempt
<1>3. CASE SetAttempt(b)
  BY <1>3 DEF SetAttempt, Goto
<1>4. CASE Check(b)
  BY <1>4 DEF Check, Look, Goto
<1>5. CASE Offline(b)
  BY <1>5 DEF Offline, Goto
<1>6. CASE Enqueue(b)
  BY <1>6 DEF Enqueue, Goto
<1>7. CASE Wake(b)
  BY <1>7 DEF Wake, Goto
<1>8. CASE Expire(b)
  BY <1>8 DEF Expire, Look, Goto
<1>9. CASE GiveUp(b)
  <2>1. orphans' \in Nat
    BY <1>9 DEF GiveUp
  <2>2. receipt' \in [Batches -> Receipt]
    BY <1>9 DEF GiveUp
  <2>3. QED
    BY <1>9, <2>1, <2>2 DEF GiveUp, Goto
<1>10. CASE NoteReceipt(b)
  BY <1>10 DEF NoteReceipt, Goto
<1>11. CASE Save(b)
  <2>1. CASE TaskMayMove(task[b][at[b]], receipt[b].status)
    <3>0. pc' = [pc EXCEPT ![b] = "setTask"]
      BY ONLY <1>11, <2>1 DEF Save, Goto
    <3>1. pc' \in [Batches -> Location]
      BY <3>0
    <3>2. UNCHANGED <<bad, at, db, lock, good, receipt, final, hub, request, history>>
      BY <1>11, <2>1 DEF Save
    <3>3. QED
      BY <3>1, <3>2, SMTT(30)
  <2>2. CASE ~TaskMayMove(task[b][at[b]], receipt[b].status)
    <3>1. Saved(b) /\ pc[b] \in InTask
      BY <1>11, <2>2, InTasks DEF Save
    <3>2. /\ pc' \in [Batches -> Location] /\ at' \in [Batches -> 1 .. (N + 1)]
          /\ bad' \in [Batches -> 0 .. N]
      BY <3>1, SavedTyped
    <3>3. QED
      BY <1>11, <3>2 DEF Save
  <2>3. QED
    BY <2>1, <2>2
<1>12. CASE SetTask(b)
  <2>1. Saved(b) /\ pc[b] \in InTask
    BY <1>12, InTasks DEF SetTask
  <2>2. /\ pc' \in [Batches -> Location] /\ at' \in [Batches -> 1 .. (N + 1)]
        /\ bad' \in [Batches -> 0 .. N]
    BY <2>1, SavedTyped
  <2>3. receipt[b].status \in TaskStatus
    OBVIOUS
  <2>4. task' \in [Batches -> [Tasks -> TaskStatus]]
    BY <1>12, <2>3 DEF SetTask
  <2>5. QED
    BY <1>12, <2>2, <2>4 DEF SetTask
<1>13. CASE Confirm(b)
  <2>1. at[b] + 1 \in 1 .. (N + 1) /\ good[b] + 1 \in 0 .. N /\ bad[b] + 1 \in 0 .. N
    BY <1>13, Room, InTasks DEF Confirm, Goto
  <2>2. pc' \in [Batches -> Location]
    <3>1. Goto(b, "confirm", "loop") \/ Goto(b, "confirm", "sum")
      BY <1>13 DEF Confirm
    <3>2. QED
      BY <3>1, Went
  <2>3. at' \in [Batches -> 1 .. (N + 1)]
    BY <1>13, <2>1 DEF Confirm
  <2>4. good' \in [Batches -> 0 .. N]
    BY <1>13, <2>1 DEF Confirm
  <2>5. bad' \in [Batches -> 0 .. N]
    BY <1>13, <2>1, ZenonT(60) DEF Confirm
  <2>6. CASE Finalize(b)
    BY <1>13, <2>2, <2>3, <2>4, <2>5, <2>6, FinalizeTyped DEF Confirm
  <2>7. CASE UNCHANGED <<status, task>>
    BY <1>13, <2>2, <2>3, <2>4, <2>5, <2>7 DEF Confirm
  <2>8. QED
    BY <1>13, <2>6, <2>7 DEF Confirm
<1>14. QED
  BY <1>1, <1>2, <1>3, <1>4, <1>5, <1>6, <1>7, <1>8, <1>9, <1>10, <1>11, <1>12, <1>13 DEF RunTask

LEMMA TypedConclude ==
  ASSUME PhoneBatchAssumption, Typed, NEW b \in Batches, Conclude(b)
  PROVE  TypeOK'
<1> USE PhoneBatchAssumption, Places, Values, Answers
        DEF PhoneBatchAssumption, Typed, TypeOK, db, thread, hub, request, history
<1>1. CASE Sum(b)
  <2>1. CASE status[b] \in Cancelling
    <3>1. Finalize(b) /\ Leave(b) /\ UNCHANGED final
      BY <1>1, <2>1 DEF Sum
    <3>2. pc' \in [Batches -> Location] /\ lock' \in Batches \cup {NoBatch}
      BY <3>1 DEF Leave
    <3>3. QED
      BY <1>1, <3>1, <3>2, FinalizeTyped DEF Sum
  <2>2. CASE status[b] \notin Cancelling
    <3>1. Goto(b, "sum", "finish") /\ UNCHANGED <<status, task, lock>>
      BY <1>1, <2>2 DEF Sum
    <3>2. final' \in [Batches -> {"succeeded", "partial_failed", "failed"}]
      BY <1>1, <2>2 DEF Sum, Verdict
    <3>3. QED
      BY <1>1, <3>1, <3>2 DEF Sum, Goto
  <2>3. QED
    BY <2>1, <2>2
<1>2. CASE Finish(b)
  <2>1. CASE ~BatchMayMove(status[b], final[b])
    <3>1. Leave(b)
      BY <1>2, <2>1 DEF Finish
    <3>2. pc' \in [Batches -> Location] /\ lock' \in Batches \cup {NoBatch}
      BY <3>1 DEF Leave
    <3>3. QED
      BY <1>2, <3>2 DEF Finish
  <2>2. CASE ~(~BatchMayMove(status[b], final[b]))
    <3>1. Goto(b, "finish", "setFinal") /\ UNCHANGED lock
      BY <1>2, <2>2 DEF Finish
    <3>2. pc' \in [Batches -> Location]
      BY <3>1 DEF Goto
    <3>3. QED
      BY <1>2, <3>1, <3>2 DEF Finish
  <2>3. QED
    BY <2>1, <2>2
<1>3. CASE SetFinal(b)
  BY <1>3 DEF SetFinal, Leave
<1>4. QED
  BY <1>1, <1>2, <1>3 DEF Conclude

-----------------------------------------------------------------------------
Whole(b) == Walk(b) /\ Guarded(b) /\ Handing(b) /\ (b \notin Malformed => Ready(b))

Inv == TypeOK /\ \A b \in Batches : Whole(b)

\* A step of the thread of b, seen from the other batches: their entries stay,
\* the lock is theirs if it was, and only who holds it pauses the phone.
Kept(b) ==
  /\ \A c \in Batches \ {b} :
       /\ pc'[c] = pc[c] /\ at'[c] = at[c] /\ good'[c] = good[c] /\ bad'[c] = bad[c]
       /\ receipt'[c] = receipt[c] /\ lease'[c] = lease[c] /\ status'[c] = status[c]
       /\ handed'[c] = handed[c]
       /\ lock' = c <=> lock = c
  /\ device' = device \/ lock = b

LEMMA Keeps ==
  ASSUME PhoneBatchAssumption, Inv, TypeOK', NEW b \in Batches, Kept(b), Whole(b)'
  PROVE  Inv'
<1>1. ASSUME NEW c \in Batches \ {b} PROVE Whole(c)'
  <2>1. Walk(c)'
    BY DEF Inv, Whole, Kept, Walk
  <2>2. Guarded(c)'
    BY DEF Inv, Whole, Kept, Guarded
  <2>3. Handing(c)'
    BY DEF Inv, Whole, Kept, Handing
  <2>4. (c \notin Malformed => Ready(c))'
    <3>1. CASE device' = device
      BY <3>1 DEF Inv, Whole, Kept, Ready
    <3>2. CASE lock = b
      <4>1. pc[c] \notin Locked
        BY <3>2 DEF Inv, Whole, Guarded
      <4>2. lease'[c] = "done" => ~receipt'[c].raised \/ c \in Malformed
        BY DEF Inv, Whole, Kept, Ready
      <4>3. pc'[c] \notin Locked
        BY <4>1 DEF Kept
      <4>4. QED
        BY <4>2, <4>3 DEF Ready, Locked, Starting, Walking
    <3>3. QED
      BY <3>1, <3>2 DEF Kept
  <2>5. QED
    BY <2>1, <2>2, <2>3, <2>4 DEF Whole
<1>2. QED
  BY <1>1 DEF Inv

\* The end of the method: the lock is given back.
LEMMA Leaves ==
  ASSUME PhoneBatchAssumption, Inv, NEW b \in Batches, Leave(b),
         pc[b] \in {"recheck", "failTasks", "toRunning", "sum", "finish", "setFinal"},
         status'[b] \notin {"running", "approved"}, UNCHANGED <<device, at, good, bad, receipt, hub, history>>,
         \A c \in Batches \ {b} : status'[c] = status[c]
  PROVE  Kept(b) /\ Whole(b)'
<1> USE DEF Inv, TypeOK, hub, history
<1>1. pc'[b] = "none" /\ lock' = NoBatch /\ \A c \in Batches \ {b} : pc'[c] = pc[c]
  BY DEF Leave
<1>2. lock = b /\ lease[b] = "none"
  BY DEF Whole, Guarded, Handing, Locked, Starting, Walking
<1>3. Kept(b)
  BY <1>1, <1>2 DEF Kept, PhoneBatchAssumption
<1>4. Walk(b)' /\ Guarded(b)'
  BY <1>1, <1>2 DEF Walk, Guarded, Locked, Counting, InTask, Waiting, Starting, Walking, PhoneBatchAssumption
<1>5. Handing(b)'
  BY <1>1, <1>2 DEF Whole, Handing, Before, Counting, InTask, Waiting, Starting, Walking
<1>6. Ready(b)'
  BY <1>1, <1>2 DEF Ready
<1>7. QED
  BY <1>3, <1>4, <1>5, <1>6 DEF Whole

LEMMA WholePrepare ==
  ASSUME PhoneBatchAssumption, Inv, NEW b \in Batches, Prepare(b)
  PROVE  Kept(b) /\ Whole(b)'
<1> USE DEF Inv, TypeOK, db, thread, hub, request, history
<1>1. CASE Begin(b)
  <2>1. /\ pc[b] = "begin" /\ pc'[b] \in {"none", "lock"}
        /\ \A c \in Batches \ {b} : pc'[c] = pc[c]
        /\ UNCHANGED <<db, lock, at, good, bad, receipt, final, hub, request, history>>
    BY <1>1 DEF Begin, Look, Goto
  <2>2. Kept(b)
    BY <2>1 DEF Kept, PhoneBatchAssumption
  <2>3. Walk(b)' /\ Guarded(b)'
    BY <2>1 DEF Whole, Walk, Guarded, Locked, Counting, InTask, Waiting, Starting, Walking
  <2>4. Handing(b)'
    BY <2>1 DEF Whole, Handing, Before, Counting, InTask, Waiting, Starting, Walking
  <2>5. (b \notin Malformed => Ready(b))'
    BY <2>1 DEF Whole, Ready
  <2>6. QED
    BY <2>2, <2>3, <2>4, <2>5 DEF Whole
<1>2. CASE Lock(b)
  <2>1. /\ pc[b] = "lock" /\ pc'[b] = "recheck" /\ lock = NoBatch /\ lock' = b
        /\ \A c \in Batches \ {b} : pc'[c] = pc[c]
        /\ UNCHANGED <<db, at, good, bad, receipt, final, hub, request, history>>
    BY <1>2 DEF Lock, Goto
  <2>2. Kept(b)
    BY <2>1 DEF Kept, PhoneBatchAssumption
  <2>3. Walk(b)' /\ Guarded(b)'
    BY <2>1 DEF Whole, Walk, Guarded, Locked, Counting, InTask, Waiting, Starting, Walking
  <2>4. Handing(b)'
    BY <2>1 DEF Whole, Handing, Before, Counting, InTask, Waiting, Starting, Walking
  <2>5. (b \notin Malformed => Ready(b))'
    BY <2>1 DEF Whole, Ready
  <2>6. QED
    BY <2>2, <2>3, <2>4, <2>5 DEF Whole
<1>3. CASE Recheck(b)
  <2>1. CASE status[b] \in Cancelling
    <3>1. Leave(b) /\ status[b] \notin {"running", "approved"}
      BY <1>3, <2>1 DEF Recheck, Whole, Walk, Guarded, Walking, Cancelling
    <3>2. QED
      BY <1>3, <3>1, Leaves DEF Recheck
  <2>2. CASE status[b] \notin Cancelling
    <3>1. Goto(b, "recheck", IF device = "paused" THEN "block" ELSE "toRunning") /\ UNCHANGED lock
      BY <1>3, <2>2 DEF Recheck
    <3>2. /\ pc[b] = "recheck" /\ pc'[b] = IF device = "paused" THEN "block" ELSE "toRunning"
          /\ \A c \in Batches \ {b} : pc'[c] = pc[c]
      BY <3>1 DEF Goto
    <3>3. UNCHANGED <<db, lock, at, good, bad, receipt, final, hub, request, history>>
      BY <1>3, <3>1 DEF Recheck
    <3>4. Kept(b)
      BY <3>1, <3>2, <3>3 DEF Kept, PhoneBatchAssumption
    <3>5. Walk(b)' /\ Guarded(b)'
      BY <3>1, <3>2, <3>3 DEF Whole, Walk, Guarded, Locked, Counting, InTask, Waiting, Starting, Walking
    <3>6. Handing(b)'
      BY <3>1, <3>2, <3>3 DEF Whole, Handing, Before, Counting, InTask, Waiting, Starting, Walking
    <3>7. (b \notin Malformed => Ready(b))'
      BY <3>1, <3>2, <3>3 DEF Whole, Ready
    <3>8. QED
      BY <3>4, <3>5, <3>6, <3>7 DEF Whole
  <2>3. QED
    BY <2>1, <2>2
<1>4. CASE Block(b)
  <2>1. /\ pc[b] = "block" /\ pc'[b] = "failTasks" /\ status'[b] \in {"failed", status[b]}
        /\ \A c \in Batches \ {b} : pc'[c] = pc[c] /\ status'[c] = status[c]
        /\ UNCHANGED <<task, device, lock, at, good, bad, receipt, final, hub, request, history>>
    BY <1>4 DEF Block, Goto
  <2>2. Kept(b)
    BY <2>1 DEF Kept, PhoneBatchAssumption
  <2>3. Walk(b)' /\ Guarded(b)'
    BY <2>1, SMTT(30) DEF Whole, Walk, Guarded, Locked, Counting, InTask, Waiting, Starting, Walking
  <2>4. Handing(b)'
    BY <2>1 DEF Whole, Handing, Before, Counting, InTask, Waiting, Starting, Walking
  <2>5. (b \notin Malformed => Ready(b))'
    BY <2>1 DEF Whole, Ready
  <2>6. QED
    BY <2>2, <2>3, <2>4, <2>5 DEF Whole
<1>5. CASE FailTasks(b)
  <2>1. Leave(b) /\ status[b] \notin {"running", "approved"}
    BY <1>5 DEF FailTasks, Whole, Walk, Guarded, Walking
  <2>2. QED
    BY <1>5, <2>1, Leaves DEF FailTasks
<1>6. CASE ToRunning(b)
  <2>1. CASE ~BatchMayMove(status[b], "running")
    <3>1. Leave(b) /\ status[b] \notin {"running", "approved"}
      BY <1>6, <2>1 DEF ToRunning, Whole, Walk, Guarded, Walking, BatchMayMove
    <3>2. QED
      BY <1>6, <3>1, Leaves DEF ToRunning
  <2>2. CASE BatchMayMove(status[b], "running")
    <3>1. Goto(b, "toRunning", "setRunning") /\ UNCHANGED lock
      BY <1>6, <2>2 DEF ToRunning
    <3>2. /\ pc[b] = "toRunning" /\ pc'[b] = "setRunning"
          /\ \A c \in Batches \ {b} : pc'[c] = pc[c]
      BY <3>1 DEF Goto
    <3>3. UNCHANGED <<db, lock, at, good, bad, receipt, final, hub, request, history>>
      BY <1>6, <3>1 DEF ToRunning
    <3>4. Kept(b)
      BY <3>1, <3>2, <3>3 DEF Kept, PhoneBatchAssumption
    <3>5. Walk(b)' /\ Guarded(b)'
      BY <3>1, <3>2, <3>3 DEF Whole, Walk, Guarded, Locked, Counting, InTask, Waiting, Starting, Walking
    <3>6. Handing(b)'
      BY <3>1, <3>2, <3>3 DEF Whole, Handing, Before, Counting, InTask, Waiting, Starting, Walking
    <3>7. (b \notin Malformed => Ready(b))'
      BY <3>1, <3>2, <3>3 DEF Whole, Ready
    <3>8. QED
      BY <3>4, <3>5, <3>6, <3>7 DEF Whole
  <2>3. QED
    BY <2>1, <2>2
<1>7. CASE SetRunning(b)
  <2>1. /\ pc[b] = "setRunning" /\ pc'[b] = "loop" /\ status'[b] = "running"
        /\ \A c \in Batches \ {b} : pc'[c] = pc[c] /\ status'[c] = status[c]
        /\ UNCHANGED <<task, device, lock, at, good, bad, receipt, final, hub, request, history>>
    BY <1>7 DEF SetRunning, Goto
  <2>2. Kept(b)
    BY <2>1 DEF Kept, PhoneBatchAssumption
  <2>3. Walk(b)' /\ Guarded(b)'
    BY <2>1 DEF Whole, Walk, Guarded, Locked, Counting, InTask, Waiting, Starting, Walking
  <2>4. Handing(b)'
    BY <2>1 DEF Whole, Handing, Before, Counting, InTask, Waiting, Starting, Walking
  <2>5. (b \notin Malformed => Ready(b))'
    BY <2>1 DEF Whole, Ready
  <2>6. QED
    BY <2>2, <2>3, <2>4, <2>5 DEF Whole
<1>8. QED
  BY <1>1, <1>2, <1>3, <1>4, <1>5, <1>6, <1>7 DEF Prepare

\* On to the next task.
LEMMA Advance ==
  ASSUME PhoneBatchAssumption, Inv, NEW b \in Batches, pc[b] \in InTask, pc'[b] = "loop",
         at'[b] = at[b] + 1, lease[b] = "none", UNCHANGED <<lock, lease, handed>>,
         \/ good'[b] = good[b] /\ bad'[b] \in {bad[b], bad[b] + 1}
         \/ good'[b] = good[b] + 1 /\ bad'[b] = bad[b],
         status'[b] \in {status[b], "cancelled"}
  PROVE  Walk(b)' /\ Guarded(b)' /\ Handing(b)'
<1>1. /\ pc[b] \in Counting /\ pc[b] \in Locked /\ pc[b] \in Walking /\ pc[b] # "none"
      /\ "loop" \in Counting /\ "loop" \in Locked /\ "loop" \in Walking /\ "loop" \notin InTask
      /\ "loop" \in Before
  BY DEF Counting, Locked, Before, InTask, Waiting, Starting, Walking
<1>2. Walk(b) /\ Guarded(b) /\ Handing(b)
  BY DEF Inv, Whole
<1>3. at[b] \in Nat /\ good[b] \in Nat /\ bad[b] \in Nat
  BY DEF Inv, TypeOK
<1>4. good'[b] + bad'[b] < at'[b]
  BY <1>1, <1>2, <1>3 DEF Walk
<1>5. status[b] # "approved"
  BY <1>1, <1>2 DEF Walk
<1>6. Walk(b)' /\ Guarded(b)'
  BY <1>1, <1>2, <1>4, <1>5 DEF Walk, Guarded
<1>7. \A t \in Tasks : t > at'[b] => t > at[b]
  BY <1>3 DEF Tasks
<1>8. \A t \in Tasks : t = at'[b] => t > at[b]
  BY <1>3 DEF Tasks
<1>9. Handing(b)'
  BY <1>1, <1>2, <1>5, <1>7, <1>8 DEF Handing
<1>10. QED
  BY <1>6, <1>9

\* The receipt is saved, or was refused.
LEMMA SavedWhole ==
  ASSUME PhoneBatchAssumption, Inv, NEW b \in Batches, pc[b] \in {"save", "setTask"}, Saved(b),
         UNCHANGED <<status, device, lock, good, receipt, hub, history>>
  PROVE  Kept(b) /\ Whole(b)'
<1> USE DEF Inv, TypeOK, hub, history
<1>1. CASE receipt[b].raised
  <2>1. /\ pc' = [pc EXCEPT ![b] = "loop"]
        /\ bad' = [bad EXCEPT ![b] = @ + 1] /\ at' = [at EXCEPT ![b] = @ + 1]
    BY <1>1 DEF Saved
  <2>2. /\ pc'[b] = "loop" /\ bad'[b] = bad[b] + 1 /\ at'[b] = at[b] + 1
        /\ \A c \in Batches \ {b} : pc'[c] = pc[c] /\ bad'[c] = bad[c] /\ at'[c] = at[c]
    BY <2>1
  <2>3. pc[b] \in InTask /\ lease[b] = "none"
    BY DEF Whole, Handing, InTask, Walking
  <2>4. Walk(b)' /\ Guarded(b)' /\ Handing(b)'
    BY <1>1, <2>2, <2>3, Advance
  <2>5. Kept(b)
    BY <1>1, <2>2 DEF Kept, PhoneBatchAssumption
  <2>6. (b \notin Malformed => Ready(b))'
    BY <1>1, <2>2 DEF Whole, Ready
  <2>7. QED
    BY <2>4, <2>5, <2>6 DEF Whole
<1>2. CASE ~receipt[b].raised
  <2>1. pc' = [pc EXCEPT ![b] = "confirm"] /\ UNCHANGED <<bad, at>>
    BY <1>2 DEF Saved
  <2>2. pc'[b] = "confirm" /\ \A c \in Batches \ {b} : pc'[c] = pc[c]
    BY <2>1
  <2>3. Kept(b)
    BY <1>2, <2>1, <2>2 DEF Kept, PhoneBatchAssumption
  <2>4. Walk(b)' /\ Guarded(b)'
    BY <1>2, <2>1, <2>2 DEF Whole, Walk, Guarded, Locked, Counting, InTask, Waiting, Starting, Walking
  <2>5. Handing(b)'
    BY <1>2, <2>1, <2>2 DEF Whole, Handing, Before, Counting, InTask, Waiting, Starting, Walking
  <2>6. (b \notin Malformed => Ready(b))'
    BY <1>2, <2>1, <2>2 DEF Whole, Ready
  <2>7. QED
    BY <2>3, <2>4, <2>5, <2>6 DEF Whole
<1>3. QED
  BY <1>1, <1>2

LEMMA WholeRunTask ==
  ASSUME PhoneBatchAssumption, Inv, NEW b \in Batches, RunTask(b)
  PROVE  Kept(b) /\ Whole(b)'
<1> USE DEF Inv, TypeOK, db, thread, hub, request, history
<1>1. CASE Loop(b)
  <2>1. /\ pc[b] = "loop" /\ (pc'[b] = "sum" \/ (pc'[b] = "attempt" /\ at[b] <= N))
        /\ \A c \in Batches \ {b} : pc'[c] = pc[c]
        /\ UNCHANGED <<db, lock, at, good, bad, receipt, final, hub, request, history>>
    BY <1>1 DEF Loop, Look, Goto
  <2>2. Kept(b)
    BY <2>1 DEF Kept, PhoneBatchAssumption
  <2>3. Walk(b)' /\ Guarded(b)'
    BY <2>1 DEF Whole, Walk, Guarded, Locked, Counting, InTask, Waiting, Starting, Walking
  <2>4. Handing(b)'
    BY <2>1 DEF Whole, Handing, Before, Counting, InTask, Waiting, Starting, Walking
  <2>5. (b \notin Malformed => Ready(b))'
    BY <2>1 DEF Whole, Ready
  <2>6. QED
    BY <2>2, <2>3, <2>4, <2>5 DEF Whole
<1>2. CASE Attempt(b)
  <2>1. pc[b] = "attempt" /\ UNCHANGED <<db, lock, good, bad, receipt, final, hub, request, history>>
    BY <1>2 DEF Attempt, Goto
  <2>2. CASE Goto(b, "attempt", "setAttempt") /\ UNCHANGED at
    <3>1. pc'[b] = "setAttempt" /\ \A c \in Batches \ {b} : pc'[c] = pc[c]
      BY <2>2 DEF Goto
    <3>2. Kept(b)
      BY <2>1, <2>2, <3>1 DEF Kept, PhoneBatchAssumption
    <3>3. Walk(b)' /\ Guarded(b)'
      BY <2>1, <2>2, <3>1 DEF Whole, Walk, Guarded, Locked, Counting, InTask, Waiting, Starting, Walking
    <3>4. Handing(b)'
      BY <2>1, <2>2, <3>1 DEF Whole, Handing, Before, Counting, InTask, Waiting, Starting, Walking
    <3>5. (b \notin Malformed => Ready(b))'
      BY <2>1, <2>2, <3>1 DEF Whole, Ready
    <3>6. QED
      BY <3>2, <3>3, <3>4, <3>5 DEF Whole
  <2>3. CASE Goto(b, "attempt", "loop") /\ at' = [at EXCEPT ![b] = @ + 1]
    <3>1. /\ pc'[b] = "loop" /\ at'[b] = at[b] + 1
          /\ \A c \in Batches \ {b} : pc'[c] = pc[c] /\ at'[c] = at[c]
      BY <2>3 DEF Goto
    <3>2. pc[b] \in InTask /\ lease[b] = "none"
      BY <2>1 DEF Whole, Handing, InTask, Walking
    <3>3. Walk(b)' /\ Guarded(b)' /\ Handing(b)'
      BY <2>1, <3>1, <3>2, Advance
    <3>4. Kept(b)
      BY <2>1, <3>1 DEF Kept, PhoneBatchAssumption
    <3>5. (b \notin Malformed => Ready(b))'
      BY <2>1, <3>1 DEF Whole, Ready
    <3>6. QED
      BY <3>3, <3>4, <3>5 DEF Whole
  <2>4. QED
    BY <1>2, <2>2, <2>3 DEF Attempt
<1>3. CASE SetAttempt(b)
  <2>1. /\ pc[b] = "setAttempt" /\ pc'[b] = "check"
        /\ \A c \in Batches \ {b} : pc'[c] = pc[c]
        /\ UNCHANGED <<status, device, lock, at, good, bad, receipt, final, hub, request, history>>
    BY <1>3 DEF SetAttempt, Goto
  <2>2. Kept(b)
    BY <2>1 DEF Kept, PhoneBatchAssumption
  <2>3. Walk(b)' /\ Guarded(b)'
    BY <2>1 DEF Whole, Walk, Guarded, Locked, Counting, InTask, Waiting, Starting, Walking
  <2>4. Handing(b)'
    BY <2>1 DEF Whole, Handing, Before, Counting, InTask, Waiting, Starting, Walking
  <2>5. (b \notin Malformed => Ready(b))'
    BY <2>1 DEF Whole, Ready
  <2>6. QED
    BY <2>2, <2>3, <2>4, <2>5 DEF Whole
<1>4. CASE Check(b)
  <2>1. /\ pc[b] = "check" /\ pc'[b] \in {"sum", "dispatch"}
        /\ \A c \in Batches \ {b} : pc'[c] = pc[c]
        /\ UNCHANGED <<db, lock, at, good, bad, receipt, final, hub, request, history>>
    BY <1>4 DEF Check, Look, Goto
  <2>2. Kept(b)
    BY <2>1 DEF Kept, PhoneBatchAssumption
  <2>3. Walk(b)' /\ Guarded(b)'
    BY <2>1 DEF Whole, Walk, Guarded, Locked, Counting, InTask, Waiting, Starting, Walking
  <2>4. Handing(b)'
    BY <2>1 DEF Whole, Handing, Before, Counting, InTask, Waiting, Starting, Walking
  <2>5. (b \notin Malformed => Ready(b))'
    BY <2>1 DEF Whole, Ready
  <2>6. QED
    BY <2>2, <2>3, <2>4, <2>5 DEF Whole
<1>5. CASE Offline(b)
  <2>1. /\ pc[b] = "dispatch" /\ pc'[b] = "save" /\ receipt'[b].raised
        /\ \A c \in Batches \ {b} : pc'[c] = pc[c] /\ receipt'[c] = receipt[c]
        /\ UNCHANGED <<db, lock, at, good, bad, final, hub, request, history>>
    BY <1>5 DEF Offline, Goto, Raised
  <2>2. lease[b] = "none"
    BY <2>1 DEF Whole, Handing
  <2>3. Kept(b)
    BY <2>1, <2>2 DEF Kept, PhoneBatchAssumption
  <2>4. Walk(b)' /\ Guarded(b)'
    BY <2>1, <2>2 DEF Whole, Walk, Guarded, Locked, Counting, InTask, Waiting, Starting, Walking
  <2>5. Handing(b)'
    BY <2>1, <2>2 DEF Whole, Handing, Before, Counting, InTask, Waiting, Starting, Walking
  <2>6. (b \notin Malformed => Ready(b))'
    BY <2>1, <2>2 DEF Whole, Ready
  <2>7. QED
    BY <2>3, <2>4, <2>5, <2>6 DEF Whole
<1>6. CASE Enqueue(b)
  <2>1. /\ pc[b] = "dispatch" /\ pc'[b] = "wait" /\ lease'[b] = "pending"
        /\ \A c \in Batches \ {b} : pc'[c] = pc[c] /\ lease'[c] = lease[c]
        /\ UNCHANGED <<db, lock, at, good, bad, receipt, final, orphans, request, history>>
    BY <1>6 DEF Enqueue, Goto
  <2>2. Kept(b)
    BY <2>1 DEF Kept, PhoneBatchAssumption
  <2>3. Walk(b)' /\ Guarded(b)'
    BY <2>1 DEF Whole, Walk, Guarded, Locked, Counting, InTask, Waiting, Starting, Walking
  <2>4. Handing(b)'
    BY <2>1 DEF Whole, Handing, Before, Counting, InTask, Waiting, Starting, Walking
  <2>5. (b \notin Malformed => Ready(b))'
    BY <2>1 DEF Whole, Ready
  <2>6. QED
    BY <2>2, <2>3, <2>4, <2>5 DEF Whole
<1>7. CASE Wake(b)
  <2>1. /\ pc[b] = "wait" /\ pc'[b] = "receipt" /\ lease[b] = "done" /\ lease'[b] = "none"
        /\ \A c \in Batches \ {b} : pc'[c] = pc[c] /\ lease'[c] = lease[c]
        /\ UNCHANGED <<db, lock, at, good, bad, receipt, final, orphans, request, history>>
    BY <1>7 DEF Wake, Goto
  <2>2. Kept(b)
    BY <2>1 DEF Kept, PhoneBatchAssumption
  <2>3. Walk(b)' /\ Guarded(b)'
    BY <2>1 DEF Whole, Walk, Guarded, Locked, Counting, InTask, Waiting, Starting, Walking
  <2>4. Handing(b)'
    BY <2>1 DEF Whole, Handing, Before, Counting, InTask, Waiting, Starting, Walking
  <2>5. (b \notin Malformed => Ready(b))'
    BY <2>1 DEF Whole, Ready
  <2>6. QED
    BY <2>2, <2>3, <2>4, <2>5 DEF Whole
<1>8. CASE Expire(b)
  <2>1. /\ pc[b] = "wait" /\ pc'[b] = "giveUp"
        /\ \A c \in Batches \ {b} : pc'[c] = pc[c]
        /\ UNCHANGED <<db, lock, at, good, bad, receipt, final, hub, request, history>>
    BY <1>8 DEF Expire, Look, Goto
  <2>2. Kept(b)
    BY <2>1 DEF Kept, PhoneBatchAssumption
  <2>3. Walk(b)' /\ Guarded(b)'
    BY <2>1 DEF Whole, Walk, Guarded, Locked, Counting, InTask, Waiting, Starting, Walking
  <2>4. Handing(b)'
    BY <2>1 DEF Whole, Handing, Before, Counting, InTask, Waiting, Starting, Walking
  <2>5. (b \notin Malformed => Ready(b))'
    BY <2>1 DEF Whole, Ready
  <2>6. QED
    BY <2>2, <2>3, <2>4, <2>5 DEF Whole
<1>9. CASE GiveUp(b)
  <2>1. /\ pc[b] = "giveUp" /\ pc'[b] = "receipt" /\ lease'[b] = "none" /\ ~receipt'[b].raised
        /\ \A c \in Batches \ {b} : pc'[c] = pc[c] /\ lease'[c] = lease[c] /\ receipt'[c] = receipt[c]
        /\ UNCHANGED <<db, lock, at, good, bad, final, request, history>>
    BY <1>9 DEF GiveUp, Goto, Answer
  <2>2. Kept(b)
    BY <2>1 DEF Kept, PhoneBatchAssumption
  <2>3. Walk(b)' /\ Guarded(b)'
    BY <2>1 DEF Whole, Walk, Guarded, Locked, Counting, InTask, Waiting, Starting, Walking
  <2>4. Handing(b)'
    BY <2>1 DEF Whole, Handing, Before, Counting, InTask, Waiting, Starting, Walking
  <2>5. (b \notin Malformed => Ready(b))'
    BY <2>1 DEF Whole, Ready
  <2>6. QED
    BY <2>2, <2>3, <2>4, <2>5 DEF Whole
<1>10. CASE NoteReceipt(b)
  <2>1. /\ pc[b] = "receipt" /\ pc'[b] = "save"
        /\ \A c \in Batches \ {b} : pc'[c] = pc[c] /\ receipt'[c] = receipt[c]
        /\ UNCHANGED <<status, task, lock, at, good, bad, final, hub, request, history>>
    BY <1>10 DEF NoteReceipt, Goto
  <2>2. lock = b /\ lease[b] = "none"
    BY <2>1 DEF Whole, Guarded, Handing, Locked, Walking
  <2>3. ASSUME b \notin Malformed PROVE Ready(b)'
    <3>1. ~receipt[b].raised /\ device = "ready"
      BY <2>1, <2>3 DEF Whole, Ready
    <3>2. CASE receipt[b].ready
      <4>1. device' = "ready"
        BY <1>10, <3>1, <3>2 DEF NoteReceipt
      <4>2. QED
        BY <2>1, <2>2, <4>1 DEF Ready
    <3>3. CASE ~receipt[b].ready
      <4>1. receipt'[b] = Answer("needs_human_action", FALSE)
        BY <1>10, <2>3, <3>3 DEF NoteReceipt
      <4>2. ~receipt'[b].raised /\ ~receipt'[b].ready
        BY <4>1 DEF Answer
      <4>3. QED
        BY <2>1, <2>2, <4>2 DEF Ready
    <3>4. QED
      BY <3>2, <3>3
  <2>4. Kept(b)
    BY <2>1, <2>2 DEF Kept, PhoneBatchAssumption
  <2>5. Walk(b)' /\ Guarded(b)'
    BY <2>1, <2>2 DEF Whole, Walk, Guarded, Locked, Counting, InTask, Waiting, Starting, Walking
  <2>6. Handing(b)'
    BY <2>1, <2>2 DEF Whole, Handing, Before, Counting, InTask, Waiting, Starting, Walking
  <2>7. (b \notin Malformed => Ready(b))'
    BY <2>1, <2>3
  <2>8. QED
    BY <2>4, <2>5, <2>6, <2>7 DEF Whole
<1>11. CASE Save(b)
  <2>1. CASE TaskMayMove(task[b][at[b]], receipt[b].status)
    <3>1. Goto(b, "save", "setTask") /\ UNCHANGED <<bad, at>>
      BY <1>11, <2>1 DEF Save
    <3>2. /\ pc[b] = "save" /\ pc'[b] = "setTask"
          /\ \A c \in Batches \ {b} : pc'[c] = pc[c]
      BY <3>1 DEF Goto
    <3>3. UNCHANGED <<db, lock, good, receipt, final, hub, request, history>>
      BY <1>11 DEF Save
    <3>4. Kept(b)
      BY <3>1, <3>2, <3>3 DEF Kept, PhoneBatchAssumption
    <3>5. Walk(b)' /\ Guarded(b)'
      BY <3>1, <3>2, <3>3 DEF Whole, Walk, Guarded, Locked, Counting, InTask, Waiting, Starting, Walking
    <3>6. Handing(b)'
      BY <3>1, <3>2, <3>3 DEF Whole, Handing, Before, Counting, InTask, Waiting, Starting, Walking
    <3>7. (b \notin Malformed => Ready(b))'
      BY <3>1, <3>2, <3>3 DEF Whole, Ready
    <3>8. QED
      BY <3>4, <3>5, <3>6, <3>7 DEF Whole
  <2>2. CASE ~TaskMayMove(task[b][at[b]], receipt[b].status)
    <3>1. Saved(b) /\ pc[b] = "save"
      BY <1>11, <2>2 DEF Save
    <3>2. QED
      BY <1>11, <3>1, SavedWhole DEF Save
  <2>3. QED
    BY <2>1, <2>2
<1>12. CASE SetTask(b)
  <2>1. QED
    BY <1>12, SavedWhole DEF SetTask
<1>13. CASE Confirm(b)
  <2>1. /\ status'[b] \in {status[b], "cancelled"}
        /\ \A c \in Batches \ {b} : status'[c] = status[c]
    BY <1>13 DEF Confirm, Finalize
  <2>2. /\ \/ good'[b] = good[b] + 1 /\ bad'[b] = bad[b]
           \/ good'[b] = good[b] /\ bad'[b] = bad[b] + 1
        /\ \A c \in Batches \ {b} : good'[c] = good[c] /\ bad'[c] = bad[c]
    BY <1>13 DEF Confirm
  <2>3. UNCHANGED <<device, lock, receipt, hub, history>>
    BY <1>13 DEF Confirm
  <2>4. CASE receipt[b].ready
    <3>1. Goto(b, "confirm", "loop") /\ at' = [at EXCEPT ![b] = @ + 1]
      BY <1>13, <2>4 DEF Confirm
    <3>2. /\ pc[b] = "confirm" /\ pc'[b] = "loop" /\ at'[b] = at[b] + 1
          /\ \A c \in Batches \ {b} : pc'[c] = pc[c] /\ at'[c] = at[c]
      BY <3>1 DEF Goto
    <3>3. pc[b] \in InTask /\ lease[b] = "none"
      BY <3>2 DEF Whole, Handing, InTask, Walking
    <3>4. Walk(b)' /\ Guarded(b)' /\ Handing(b)'
      BY <2>1, <2>2, <2>3, <2>4, <3>2, <3>3, Advance
    <3>5. Kept(b)
      BY <2>1, <2>2, <2>3, <2>4, <3>2 DEF Kept, PhoneBatchAssumption
    <3>6. (b \notin Malformed => Ready(b))'
      BY <2>1, <2>2, <2>3, <2>4, <3>2 DEF Whole, Ready
    <3>7. QED
      BY <3>4, <3>5, <3>6 DEF Whole
  <2>5. CASE ~receipt[b].ready
    <3>1. Goto(b, "confirm", "sum") /\ UNCHANGED at
      BY <1>13, <2>5 DEF Confirm
    <3>2. /\ pc[b] = "confirm" /\ pc'[b] = "sum"
          /\ \A c \in Batches \ {b} : pc'[c] = pc[c]
      BY <3>1 DEF Goto
    <3>3. Kept(b)
      BY <2>1, <2>2, <2>3, <3>1, <3>2 DEF Kept, PhoneBatchAssumption
    <3>4. Walk(b)' /\ Guarded(b)'
      BY <2>1, <2>2, <2>3, <3>1, <3>2 DEF Whole, Walk, Guarded, Locked, Counting, InTask, Waiting, Starting, Walking
    <3>5. Handing(b)'
      BY <2>1, <2>2, <2>3, <3>1, <3>2 DEF Whole, Handing, Before, Counting, InTask, Waiting, Starting, Walking
    <3>6. (b \notin Malformed => Ready(b))'
      BY <2>1, <2>2, <2>3, <3>1, <3>2 DEF Whole, Ready
    <3>7. QED
      BY <3>3, <3>4, <3>5, <3>6 DEF Whole
  <2>6. QED
    BY <2>4, <2>5
<1>14. QED
  BY <1>1, <1>2, <1>3, <1>4, <1>5, <1>6, <1>7, <1>8, <1>9, <1>10, <1>11, <1>12, <1>13 DEF RunTask

LEMMA WholeConclude ==
  ASSUME PhoneBatchAssumption, Inv, NEW b \in Batches, Conclude(b)
  PROVE  Kept(b) /\ Whole(b)'
<1> USE DEF Inv, TypeOK, db, thread, hub, request, history
<1>1. CASE Sum(b)
  <2>1. CASE status[b] \in Cancelling
    <3>1. /\ Leave(b) /\ pc[b] = "sum" /\ status'[b] \notin {"running", "approved"}
          /\ \A c \in Batches \ {b} : status'[c] = status[c]
      BY <1>1, <2>1 DEF Sum, Finalize, Cancelling
    <3>2. QED
      BY <1>1, <3>1, Leaves DEF Sum
  <2>2. CASE status[b] \notin Cancelling
    <3>1. Goto(b, "sum", "finish") /\ UNCHANGED <<status, task, lock>>
      BY <1>1, <2>2 DEF Sum
    <3>2. /\ pc[b] = "sum" /\ pc'[b] = "finish"
          /\ \A c \in Batches \ {b} : pc'[c] = pc[c]
      BY <3>1 DEF Goto
    <3>3. UNCHANGED <<device, at, good, bad, receipt, hub, history>>
      BY <1>1 DEF Sum
    <3>4. Kept(b)
      BY <3>1, <3>2, <3>3 DEF Kept, PhoneBatchAssumption
    <3>5. Walk(b)' /\ Guarded(b)'
      BY <3>1, <3>2, <3>3 DEF Whole, Walk, Guarded, Locked, Counting, InTask, Waiting, Starting, Walking
    <3>6. Handing(b)'
      BY <3>1, <3>2, <3>3 DEF Whole, Handing, Before, Counting, InTask, Waiting, Starting, Walking
    <3>7. (b \notin Malformed => Ready(b))'
      BY <3>1, <3>2, <3>3 DEF Whole, Ready
    <3>8. QED
      BY <3>4, <3>5, <3>6, <3>7 DEF Whole
  <2>3. QED
    BY <2>1, <2>2
<1>2. CASE Finish(b)
  <2>1. CASE ~BatchMayMove(status[b], final[b])
    <3>1. Leave(b) /\ status[b] \notin {"running", "approved"}
      BY <1>2, <2>1 DEF Finish, Whole, Walk, Guarded, Walking, BatchMayMove, BatchTransitions, BatchStatus
    <3>2. QED
      BY <1>2, <3>1, Leaves DEF Finish
  <2>2. CASE BatchMayMove(status[b], final[b])
    <3>1. Goto(b, "finish", "setFinal") /\ UNCHANGED lock
      BY <1>2, <2>2 DEF Finish
    <3>2. /\ pc[b] = "finish" /\ pc'[b] = "setFinal"
          /\ \A c \in Batches \ {b} : pc'[c] = pc[c]
      BY <3>1 DEF Goto
    <3>3. UNCHANGED <<db, lock, at, good, bad, receipt, final, hub, request, history>>
      BY <1>2, <3>1 DEF Finish
    <3>4. Kept(b)
      BY <3>1, <3>2, <3>3 DEF Kept, PhoneBatchAssumption
    <3>5. Walk(b)' /\ Guarded(b)'
      BY <3>1, <3>2, <3>3 DEF Whole, Walk, Guarded, Locked, Counting, InTask, Waiting, Starting, Walking
    <3>6. Handing(b)'
      BY <3>1, <3>2, <3>3 DEF Whole, Handing, Before, Counting, InTask, Waiting, Starting, Walking
    <3>7. (b \notin Malformed => Ready(b))'
      BY <3>1, <3>2, <3>3 DEF Whole, Ready
    <3>8. QED
      BY <3>4, <3>5, <3>6, <3>7 DEF Whole
  <2>3. QED
    BY <2>1, <2>2
<1>3. CASE SetFinal(b)
  <2>1. /\ Leave(b) /\ status'[b] \notin {"running", "approved"}
        /\ \A c \in Batches \ {b} : status'[c] = status[c]
    BY <1>3 DEF SetFinal
  <2>2. QED
    BY <1>3, <2>1, Leaves DEF SetFinal
<1>4. QED
  BY <1>1, <1>2, <1>3 DEF Conclude

-----------------------------------------------------------------------------
(* Requests, workers, the restart.                                         *)

Requests(b) == Execute(b) \/ Claim(b) \/ CancelLeases(b) \/ CancelBatch(b) \/ Take(b)
                 \/ \E s \in Outcomes, r \in BOOLEAN : Report(b, s, r)

LEMMA RequestsTyped ==
  ASSUME PhoneBatchAssumption, Inv, NEW b \in Batches, Requests(b)
  PROVE  TypeOK'
<1> USE PhoneBatchAssumption, Places, Values, Answers
        DEF PhoneBatchAssumption, Inv, TypeOK, db, thread, hub, request, history
<1>1. CASE Execute(b)
  BY <1>1 DEF Execute
<1>2. CASE Claim(b)
  <2>1. calls' \in [Batches -> 0 .. MaxCalls]
    BY <1>2 DEF Claim
  <2>2. CASE status[b] = "approved"
    <3>1. /\ status' = [status EXCEPT ![b] = "queued"]
          /\ task' = [task EXCEPT ![b] = [t \in Tasks |-> "queued"]]
          /\ pc' = [pc EXCEPT ![b] = "begin"]
      BY <1>2, <2>2 DEF Claim
    <3>2. /\ status' \in [Batches -> BatchStatus] /\ task' \in [Batches -> [Tasks -> TaskStatus]]
          /\ pc' \in [Batches -> Location]
      BY <3>1
    <3>3. QED
      BY <1>2, <2>1, <3>2 DEF Claim
  <2>3. CASE status[b] # "approved"
    <3>1. UNCHANGED <<status, task, pc>>
      BY <1>2, <2>3 DEF Claim
    <3>2. QED
      BY <1>2, <2>1, <3>1 DEF Claim
  <2>4. QED
    BY <2>2, <2>3
<1>3. CASE CancelLeases(b)
  <2>1. receipt' \in [Batches -> Receipt]
    BY <1>3 DEF CancelLeases
  <2>2. lease' \in [Batches -> {"none", "pending", "active", "flagged", "done"}]
    BY <1>3 DEF CancelLeases
  <2>3. QED
    BY <1>3, <2>1, <2>2 DEF CancelLeases
<1>4. CASE CancelBatch(b)
  <2> DEFINE to == IF status[b] = "running" THEN "cancel_requested" ELSE "cancelled"
             row == [t \in Tasks |-> IF task[b][t] \in TaskOpen THEN to ELSE task[b][t]]
  <2>1. cancelling' \in [Batches -> BOOLEAN]
    BY <1>4 DEF CancelBatch
  <2>2. CASE status[b] \in BatchFinal
    <3>1. UNCHANGED <<status, task, accepted>>
      BY <1>4, <2>2 DEF CancelBatch
    <3>2. QED
      BY <1>4, <2>1, <3>1 DEF CancelBatch
  <2>3. CASE status[b] \notin BatchFinal
    <3>1. to \in BatchStatus /\ to \in TaskStatus
      OBVIOUS
    <3>2. row \in [Tasks -> TaskStatus]
      BY <3>1
    <3>3. /\ status' = [status EXCEPT ![b] = to]
          /\ task' = [task EXCEPT ![b] = row]
          /\ accepted' = [accepted EXCEPT ![b] = TRUE]
      BY <1>4, <2>3 DEF CancelBatch
    <3> HIDE DEF to, row
    <3>4. /\ status' \in [Batches -> BatchStatus] /\ task' \in [Batches -> [Tasks -> TaskStatus]]
          /\ accepted' \in [Batches -> BOOLEAN]
      BY <3>1, <3>2, <3>3
    <3>5. QED
      BY <1>4, <2>1, <3>4 DEF CancelBatch
  <2>4. QED
    BY <2>2, <2>3
<1>5. CASE Take(b)
  <2> DEFINE row == [t \in Tasks |-> IF t = at[b] THEN handed[b][t] + 1 ELSE handed[b][t]]
  <2>1. row \in [Tasks -> Nat]
    <3>1. \A t \in Tasks : handed[b][t] \in Nat
      OBVIOUS
    <3>2. QED
      BY <3>1
  <2>2. handed' = [handed EXCEPT ![b] = row]
    BY <1>5 DEF Take
  <2> HIDE DEF row
  <2>3. handed' \in [Batches -> [Tasks -> Nat]]
    BY <2>1, <2>2
  <2>4. QED
    BY <1>5, <2>3 DEF Take
<1>6. ASSUME NEW s \in Outcomes, NEW r \in BOOLEAN, Report(b, s, r) PROVE TypeOK'
  <2>1. s \in ReceiptStatus /\ Answer(s, r) \in Receipt
    OBVIOUS
  <2>2. receipt' \in [Batches -> Receipt]
    BY <1>6, <2>1 DEF Report
  <2>3. QED
    BY <1>6, <2>2 DEF Report
<1>7. QED
  BY <1>1, <1>2, <1>3, <1>4, <1>5, <1>6 DEF Requests

LEMMA RequestsWhole ==
  ASSUME PhoneBatchAssumption, Inv, NEW b \in Batches, Requests(b)
  PROVE  Kept(b) /\ Whole(b)'
<1> USE DEF Inv, TypeOK, db, thread, hub, request, history
<1>1. CASE Execute(b)
  <2>1. UNCHANGED <<db, lock, thread, hub, history>>
    BY <1>1 DEF Execute
  <2>2. Kept(b)
    BY <2>1 DEF Kept, PhoneBatchAssumption
  <2>3. Walk(b)' /\ Guarded(b)'
    BY <2>1 DEF Whole, Walk, Guarded, Locked, Counting, InTask, Waiting, Starting, Walking
  <2>4. Handing(b)'
    BY <2>1 DEF Whole, Handing, Before, Counting, InTask, Waiting, Starting, Walking
  <2>5. (b \notin Malformed => Ready(b))'
    BY <2>1 DEF Whole, Ready
  <2>6. QED
    BY <2>2, <2>3, <2>4, <2>5 DEF Whole
<1>2. CASE Claim(b)
  <2>1. CASE status[b] = "approved"
    <3>1. /\ status' = [status EXCEPT ![b] = "queued"] /\ pc' = [pc EXCEPT ![b] = "begin"]
          /\ UNCHANGED <<device, lock, at, good, bad, receipt, hub, history>>
      BY <1>2, <2>1 DEF Claim
    <3>2. /\ pc[b] = "none" /\ lease[b] = "none" /\ at[b] = 1 /\ good[b] = 0 /\ bad[b] = 0
          /\ \A t \in Tasks : handed[b][t] = 0
      BY <2>1 DEF Whole, Walk, Handing
    <3>3. /\ status'[b] = "queued" /\ pc'[b] = "begin"
          /\ \A c \in Batches \ {b} : status'[c] = status[c] /\ pc'[c] = pc[c]
      BY <3>1
    <3>4. Kept(b)
      BY <3>1, <3>2, <3>3 DEF Kept
    <3>5. Walk(b)'
      <4>1. at'[b] = 1 /\ good'[b] = 0 /\ bad'[b] = 0
        BY <3>1, <3>2
      <4>2. good'[b] + bad'[b] < at'[b]
        BY <4>1
      <4>3. QED
        BY <3>3, <4>2 DEF Walk, InTask, Walking
    <3>6. Guarded(b)'
      BY <3>1, <3>2, <3>3 DEF Whole, Guarded, Locked, Starting, Walking
    <3>7. Handing(b)'
      BY <3>1, <3>2, <3>3 DEF Whole, Handing
    <3>8. (b \notin Malformed => Ready(b))'
      BY <3>1, <3>2, <3>3 DEF Ready
    <3>9. QED
      BY <3>4, <3>5, <3>6, <3>7, <3>8 DEF Whole
  <2>2. CASE status[b] # "approved"
    <3>1. UNCHANGED <<status, pc, device, lock, at, good, bad, receipt, hub, history>>
      BY <1>2, <2>2 DEF Claim
    <3>2. Kept(b)
      BY <3>1 DEF Kept, PhoneBatchAssumption
    <3>3. Walk(b)' /\ Guarded(b)'
      BY <3>1 DEF Whole, Walk, Guarded, Locked, Counting, InTask, Waiting, Starting, Walking
    <3>4. Handing(b)'
      BY <3>1 DEF Whole, Handing, Before, Counting, InTask, Waiting, Starting, Walking
    <3>5. (b \notin Malformed => Ready(b))'
      BY <3>1 DEF Whole, Ready
    <3>6. QED
      BY <3>2, <3>3, <3>4, <3>5 DEF Whole
  <2>3. QED
    BY <2>1, <2>2
<1>3. CASE CancelLeases(b)
  <2>1. UNCHANGED <<db, lock, pc, at, good, bad, orphans, history>>
    BY <1>3 DEF CancelLeases
  <2>2. /\ \A c \in Batches \ {b} : lease'[c] = lease[c] /\ receipt'[c] = receipt[c]
        /\ lease'[b] \in {"none", "active", "flagged", "done"}
        /\ lease'[b] = "none" <=> lease[b] = "none"
        /\ \/ receipt'[b] = receipt[b] /\ (lease'[b] = "done" <=> lease[b] = "done")
           \/ lease[b] # "none" /\ receipt'[b] = Answer("failed", FALSE)
    BY <1>3 DEF CancelLeases
  <2>3. lease[b] # "none" => pc[b] \in {"wait", "giveUp"}
    BY DEF Whole, Handing
  <2>4. Kept(b)
    BY <2>1, <2>2 DEF Kept, PhoneBatchAssumption
  <2>5. Walk(b)' /\ Guarded(b)'
    BY <2>1 DEF Whole, Walk, Guarded
  <2>6. Handing(b)'
    BY <2>1, <2>2 DEF Whole, Handing
  <2>7. (b \notin Malformed => Ready(b))'
    <3>1. CASE receipt'[b] = receipt[b] /\ (lease'[b] = "done" <=> lease[b] = "done")
      BY <2>1, <3>1 DEF Whole, Ready
    <3>2. CASE lease[b] # "none" /\ receipt'[b] = Answer("failed", FALSE)
      <4>1. ~receipt'[b].raised /\ pc[b] \in {"wait", "giveUp"}
        BY <2>3, <3>2 DEF Answer
      <4>2. QED
        BY <2>1, <4>1 DEF Whole, Ready
    <3>3. QED
      BY <2>2, <3>1, <3>2
  <2>8. QED
    BY <2>4, <2>5, <2>6, <2>7 DEF Whole
<1>4. CASE CancelBatch(b)
  <2>1. UNCHANGED <<device, lock, thread, hub, handed>>
    BY <1>4 DEF CancelBatch
  <2>2. /\ \A c \in Batches \ {b} : status'[c] = status[c]
        /\ status'[b] = status[b] \/ status'[b] \in {"cancel_requested", "cancelled"}
    BY <1>4 DEF CancelBatch
  <2>3. Kept(b)
    BY <2>1, <2>2 DEF Kept, PhoneBatchAssumption
  <2>4. Walk(b)' /\ Guarded(b)'
    BY <2>1, <2>2 DEF Whole, Walk, Guarded, Locked, Counting, InTask, Waiting, Starting, Walking
  <2>5. Handing(b)'
    BY <2>1, <2>2 DEF Whole, Handing, Before, Counting, InTask, Waiting, Starting, Walking
  <2>6. (b \notin Malformed => Ready(b))'
    BY <2>1, <2>2 DEF Whole, Ready
  <2>7. QED
    BY <2>3, <2>4, <2>5, <2>6 DEF Whole
<1>5. CASE Take(b)
  <2>1. UNCHANGED <<db, lock, thread>>
    BY <1>5 DEF Take
  <2>2. /\ lease[b] = "pending" /\ lease'[b] = "active"
        /\ \A c \in Batches \ {b} : lease'[c] = lease[c] /\ handed'[c] = handed[c]
        /\ \A t \in Tasks : handed'[b][t] = IF t = at[b] THEN handed[b][t] + 1 ELSE handed[b][t]
    BY <1>5 DEF Take
  <2>3. /\ pc[b] \in {"wait", "giveUp"} /\ status[b] # "approved"
        /\ \A t \in Tasks : t = at[b] => handed[b][t] = 0
    BY <2>2 DEF Whole, Handing, Walk
  <2>4. Kept(b)
    BY <2>1, <2>2 DEF Kept, PhoneBatchAssumption
  <2>5. Walk(b)' /\ Guarded(b)'
    BY <2>1 DEF Whole, Walk, Guarded
  <2>6. Handing(b)'
    <3>1. \A t \in Tasks : handed[b][t] \in Nat /\ handed[b][t] <= 1
      BY DEF Whole, Handing
    <3>2. \A t \in Tasks : handed'[b][t] <= 1
      <4>1. ASSUME NEW t \in Tasks, t = at[b] PROVE handed'[b][t] <= 1
        BY <2>2, <2>3, <4>1
      <4>2. ASSUME NEW t \in Tasks, t # at[b] PROVE handed'[b][t] <= 1
        BY <2>2, <3>1, <4>2
      <4>3. QED
        BY <4>1, <4>2
    <3>3. \A t \in Tasks : t > at[b] => t # at[b]
      BY DEF Tasks
    <3>4. ASSUME NEW t \in Tasks, t > at[b], pc[b] \in Counting PROVE handed'[b][t] = 0
      <4>1. t # at[b]
        BY <3>3, <3>4
      <4>2. handed[b][t] = 0
        BY <3>4 DEF Whole, Handing
      <4>3. QED
        BY <2>2, <4>1, <4>2
    <3>5. QED
      BY <2>1, <2>2, <2>3, <3>2, <3>4 DEF Handing, Before, Waiting, Starting
  <2>7. (b \notin Malformed => Ready(b))'
    BY <2>1, <2>2 DEF Whole, Ready
  <2>8. QED
    BY <2>4, <2>5, <2>6, <2>7 DEF Whole
<1>6. ASSUME NEW s \in Outcomes, NEW r \in BOOLEAN, Report(b, s, r)
      PROVE  Kept(b) /\ Whole(b)'
  <2>1. UNCHANGED <<db, lock, pc, at, good, bad, orphans, history>>
    BY <1>6 DEF Report
  <2>2. /\ \A c \in Batches \ {b} : lease'[c] = lease[c] /\ receipt'[c] = receipt[c]
        /\ lease[b] \in {"active", "flagged"} /\ lease'[b] = "done" /\ ~receipt'[b].raised
    BY <1>6 DEF Report, Answer
  <2>3. pc[b] \in {"wait", "giveUp"}
    BY <2>2 DEF Whole, Handing
  <2>4. Kept(b)
    BY <2>1, <2>2, <2>3 DEF Kept, PhoneBatchAssumption
  <2>5. Walk(b)' /\ Guarded(b)'
    BY <2>1, <2>2, <2>3 DEF Whole, Walk, Guarded, Locked, Counting, InTask, Waiting, Starting, Walking
  <2>6. Handing(b)'
    BY <2>1, <2>2, <2>3 DEF Whole, Handing, Before, Counting, InTask, Waiting, Starting, Walking
  <2>7. (b \notin Malformed => Ready(b))'
    BY <2>1, <2>2, <2>3 DEF Whole, Ready
  <2>8. QED
    BY <2>4, <2>5, <2>6, <2>7 DEF Whole
<1>7. QED
  BY <1>1, <1>2, <1>3, <1>4, <1>5, <1>6 DEF Requests

Others == ReportLate \/ ResumeRoute \/ Resume \/ ResumeCheck \/ ResumeWrite

LEMMA OthersKeep == ASSUME PhoneBatchAssumption, Inv, Others PROVE Inv'
<1> USE DEF Inv, TypeOK, db, thread, hub, request, history
<1>1. /\ UNCHANGED <<status, task, lock, pc, at, good, bad, receipt, final, lease, calls, cancelling,
                     accepted, handed, restarts>>
      /\ device' \in {device, "ready"} /\ resuming' \in BOOLEAN
      /\ orphans' = orphans \/ (orphans > 0 /\ orphans' = orphans - 1)
  BY DEF Others, ReportLate, ResumeRoute, Resume, ResumeCheck, ResumeWrite
<1>2. orphans' \in Nat
  BY <1>1
<1>3. TypeOK'
  BY <1>1, <1>2
<1>4. ASSUME NEW b \in Batches PROVE Whole(b)'
  BY <1>1 DEF Whole, Walk, Guarded, Handing, Ready
<1>5. QED
  BY <1>3, <1>4

LEMMA RestartKeeps == ASSUME PhoneBatchAssumption, Inv, Restart PROVE Inv'
<1> USE DEF Inv, TypeOK, db, thread, hub, request, history
<1>1. /\ lock' = NoBatch /\ orphans' = 0 /\ resuming' = FALSE
      /\ \A b \in Batches : pc'[b] = "none" /\ lease'[b] = "none"
      /\ UNCHANGED <<at, good, bad, receipt, final, accepted, handed>>
  BY DEF Restart
<1>2. /\ pc' = [b \in Batches |-> "none"] /\ lease' = [b \in Batches |-> "none"]
      /\ calls' = [b \in Batches |-> 0] /\ cancelling' = [b \in Batches |-> FALSE]
      /\ restarts' = restarts + 1 /\ restarts < MaxRestarts
  BY DEF Restart
<1>3. \A b \in Batches : status'[b] \in {"failed", "cancelled"}
                         \/ (status'[b] = status[b] /\ status[b] # "running")
  BY DEF Restart, Recover
<1>4. TypeOK'
  <2>1. status' \in [Batches -> BatchStatus] /\ device' \in {"ready", "paused"}
    BY Values DEF Restart, Recover
  <2>2. task' \in [Batches -> [Tasks -> TaskStatus]]
    BY Values DEF Restart, Recover
  <2>3. pc' \in [Batches -> Location]
    BY <1>2, Places
  <2>4. calls' \in [Batches -> 0 .. MaxCalls] /\ restarts' \in 0 .. MaxRestarts
    BY <1>2 DEF PhoneBatchAssumption
  <2>5. cancelling' \in [Batches -> BOOLEAN]
        /\ lease' \in [Batches -> {"none", "pending", "active", "flagged", "done"}]
    BY <1>2
  <2>6. QED
    BY <1>1, <2>1, <2>2, <2>3, <2>4, <2>5
<1>5. ASSUME NEW b \in Batches PROVE Whole(b)'
  <2>1. Whole(b)
    OBVIOUS
  <2>2. Walk(b)'
    BY <1>1, <1>3, <2>1 DEF Whole, Walk, Counting, InTask, Waiting, Starting, Walking
  <2>3. Guarded(b)'
    BY <1>1, <1>3 DEF Guarded, Locked, Starting, Walking, PhoneBatchAssumption
  <2>4. Handing(b)'
    BY <1>1, <1>3, <2>1 DEF Whole, Handing, Counting, Before, InTask, Waiting, Starting, Walking
  <2>5. Ready(b)'
    BY <1>1 DEF Ready
  <2>6. QED
    BY <2>2, <2>3, <2>4, <2>5 DEF Whole
<1>6. QED
  BY <1>4, <1>5

LEMMA InitInv == ASSUME PhoneBatchAssumption, Init PROVE Inv
<1>1. TypeOK
  <2>1. status \in [Batches -> BatchStatus] /\ task \in [Batches -> [Tasks -> TaskStatus]]
    BY DEF Init, BatchStatus, TaskStatus
  <2>2. receipt \in [Batches -> Receipt] /\ pc \in [Batches -> Location]
    BY Answers, Places DEF Init
  <2>3. at \in [Batches -> 1 .. (N + 1)] /\ good \in [Batches -> 0 .. N] /\ bad \in [Batches -> 0 .. N]
    BY DEF Init, PhoneBatchAssumption
  <2>4. calls \in [Batches -> 0 .. MaxCalls] /\ restarts \in 0 .. MaxRestarts
    BY DEF Init, PhoneBatchAssumption
  <2>5. /\ handed \in [Batches -> [Tasks -> Nat]] /\ orphans \in Nat
        /\ final \in [Batches -> {"succeeded", "partial_failed", "failed"}]
        /\ lease \in [Batches -> {"none", "pending", "active", "flagged", "done"}]
        /\ cancelling \in [Batches -> BOOLEAN] /\ accepted \in [Batches -> BOOLEAN]
    BY DEF Init
  <2>6. device \in {"ready", "paused"} /\ lock \in Batches \cup {NoBatch} /\ resuming \in BOOLEAN
    BY DEF Init
  <2>7. QED
    BY <2>1, <2>2, <2>3, <2>4, <2>5, <2>6 DEF TypeOK
<1>2. ASSUME NEW b \in Batches PROVE Whole(b)
  <2>1. /\ status[b] = "approved" /\ pc[b] = "none" /\ lock = NoBatch /\ lease[b] = "none"
        /\ at[b] = 1 /\ good[b] = 0 /\ bad[b] = 0 /\ \A t \in Tasks : handed[b][t] = 0
    BY DEF Init
  <2>2. Walk(b) /\ Guarded(b)
    BY <2>1 DEF Walk, Guarded, Locked, Counting, InTask, Waiting, Starting, Walking, PhoneBatchAssumption
  <2>3. Handing(b) /\ Ready(b)
    BY <2>1 DEF Handing, Ready
  <2>4. QED
    BY <2>2, <2>3 DEF Whole
<1>3. QED
  BY <1>1, <1>2 DEF Inv

LEMMA InvStep == ASSUME PhoneBatchAssumption, Inv, [Next]_vars PROVE Inv'
<1>1. ASSUME NEW b \in Batches, Executor(b) PROVE Inv'
  <2>1. Typed
    BY DEF Inv, Whole, Typed
  <2>2. TypeOK'
    BY <1>1, <2>1, TypedPrepare, TypedRunTask, TypedConclude DEF Executor
  <2>3. Kept(b) /\ Whole(b)'
    BY <1>1, WholePrepare, WholeRunTask, WholeConclude DEF Executor
  <2>4. QED
    BY <2>2, <2>3, Keeps
<1>2. ASSUME NEW b \in Batches, Requests(b) PROVE Inv'
  BY <1>2, RequestsTyped, RequestsWhole, Keeps
<1>3. CASE Others
  BY <1>3, OthersKeep
<1>4. CASE Restart
  BY <1>4, RestartKeeps
<1>5. CASE UNCHANGED vars
  <2>1. UNCHANGED <<status, task, device, lock, pc, at, good, bad, receipt, final, lease, orphans,
                    calls, cancelling, resuming, accepted, handed, restarts>>
    BY <1>5 DEF vars, db, thread, hub, request, history
  <2>2. TypeOK'
    BY <2>1 DEF Inv, TypeOK
  <2>3. \A b \in Batches : Whole(b)'
    BY <2>1 DEF Inv, Whole, Walk, Guarded, Handing, Ready
  <2>4. QED
    BY <2>2, <2>3 DEF Inv
<1>6. Next => \/ \E b \in Batches : Executor(b) \/ Requests(b)
              \/ Others \/ Restart
  BY DEF Next, Worker, Requests, Others
<1>7. QED
  BY <1>1, <1>2, <1>3, <1>4, <1>5, <1>6

LEMMA InvHolds == ASSUME PhoneBatchAssumption PROVE Spec => []Inv
<1>1. Init => Inv
  BY InitInv
<1>2. Inv /\ [Next]_vars => Inv'
  BY InvStep
<1>3. QED
  BY <1>1, <1>2, PTL DEF Spec

-----------------------------------------------------------------------------
(* What follows.                                                           *)

\* The tables, the threads and the hub are well typed: the counters of a batch
\* stay within its tasks.
THEOREM TypeCorrect == ASSUME PhoneBatchAssumption PROVE Spec => []TypeOK
<1>1. Inv => TypeOK
  BY DEF Inv
<1>2. QED
  BY <1>1, InvHolds, PTL

\* No task is handed to a worker twice.
THEOREM OnceOnly == ASSUME PhoneBatchAssumption PROVE Spec => []HandedOutOnce
<1>1. Inv => HandedOutOnce
  BY DEF Inv, Whole, Handing, HandedOutOnce
<1>2. QED
  BY <1>1, InvHolds, PTL

\* A running batch has a thread that walks its tasks under the lock.
THEOREM Driven == ASSUME PhoneBatchAssumption PROVE Spec => []RunningIsDriven
<1>1. Inv => RunningIsDriven
  BY DEF Inv, Whole, Guarded, RunningIsDriven, Locked
<1>2. QED
  BY <1>1, InvHolds, PTL

\* While a task is with the hub the phone is not paused.
THEOREM ReadyThroughout == ASSUME PhoneBatchAssumption PROVE Spec => []ReadyWhileDispatching
<1>1. Inv => ReadyWhileDispatching
  BY DEF Inv, Whole, Ready, ReadyWhileDispatching
<1>2. QED
  BY <1>1, InvHolds, PTL

-----------------------------------------------------------------------------
(* One lease at a time, when only resume_device resumes the phone.         *)

OnlyService == ResumeBy \subseteq {"service"} /\ Malformed = {}

\* A step that neither writes the state of the phone nor leaves another lease
\* behind, and moves no thread that is about to note its receipt.
Quiet ==
  /\ device' = device /\ resuming' = resuming
  /\ orphans' \in Nat /\ orphans' <= orphans
  /\ \A b \in Batches : pc[b] = "receipt" => pc'[b] = "receipt" /\ receipt'[b] = receipt[b]

LEMMA QuietKeeps == ASSUME Inv, Alone, Quiet PROVE Alone'
<1>1. orphans \in Nat
  BY DEF Inv, TypeOK
<1>2. orphans' <= 1 /\ (orphans' > 0 => orphans > 0)
  BY <1>1 DEF Quiet, Alone
<1>3. QED
  BY <1>2 DEF Quiet, Alone

LEMMA PrepareQuiet == ASSUME Inv, NEW b \in Batches, Prepare(b) PROVE Quiet
<1> USE DEF Inv, TypeOK, Quiet, db, thread, hub, request
<1>1. CASE Begin(b)
  BY <1>1 DEF Begin, Look, Goto
<1>2. CASE Lock(b)
  BY <1>2 DEF Lock, Goto
<1>3. CASE Recheck(b)
  BY <1>3 DEF Recheck, Goto, Leave
<1>4. CASE Block(b)
  BY <1>4 DEF Block, Goto
<1>5. CASE FailTasks(b)
  BY <1>5 DEF FailTasks, Leave
<1>6. CASE ToRunning(b)
  BY <1>6 DEF ToRunning, Goto, Leave
<1>7. CASE SetRunning(b)
  BY <1>7 DEF SetRunning, Goto
<1>8. QED
  BY <1>1, <1>2, <1>3, <1>4, <1>5, <1>6, <1>7 DEF Prepare

LEMMA RunTaskQuiet ==
  ASSUME Inv, NEW b \in Batches, RunTask(b), ~GiveUp(b), ~NoteReceipt(b) PROVE Quiet
<1> USE DEF Inv, TypeOK, Quiet, db, thread, hub, request
<1>1. CASE Loop(b)
  BY <1>1 DEF Loop, Look, Goto
<1>2. CASE Attempt(b)
  BY <1>2 DEF Attempt, Goto
<1>3. CASE SetAttempt(b)
  BY <1>3 DEF SetAttempt, Goto
<1>4. CASE Check(b)
  BY <1>4 DEF Check, Look, Goto
<1>5. CASE Offline(b)
  BY <1>5 DEF Offline, Goto
<1>6. CASE Enqueue(b)
  BY <1>6 DEF Enqueue, Goto
<1>7. CASE Wake(b)
  BY <1>7 DEF Wake, Goto
<1>8. CASE Expire(b)
  BY <1>8 DEF Expire, Look, Goto
<1>9. CASE Save(b)
  BY <1>9 DEF Save, Saved, Goto
<1>10. CASE SetTask(b)
  BY <1>10 DEF SetTask, Saved
<1>11. CASE Confirm(b)
  BY <1>11 DEF Confirm, Goto
<1>12. QED
  BY <1>1, <1>2, <1>3, <1>4, <1>5, <1>6, <1>7, <1>8, <1>9, <1>10, <1>11 DEF RunTask

LEMMA ConcludeQuiet == ASSUME Inv, NEW b \in Batches, Conclude(b) PROVE Quiet
<1> USE DEF Inv, TypeOK, Quiet, db, thread, hub, request
<1>1. CASE Sum(b)
  BY <1>1 DEF Sum, Goto, Leave
<1>2. CASE Finish(b)
  BY <1>2 DEF Finish, Goto, Leave
<1>3. CASE SetFinal(b)
  BY <1>3 DEF SetFinal, Leave
<1>4. QED
  BY <1>1, <1>2, <1>3 DEF Conclude

\* A receipt comes from the hub only while its thread still waits.
LEMMA RequestsQuiet == ASSUME Inv, NEW b \in Batches, Requests(b) PROVE Quiet
<1> USE DEF Inv, TypeOK, Quiet, db, thread, hub, request
<1>1. lease[b] # "none" => pc[b] \in {"wait", "giveUp"}
  BY DEF Whole, Handing
<1>2. CASE Execute(b)
  BY <1>2 DEF Execute
<1>3. CASE Claim(b)
  <2>1. status[b] = "approved" => pc[b] = "none"
    BY DEF Whole, Walk
  <2>2. QED
    BY <1>3, <2>1 DEF Claim
<1>4. CASE CancelLeases(b)
  <2>1. UNCHANGED <<device, pc, orphans, resuming>>
    BY <1>4 DEF CancelLeases
  <2>2. \A c \in Batches : pc[c] = "receipt" => receipt'[c] = receipt[c]
    <3>1. \A c \in Batches : c # b => receipt'[c] = receipt[c]
      BY <1>4 DEF CancelLeases
    <3>2. lease[b] # "pending" => receipt'[b] = receipt[b]
      BY <1>4 DEF CancelLeases
    <3>3. QED
      BY <1>1, <3>1, <3>2
  <2>3. QED
    BY <2>1, <2>2
<1>5. CASE CancelBatch(b)
  BY <1>5 DEF CancelBatch
<1>6. CASE Take(b)
  BY <1>6 DEF Take
<1>7. ASSUME NEW s \in Outcomes, NEW r \in BOOLEAN, Report(b, s, r) PROVE Quiet
  BY <1>1, <1>7 DEF Report
<1>8. QED
  BY <1>2, <1>3, <1>4, <1>5, <1>6, <1>7 DEF Requests

\* The thread that gives its lease up holds the lock, so the phone is ready and
\* no other lease was left behind; its own receipt is about to pause the phone.
LEMMA GiveUpAlone == ASSUME OnlyService, Inv, Alone, NEW b \in Batches, GiveUp(b) PROVE Alone'
<1> USE DEF Inv, TypeOK, db, thread, hub, request
<1>1. pc[b] = "giveUp" /\ device = "ready" /\ lock = b
  BY DEF GiveUp, Goto, OnlyService, Whole, Ready, Guarded, Locked, Walking
<1>2. \A c \in Batches : pc[c] # "receipt"
  BY <1>1 DEF Whole, Guarded, Locked, Walking
<1>3. orphans = 0
  BY <1>1, <1>2 DEF Alone
<1>4. orphans' \in {0, 1} /\ resuming' = resuming
  BY <1>3 DEF GiveUp
<1>5. pc'[b] = "receipt" /\ ~receipt'[b].ready
  BY DEF GiveUp, Goto, Answer
<1>6. QED
  BY <1>4, <1>5 DEF Alone

LEMMA NoteReceiptAlone == ASSUME Inv, Alone, NEW b \in Batches, NoteReceipt(b) PROVE Alone'
<1> USE DEF Inv, TypeOK, db, thread, hub, request
<1>1. /\ pc[b] = "receipt" /\ UNCHANGED <<orphans, resuming>>
      /\ device' = IF receipt[b].ready THEN device ELSE "paused"
  BY DEF NoteReceipt, Goto
<1>2. \A c \in Batches : pc[c] = "receipt" => c = b
  BY <1>1 DEF Whole, Guarded, Locked, Walking
<1>3. QED
  BY <1>1, <1>2 DEF Alone

LEMMA AloneStep ==
  ASSUME PhoneBatchAssumption, OnlyService, Inv, Alone, [Next]_vars PROVE Alone'
<1>1. ASSUME NEW b \in Batches, Executor(b) PROVE Alone'
  <2>1. CASE GiveUp(b)
    BY <2>1, GiveUpAlone
  <2>2. CASE NoteReceipt(b)
    BY <2>2, NoteReceiptAlone
  <2>3. CASE ~GiveUp(b) /\ ~NoteReceipt(b)
    BY <1>1, <2>3, PrepareQuiet, RunTaskQuiet, ConcludeQuiet, QuietKeeps DEF Executor
  <2>4. QED
    BY <2>1, <2>2, <2>3
<1>2. ASSUME NEW b \in Batches, Requests(b) PROVE Alone'
  BY <1>2, RequestsQuiet, QuietKeeps
<1>3. CASE ReportLate
  <2>1. Quiet
    BY <1>3 DEF ReportLate, Quiet, Inv, TypeOK, db, thread, request
  <2>2. QED
    BY <2>1, QuietKeeps
<1>4. CASE Resume
  <2>1. orphans' = 0 /\ resuming' = resuming
    BY <1>4 DEF Resume, LeaseHeld, Inv, TypeOK, hub, request
  <2>2. QED
    BY <2>1 DEF Alone
<1>5. ~ResumeRoute /\ ~ResumeCheck /\ ~ResumeWrite
  BY DEF OnlyService, Alone, ResumeRoute, ResumeCheck, ResumeWrite
<1>6. CASE Restart
  BY <1>6 DEF Restart, Alone
<1>7. CASE UNCHANGED vars
  <2>1. Quiet
    BY <1>7 DEF vars, db, thread, hub, request, Quiet, Inv, TypeOK
  <2>2. QED
    BY <2>1, QuietKeeps
<1>8. Next => \/ \E b \in Batches : Executor(b) \/ Requests(b)
              \/ Others \/ Restart
  BY DEF Next, Worker, Requests, Others
<1>9. QED
  BY <1>1, <1>2, <1>3, <1>4, <1>5, <1>6, <1>7, <1>8 DEF Others

\* The workers hold at most one lease of a phone, provided that it is resumed
\* only after the check of its leases and no filter of a batch raises.
THEOREM Serial ==
  ASSUME PhoneBatchAssumption, OnlyService PROVE Spec => []SerialOnPhone
<1>1. Init => Alone
  BY DEF Init, Alone
<1>2. Inv /\ Alone /\ [Next]_vars => Alone'
  BY AloneStep
<1>3. Inv /\ Alone => SerialOnPhone
  <2> SUFFICES ASSUME Inv, Alone PROVE SerialOnPhone
    OBVIOUS
  <2>1. \A b \in Batches :
          lease[b] \in {"active", "flagged"} => pc[b] \in {"wait", "giveUp"} /\ lock = b /\ device = "ready"
    BY DEF Inv, Whole, Handing, Guarded, Locked, Walking, OnlyService, Ready
  <2>2. \A b \in Batches : pc[b] = "receipt" => lock = b
    BY DEF Inv, Whole, Guarded, Locked, Walking
  <2>3. orphans > 0 => \A b \in Batches : lease[b] \notin {"active", "flagged"}
    BY <2>1, <2>2 DEF Alone
  <2>4. QED
    BY <2>1, <2>3 DEF SerialOnPhone, Alone
<1>4. QED
  BY <1>1, <1>2, <1>3, InvHolds, PTL DEF Spec

-----------------------------------------------------------------------------
(* The verdict agrees with the tasks, and outcomes are kept.                *)

\* The outcomes of a task that was not cancelled.
Settled == ReceiptStatus \ {"cancelled"}
\* A thread with a task that has no outcome yet.
Holding == {"setAttempt", "check", "dispatch", "wait", "giveUp", "receipt", "save", "setTask"}

AllSucceeded(b) == \A t \in Tasks : task[b][t] = "succeeded"
SomeSucceeded(b) == \E t \in Tasks : task[b][t] = "succeeded"
SomeDidNot(b) == \E t \in Tasks : task[b][t] # "succeeded"

\* What a thread finds where it is.  Before the walk no task has been touched
\* but by a cancellation, which takes all of them along.
Found(b) ==
  /\ status[b] = "approved" => \A t \in Tasks : task[b][t] \notin Settled
  /\ pc[b] \in Waiting \cup Starting =>
       /\ status[b] \in {"queued", "cancelled"} /\ at[b] = 1 /\ good[b] = 0 /\ bad[b] = 0
       /\ (\A t \in Tasks : task[b][t] = "queued") \/ (\A t \in Tasks : task[b][t] = "cancelled")
  /\ pc[b] \in Walking => status[b] \in {"running", "cancel_requested", "cancelled"}
  /\ pc[b] \in Holding => task[b][at[b]] \notin Settled
  /\ receipt[b].raised => receipt[b].status = "failed"
  /\ pc[b] \in {"save", "setTask", "confirm"} /\ ~receipt[b].ready => receipt[b].status # "succeeded"

\* The tasks walked over and what was counted of them.
Walked(b) ==
  /\ \A t \in Tasks : t > at[b] \/ (t = at[b] /\ pc[b] \in {"loop", "attempt"}) => task[b][t] = "queued"
  /\ pc[b] \in Holding \ {"setAttempt"} => task[b][at[b]] = "running"
  /\ pc[b] = "confirm" => (task[b][at[b]] = "succeeded" <=> receipt[b].status = "succeeded")
  /\ bad[b] = 0 => \A t \in Tasks : t < at[b] => task[b][t] = "succeeded"
  /\ good[b] > 0 => \E t \in Tasks : t < at[b] /\ task[b][t] = "succeeded"
  /\ bad[b] > 0 => \E t \in Tasks : t < at[b] /\ task[b][t] # "succeeded"

\* A batch that was cancelled just before it was set to running walks over
\* cancelled tasks and counts nothing.
Overrun(b) ==
  /\ pc[b] \in {"loop", "attempt"} /\ good[b] = 0 /\ bad[b] = 0
  /\ \A t \in Tasks : task[b][t] = "cancelled"

\* A batch nobody has asked to cancel; and the verdict on its way.
Counted(b) ==
  /\ status[b] = "running" /\ pc[b] \in InTask \cup {"loop"} => Walked(b) \/ Overrun(b)
  /\ status[b] = "running" /\ pc[b] = "sum" =>
       /\ bad[b] = 0 /\ good[b] > 0 => AllSucceeded(b)
       /\ bad[b] > 0 /\ good[b] > 0 => SomeSucceeded(b) /\ SomeDidNot(b)
  /\ pc[b] \in {"finish", "setFinal"} =>
       /\ final[b] = "succeeded" => AllSucceeded(b)
       /\ final[b] = "partial_failed" => SomeSucceeded(b) /\ SomeDidNot(b)

Earned(b) ==
  /\ status[b] = "succeeded" => AllSucceeded(b)
  /\ status[b] = "partial_failed" => SomeSucceeded(b) /\ SomeDidNot(b)

Tally == \A b \in Batches : Found(b) /\ Counted(b) /\ Earned(b)

\* A step of batch b does not touch what the tally of another batch is about.
Apart(b) ==
  \A c \in Batches \ {b} :
    /\ pc'[c] = pc[c] /\ at'[c] = at[c] /\ good'[c] = good[c] /\ bad'[c] = bad[c]
    /\ receipt'[c] = receipt[c] /\ status'[c] = status[c] /\ task'[c] = task[c]
    /\ final'[c] = final[c]

Right(b) == Found(b) /\ Counted(b) /\ Earned(b)

LEMMA ApartKeeps ==
  ASSUME Tally, NEW b \in Batches, Apart(b), Right(b)' PROVE Tally'
<1>1. ASSUME NEW c \in Batches \ {b} PROVE Found(c)'
  BY DEF Tally, Apart, Found
<1>2. ASSUME NEW c \in Batches \ {b} PROVE Earned(c)'
  BY DEF Tally, Apart, Earned, AllSucceeded, SomeSucceeded, SomeDidNot
<1>3. ASSUME NEW c \in Batches \ {b} PROVE Counted(c)'
  BY DEF Tally, Apart, Counted, Walked, Overrun, AllSucceeded, SomeSucceeded, SomeDidNot
<1>4. QED
  BY <1>1, <1>2, <1>3 DEF Tally, Right

\* Nothing but the place of the thread changes.
Moved(b) ==
  /\ UNCHANGED <<status, task, at, good, bad, receipt, final>>
  /\ \A c \in Batches \ {b} : pc'[c] = pc[c]

LEMMA MovedApart ==
  ASSUME NEW b \in Batches, Right(b), Moved(b) PROVE Apart(b) /\ Earned(b)'
BY DEF Moved, Apart, Right, Earned, AllSucceeded, SomeSucceeded, SomeDidNot


LEMMA TallyPrepare ==
  ASSUME PhoneBatchAssumption, Inv, NEW b \in Batches, Right(b), Prepare(b)
  PROVE  Apart(b) /\ Right(b)'
<1> USE DEF Inv, TypeOK, db, thread, hub, request, history
<1>1. CASE Begin(b)
  <2>1. Moved(b) /\ pc[b] = "begin" /\ pc'[b] \in {"none", "lock"}
    BY <1>1 DEF Begin, Look, Goto, Moved
  <2>2. Found(b)' /\ Counted(b)'
    BY <2>1 DEF Moved, Right, Found, Counted, Holding, Settled, InTask, Waiting, Starting, Walking, Cancelling, BatchMayMove,
                    Walked, Overrun, AllSucceeded, SomeSucceeded, SomeDidNot
  <2>3. QED
    BY <2>1, <2>2, MovedApart DEF Right
<1>2. CASE Lock(b)
  <2>1. Moved(b) /\ pc[b] = "lock" /\ pc'[b] = "recheck"
    BY <1>2 DEF Lock, Goto, Moved
  <2>2. Found(b)' /\ Counted(b)'
    BY <2>1 DEF Moved, Right, Found, Counted, Holding, Settled, InTask, Waiting, Starting, Walking, Cancelling, BatchMayMove,
                    Walked, Overrun, AllSucceeded, SomeSucceeded, SomeDidNot
  <2>3. QED
    BY <2>1, <2>2, MovedApart DEF Right
<1>3. CASE Recheck(b)
  <2>1. Moved(b) /\ pc[b] = "recheck" /\ pc'[b] \in {"none", "block", "toRunning"}
    BY <1>3 DEF Recheck, Goto, Leave, Moved
  <2>2. Found(b)' /\ Counted(b)'
    BY <2>1 DEF Moved, Right, Found, Counted, Holding, Settled, InTask, Waiting, Starting, Walking, Cancelling, BatchMayMove,
                    Walked, Overrun, AllSucceeded, SomeSucceeded, SomeDidNot
  <2>3. QED
    BY <2>1, <2>2, MovedApart DEF Right
<1>4. CASE Block(b)
  <2>1. status[b] \in {"queued", "cancelled"}
    BY <1>4 DEF Block, Goto, Right, Found, Starting
  <2>2. status' = status
    BY <1>4, <2>1 DEF Block, BatchMayMove, BatchTransitions, BatchStatus
  <2>3. Moved(b) /\ pc[b] = "block" /\ pc'[b] = "failTasks"
    BY <1>4, <2>2 DEF Block, Goto, Moved
  <2>4. Found(b)' /\ Counted(b)'
    BY <2>3 DEF Moved, Right, Found, Counted, Holding, Settled, InTask, Waiting, Starting, Walking
  <2>5. QED
    BY <2>3, <2>4, MovedApart DEF Right
<1>5. CASE FailTasks(b)
  <2>1. /\ pc[b] = "failTasks" /\ pc'[b] = "none"
        /\ status[b] \in {"queued", "cancelled"} /\ UNCHANGED <<status, at, good, bad, receipt, final>>
    BY <1>5 DEF FailTasks, Leave, Right, Found, Starting
  <2>2. Apart(b)
    BY <1>5, <2>1 DEF FailTasks, Leave, Apart
  <2>3. Found(b)'
    BY <2>1 DEF Right, Found, Holding, Waiting, Starting, Walking
  <2>4. Counted(b)' /\ Earned(b)'
    BY <2>1 DEF Counted, Earned, InTask, Walking
  <2>5. QED
    BY <2>2, <2>3, <2>4 DEF Right
<1>6. CASE ToRunning(b)
  <2>1. Moved(b) /\ pc[b] = "toRunning" /\ pc'[b] \in {"none", "setRunning"}
    BY <1>6 DEF ToRunning, Goto, Leave, Moved
  <2>2. Found(b)' /\ Counted(b)'
    BY <2>1 DEF Moved, Right, Found, Counted, Holding, Settled, InTask, Waiting, Starting, Walking, Cancelling, BatchMayMove,
                    Walked, Overrun, AllSucceeded, SomeSucceeded, SomeDidNot
  <2>3. QED
    BY <2>1, <2>2, MovedApart DEF Right
<1>7. CASE SetRunning(b)
  <2>1. /\ pc[b] = "setRunning" /\ pc'[b] = "loop" /\ status'[b] = "running"
        /\ UNCHANGED <<task, at, good, bad, receipt, final>>
    BY <1>7 DEF SetRunning, Goto
  <2>2. Apart(b)
    BY <1>7 DEF SetRunning, Goto, Apart
  <2>3. Found(b)'
    BY <2>1 DEF Right, Found, Holding, Waiting, Starting, Walking
  <2>4. Walked(b)' \/ Overrun(b)'
    <3>1. /\ at[b] = 1 /\ good[b] = 0 /\ bad[b] = 0
          /\ (\A t \in Tasks : task[b][t] = "queued") \/ (\A t \in Tasks : task[b][t] = "cancelled")
      BY <2>1 DEF Right, Found, Starting
    <3>2. \A t \in Tasks : ~ (t < 1)
      BY DEF Tasks, PhoneBatchAssumption
    <3>3. QED
      BY <2>1, <3>1, <3>2 DEF Walked, Overrun, Holding
  <2>5. Counted(b)' /\ Earned(b)'
    BY <2>1, <2>4 DEF Counted, Earned
  <2>6. QED
    BY <2>2, <2>3, <2>5 DEF Right
<1>8. QED
  BY <1>1, <1>2, <1>3, <1>4, <1>5, <1>6, <1>7 DEF Prepare

LEMMA AtTask ==
  ASSUME PhoneBatchAssumption, Inv, NEW b \in Batches
  PROVE  /\ pc[b] \in InTask => at[b] \in Tasks
         /\ at[b] \in Nat /\ good[b] \in Nat /\ bad[b] \in Nat /\ N \in Nat
         /\ receipt[b] \in Receipt /\ \A t \in Tasks : t \in Nat /\ t <= N
<1>1. /\ at[b] \in 1 .. (N + 1) /\ good[b] \in 0 .. N /\ bad[b] \in 0 .. N /\ N \in Nat
      /\ receipt[b] \in Receipt
  BY DEF Inv, TypeOK, PhoneBatchAssumption
<1>2. pc[b] \in InTask => at[b] <= N
  BY DEF Inv, Whole, Walk
<1>3. QED
  BY <1>1, <1>2 DEF Tasks

\* A receipt that comes in before the table of tasks is looked at, and a
\* cancellation that is confirmed, do not change what has succeeded.
SameSuccess(b) ==
  \A t \in Tasks : /\ task'[b][t] = "succeeded" <=> task[b][t] = "succeeded"
                   /\ task[b][t] = "queued" => task'[b][t] = "queued"

LEMMA TallyStart ==
  ASSUME PhoneBatchAssumption, Inv, NEW b \in Batches, Right(b),
         Loop(b) \/ Attempt(b) \/ SetAttempt(b) \/ Check(b)
  PROVE  Apart(b) /\ Right(b)'
<1> USE DEF db, thread, hub, request, history
<1>0. /\ pc[b] \in InTask => at[b] \in Tasks
      /\ at[b] \in Nat /\ good[b] \in Nat /\ bad[b] \in Nat /\ N \in Nat
      /\ \A t \in Tasks : t \in Nat /\ t <= N
      /\ pc \in [Batches -> Location] /\ at \in [Batches -> 1 .. (N + 1)]
      /\ task \in [Batches -> [Tasks -> TaskStatus]]
  BY AtTask DEF Inv, TypeOK
<1>1. CASE Loop(b)
  <2>1. /\ Moved(b) /\ pc[b] = "loop" /\ pc'[b] \in {"sum", "attempt"}
        /\ pc'[b] = "sum" /\ status[b] = "running" => at[b] > N
    BY <1>0, <1>1 DEF Loop, Look, Goto, Moved, Cancelling
  <2>2. Found(b)'
    BY <2>1 DEF Moved, Right, Found, Holding, Waiting, Starting, Walking
  <2>3. ASSUME status[b] = "running", pc'[b] = "attempt" PROVE (Walked(b) \/ Overrun(b))'
    BY <2>1, <2>3 DEF Moved, Right, Counted, Walked, Overrun, Holding
  <2>4. ASSUME status[b] = "running", pc'[b] = "sum"
        PROVE  /\ bad[b] = 0 /\ good[b] > 0 => AllSucceeded(b)
               /\ bad[b] > 0 /\ good[b] > 0 => SomeSucceeded(b) /\ SomeDidNot(b)
    <3>1. \A t \in Tasks : t < at[b]
      BY <1>0, <2>1, <2>4
    <3>2. Walked(b) \/ good[b] = 0
      BY <2>1, <2>4 DEF Right, Counted, Overrun
    <3>3. QED
      BY <1>0, <3>1, <3>2 DEF Walked, AllSucceeded, SomeSucceeded, SomeDidNot
  <2>5. Counted(b)'
    BY <2>1, <2>3, <2>4 DEF Moved, Counted, InTask, Walking, AllSucceeded, SomeSucceeded, SomeDidNot
  <2>6. QED
    BY <2>1, <2>2, <2>5, MovedApart DEF Right
<1>2. CASE Attempt(b) /\ task[b][at[b]] \in {"queued", "approved", "running"}
  <2>1. Moved(b) /\ pc[b] = "attempt" /\ pc'[b] = "setAttempt"
    BY <1>0, <1>2 DEF Attempt, Goto, Moved
  <2>2. Found(b)'
    BY <1>2, <2>1 DEF Moved, Right, Found, Holding, Waiting, Starting, Walking, Settled, ReceiptStatus
  <2>3. at[b] \in Tasks
    BY <1>0, <2>1 DEF InTask, Walking
  <2>4. status[b] = "running" => Walked(b)
    BY <1>2, <2>1, <2>3 DEF Right, Counted, Overrun, InTask, Walking
  <2>5. status[b] = "running" => Walked(b)'
    BY <1>0, <2>1, <2>4 DEF Moved, Walked, Holding
  <2>6. Counted(b)'
    BY <2>1, <2>5 DEF Moved, Counted
  <2>7. QED
    BY <2>1, <2>2, <2>6, MovedApart DEF Right
<1>3. CASE Attempt(b) /\ task[b][at[b]] \notin {"queued", "approved", "running"}
  <2>1. /\ pc[b] = "attempt" /\ pc'[b] = "loop" /\ UNCHANGED <<status, task, good, bad, receipt, final>>
        /\ Apart(b)
    BY <1>0, <1>3 DEF Attempt, Goto, Apart
  <2>2. Found(b)'
    BY <2>1 DEF Right, Found, Holding, Waiting, Starting, Walking
  <2>3. at[b] \in Tasks
    BY <1>0, <2>1 DEF InTask, Walking
  <2>4. status[b] = "running" => Overrun(b)'
    BY <1>3, <2>1, <2>3 DEF Right, Counted, Walked, Overrun, InTask, Walking
  <2>5. Counted(b)' /\ Earned(b)'
    BY <2>1, <2>4 DEF Right, Counted, Earned, AllSucceeded, SomeSucceeded, SomeDidNot
  <2>6. QED
    BY <2>1, <2>2, <2>5 DEF Right
<1>4. CASE SetAttempt(b)
  <2>1. /\ pc[b] = "setAttempt" /\ pc'[b] = "check" /\ UNCHANGED <<status, at, good, bad, receipt, final>>
        /\ task' = [task EXCEPT ![b][at[b]] = "running"] /\ Apart(b)
    BY <1>0, <1>4 DEF SetAttempt, Goto, Apart
  <2>2. at[b] \in Tasks /\ task'[b][at[b]] = "running" /\ \A t \in Tasks \ {at[b]} : task'[b][t] = task[b][t]
    BY <1>0, <2>1 DEF InTask, Walking
  <2>3. Found(b)'
    BY <2>1, <2>2 DEF Right, Found, Holding, Waiting, Starting, Walking, Settled, ReceiptStatus
  <2>4. status[b] = "running" => Walked(b)
    BY <2>1 DEF Right, Counted, Overrun, InTask, Walking
  <2>5. status[b] = "running" => Walked(b)'
    BY <1>0, <2>1, <2>2, <2>4 DEF Walked, Holding
  <2>6. status[b] \in {"running", "cancel_requested", "cancelled"}
    BY <2>1 DEF Right, Found, Walking
  <2>7. Counted(b)' /\ Earned(b)'
    BY <2>1, <2>5, <2>6 DEF Counted, Earned
  <2>8. QED
    BY <2>1, <2>3, <2>7 DEF Right
<1>5. CASE Check(b)
  <2>1. /\ Moved(b) /\ pc[b] = "check" /\ pc'[b] \in {"sum", "dispatch"}
        /\ pc'[b] = "sum" => status[b] # "running"
    BY <1>0, <1>5 DEF Check, Look, Goto, Moved, Cancelling
  <2>2. Found(b)'
    BY <2>1 DEF Moved, Right, Found, Holding, Waiting, Starting, Walking
  <2>3. status[b] = "running" /\ pc'[b] = "dispatch" => Walked(b)'
    BY <2>1 DEF Moved, Right, Counted, Walked, Overrun, Holding, InTask, Walking
  <2>4. Counted(b)'
    BY <2>1, <2>3 DEF Moved, Counted
  <2>5. QED
    BY <2>1, <2>2, <2>4, MovedApart DEF Right
<1>6. QED
  BY <1>1, <1>2, <1>3, <1>4, <1>5

\* The task is with the hub, and its receipt is noted.
LEMMA TallyHub ==
  ASSUME PhoneBatchAssumption, Inv, NEW b \in Batches, Right(b),
         Offline(b) \/ Enqueue(b) \/ Wake(b) \/ Expire(b) \/ GiveUp(b) \/ NoteReceipt(b)
  PROVE  Apart(b) /\ Right(b)'
<1> USE DEF db, thread, hub, request, history
<1>1. /\ UNCHANGED <<status, task, at, good, bad, final>> /\ Apart(b)
      /\ pc[b] \in Holding \ {"setAttempt", "save", "setTask"}
      /\ pc'[b] \in Holding \ {"setAttempt", "setTask"}
  BY ZenonT(60) DEF Offline, Enqueue, Wake, Expire, Look, GiveUp, NoteReceipt, Goto, Apart, Holding, Inv, TypeOK
<1>2. /\ receipt'[b].raised => receipt'[b].status = "failed"
      /\ pc'[b] = "save" /\ ~receipt'[b].ready => receipt'[b].status # "succeeded"
  <2>1. CASE Offline(b)
    BY <2>1 DEF Offline, Raised, Inv, TypeOK
  <2>2. CASE Enqueue(b) \/ Wake(b) \/ Expire(b)
    BY <2>2 DEF Enqueue, Wake, Expire, Look, Goto, Right, Found, Inv, TypeOK
  <2>3. CASE GiveUp(b)
    BY <2>3 DEF GiveUp, Answer, Goto, Inv, TypeOK
  <2>4. CASE NoteReceipt(b)
    BY <2>4 DEF NoteReceipt, Answer, Raised, Right, Found, Inv, TypeOK
  <2>5. QED
    BY <2>1, <2>2, <2>3, <2>4
<1>3. Found(b)'
  BY <1>1, <1>2 DEF Right, Found, Holding, Waiting, Starting, Walking
<1>4. status[b] = "running" => Walked(b)'
  BY <1>1 DEF Right, Counted, Walked, Overrun, Holding, InTask, Walking
<1>5. Counted(b)' /\ Earned(b)'
  BY <1>1, <1>4 DEF Right, Counted, Earned, AllSucceeded, SomeSucceeded, SomeDidNot, Holding
<1>6. QED
  BY <1>1, <1>3, <1>5 DEF Right

\* The receipt is written to the table of tasks, unless that refuses it.
LEMMA TallySave ==
  ASSUME PhoneBatchAssumption, Inv, NEW b \in Batches, Right(b), Save(b) \/ SetTask(b)
  PROVE  Apart(b) /\ Right(b)'
<1> USE DEF db, thread, hub, request, history
<1>0. /\ at[b] \in Nat /\ good[b] \in Nat /\ bad[b] \in Nat
      /\ \A t \in Tasks : t \in Nat /\ t <= N
      /\ pc \in [Batches -> Location] /\ at \in [Batches -> 1 .. (N + 1)]
      /\ task \in [Batches -> [Tasks -> TaskStatus]] /\ bad \in [Batches -> 0 .. N]
      /\ receipt[b].status \in ReceiptStatus
      /\ pc[b] \in {"save", "setTask"} => at[b] \in Tasks
  BY AtTask, Answers DEF Inv, TypeOK, InTask, Walking
<1>1. CASE Save(b) /\ TaskMayMove(task[b][at[b]], receipt[b].status)
  <2>1. Moved(b) /\ pc[b] = "save" /\ pc'[b] = "setTask"
    BY <1>0, <1>1 DEF Save, Goto, Moved
  <2>2. Found(b)'
    BY <2>1 DEF Moved, Right, Found, Holding, Waiting, Starting, Walking
  <2>3. status[b] = "running" => Walked(b)'
    BY <2>1 DEF Moved, Right, Counted, Walked, Overrun, Holding, InTask, Walking
  <2>4. Counted(b)'
    BY <2>1, <2>3 DEF Moved, Counted
  <2>5. QED
    BY <2>1, <2>2, <2>4, MovedApart DEF Right
<1>2. CASE Save(b) /\ ~TaskMayMove(task[b][at[b]], receipt[b].status)
  <2>1. /\ pc[b] = "save" /\ pc'[b] \in {"loop", "confirm"}
        /\ UNCHANGED <<status, task, good, receipt, final>> /\ Apart(b)
    BY <1>0, <1>2 DEF Save, Saved, Apart
  <2>2. status[b] # "running"
    <3>1. TaskMayMove("running", receipt[b].status)
      BY <1>0 DEF TaskMayMove, TaskTransitions, TaskStatus, ReceiptStatus
    <3>2. task[b][at[b]] # "running"
      BY <1>2, <3>1
    <3>3. QED
      BY <2>1, <3>2 DEF Right, Counted, Walked, Overrun, Holding, InTask, Walking
  <2>3. Found(b)'
    BY <2>1 DEF Right, Found, Holding, Waiting, Starting, Walking
  <2>4. Counted(b)' /\ Earned(b)'
    BY <2>1, <2>2 DEF Right, Counted, Earned, AllSucceeded, SomeSucceeded, SomeDidNot
  <2>5. QED
    BY <2>1, <2>3, <2>4 DEF Right
<1>3. CASE SetTask(b)
  <2>1. /\ pc[b] = "setTask" /\ UNCHANGED <<status, good, receipt, final>> /\ Apart(b)
        /\ task' = [task EXCEPT ![b][at[b]] = receipt[b].status] /\ Saved(b)
    BY <1>0, <1>3 DEF SetTask, Saved, Apart
  <2>2. /\ task'[b][at[b]] = receipt[b].status
        /\ \A t \in Tasks \ {at[b]} : task'[b][t] = task[b][t]
    BY <1>0, <2>1
  <2>3. \/ /\ receipt[b].raised /\ pc'[b] = "loop"
           /\ bad'[b] = bad[b] + 1 /\ at'[b] = at[b] + 1
        \/ ~receipt[b].raised /\ pc'[b] = "confirm" /\ bad'[b] = bad[b] /\ at'[b] = at[b]
    BY <1>0, <2>1 DEF Saved
  <2>4. status[b] \in {"running", "cancel_requested", "cancelled"}
    BY <2>1 DEF Right, Found, Walking
  <2>5. Found(b)'
    BY <2>1, <2>3, <2>4 DEF Right, Found, Holding, Waiting, Starting, Walking
  <2>6. ASSUME status[b] = "running" PROVE Walked(b)'
    <3>1. Walked(b)
      BY <2>1, <2>6 DEF Right, Counted, Overrun, InTask, Walking
    <3>2. CASE ~receipt[b].raised
      BY <1>0, <2>1, <2>2, <2>3, <3>1, <3>2 DEF Walked, Holding
    <3>3. CASE receipt[b].raised
      <4>1. pc'[b] = "loop" /\ bad'[b] = bad[b] + 1 /\ at'[b] = at[b] + 1 /\ bad'[b] # 0
        BY <1>0, <2>3, <3>3
      <4>2. at[b] \in Tasks /\ task'[b][at[b]] # "succeeded" /\ at[b] < at'[b]
        BY <1>0, <2>1, <2>2, <3>3, <4>1 DEF Right, Found
      <4>3. \A t \in Tasks : t >= at'[b] => task'[b][t] = "queued"
        BY <1>0, <2>2, <3>1, <4>1 DEF Walked
      <4>4. good[b] > 0 => \E t \in Tasks : t < at'[b] /\ task'[b][t] = "succeeded"
        BY <1>0, <2>2, <3>1, <4>1 DEF Walked
      <4>5. QED
        BY <1>0, <2>1, <4>1, <4>2, <4>3, <4>4 DEF Walked, Holding
    <3>4. QED
      BY <3>2, <3>3
  <2>7. Counted(b)' /\ Earned(b)'
    BY <2>1, <2>3, <2>4, <2>6 DEF Counted, Earned
  <2>8. QED
    BY <2>1, <2>5, <2>7 DEF Right
<1>4. QED
  BY <1>1, <1>2, <1>3

LEMMA FinalizeSame ==
  ASSUME PhoneBatchAssumption, Inv, NEW b \in Batches, Finalize(b)
  PROVE  /\ SameSuccess(b)
         /\ \A t \in Tasks : task'[b][t] \in Settled <=> task[b][t] \in Settled
         /\ \A c \in Batches \ {b} : status'[c] = status[c] /\ task'[c] = task[c]
         /\ status'[b] = IF status[b] = "cancel_requested" THEN "cancelled" ELSE status[b]
<1>1. task \in [Batches -> [Tasks -> TaskStatus]] /\ status \in [Batches -> BatchStatus]
  BY DEF Inv, TypeOK
<1>2. \A t \in Tasks : task'[b][t] = IF task[b][t] = "cancel_requested" THEN "cancelled" ELSE task[b][t]
  BY <1>1 DEF Finalize
<1>3. QED
  BY <1>1, <1>2 DEF Finalize, SameSuccess, Settled, ReceiptStatus

\* The task is counted.
LEMMA TallyConfirm ==
  ASSUME PhoneBatchAssumption, Inv, NEW b \in Batches, Right(b), Confirm(b)
  PROVE  Apart(b) /\ Right(b)'
<1> USE DEF db, thread, hub, request, history
<1>0. /\ at[b] \in Nat /\ good[b] \in Nat /\ bad[b] \in Nat
      /\ \A t \in Tasks : t \in Nat /\ t <= N
      /\ pc \in [Batches -> Location] /\ at \in [Batches -> 1 .. (N + 1)]
      /\ bad \in [Batches -> 0 .. N] /\ good \in [Batches -> 0 .. N]
  BY AtTask DEF Inv, TypeOK
<1>1. /\ pc[b] = "confirm" /\ UNCHANGED <<receipt, final>>
      /\ \A c \in Batches \ {b} : /\ pc'[c] = pc[c] /\ at'[c] = at[c]
                                  /\ good'[c] = good[c] /\ bad'[c] = bad[c]
      /\ \/ receipt[b].ready /\ pc'[b] = "loop" /\ at'[b] = at[b] + 1
         \/ ~receipt[b].ready /\ pc'[b] = "sum" /\ at'[b] = at[b]
      /\ \/ receipt[b].status = "succeeded" /\ good'[b] = good[b] + 1 /\ bad'[b] = bad[b]
         \/ receipt[b].status # "succeeded" /\ bad'[b] = bad[b] + 1 /\ good'[b] = good[b]
  BY <1>0 DEF Confirm, Goto
<1>2. /\ SameSuccess(b) /\ \A c \in Batches \ {b} : status'[c] = status[c] /\ task'[c] = task[c]
      /\ status'[b] \in {status[b], "cancelled"}
  <2>1. CASE Finalize(b)
    BY <2>1, FinalizeSame
  <2>2. CASE UNCHANGED <<status, task>>
    BY <2>2 DEF SameSuccess
  <2>3. QED
    BY <2>1, <2>2 DEF Confirm
<1>3. Apart(b)
  BY <1>1, <1>2 DEF Apart
<1>4. at[b] \in Tasks /\ status[b] \in {"running", "cancel_requested", "cancelled"}
  BY <1>1, AtTask DEF Right, Found, InTask, Walking
<1>5. Found(b)'
  BY <1>1, <1>2, <1>4 DEF Right, Found, Holding, Waiting, Starting, Walking
<1>6. ASSUME status'[b] = "running"
      PROVE  /\ pc'[b] = "loop" => Walked(b)'
             /\ pc'[b] = "sum" => /\ bad'[b] # 0
                                  /\ good'[b] > 0 => SomeSucceeded(b)' /\ SomeDidNot(b)'
  <2>1. Walked(b)
    BY <1>1, <1>2, <1>6 DEF Right, Counted, Overrun, InTask, Walking
  <2>2. task'[b][at[b]] = "succeeded" <=> receipt[b].status = "succeeded"
    BY <1>1, <1>2, <1>4, <2>1 DEF Walked, SameSuccess
  <2>3. ASSUME pc'[b] = "loop" PROVE Walked(b)'
    <3>1. at'[b] = at[b] + 1
      BY <1>1, <2>3
    <3>2. \A t \in Tasks : t >= at'[b] => task'[b][t] = "queued"
      BY <1>0, <1>2, <2>1, <3>1 DEF Walked, SameSuccess
    <3>3. bad'[b] = 0 => \A t \in Tasks : t < at'[b] => task'[b][t] = "succeeded"
      BY <1>0, <1>1, <1>2, <2>1, <2>2, <3>1 DEF Walked, SameSuccess
    <3>4. good'[b] > 0 => \E t \in Tasks : t < at'[b] /\ task'[b][t] = "succeeded"
      BY <1>0, <1>1, <1>2, <1>4, <2>1, <2>2, <3>1 DEF Walked, SameSuccess
    <3>5. bad'[b] > 0 => \E t \in Tasks : t < at'[b] /\ task'[b][t] # "succeeded"
      BY <1>0, <1>1, <1>2, <1>4, <2>1, <2>2, <3>1 DEF Walked, SameSuccess
    <3>6. QED
      BY <1>0, <2>3, <3>1, <3>2, <3>3, <3>4, <3>5 DEF Walked, Holding
  <2>4. ASSUME pc'[b] = "sum"
        PROVE  bad'[b] # 0 /\ (good'[b] > 0 => SomeSucceeded(b)' /\ SomeDidNot(b)')
    <3>1. receipt[b].status # "succeeded"
      BY <1>1, <2>4 DEF Right, Found
    <3>2. bad'[b] = bad[b] + 1 /\ good'[b] = good[b]
      BY <1>1, <3>1
    <3>3. good[b] > 0 => SomeSucceeded(b)'
      BY <1>2, <2>1 DEF Walked, SameSuccess, SomeSucceeded
    <3>4. SomeDidNot(b)'
      BY <1>4, <2>2, <3>1 DEF SomeDidNot
    <3>5. QED
      BY <1>0, <3>2, <3>3, <3>4
  <2>5. QED
    BY <2>3, <2>4
<1>7. Counted(b)'
  <2>1. CASE pc'[b] = "loop"
    BY <1>6, <2>1 DEF Counted
  <2>2. CASE pc'[b] = "sum"
    <3>1. status'[b] = "running" => bad'[b] # 0 /\ (good'[b] > 0 => SomeSucceeded(b)' /\ SomeDidNot(b)')
      BY <1>6, <2>2
    <3>2. QED
      BY <2>2, <3>1 DEF Counted, InTask
  <2>3. QED
    BY <1>1, <2>1, <2>2
<1>8. Earned(b)'
  BY <1>2, <1>4 DEF Earned
<1>9. QED
  BY <1>3, <1>5, <1>7, <1>8 DEF Right

LEMMA TallyConclude ==
  ASSUME PhoneBatchAssumption, Inv, NEW b \in Batches, Right(b), Conclude(b)
  PROVE  Apart(b) /\ Right(b)'
<1> USE DEF db, thread, hub, request, history
<1>0. /\ pc \in [Batches -> Location] /\ status \in [Batches -> BatchStatus]
      /\ good[b] \in Nat /\ bad[b] \in Nat
      /\ final \in [Batches -> {"succeeded", "partial_failed", "failed"}]
  BY AtTask DEF Inv, TypeOK
<1>1. CASE Sum(b) /\ status[b] \in Cancelling
  <2>1. /\ pc[b] = "sum" /\ pc'[b] = "none" /\ Finalize(b)
        /\ UNCHANGED <<at, good, bad, receipt, final>>
        /\ \A c \in Batches \ {b} : pc'[c] = pc[c]
    BY <1>0, <1>1 DEF Sum, Leave
  <2>2. Apart(b)
    BY <2>1, FinalizeSame DEF Apart
  <2>3. status'[b] = "cancelled"
    BY <1>1, <2>1, FinalizeSame DEF Cancelling
  <2>4. Right(b)'
    BY <2>1, <2>3 DEF Right, Found, Counted, Earned, Holding, InTask, Waiting, Starting, Walking
  <2>5. QED
    BY <2>2, <2>4
<1>2. CASE Sum(b) /\ status[b] \notin Cancelling
  <2>1. /\ pc[b] = "sum" /\ pc'[b] = "finish" /\ final'[b] = Verdict(b)
        /\ UNCHANGED <<status, task, at, good, bad, receipt>> /\ Apart(b)
    BY <1>0, <1>2 DEF Sum, Goto, Apart
  <2>2. status[b] = "running"
    BY <1>2, <2>1 DEF Right, Found, Walking, Cancelling
  <2>3. /\ bad[b] = 0 /\ good[b] > 0 => AllSucceeded(b)
        /\ bad[b] > 0 /\ good[b] > 0 => SomeSucceeded(b) /\ SomeDidNot(b)
    BY <2>1, <2>2 DEF Right, Counted
  <2>4. /\ final'[b] = "succeeded" => bad[b] = 0 /\ good[b] > 0
        /\ final'[b] = "partial_failed" => bad[b] > 0 /\ good[b] > 0
    BY <2>1 DEF Verdict
  <2>5. Found(b)'
    BY <2>1, <2>2 DEF Right, Found, Holding, Waiting, Starting, Walking
  <2>6. Counted(b)' /\ Earned(b)'
    <3>1. /\ AllSucceeded(b)' <=> AllSucceeded(b)
          /\ SomeSucceeded(b)' <=> SomeSucceeded(b)
          /\ SomeDidNot(b)' <=> SomeDidNot(b)
      BY <2>1 DEF AllSucceeded, SomeSucceeded, SomeDidNot
    <3>2. QED
      BY <2>1, <2>2, <2>3, <2>4, <3>1 DEF Counted, Earned, InTask, Walking
  <2>7. QED
    BY <2>1, <2>5, <2>6 DEF Right
<1>3. CASE Finish(b)
  <2>1. Moved(b) /\ pc[b] = "finish" /\ pc'[b] \in {"setFinal", "none"}
    BY <1>0, <1>3 DEF Finish, Goto, Leave, Moved
  <2>2. Found(b)' /\ Counted(b)'
    BY <2>1 DEF Moved, Right, Found, Counted, Holding, InTask, Waiting, Starting, Walking,
                AllSucceeded, SomeSucceeded, SomeDidNot
  <2>3. QED
    BY <2>1, <2>2, MovedApart DEF Right
<1>4. CASE SetFinal(b)
  <2>1. /\ pc[b] = "setFinal" /\ pc'[b] = "none" /\ status'[b] = final[b]
        /\ UNCHANGED <<task, at, good, bad, receipt, final>> /\ Apart(b)
    BY <1>0, <1>4 DEF SetFinal, Leave, Apart
  <2>2. status'[b] \in {"succeeded", "partial_failed", "failed"}
    BY <1>0, <2>1
  <2>3. Found(b)' /\ Counted(b)'
    BY <2>1, <2>2 DEF Right, Found, Counted, Holding, InTask, Waiting, Starting, Walking
  <2>4. Earned(b)'
    BY <2>1 DEF Right, Counted, Earned, AllSucceeded, SomeSucceeded, SomeDidNot
  <2>5. QED
    BY <2>1, <2>3, <2>4 DEF Right
<1>5. QED
  BY <1>1, <1>2, <1>3, <1>4 DEF Conclude

\* A cancellation takes along what has not ended.
LEMMA CancelSame ==
  ASSUME PhoneBatchAssumption, Inv, NEW b \in Batches, CancelBatch(b), status[b] \notin BatchFinal
  PROVE  /\ status'[b] = IF status[b] = "running" THEN "cancel_requested" ELSE "cancelled"
         /\ \A t \in Tasks :
              task'[b][t] = IF task[b][t] \in TaskOpen THEN status'[b] ELSE task[b][t]
         /\ \A c \in Batches \ {b} : status'[c] = status[c] /\ task'[c] = task[c]
<1>1. task \in [Batches -> [Tasks -> TaskStatus]] /\ status \in [Batches -> BatchStatus]
  BY DEF Inv, TypeOK
<1> DEFINE to == IF status[b] = "running" THEN "cancel_requested" ELSE "cancelled"
           taken == [t \in Tasks |-> IF task[b][t] \in TaskOpen THEN to ELSE task[b][t]]
<1>2. status' = [status EXCEPT ![b] = to] /\ task' = [task EXCEPT ![b] = taken]
  BY DEF CancelBatch
<1>3. status'[b] = to /\ \A t \in Tasks : task'[b][t] = taken[t]
  BY <1>1, <1>2
<1>4. \A c \in Batches \ {b} : status'[c] = status[c] /\ task'[c] = task[c]
  BY <1>1, <1>2
<1>5. QED
  BY <1>3, <1>4

LEMMA TallyRequests ==
  ASSUME PhoneBatchAssumption, Inv, NEW b \in Batches, Right(b), Requests(b)
  PROVE  Apart(b) /\ Right(b)'
<1> USE DEF db, thread, hub, request, history
<1>0. /\ pc \in [Batches -> Location] /\ status \in [Batches -> BatchStatus]
      /\ task \in [Batches -> [Tasks -> TaskStatus]] /\ receipt \in [Batches -> Receipt]
      /\ lease[b] # "none" => pc[b] \in {"wait", "giveUp"}
  BY DEF Inv, TypeOK, Whole, Handing
<1>1. ASSUME UNCHANGED <<pc, at, good, bad, receipt, status, task, final>>
      PROVE  Apart(b) /\ Right(b)'
  BY <1>1 DEF Apart, Right, Found, Counted, Earned, Walked, Overrun, AllSucceeded, SomeSucceeded, SomeDidNot
<1>2. CASE Claim(b) /\ status[b] = "approved"
  <2>1. /\ pc'[b] = "begin" /\ status'[b] = "queued" /\ \A t \in Tasks : task'[b][t] = "queued"
        /\ UNCHANGED <<at, good, bad, receipt, final>> /\ Apart(b)
    BY <1>0, <1>2 DEF Claim, Apart
  <2>2. at[b] = 1 /\ good[b] = 0 /\ bad[b] = 0
    BY <1>2 DEF Inv, Whole, Walk
  <2>3. Right(b)'
    BY <2>1, <2>2 DEF Right, Found, Counted, Earned, Holding, InTask, Waiting, Starting, Walking
  <2>4. QED
    BY <2>1, <2>3
<1>3. ASSUME UNCHANGED <<pc, at, good, bad, status, task, final>>, pc[b] \in {"wait", "giveUp"},
             ~receipt'[b].raised, \A c \in Batches \ {b} : receipt'[c] = receipt[c]
      PROVE  Apart(b) /\ Right(b)'
  <2>1. Apart(b) /\ Found(b)'
    BY <1>3 DEF Apart, Right, Found
  <2>2. Counted(b)' /\ Earned(b)'
    BY <1>3 DEF Right, Counted, Earned, Walked, Overrun, AllSucceeded, SomeSucceeded, SomeDidNot
  <2>3. QED
    BY <2>1, <2>2 DEF Right
<1>4. CASE CancelLeases(b)
  <2>1. CASE lease[b] = "pending"
    <3>1. ~receipt'[b].raised /\ \A c \in Batches \ {b} : receipt'[c] = receipt[c]
      BY <1>0, <1>4, <2>1 DEF CancelLeases, Answer
    <3>2. QED
      BY <1>0, <1>3, <1>4, <2>1, <3>1 DEF CancelLeases
  <2>2. CASE lease[b] # "pending"
    <3>1. receipt' = receipt
      BY <1>0, <1>4, <2>2 DEF CancelLeases
    <3>2. QED
      BY <1>1, <1>4, <3>1 DEF CancelLeases
  <2>3. QED
    BY <2>1, <2>2
<1>5. CASE CancelBatch(b) /\ status[b] \notin BatchFinal
  <2>1. /\ status'[b] = IF status[b] = "running" THEN "cancel_requested" ELSE "cancelled"
        /\ \A t \in Tasks :
             task'[b][t] = IF task[b][t] \in TaskOpen THEN status'[b] ELSE task[b][t]
        /\ \A c \in Batches \ {b} : status'[c] = status[c] /\ task'[c] = task[c]
        /\ UNCHANGED <<pc, at, good, bad, receipt, final>>
    BY <1>5, CancelSame DEF CancelBatch
  <2>2. Apart(b)
    BY <2>1 DEF Apart
  <2>3. Found(b)'
    <3>1. ASSUME pc[b] \in Waiting \cup Starting
          PROVE  status'[b] = "cancelled" /\ \A t \in Tasks : task'[b][t] = "cancelled"
      BY <1>5, <2>1, <3>1 DEF Right, Found, BatchFinal, TaskOpen
    <3>2. ASSUME pc[b] \in Holding PROVE task'[b][at[b]] \notin Settled
      <4>1. at[b] \in Tasks
        BY <3>2, AtTask DEF Holding, InTask, Walking
      <4>2. task[b][at[b]] \notin Settled /\ status'[b] \notin Settled
        BY <2>1, <3>2 DEF Right, Found, Settled, ReceiptStatus
      <4>3. QED
        BY <2>1, <4>1, <4>2
    <3>3. QED
      BY <2>1, <3>1, <3>2 DEF Right, Found
  <2>4. Counted(b)' /\ Earned(b)'
    <3>1. \A t \in Tasks : task'[b][t] = "succeeded" <=> task[b][t] = "succeeded"
      BY <2>1 DEF TaskOpen
    <3>2. /\ AllSucceeded(b)' <=> AllSucceeded(b)
          /\ SomeSucceeded(b)' <=> SomeSucceeded(b)
          /\ SomeDidNot(b)' <=> SomeDidNot(b)
      BY <3>1 DEF AllSucceeded, SomeSucceeded, SomeDidNot
    <3>3. QED
      BY <2>1, <3>2 DEF Right, Counted, Earned
  <2>5. QED
    BY <2>2, <2>3, <2>4 DEF Right
<1>6. ASSUME NEW s \in Outcomes, NEW r \in BOOLEAN, Report(b, s, r) PROVE Apart(b) /\ Right(b)'
  <2>1. ~receipt'[b].raised /\ \A c \in Batches \ {b} : receipt'[c] = receipt[c]
    BY <1>0, <1>6 DEF Report, Answer
  <2>2. QED
    BY <1>0, <1>3, <1>6, <2>1 DEF Report
<1>7. QED
  BY <1>1, <1>2, <1>4, <1>5, <1>6 DEF Requests, Execute, Claim, CancelBatch, Take

LEMMA TallyRestart == ASSUME PhoneBatchAssumption, Inv, Tally, Restart PROVE Tally'
<1> SUFFICES ASSUME NEW b \in Batches PROVE Found(b)' /\ Counted(b)' /\ Earned(b)'
  BY DEF Tally
<1>1. /\ pc'[b] = "none" /\ UNCHANGED <<at, good, bad, receipt, final>>
      /\ \/ status'[b] = status[b] /\ \A t \in Tasks : task'[b][t] = task[b][t]
         \/ status'[b] \in {"failed", "cancelled"}
  BY DEF Restart, Recover
<1>2. Found(b)' /\ Counted(b)'
  BY <1>1 DEF Tally, Found, Counted, Holding, InTask, Waiting, Starting, Walking
<1>3. Earned(b)'
  BY <1>1 DEF Tally, Earned, AllSucceeded, SomeSucceeded, SomeDidNot
<1>4. QED
  BY <1>2, <1>3

LEMMA TallyStep == ASSUME PhoneBatchAssumption, Inv, Tally, [Next]_vars PROVE Tally'
<1>1. \A b \in Batches : Right(b)
  BY DEF Tally, Right
<1>2. ASSUME NEW b \in Batches, Executor(b) PROVE Apart(b) /\ Right(b)'
  BY <1>1, <1>2, TallyPrepare, TallyStart, TallyHub, TallySave, TallyConfirm, TallyConclude
     DEF Executor, RunTask
<1>3. ASSUME NEW b \in Batches, Executor(b) \/ Requests(b) PROVE Tally'
  BY <1>1, <1>2, <1>3, TallyRequests, ApartKeeps
<1>4. CASE Others \/ UNCHANGED vars
  <2>1. UNCHANGED <<status, task, pc, at, good, bad, receipt, final>>
    BY <1>4 DEF Others, ReportLate, ResumeRoute, Resume, ResumeCheck, ResumeWrite,
                vars, db, thread, hub, request, history
  <2>2. QED
    BY <2>1 DEF Tally, Found, Counted, Earned, Walked, Overrun, AllSucceeded, SomeSucceeded, SomeDidNot
<1>5. Next => \/ \E b \in Batches : Executor(b) \/ Requests(b)
              \/ Others \/ Restart
  BY DEF Next, Worker, Requests, Others
<1>6. QED
  BY <1>3, <1>4, <1>5, TallyRestart

LEMMA TallyHolds == ASSUME PhoneBatchAssumption PROVE Spec => []Tally
<1>1. Init => Tally
  <2> SUFFICES ASSUME Init, NEW b \in Batches PROVE Found(b) /\ Counted(b) /\ Earned(b)
    BY DEF Tally
  <2>1. /\ status[b] = "approved" /\ pc[b] = "none" /\ receipt[b] = Raised
        /\ \A t \in Tasks : task[b][t] = "approved"
    BY DEF Init
  <2>2. QED
    BY <2>1 DEF Found, Counted, Earned, Raised, Settled, ReceiptStatus, Holding, InTask, Waiting,
                Starting, Walking
<1>2. Inv /\ Tally /\ [Next]_vars => Tally'
  BY TallyStep
<1>3. QED
  BY <1>1, <1>2, InvHolds, PTL DEF Spec

\* A batch reported as succeeded has only succeeded tasks, and one reported as
\* partly failed has both kinds, although the verdict is made from counters,
\* tasks are skipped and receipts refused, and requests to cancel come between
\* any two transactions of the executor.
THEOREM VerdictEarned == ASSUME PhoneBatchAssumption PROVE Spec => []VerdictIsEarned
<1>1. Tally => VerdictIsEarned
  BY DEF Tally, Earned, VerdictIsEarned, AllSucceeded, SomeSucceeded, SomeDidNot
<1>2. QED
  BY <1>1, TallyHolds, PTL

-----------------------------------------------------------------------------
\* What a step may do to a batch that has its verdict, or a task its outcome.
Stays(b) ==
  /\ status[b] \in {"succeeded", "partial_failed", "failed"} => status'[b] = status[b]
  /\ \A t \in Tasks : task[b][t] \in Settled => task'[b][t] = task[b][t]

LEMMA ExecutorStays ==
  ASSUME PhoneBatchAssumption, Inv, NEW b \in Batches, Right(b), Executor(b) PROVE Stays(b)
<1> USE DEF db, thread, hub, request, history
<1>0. /\ status \in [Batches -> BatchStatus] /\ task \in [Batches -> [Tasks -> TaskStatus]]
  BY DEF Inv, TypeOK
<1>1. ASSUME UNCHANGED <<status, task>> PROVE Stays(b)
  BY <1>1 DEF Stays
<1>2. CASE Block(b)
  <2>1. status[b] \in {"queued", "cancelled"} /\ UNCHANGED task
    BY <1>2 DEF Block, Goto, Right, Found, Starting
  <2>2. QED
    BY <2>1 DEF Stays
<1>3. CASE FailTasks(b)
  <2>1. UNCHANGED status /\ \A t \in Tasks : task[b][t] \in {"queued", "cancelled"}
    BY <1>3 DEF FailTasks, Right, Found, Starting
  <2>2. QED
    BY <2>1 DEF Stays, Settled, ReceiptStatus
<1>4. CASE SetRunning(b)
  <2>1. status[b] \in {"queued", "cancelled"} /\ UNCHANGED task
    BY <1>4 DEF SetRunning, Goto, Right, Found, Starting
  <2>2. QED
    BY <2>1 DEF Stays
<1>5. CASE SetAttempt(b) \/ SetTask(b)
  <2>1. /\ pc[b] \in {"setAttempt", "setTask"} /\ UNCHANGED status
        /\ \A t \in Tasks \ {at[b]} : task'[b][t] = task[b][t]
    BY <1>0, <1>5 DEF SetAttempt, SetTask, Goto
  <2>2. task[b][at[b]] \notin Settled
    BY <2>1 DEF Right, Found, Holding
  <2>3. QED
    BY <2>1, <2>2 DEF Stays
<1>6. CASE Finalize(b)
  <2>1. \A t \in Tasks : task'[b][t] = task[b][t] \/ task[b][t] = "cancel_requested"
    BY <1>0, <1>6 DEF Finalize
  <2>2. status'[b] = status[b] \/ status[b] = "cancel_requested"
    BY <1>0, <1>6 DEF Finalize
  <2>3. QED
    BY <2>1, <2>2 DEF Stays, Settled, ReceiptStatus
<1>7. CASE SetFinal(b)
  <2>1. status[b] \in {"running", "cancel_requested", "cancelled"} /\ UNCHANGED task
    BY <1>7 DEF SetFinal, Goto, Right, Found, Walking
  <2>2. QED
    BY <2>1 DEF Stays
<1>8. QED
  BY <1>1, <1>2, <1>3, <1>4, <1>5, <1>6, <1>7
     DEF Executor, Prepare, RunTask, Conclude, Begin, Lock, Recheck, ToRunning, Loop, Attempt, Check,
         Offline, Enqueue, Wake, Expire, GiveUp, NoteReceipt, Save, Confirm, Sum, Finish, Look

LEMMA RequestsStay ==
  ASSUME PhoneBatchAssumption, Inv, NEW b \in Batches, Right(b), Requests(b) PROVE Stays(b)
<1> USE DEF db, thread, hub, request, history
<1>1. ASSUME UNCHANGED <<status, task>> PROVE Stays(b)
  BY <1>1 DEF Stays
<1>2. CASE Claim(b) /\ status[b] = "approved"
  BY <1>2 DEF Right, Found, Stays
<1>3. CASE CancelBatch(b) /\ status[b] \notin BatchFinal
  <2>1. \A t \in Tasks : task[b][t] \in TaskOpen \/ task'[b][t] = task[b][t]
    BY <1>3, CancelSame
  <2>2. QED
    BY <1>3, <2>1 DEF Stays, Settled, ReceiptStatus, TaskOpen, BatchFinal
<1>4. QED
  BY <1>1, <1>2, <1>3 DEF Requests, Execute, Claim, CancelLeases, CancelBatch, Take, Report

LEMMA RestartStays == ASSUME Restart, NEW b \in Batches PROVE Stays(b)
<1>1. /\ status'[b] = status[b] \/ status[b] \in {"running", "cancel_requested"}
      /\ \A t \in Tasks : task'[b][t] = task[b][t] \/ task[b][t] \in {"running", "cancel_requested"}
  BY DEF Restart, Recover
<1>2. QED
  BY <1>1 DEF Stays, Settled, ReceiptStatus

\* A verdict, and the outcome of a task, are never written over by a late
\* cancellation, a second call, the thread itself or the recovery.
THEOREM OutcomesKept == ASSUME PhoneBatchAssumption PROVE Spec => OutcomeKept
<1> DEFINE A == \A b \in Batches : Stays(b)
<1>1. ASSUME Inv, Tally, Next PROVE A
  <2>1. \A b \in Batches : Right(b)
    BY <1>1 DEF Tally, Right
  <2>2. ASSUME NEW b \in Batches, Executor(b) \/ Requests(b) PROVE A
    <3>1. Apart(b)
      BY <1>1, <2>1, <2>2, TallyPrepare, TallyStart, TallyHub, TallySave, TallyConfirm,
         TallyConclude, TallyRequests DEF Executor, RunTask
    <3>2. \A c \in Batches \ {b} : Stays(c)
      BY <3>1 DEF Apart, Stays
    <3>3. QED
      BY <1>1, <2>1, <2>2, <3>2, ExecutorStays, RequestsStay
  <2>3. CASE Others
    BY <2>3 DEF Others, ReportLate, ResumeRoute, Resume, ResumeCheck, ResumeWrite, db, Stays
  <2>4. CASE Restart
    BY <2>4, RestartStays
  <2>5. Next => \/ \E b \in Batches : Executor(b) \/ Requests(b)
                \/ Others \/ Restart
    BY DEF Next, Worker, Requests, Others
  <2>6. QED
    BY <1>1, <2>2, <2>3, <2>4, <2>5
<1>2. Inv /\ Tally /\ [Next]_vars => [A]_vars
  BY <1>1
<1>3. OutcomeKept <=> [][A]_vars
  BY DEF OutcomeKept, Stays, Settled
<1>4. QED
  <2> HIDE DEF A
  <2>1. QED
    BY <1>2, <1>3, InvHolds, TallyHolds, PTL DEF Spec
=============================================================================
