------------------------------- MODULE EdgeTasks -------------------------------
(***************************************************************************)
(* Commands for an edge node: the table of tasks in the hub                 *)
(* (core/edge_db.py, features/network_ops/edge_service.py and edge_adapter) *)
(* and the sentinel that cron starts on the node (edge_node/edge_sentinel). *)
(*                                                                          *)
(* Every answer may be lost, every result may be lost, doubled or late, a   *)
(* process of the node may stop anywhere, and cron may start another one    *)
(* while one is at work.  One node is modelled: claim_task never gives a    *)
(* task to another.  Tasks are numbered in the order of created_at.         *)
(***************************************************************************)
EXTENDS Integers, FiniteSets

CONSTANTS Tasks,       \* 1 .. n, bound: tasks of the node
          Tier,        \* instances: key_tier of each task
          Processes,   \* sentinels at work at a time
          Sweepers,    \* calls of edge_sweep at a time
          MaxRetries,  \* max_retries
          Attempts,    \* attempts to send a result
          Patient      \* retransmit_timeout_sec is longer than a process keeps a task

ASSUME EdgeAssumption ==
  /\ Tasks \subseteq Nat /\ IsFiniteSet(Tasks)
  /\ Tier \in [Tasks -> {"hot", "root"}]
  /\ MaxRetries \in Nat /\ Attempts \in Nat \ {0} /\ Patient \in BOOLEAN

VARIABLES row,      \* the rows of edge_tasks
          process,  \* what each process of the node is about
          nonces,   \* tasks whose nonce is in executed.db
          late,     \* results on their way that nobody waits for any more
          stuck,    \* what each sweep has found and not yet handled
          good      \* tasks whose command came to an end with exit code 0

vars == <<row, process, nonces, late, stuck, good>>

Exits == {"ok", "bad", "refused"}
Rows == [status : {"none", "pending", "dispatched", "done", "failed"},
         key : {"hot", "root"}, fresh : BOOLEAN, retries : 0 .. MaxRetries]
NoRow == [status |-> "none", key |-> "hot", fresh |-> TRUE, retries |-> 0]
Idle == [pc |-> "idle", task |-> 0, valid |-> FALSE, exit |-> "refused", left |-> 0]

Init ==
  /\ row = [t \in Tasks |-> NoRow]
  /\ process = [p \in Processes |-> Idle]
  /\ nonces = {} /\ late = {} /\ good = {}
  /\ stuck = [s \in Sweepers |-> {}]

With(status) == {t \in Tasks : row[t].status = status}
Holding(p, t) == process[p].pc # "idle" /\ process[p].task = t

-------------------------------------------------------------------------------
(* The hub.                                                                 *)

(* edge_cmd, fleet_audit and the route for tasks signed with the root key.  *)
Create(t) ==
  /\ row[t].status = "none" /\ \A u \in Tasks : u < t => row[u].status # "none"
  /\ row' = [row EXCEPT ![t] = [NoRow EXCEPT !.status = "pending", !.key = Tier[t]]]
  /\ UNCHANGED <<process, nonces, late, stuck, good>>

(* A task has waited for longer than its time stamp is accepted. *)
Age(t) ==
  /\ row[t].status = "pending" /\ row[t].fresh
  /\ row' = [row EXCEPT ![t].fresh = FALSE]
  /\ UNCHANGED <<process, nonces, late, stuck, good>>

(* submit_result *)
Submitted(t, exit) ==
  IF row[t].status # "dispatched" THEN row
  ELSE [row EXCEPT ![t].status = IF exit = "ok" THEN "done" ELSE "failed"]

(* get_stuck_tasks *)
Look(s) ==
  /\ stuck[s] = {}
  /\ \E found \in SUBSET With("dispatched") \ {{}} :
       /\ Patient => \A t \in found, p \in Processes : ~ Holding(p, t)
       /\ stuck' = [stuck EXCEPT ![s] = found]
  /\ UNCHANGED <<row, process, nonces, late, good>>

RetransmittedUncounted(t) ==
  IF row[t].status # "dispatched" THEN row
  ELSE IF row[t].retries <= MaxRetries
  THEN [row EXCEPT ![t] = [@ EXCEPT !.status = "pending", !.fresh = TRUE, !.key = "hot"]]
  ELSE [row EXCEPT ![t].status = "failed"]
(* update_retransmitted_task: signed again, always with the hot key. *)
Retransmitted(t) ==
  IF row[t].status # "dispatched" THEN row
  ELSE IF row[t].retries < MaxRetries
  THEN [row EXCEPT ![t] = [row[t] EXCEPT !.status = "pending", !.fresh = TRUE, !.key = "hot",
                                         !.retries = @ + 1]]
  ELSE [row EXCEPT ![t].status = "failed"]

Sweep(s) ==
  /\ \E t \in stuck[s] : row' = Retransmitted(t) /\ stuck' = [stuck EXCEPT ![s] = @ \ {t}]
  /\ UNCHANGED <<process, nonces, late, good>>

(* A result comes after its sender has given up. *)
Arrive ==
  /\ \E m \in late : row' = Submitted(m.task, m.exit) /\ late' = late \ {m}
  /\ UNCHANGED <<process, nonces, stuck, good>>

-------------------------------------------------------------------------------
(* The node.                                                                *)

Set(p, q) == process' = [process EXCEPT ![p] = q]

(* claim_task, for the task that has waited longest; the answer may be lost. *)
Pull(p) ==
  /\ process[p].pc = "idle"
  /\ \E t \in With("pending") :
       /\ \A u \in With("pending") : t <= u
       /\ row' = [row EXCEPT ![t].status = "dispatched"]
       /\ \/ Set(p, [Idle EXCEPT !.pc = "pulled", !.task = t,
                                 !.valid = row[t].key = Tier[t] /\ row[t].fresh])
          \/ UNCHANGED process
  /\ UNCHANGED <<nonces, late, stuck, good>>

Answering(q, exit) == [q EXCEPT !.pc = "sending", !.exit = exit, !.left = Attempts]

VerifyBlindly(p) ==
  /\ process[p].pc = "pulled"
  /\ Set(p, IF process[p].valid THEN [process[p] EXCEPT !.pc = "running"]
            ELSE Answering(process[p], "refused"))
  /\ UNCHANGED <<row, nonces, late, stuck, good>>

(* Signature, time stamp and nonce are checked; the list of commands the    *)
(* node allows is its own, and not asked for one of the root tier.          *)
Verify(p) ==
  /\ process[p].pc = "pulled"
  /\ LET t == process[p].task
         accepted == process[p].valid /\ t \notin nonces
     IN  \/ accepted /\ Set(p, [process[p] EXCEPT !.pc = "running"])
         \/ /\ accepted => Tier[t] = "hot"
            /\ Set(p, Answering(process[p], "refused"))
  /\ UNCHANGED <<row, nonces, late, stuck, good>>

(* The command comes to an end, or is given up after its time. *)
Run(p) ==
  /\ process[p].pc = "running"
  /\ \/ \E exit \in {"ok", "bad"} :
          /\ Set(p, [process[p] EXCEPT !.pc = "ran", !.exit = exit])
          /\ good' = IF exit = "ok" THEN good \cup {process[p].task} ELSE good
     \/ Set(p, Answering(process[p], "refused")) /\ UNCHANGED good
  /\ UNCHANGED <<row, nonces, late, stuck>>

(* _nonce_record, whose failure is ignored. *)
Record(p) ==
  /\ process[p].pc = "ran"
  /\ nonces' \in {nonces, nonces \cup {process[p].task}}
  /\ Set(p, Answering(process[p], process[p].exit))
  /\ UNCHANGED <<row, late, stuck, good>>

(* One attempt: answered, or not, which leaves open whether the hub has got *)
(* the result, will get it, or never gets it.                               *)
Send(p) ==
  /\ process[p].pc = "sending"
  /\ LET q == process[p]
         again == IF q.left = 1 THEN Idle ELSE [q EXCEPT !.left = @ - 1]
     IN  \/ row' = Submitted(q.task, q.exit) /\ process' \in
              {[process EXCEPT ![p] = Idle], [process EXCEPT ![p] = again]}
            /\ UNCHANGED late
         \/ /\ late' \in {late, late \cup {[task |-> q.task, exit |-> q.exit]}}
            /\ Set(p, again) /\ UNCHANGED row
  /\ UNCHANGED <<nonces, stuck, good>>

Crash(p) ==
  /\ process[p].pc # "idle"
  /\ Set(p, Idle)
  /\ UNCHANGED <<row, nonces, late, stuck, good>>

Sentinel(p) == Pull(p) \/ Verify(p) \/ Run(p) \/ Record(p) \/ Send(p)
Next == \/ \E t \in Tasks : Create(t) \/ Age(t)
        \/ \E s \in Sweepers : Look(s) \/ Sweep(s)
        \/ \E p \in Processes : Sentinel(p) \/ Crash(p)
        \/ Arrive

Spec == Init /\ [][Next]_vars

(* cron starts the sentinel again and again, and the sweep; a sweep that is *)
(* due finds every task it may find.                                        *)
FairSpec ==
  /\ Spec
  /\ \A p \in Processes : WF_vars(Sentinel(p))
  /\ \A s \in Sweepers : WF_vars(Look(s)) /\ WF_vars(Sweep(s))

-------------------------------------------------------------------------------

(* The values of the variables. *)
TypeOK ==
  /\ row \in [Tasks -> Rows]
  /\ process \in [Processes -> [pc : {"idle", "pulled", "running", "ran", "sending"},
                                task : Tasks \cup {0}, valid : BOOLEAN, exit : Exits,
                                left : 0 .. Attempts]]
  /\ \A p \in Processes : /\ process[p].pc # "idle" => process[p].task \in Tasks
                          /\ process[p].pc = "sending" => process[p].left # 0
  /\ nonces \subseteq Tasks /\ good \subseteq Tasks
  /\ late \subseteq [task : Tasks, exit : Exits]
  /\ stuck \in [Sweepers -> SUBSET Tasks]

(* A command whose nonce is recorded is not executed any more, by whichever *)
(* process, as long as a retransmission waits until the task is let go.     *)
NoReplay ==
  \A p \in Processes : process[p].pc \in {"running", "ran"} => process[p].task \notin nonces

(* What the hub calls done has come to its end on the node with exit code 0, *)
(* whatever was lost, doubled or refused on the way.                        *)
DoneIsEarned == With("done") \subseteq good

(* Every result stands for one execution, and tells how that one ended.     *)
ResultsEarned == NoReplay /\ DoneIsEarned

(* A task that was handed out comes to a verdict: by a result, or because   *)
(* it was sent again too often.                                             *)
TaskSettles ==
  \A t \in Tasks : [](row[t].status = "dispatched" => <>(row[t].status \in {"done", "failed"}))
===============================================================================
