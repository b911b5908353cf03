---------------------------- MODULE TaskOrchestrator ----------------------------
(***************************************************************************)
(* One task of core/task_orchestrator.py: a plan becomes a graph of         *)
(* subtasks (core/subtask_dag.py), which is executed batch by batch on a     *)
(* pool of threads by workers (core/worker_agent.py), all of them under one *)
(* budget (core/execution_budget.py, core/llm_gateway.py), and summed up in *)
(* a report.  agent.py (_run_orchestrated) delivers the report and saves    *)
(* the verdict.                                                             *)
(*                                                                          *)
(* Subtasks are numbered in the order of the plan.  Time is not counted: a  *)
(* timeout of a batch and the deadline of the task may come whenever the    *)
(* code looks at them.  A worker that is not waited for any more is not     *)
(* stopped: it goes on beside the task, and after its end.                  *)
(***************************************************************************)
EXTENDS Integers, FiniteSets, FiniteSetsExt

CONSTANTS Nodes,        \* 1 .. n, subtasks of the largest plan
          Plans,        \* instances: plans the model may come up with, see PlanSet
          MaxSteps,     \* budget.max_steps
          MaxTokens,    \* budget.max_tokens
          FinalReserve, \* final_reserve, tokens
          StepsEach,    \* steps the fail-fast rule expects of a subtask (5)
          MaxDepth,     \* dag_max_depth
          Parallel,     \* effective_parallel
          Threads,      \* max_workers of the executor
          Fallbacks,    \* fallback models of a subtask
          CallTokens    \* bound: tokens reserved for a call

Unknown == 0            \* a dependency that no subtask of the plan has as its id
PlanSet == [nodes : SUBSET Nodes, deps : [Nodes -> SUBSET (Nodes \cup {Unknown})],
            direct : SUBSET Nodes, approved : BOOLEAN]

ASSUME OrchestratorAssumption ==
  /\ IsFiniteSet(Nodes) /\ Nodes = 1 .. Cardinality(Nodes) /\ Nodes # {}
  /\ {MaxSteps, MaxTokens, Parallel, Threads, CallTokens, MaxDepth, StepsEach} \subseteq Nat \ {0}
  /\ {FinalReserve, Fallbacks} \subseteq Nat
  /\ Parallel <= Threads
  /\ Plans \subseteq PlanSet

VARIABLES plan,      \* the plan of the task
          pc,        \* where the thread of the task is
          status,    \* Subtask.status
          batch,     \* the subtasks waited for
          worker,    \* the worker of each subtask
          used,      \* budget: steps and tokens that were charged
          real,      \* what calls of models really took
          parent,    \* status of the parent execution in the ledger
          saved      \* status of the row in subtask_progress

vars == <<plan, pc, status, batch, worker, used, real, parent, saved>>

Cost(steps, tokens) == [steps |-> steps, tokens |-> tokens]
Plus(a, b) == Cost(a.steps + b.steps, a.tokens + b.tokens)
Larger(a, b) == IF a >= b THEN a ELSE b

-------------------------------------------------------------------------------
(* The graph: SubtaskDAG.                                                   *)

(* What a search finds that starts from a set and goes on along `next`. *)
Names == Nodes \cup {Unknown}
Closed(found, next) == \A n \in found : next[n] \subseteq found
Reached(start, next) ==
  {n \in Names : \A found \in SUBSET Names :
                   start \subseteq found /\ Closed(found, next) => n \in found}

(* The subtasks n needs, at one or more removes. *)
Needs(n) ==
  Reached(plan.deps[n], [m \in Names |-> IF m \in plan.nodes THEN plan.deps[m] ELSE {}])

DepthOver(n) ==
  LET chain[k \in Nat] == [m \in plan.nodes |->
        IF k = 0 THEN FALSE
        ELSE k = 1 \/ \E d \in plan.deps[m] \cap plan.nodes : chain[k - 1][d]]
  IN  chain[MaxDepth + 1][n]

(* _validate_no_cycle and _validate_max_depth; an unknown dependency passes. *)
Valid == \A n \in plan.nodes : n \notin Needs(n) /\ ~ DepthOver(n)

Is(s) == {n \in plan.nodes : status[n] = s}
AllDone == Is("done") = plan.nodes
AllEnded == Is("pending") \cup Is("running") = {}

Met(n) == \A d \in plan.deps[n] : d \in Is("done") \cup Is("skipped")
Ready == {n \in Is("pending") : Met(n)}

(* A dependency is looked up that does not exist. *)
LookupFails ==
  \E n \in Is("pending") : ~ plan.deps[n] \subseteq plan.nodes

DownstreamNear(failed) == {n \in Is("pending") : plan.deps[n] \cap failed # {}}
(* mark_downstream_skipped: from the failed ones through pending ones only. *)
Downstream(failed) ==
  Reached(failed, [m \in Names |-> {n \in Is("pending") : m \in plan.deps[n]}]) \ failed

-------------------------------------------------------------------------------
(* The budget: ExecutionBudget.  A call is admitted when it fits beside     *)
(* what is used and what is held by calls under way.                        *)

Calling == {n \in Nodes : worker[n].pc = "call"}
Total(cost, nodes) == MapThenSumSet(LAMBDA n : cost[n], nodes)
Held == Cost(Cardinality(Calling), Total([n \in Nodes |-> worker[n].asked], Calling))
Left == Cost(Larger(0, MaxSteps - used.steps - Held.steps),
             Larger(0, MaxTokens - used.tokens - Held.tokens))

AdmittedUnheld(tokens) ==
  used.steps + 1 <= MaxSteps /\ used.tokens + tokens <= MaxTokens
Admitted(tokens) ==
  /\ used.steps + Held.steps + 1 <= MaxSteps
  /\ used.tokens + Held.tokens + tokens <= MaxTokens

(* worker_share: what is left, without a step and some tokens for the       *)
(* report, for each of the workers still to come.                           *)
Share(count) ==
  Cost(Larger(0, Left.steps - 1) \div count, Larger(0, Left.tokens - FinalReserve) \div count)

Charge(cost) == used' = Plus(used, cost) /\ real' = Plus(real, cost)

-------------------------------------------------------------------------------

NoWorker == [pc |-> "none", share |-> Cost(0, 0), spent |-> Cost(0, 0), asked |-> 0, backups |-> 0]

Init ==
  /\ plan \in Plans
  /\ pc = "plan"
  /\ status = [n \in Nodes |-> "pending"]
  /\ batch = {}
  /\ worker = [n \in Nodes |-> NoWorker]
  /\ used = Cost(0, 0) /\ real = Cost(0, 0)
  /\ parent = "running"
  /\ saved = "planning"

(* An exception, or an early return: the parent execution is failed in      *)
(* `finally`, and the agent saves the failure.                              *)
Give ==
  /\ parent' = "failed" /\ pc' = "end"
  /\ saved' = IF plan.approved THEN saved ELSE "failed"

Simple == [plan EXCEPT !.nodes = {1}, !.deps = [n \in Nodes |-> {}], !.direct = {}]

(* The planner is called unless the plan was approved before; when its      *)
(* answer is of no use the whole goal becomes one subtask.                  *)
Plan ==
  /\ pc = "plan"
  /\ \/ plan.approved /\ UNCHANGED <<plan, used, real>>
     \/ /\ ~ plan.approved
        /\ \/ \E tokens \in 1 .. CallTokens :
                Admitted(tokens) /\ Charge(Cost(1, tokens)) /\ plan' \in {plan, Simple}
           \/ plan' = Simple /\ UNCHANGED <<used, real>>
  /\ pc' = "planned"
  /\ UNCHANGED <<status, batch, worker, parent, saved>>

(* A model the user insists on is not available: nothing replaces it.       *)
PlanFails ==
  /\ pc = "plan" /\ ~ plan.approved
  /\ Give
  /\ UNCHANGED <<plan, status, batch, worker, used, real>>

Rejected ==
  \/ plan.nodes = {}
  \/ 2 * StepsEach * Cardinality(plan.nodes) > 3 * MaxSteps
  \/ ~ Valid

Reject ==
  /\ pc = "planned" /\ Rejected
  /\ Give
  /\ UNCHANGED <<plan, status, batch, worker, used, real>>

Accept ==
  /\ pc = "planned" /\ ~ Rejected
  /\ pc' = "loop" /\ saved' = "running"
  /\ UNCHANGED <<plan, status, batch, worker, used, real, parent>>

Skipping(nodes) == status' = [n \in Nodes |-> IF n \in nodes THEN "skipped" ELSE status[n]]

(* The deadline of the task has passed.                                     *)
Deadline ==
  /\ pc = "loop" /\ ~ AllEnded
  /\ Skipping(Is("pending") \cup Is("running"))
  /\ pc' = "report"
  /\ UNCHANGED <<plan, batch, worker, used, real, parent, saved>>

Spent == used.steps >= MaxSteps \/ used.tokens >= MaxTokens

Exhausted ==
  /\ pc = "loop" /\ ~ AllEnded /\ Spent
  /\ Skipping(Is("pending"))
  /\ pc' = "report"
  /\ UNCHANGED <<plan, batch, worker, used, real, parent, saved>>

(* An unknown dependency raises in get_ready.                               *)
Raise ==
  /\ pc = "loop" /\ ~ AllEnded /\ ~ Spent /\ LookupFails
  /\ Give
  /\ UNCHANGED <<plan, status, batch, worker, used, real>>

(* Everything has ended, or nothing is ready.                               *)
LeaveLoop ==
  /\ pc = "loop"
  /\ AllEnded \/ (~ Spent /\ ~ LookupFails /\ Ready = {})
  /\ pc' = "report"
  /\ UNCHANGED <<plan, status, batch, worker, used, real, parent, saved>>

First(ready) == {n \in ready : Cardinality({m \in ready : m < n}) < Parallel}
Pending == Cardinality(Is("pending") \ plan.direct)
ShareNow == Share(IF Pending > 0 THEN Pending ELSE Cardinality(First(Ready)))
Scheduling == pc = "loop" /\ ~ Spent /\ ~ LookupFails /\ Ready # {}

(* What is left is only enough for the report.                              *)
TooLittle ==
  /\ Scheduling /\ (ShareNow.steps < 1 \/ ShareNow.tokens < 1)
  /\ Skipping(Is("pending"))
  /\ pc' = "report"
  /\ UNCHANGED <<plan, batch, worker, used, real, parent, saved>>

Dispatch ==
  /\ Scheduling /\ ShareNow.steps >= 1 /\ ShareNow.tokens >= 1
  /\ batch' = First(Ready)
  /\ status' = [n \in Nodes |-> IF n \in batch' THEN "running" ELSE status[n]]
  /\ worker' = [n \in Nodes |-> IF n \in batch'
                                THEN [NoWorker EXCEPT !.pc = "queued", !.share = ShareNow,
                                                      !.backups = Fallbacks]
                                ELSE worker[n]]
  /\ pc' = "wait" /\ saved' = "running"
  /\ UNCHANGED <<plan, used, real, parent>>

Finished == {n \in batch : worker[n].pc \in {"done", "failed"}}

CollectAll ==
  /\ pc = "wait" /\ Finished = batch
  /\ LET failed == {n \in batch : worker[n].pc # "done"}
     IN  status' = [n \in Nodes |->
            IF n \in failed THEN "failed" ELSE IF n \in batch THEN "done"
            ELSE IF n \in Downstream(failed) THEN "skipped" ELSE status[n]]
  /\ UNCHANGED used
  /\ batch' = {} /\ pc' = "loop"
  /\ UNCHANGED <<plan, worker, real, parent, saved>>

(* All results are there, or the time for them is over.  A subtask without  *)
(* a result has failed, and what it is known to have spent is charged,      *)
(* though each of its calls was.  What needs a failed subtask is skipped.   *)
Collect ==
  /\ pc = "wait"
  /\ LET late == batch \ Finished
         failed == late \cup {n \in batch : worker[n].pc = "failed"}
     IN  /\ status' = [n \in Nodes |->
               IF n \in failed THEN "failed" ELSE IF n \in batch THEN "done"
               ELSE IF n \in Downstream(failed) THEN "skipped" ELSE status[n]]
         /\ used' = Plus(used, Cost(Total([n \in Nodes |-> worker[n].spent.steps], late),
                                    Total([n \in Nodes |-> worker[n].spent.tokens], late)))
  /\ batch' = {} /\ pc' = "loop" /\ saved' = "running"
  /\ UNCHANGED <<plan, worker, real, parent>>

(* The report: with everything done and a step left a model writes it,      *)
(* otherwise it is put together; then the parent execution ends.            *)
Report ==
  /\ pc = "report"
  /\ \/ /\ AllDone
        /\ \E tokens \in 1 .. CallTokens : Admitted(tokens) /\ Charge(Cost(1, tokens))
     \/ UNCHANGED <<used, real>>
  /\ parent' = IF AllDone THEN "succeeded" ELSE "failed"
  /\ saved' = IF ~ AllEnded THEN "running" ELSE IF plan.approved THEN "done" ELSE "delivering"
  /\ pc' = "deliver"
  /\ UNCHANGED <<plan, status, batch, worker>>

Verdict == IF AllDone THEN "succeeded" ELSE IF Is("done") # {} THEN "partial" ELSE "failed"

(* The report is delivered, and the verdict saved; an approved plan has its *)
(* verdict with its specification.                                          *)
Deliver ==
  /\ pc = "deliver"
  /\ pc' = "end" /\ saved' = IF plan.approved THEN saved ELSE Verdict
  /\ UNCHANGED <<plan, status, batch, worker, used, real, parent>>

Main == \/ Plan \/ PlanFails \/ Reject \/ Accept \/ Deadline \/ Exhausted \/ Raise
        \/ LeaveLoop \/ TooLittle \/ Dispatch \/ Collect \/ Report \/ Deliver

-------------------------------------------------------------------------------
(* A worker of subtask n, on a thread of the executor: _run_single_subtask. *)

Set(n, w) == worker' = [worker EXCEPT ![n] = w]
Alone == UNCHANGED <<plan, pc, status, batch, parent, saved>>
Busy == {n \in Nodes : worker[n].pc \in {"run", "call"}}

Start(n) ==
  /\ worker[n].pc = "queued" /\ Cardinality(Busy) < Threads
  /\ Set(n, [worker[n] EXCEPT !.pc = "run"])
  /\ Alone /\ UNCHANGED <<used, real>>

(* A planned tool needs no model.                                           *)
RunTool(n) ==
  /\ worker[n].pc = "run" /\ n \in plan.direct
  /\ \E result \in {"done", "failed"} : Set(n, [worker[n] EXCEPT !.pc = result])
  /\ Alone /\ UNCHANGED <<used, real>>

HasLeft(w) == w.spent.steps < w.share.steps /\ w.spent.tokens < w.share.tokens

(* A step begins: its call is admitted, or the subtask fails.               *)
Call(n) ==
  /\ worker[n].pc = "run" /\ n \notin plan.direct /\ HasLeft(worker[n])
  /\ LET w == [worker[n] EXCEPT !.spent.steps = @ + 1]
     IN  \E tokens \in 1 .. CallTokens :
           /\ w.spent.tokens + tokens <= w.share.tokens
           /\ Set(n, IF Admitted(tokens) THEN [w EXCEPT !.pc = "call", !.asked = tokens]
                     ELSE [w EXCEPT !.pc = "failed"])
  /\ Alone /\ UNCHANGED <<used, real>>

(* The share is used up, or the next request does not fit into it.          *)
Stopped(n) ==
  /\ worker[n].pc = "run" /\ n \notin plan.direct
  /\ Set(n, [worker[n] EXCEPT !.pc = "failed"])
  /\ Alone /\ UNCHANGED <<used, real>>

(* The model answers; the call is charged with what it reports.  The worker *)
(* concludes, or runs the tools asked for and goes on, or was in a loop.    *)
Return(n) ==
  /\ worker[n].pc = "call"
  /\ \E tokens \in 1 .. worker[n].asked :
       /\ Charge(Cost(1, tokens))
       /\ LET w == [worker[n] EXCEPT !.asked = 0, !.spent.tokens = @ + tokens]
          IN  \E next \in {"run", "done", "failed"} :
                /\ next = "run" => w.spent.steps < w.share.steps
                /\ Set(n, [w EXCEPT !.pc = IF w.spent.tokens < w.share.tokens THEN next
                                           ELSE "failed"])
  /\ Alone

(* The model fails, having cost what was reserved, or is not available; the *)
(* next one takes over with what is left.                                   *)
ModelFails(n) ==
  /\ n \notin plan.direct
  /\ \/ worker[n].pc = "run" /\ UNCHANGED <<used, real>>
     \/ worker[n].pc = "call" /\ Charge(Cost(1, worker[n].asked))
  /\ LET w == [worker[n] EXCEPT !.asked = 0]
     IN  Set(n, IF w.backups > 0 /\ HasLeft(w)
                THEN [w EXCEPT !.pc = "run", !.backups = @ - 1]
                ELSE [w EXCEPT !.pc = "failed"])
  /\ Alone

(* What a worker reports on its way saves the graph, whoever still waits.   *)
Log(n) ==
  /\ n \in Busy
  /\ saved' = IF ~ AllEnded THEN "running"
              ELSE IF pc \notin {"deliver", "end"} THEN "summarizing"
              ELSE IF pc = "deliver" /\ ~ plan.approved THEN "delivering" ELSE "done"
  /\ UNCHANGED <<plan, pc, status, batch, worker, used, real, parent>>

Work(n) == \/ Start(n) \/ RunTool(n) \/ Call(n) \/ Stopped(n) \/ Return(n) \/ ModelFails(n)
           \/ Log(n)

Next == Main \/ \E n \in Nodes : Work(n)

Spec == Init /\ [][Next]_vars
(* The thread of the task waits with a timeout; nothing is asked of workers. *)
FairSpec == Spec /\ WF_vars(Main)

-------------------------------------------------------------------------------
(* What a task must guarantee.                                              *)

Costs == [steps : Nat, tokens : Nat]
WorkerPcs == {"none", "queued", "run", "call", "done", "failed"}
Workers == [pc : WorkerPcs, share : Costs, spent : Costs, asked : 0 .. CallTokens,
            backups : 0 .. Fallbacks]
Statuses == {"pending", "running", "done", "failed", "skipped"}

(* Every variable keeps its shape, and a thread never runs without a place  *)
(* in the executor (ThreadPoolExecutor, max_workers).                       *)
TypeOK ==
  /\ plan \in PlanSet /\ used \in Costs /\ real \in Costs
  /\ pc \in {"plan", "planned", "loop", "wait", "report", "deliver", "end"}
  /\ status \in [Nodes -> Statuses] /\ batch \subseteq Nodes
  /\ worker \in [Nodes -> Workers] /\ Cardinality(Busy) <= Threads
  /\ parent \in {"running", "succeeded", "failed"}
  /\ saved \in {"planning", "running", "summarizing", "delivering", "done",
                "succeeded", "partial", "failed"}

(* A subtask is given to a worker only when everything it needs, at any     *)
(* remove, is done: although get_ready takes a skipped dependency for a     *)
(* satisfied one, no failure, budget or deadline lets work start on top of  *)
(* what is missing.  And when the report is written nothing is pending or   *)
(* running: the loop never stops on subtasks that wait for one another.     *)
NeedsDone ==
  /\ \A n \in plan.nodes : worker[n].pc # "none" => Needs(n) \subseteq Is("done")
  /\ pc \in {"report", "deliver"} => AllEnded

(* Calls of models under way and past never exceed the budget of the task,  *)
(* with workers in parallel, and those nobody waits for any more; and when  *)
(* every subtask has been done by workers, a step is left for the report    *)
(* (worker_share, reserve_steps): no split, fallback or direct tool eats it. *)
BudgetHolds ==
  /\ real.steps + Held.steps <= MaxSteps
  /\ real.tokens + Held.tokens <= MaxTokens
  /\ pc = "report" /\ AllDone => used.steps < MaxSteps

(* The parent execution succeeds only when each subtask of the plan was     *)
(* finished by its own worker, and the verdict saved for the user says so.  *)
SuccessEarned ==
  /\ parent = "succeeded" => \A n \in plan.nodes : worker[n].pc = "done"
  /\ saved = "succeeded" => parent = "succeeded"

(* What was started, reported and saved is earned by what was done before.  *)
OutcomeEarned == NeedsDone /\ SuccessEarned

(* A task ends even when its workers never return: the wait has a timeout.  *)
TaskEnds == <>(pc = "end")

(* ExecutionBudget: "Accumulate real usage": with no call under way, what   *)
(* is charged is what was used.                                             *)
ChargedOnce == Calling = {} => used = real

===============================================================================
