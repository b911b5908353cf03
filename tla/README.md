# lite_agent: models, checks and proofs

TLA+ modules of the parts of lite_agent where threads, processes, requests and people meet.
TLC checks each of them on small instances; TLAPS proves the safety properties that matter
most for every size. `PROJECT.json` holds the same facts in a form for machines: which
definition models which lines, which run checks which property, which change of the code
each property would notice.

Paths are relative to `src/lite_agent/` unless they start with `src/`.

## Contents

| module | models | run by | proofs |
|---|---|---|---|
| `CronService` | `services/cron.py`: registry, loop, pool, manual runs, start, stop | `Cron.cfg` | `CronServiceProofs` |
| `PhoneContracts` | `features/phone_app/contracts.py`: the tables of statuses | | |
| `PhoneBatch` | `features/phone_app/service.py`, `repository.py`: a batch from the request to its verdict | `Phone*.cfg` | `PhoneBatchProofs` |
| `PhoneReview` | the same: scripts, approvals, consumption | `MCParts` | `PartsProofs` |
| `LeaseContract` | what the hub promises about a lease | | |
| `WorkerHub` | `features/phone_app/worker_hub.py` with `integrations/phone_app/worker/run_worker.py` | `MCWorkerHub` | `WorkerHubProofs` |
| `StepBudget` | `core/adaptive_budget.py`: the steps a turn may take | | |
| `AgentTurn` | `agent.py`, `core/agent_runtime.py`, `core/loop_detector.py`, `session.py`: turns of a conversation | `MCAgentTurn` | `AgentTurnProofs` |
| `ExecutionLedger` | `core/execution_ledger.py`, `core/runtime_recorder.py` | `MCParts` | `PartsProofs` |
| `TaskOrchestrator` | `core/task_orchestrator.py`, `subtask_dag.py`, `worker_agent.py`, `execution_budget.py`, `llm_gateway.py` | `MCTaskOrchestrator` | `TaskOrchestratorProofs` |
| `PlanRouting` | `core/task_spec.py` (preflight), `core/model_policy.py` | `MCParts` | |
| `TaskSpecs` | `core/task_spec.py` (store), `core/task_spec_service.py`, `channels/api.py` (schedule, runs) | `Services` | `ServicesProofs` |
| `EdgeTasks` | `core/edge_db.py`, `features/network_ops/edge_service.py`, `edge_adapter.py`, `src/edge_node/edge_sentinel.py` | `MCEdgeTasks` | `PartsProofs` |
| `MeetingStates`, `ReviewRoom` | `features/review_meeting`: what a meeting goes through; rounds, seats, verdicts | `MCReviewRoom` | `ReviewRoomProofs` |
| `MeetingOutbox` | `features/review_meeting/notifications.py` | `MCParts` | `PartsProofs` |
| `TodoItem` | `features/todo`, `features/billing/quality_todo.py`: a row, its receipts and its reminder | `TodoItem.cfg` | `CronServiceProofs` |
| `SafeConnection` | `core/sqlite_utils.py` | `MCParts` | `PartsProofs` |
| `OutputDelivery` | `core/output_delivery.py` | `MCParts` | `PartsProofs` |
| `PluginLifecycle` | `app/`, `cli.py` | `MCParts` | `PartsProofs` |
| `MemoryDistill` | `memory_engine/` | `MCParts` | `PartsProofs` |
| `AgentDoor` | `agent.py`, `channels/api.py`, `session.py`: messages of one user through the lock of their conversation; tasks, their row and stream | `Services` | `ServicesProofs` |
| `SessionStore` | `session.py`: the cache of conversations over its tables, goals | `Services` | `ServicesProofs` |
| `UserSessions` | `services/user_session.py` and the mobile client that keeps the tokens | `Services` | `ServicesProofs` |
| `FailoverOwners`, `ProxySwitch` | `features/network_ops/socks5_service.py`: who keeps the worker alive; the node in use | `Services` | `ServicesProofs` |
| `Backups` | `features/sys_ops/backup_service.py` | `Services` | `ServicesProofs` |
| `DriftWatch` | `features/sys_ops/security_service.py` | `Services` | `ServicesProofs` |
| `WebClips` | `features/content_ops/content_service.py`, `core/utils/hedgedoc.py` | `Services` | `ServicesProofs` |
| `SearchSync` | `features/content_ops/meili_sync_service.py` | `Services` | `ServicesProofs` |
| `RssDigest` | `features/content_ops/rss_service.py` | `Services` | `ServicesProofs` |

To check one instance: `tlc -config PhoneOneBatch.cfg PhoneBatch`. To check proofs:
`tlapm PhoneBatchProofs.tla`.

## Inventory of the system

lite_agent is one server process (about 42 000 lines of Python, threads, SQLite files),
daemons beside phones, agents on edge nodes, a web dashboard and an Android client.

| component | state it keeps | operations | what makes it correct | modelled |
|---|---|---|---|---|
| timed jobs `services/cron.py` | registry of jobs, in-flight table, loop thread, executor, generation | add, remove, toggle, run by hand, start, stop | a job runs once at a time, a slot is claimed once, stop means stopped | yes |
| phone batches `features/phone_app/service.py`, `repository.py` | tables of batches, tasks, devices; a lock per phone; a thread per batch | create, execute, cancel, resume, recover | a task is dispatched once, the verdict tells the truth, a phone that may be in an unknown state gets nothing more | yes |
| phone scripts, review, approval `approval.py` | drafts with revisions, approvals with a hash | generate, edit, approve, consume | what runs is what was approved, once | yes |
| worker hub `worker_hub.py` | sessions, queue of leases, leases held, events of dispatchers | handshake, heartbeat, poll, receipt, dispatch, cancel, close | a lease is handed out once and accounted for until it ends | yes |
| phone daemon `run_worker.py` | session, lease in work, stop event | join, beat, poll, execute, submit | it hears a cancellation; it reports what it did | yes |
| phone drivers, adapters, scripts | the screen of a phone | interpret a script | | as input of the hub |
| agent `agent.py`, `core/agent_runtime.py`, `loop_detector.py`, `adaptive_budget.py` | locks per session, counters, lease of steps | a turn of a conversation with tools | one turn at a time; loops are cut; the turn ends with one verdict | a turn |
| execution ledger `core/execution_ledger.py`, `runtime_recorder.py` | executions, events with sequence numbers, a buffer of deltas | start, record, flush, finish, recover | one-way statuses; events once and in order | yes |
| orchestration `core/task_orchestrator.py`, `subtask_dag.py`, `worker_agent.py`, `execution_budget.py`, `llm_gateway.py` | a graph of subtasks, a budget shared by threads | plan, run, aggregate | dependents wait, or are skipped; the budget holds; it ends | yes |
| task specifications `core/task_spec*.py`, `channels/api.py` | rows with revision, digests, schedule; tasks that run | edit, enrich, review, confirm, acknowledge, schedule, run | what is approved was validated; one run at a time | yes |
| models: choice `core/model_policy.py` | rules, policies, roles | route a node, fall back | only agreed models work | yes |
| edge nodes `core/edge_db.py`, `features/network_ops`, `src/edge_node` | queue of commands, nonces on the node | create, pull, report, retransmit | a command runs once; done means it ended well | tasks |
| proxies of the network `features/network_ops/socks5_service.py` | table of nodes, flag of the active one, a worker with owners | edit, switch, probe, fail over, hold and release the worker | the flag is what the host runs; one worker, while somebody holds it | yes |
| sessions `session.py` | a cache over a database; messages | get, add, archive, deduplicate | a history a model accepts; what was said comes back; a message goes to the conversation of its user | in `AgentTurn`, `SessionStore`, `AgentDoor` |
| todos `features/todo` | todos, receipts of sources, claims of reminders | upsert, resolve, tick, notify | newer wins, people win, one reminder | a row |
| review meetings `features/review_meeting` | hash chain of events, rounds, outbox | speak, waive, approve, decide, deliver | rounds in order, no notice lost | yes |
| delivery of outputs `core/output_delivery.py` | receipts of deliveries | deliver, fall back | the reply says where the text is | yes |
| application `app/` | resources, plugins | register, roll back, shut down | released in reverse order, once | yes |
| SQLite wrapper `core/sqlite_utils.py` | a lock per connection held over a transaction | execute, commit, close | the lock is released by its owner | yes |
| memory engine `memory_engine/` | messages, cache, profile | ingest, distil, confirm | what was confirmed stays | yes |
| users' sessions `services/user_session.py` | access and refresh tokens | sign in, refresh, revoke | rotation detects reuse | yes |
| models: calls, skills, commands, routes | registries and configuration | look up, call | | no: functions of data |
| content `features/content_ops` | notes and their cache, marks of the search index, files of the digest | clip, index, digest | a link is private, the index follows, an article is told once | three services |
| operations of the host `features/sys_ops` | archives, a status file, baselines | back up, upload, scan | what is called saved is there; a change is told | backups, drift |
| billing, mail, channels, command line | files, remote servers | fetch, format, send | | no: input and output |
| web dashboard, Android client, scripts, tests | | | | no: outside the process |

How they interact: channels and the HTTP server hand messages to the agent, which calls
skills, which call the features. A turn that asks for a task goes to the orchestrator, whose
workers use the same runtime and tools under a common budget; a task specification is such a
task, written and approved beforehand and started by a person or by cron. Every event of a
run passes the recorder, which writes it to the ledger, before the agent sees it. Cron runs
jobs of the features (briefs, audits, reminders, the sweep of edge tasks, due
specifications). For phones: the routes call `PhoneAppService`; its executor threads call
`WorkerHub.dispatch_task_sync`, which blocks on an event; daemons call the hub over HTTP
(handshake, heartbeat, poll, receipt); a receipt sets the event. Cancelling goes the other
way: the service asks the hub, the hub flags the lease, the daemon learns of it with its
next heartbeat. Edge nodes pull their tasks over HTTP and post results; meetings and todos
leave notices for channels in tables of their own, which notifiers and ticks claim.

Hard behaviours:

1. Statuses that are read in one transaction and written in another (`phone_app`,
   `task_spec_service`, `review_meeting`, `todo`), with people and threads in between.
2. Requests and answers that are lost, doubled or late: the daemons of phones, the nodes of
   the edge, the senders of notices; both sides time out.
3. Threads that are no longer waited for and go on: cron's pools after a stop, workers of a
   task after its time-out, executors of a batch after a cancellation.
4. Generators that are suspended at a yield and may be closed there: a turn of the agent.
5. Restarts: batches, leases, notices and specifications in progress must come to an end.
6. Budgets shared by threads and numbers that are at their limit: steps, tokens, attempts.

## What the modules say

### CronService

A step is what one thread does while it holds `_lock`. Loop threads and executors carry
the number of the `start` that made them (`_generation`), so several generations can be
alive together.

| state | code |
|---|---|
| `registered`, `name`, `due`, `enabled`, `last`, `isRunning` | `_jobs` and the fields of `CronJob` (`due` is the set of minutes its expression selects) |
| `running`, `stopping`, `stopInProgress`, `generation`, `executor` | the fields of `CronService` |
| `loop`, `batch`, `queue`, `shut` | loop threads, the jobs one pass has claimed, the queue of an executor, executors that were shut |
| `pc`, `job` | pool threads and callers of `run_job_manually` |
| `inflight`, `stop` | `_inflight`; the one call of `stop` that `_stop_lock` admits |
| `drained` | history: a `stop(wait=True, timeout=None)` has returned |

`LoopGather` reads the clock as any minute, so it may jump back. The finally block of a
run is two critical sections, `Finish` (in-flight entry) and `Release` (`is_running`).
`Reregister` says whether `AddJob` may reuse a name while a run of its last job is pending.

### PhoneBatch

A step is one transaction of SQLite or one critical section of the hub or of the phone's
lock. `update_batch_status`, `start_task_attempt` and `save_task_receipt` read outside a
transaction and write in another: each is two actions (`ToRunning`/`SetRunning`,
`Attempt`/`SetAttempt`, `Save`/`SetTask`, `Finish`/`SetFinal`), with the others in between.
`claim_batch_for_execution_atomic`, `cancel_batch_atomic` and
`finalize_cancellation_atomic` run under BEGIN IMMEDIATE: one action each. `pc[b]` is the
line the executor thread of batch `b` is at; `at`, `good`, `bad`, `receipt`, `final` are its
local variables. The hub is seen through one lease per batch (`lease`) and a number of
leases nobody waits for (`orphans`): `WorkerHub` has the details. `Restart` clears
everything in memory and runs the recovery of `_init_db`.

The phone is resumed in three ways, chosen by `ResumeBy`: `route`, the request the server
serves; `service`, `resume_device` with nothing between its check and its write; `split`,
the same as the two steps it really is.

### PhoneReview

What `PhoneBatch` takes for granted, for a batch of mode custom_ai: drafts are written
(`update_draft_atomic`, two steps), approved (`approve_batch`: the script is read, the
approval saved, the status set: three steps), and executed (`claim`, `consume_approval_atomic`,
hand-out). The hash of an approval is the pair of its script and its expiry. `overlap` says
whether the requests of writers and reviewers meet; without it they come one after another,
which is what one person at one dashboard does. An execution is a caller of its own, so it can be
claimed between the two steps of an edit; `overtaken` records that it was. `ran`, `reviewed`,
`claims` and `overtaken` are history.

### WorkerHub and LeaseContract

`WorkerHub` holds the hub, the dispatchers and both threads of every daemon. `turn` is the
place of a lease in `_pending_leases`, `holder` is `_active_leases`, `done` the events, `poll`
and `zombie` the handlers of polls with and without a listener. A session is only known as
none, current or old. Handshakes are two steps, because the other thread of the daemon may
shake hands between the request and the answer. `Lossy` names the requests that may be
lost: the hub has then either acted or not, and the daemon goes on as its code does.

`LeaseContract` is the specification of a lease: offered once, given to at most one worker,
settled by that worker or ended with the hub, never given once withdrawn, its caller
answered once. `WorkerHub` implements it under
`place <- Place, caller <- Caller` (property `Contract`).

### AgentTurn and StepBudget

`StepBudget` is the controller of steps as a value: `decide` before each call of the model,
`record` after each tool. `AgentTurn` is one session. `turn` holds the local state of the
nested generators `_stream_ai_loop`, `run`, `record`; an event is recorded (`ledger`) before
the agent handles it (`usage`, `messages`), and at every yield to the client the turn may be
left, which closes the generators from the outside in. Messages keep their kind and the ids
of tool calls, which is what `get_history` and `compact_messages` look at when they cut a
history (`Windows`, `Compacted`); the limits of bytes may cut anywhere. Calls of tools have
a spelling and a canonical form (`Key`), which the loop detector and the caches compare.
`turn.ran` is the log of the calls of this turn that were answered, by the tool or from the
cache: both pass the loop detector.

### TaskOrchestrator

One task: the plan of the model becomes a graph (`Valid`), `Ready` nodes go to a pool in
batches, `Worker` steps reserve and charge steps and tokens under the lock of the budget,
time-outs end a batch without stopping its workers, failures skip what depends on them, the
report is made with what the budget keeps back, and `_run_orchestrated` saves the verdict
in a row of its own. A worker that nobody waits for goes on; what it still changes is the
shared budget, its row and its subtask.

### PlanRouting

From a specification with its policy of models (`preferred`, `locked`, `allowed`, a model for
each node) through the checks of `deterministic_preflight`, `to_model_policy` and
`resolve_model_route` to the models that worked on each node (`ran`), the fall-backs included.

### TaskSpecs

One row and the requests over it, each in the two or three steps it takes: it reads the row,
works (often with a model) on its copy, and saves the whole of it with `save`. `Copies` is
what a save writes back. Runs (`start_task_spec_run`) read the row twice; `running` is the
set `_running_task_specs`. `Restart` is `interrupt_running`.

### EdgeTasks

The table of the hub, the processes of `edge_sentinel` that cron starts (two may overlap), and
the sweep. Deliveries and results may be lost, and a result may arrive twice or late. `nonces`
is the file of the node, `signed` the key a task carries.

### MeetingStates, ReviewRoom, MeetingOutbox

`MeetingStates` is the course of a meeting as its users know it: in progress, asking, revising,
decided, closed. `ReviewRoom` is the meeting: people and seats, what each has said or been
excused from in each round, the version a decision was read at, and the owner's order, which
a channel may deliver late or twice. Its events are one transaction each (`append_event` under
BEGIN IMMEDIATE); what `decide` checks before is read outside of it. It implements
`MeetingStates` (property `Course`). `MeetingOutbox` is the table of notices of one meeting
with notifiers that claim, send through several channels, and confirm.

### TodoItem

One row of a source (`upsert_from_event`, `resolve`), two consumers that drain the events of
billing and may stop before they acknowledge, the person (done, snooze, shelve, delete), and
two ticks: find what is due, claim it, alert, confirm or release.

### The smaller machines

`MCParts` and `Services` each explore several machines that share nothing, one at a time: the
first state says which. Seven of the eight parts are extended by `MCParts`, whose properties are
therefore the very definitions the theorems of `PartsProofs` are about; the eighth, `PlanRouting`,
and the machines of the services are instances. The ten machines of the services have the variables `a1` to `a18` in
turn (a machine that needs fewer leaves the rest at 0), so that one run, with one set of
variables, explores them all; `Services` maps each slot to the variable of the machine.

* `SafeConnection`: every operation takes the re-entrant lock and keeps it as long as
  `in_transaction` says; `owner`, `count`, `held`, `depth` are the fields of the wrapper.
* `OutputDelivery`: one text, its rendering for a channel, the destinations in the order of
  `fallback_order`, the record a task's result keeps.
* `ExecutionLedger`: the recorder's buffer of deltas, its flush before other events, and what
  a transaction projects on the rows; any write may fail.
* `PluginLifecycle`: load in the order of dependencies, roll back, serve, shut down, with
  Ctrl+C at any moment.
* `MemoryDistill`: messages to cache, profile and marks, with the person's confirmation between
  the reading and the writing of the profile.
* `AgentDoor`: messages of one user find the active conversation, wait for its lock, and are
  routed to the loop, to a command or to a task. A task leaves the lock; its row, its push
  and the stream that polls the row are told of its end. Conversations are replaced by
  `/new` while messages wait.
* `SessionStore`: cache, rows, messages, archived goals. Any write may be given up after three
  refusals, and the process may stop between two methods.
* `UserSessions`: pairs of tokens, their rotation in two steps (read, then replace), a client
  that refreshes under a mutex, and answers that are lost.
* `FailoverOwners`: generations of the worker's thread, handles that own it, stops that wait or
  give up waiting.
* `ProxySwitch`: rows of the table, the node the host runs, a switch by hand or by the worker,
  answers of the helper that never come.
* `Backups`: archives, their upload by a process of its own, the status file both write.
* `DriftWatch`: scans that overlap over two files read at the start and replaced at the end.
* `WebClips`: calls that clip one page: cache, note, rights of the note, each request refused
  or unanswered.
* `SearchSync`: runs over mails or articles, a mark moved with every batch taken.
* `RssDigest`: two files without a lock, jobs and the command side by side.

## Runs

| run | instance | question | states |
|---|---|---|---|
| `cron` | 1 name, 2 job objects, 2 minutes, 2 pool threads, 1 caller, 2 starts, with fairness | mutual exclusion, full stop, stop returns | 238 000 |
| `phone_one_batch` | 1 batch of 3 tasks, 2 concurrent requests, 1 restart, resumption by route and split | handed out once, verdicts true and final | 135 000 |
| `phone_two_batches` | 2 batches of 1 task, 1 restart, resumption by service, with fairness | serial on a phone, threads end | 236 000 |
| `hub_leases` | 2 daemons on a phone, 2 leases, handshakes, polls and receipts may be lost | the contract, the books | 406 000 |
| `hub_stop` | 1 daemon, 1 lease, polls and receipts lost, 1 late heartbeat, 1 crash, with fairness | executed once, cancellation heard | 115 000 |
| `agent_turn` | 2 turns of 3 steps, 2 calls of tools in an answer, adaptive or not, with fairness | one verdict, a sound history, no repetition, it ends | 505 000 |
| `task_orchestrator` | plans of 3 nodes (chain, fork, join, circle, unknown dependency), 5 steps, 7 tokens, 2 threads, with fairness | dependencies, budget, verdict, it ends | 526 000 |
| `edge_tasks` | a hot and a root task, 2 processes, 1 sweep, 1 retransmission, 2 attempts to send, with fairness | executed once, done is earned, it settles | 259 000 |
| `review_room` | 2 people, 1 seat, 3 rounds, 1 order | what is asked is ready, what is decided was seen, the course | 1 930 000 |
| `todo_item` | 2 consumers, 2 ticks, 2 kinds, 2 dates, 3 revisions, 1 edit, with fairness | newest wins, reminded once, due is told | 278 000 |
| `services` | a task specification: 2 requests at a time, 2 contents, 1 revision, mode once; and ten machines of services, one at a time | approved is validated, runs are single; see below | 1 495 000 |
| `small_parts` | eight machines, one at a time | see below | 322 000 |

In `small_parts` the first state says which machine is explored; the others stay where they
are, so the state graph is the union of eight. Each is small: one notifier and three attempts
over two channels (`LateByOne`, `NoticeSettles`); one editor, one reviewer and two callers
with two edits (`RunsWhatWasReviewed`); three threads with two nested blocks
(`LockFollowsTransaction`); every policy of delivery rendered twice (`ReportKept`); every policy
over two models on a chain of two nodes, and every graph of three nodes
(`PassedRunsAsAgreed`); three events and one failing write (`LedgerTrue`); every pair of
plug-ins with up to two registrations, and every three with any dependencies
(`ReleasedInOrder`); two facts of two users (`MemoryKept`).

`services` does the same for the specification of a task and ten machines. Their properties are
conjuncts of three: `HostKept` (three owners and two generations of a worker, `HeldIsKept`; two
nodes, two edits and one lost answer, `FlagIsServed`; two backups of two sources with one
failure, `SavedIsThere`; two scans over two changes, `DriftIsTold`), `SessionsKept` (two messages
over three conversations, `DoorKept`; two conversations with two messages and two refused
writes, `MemoryOfUser`; two refreshes over three pairs, `TokensAgree`) and `ContentKept` (two
calls, two versions, two notes, `LinksArePrivate`; two documents, two runs, `IndexFollows`; two
articles over two days, `ArticleOnce`). Other merged properties: `OutcomeEarned` (dependencies,
verdict and report of a task), `LedgerTrue` (statuses, order and completeness of the ledger),
`ResultsEarned` (`OkIsGood`, `DoneIsEarned`, `NoReplay`).

Why these bounds are enough to meet the interesting cases:

* `MaxGen = 2`: a second start is what a leftover of the first can disturb. One name needs two
  job objects for its reuse; two runners of a job (one of the pool, one by hand) compete. Two
  minutes allow an earlier and a later slot.
* `N = 3`: a task behind, at and ahead of the executor; with three, a batch can have a
  success, a failure and a skipped task. Two batches make the lock of the phone matter.
  `MaxCalls = 2` is the smallest number of requests that can race.
* Two leases give the queue an order and two daemons on one phone compete for it. Losses are
  not bounded. `MaxStale` and `MaxCrash` are one: an event after which everything else may
  happen. With both at zero in `hub_leases`, the lost answers alone keep the state space
  at the limit; crashes and late heartbeats are covered by `hub_stop` and by the proofs.
* Two turns: the second is given what the first has left in the history. Three steps are the
  fewest with which the controller is adaptive, and leave one to be refused by the loop
  detector. A history of three messages cannot hold two rounds, so the cuts happen.
* Three nodes: a node that fails, one that needs it, one that does not. Seven tokens at two a
  call: with one kept back, four calls at once are one too many.
* Two requests over a specification are the fewest that overwrite each other; two contents,
  one sound. The mode `once` includes the disabling of the schedule that `repeat` lacks. The
  theorems of `ServicesProofs` hold for any number of revisions.
* Two processes of a node are what cron starts when the first takes more than its minute.
* Three rounds: two until everybody has spoken, one after a revision.
* Three revisions: an older, the present and a newer event. Two ticks compete for a claim.

Deadlock is checked where the system has no end. `CHECK_DEADLOCK FALSE` is given for
`agent_turn`, `task_orchestrator`, `edge_tasks`, `review_room`, `services` and `small_parts`: a turn, a task,
a meeting, a text or a process comes to an end there, which is no error.

### Fairness

* `CronService`: pool threads, the loop and the callers run (`WF` on what they can do), and
  job functions return. Nobody need add, start or stop. Without the last assumption
  `stop(timeout=None)` waits for a job that never ends, as the code says it does.
* `PhoneBatch`: the threads of the server run: executor, claim, second half of a cancel.
  Nothing is assumed of workers, people or restarts; the timeout of the lease (`Expire`)
  is a step of the executor. Weak fairness suffices: a thread in front of the lock waits
  for a thread that is always able to give it back.
* `WorkerHub`: the heartbeat thread of a daemon runs, and a driver that was told to stop
  does, and its receipt is sent. A task nobody stops may run for ever, so nothing else is
  assumed of the main thread.
* `AgentTurn`: the turn goes on (`WF` on its steps): the model and the tools answer or time out,
  which their clients see to. Nobody need leave it, or say anything.
* `TaskOrchestrator`: the thread of the task runs. Workers may hang: the time-out of a batch is
  a step of the task's thread (`concurrent.futures.wait` with a timeout).
* `EdgeTasks`: the sweep is a job of cron (`WF`), and the node's cron starts its sentinel, which
  goes on. Messages may be lost each time: only the sweep ends such a task.
* `MeetingOutbox`: the notifier's thread runs, and the time of a retry comes.
* `TodoItem`: ticks look, and end what they have begun (`WF`); a claim and a confirmed alert
  happen in the end if they are possible again and again (`SF`): cron comes back every minute,
  and a channel that never works can tell nobody anything.

### Where the code departs from its comments

None of these has a run of its own; each can be had by the change of a constant named here, and
TLC then shows the way to it. Definitions that are named and not in a `.cfg` are kept in their
modules for this.

* `Drained` with `MaxGen = 1`, `Callers = {c1, c2}`, `Reregister = TRUE`: `_inflight` is keyed by name
  (`services/cron.py:179`). Remove a job during its run, add one of the same name, run it: the
  first run to finish erases the other's entry and `stop(wait=True)` returns too early, against
  the docstring at `cron.py:244`.
* `CancelledMeansStopped` (`PhoneBatch`, one batch, one task, `ResumeBy = {"service"}`, no restart): a
  second cancellation finds `cancel_requested`, takes the branch for batches that never ran
  (`repository.py:463`), and the batch is `cancelled` while the worker executes.
* `CancelReachesLease` (the same instance): `cancel_batch` cancels leases, then the batch
  (`service.py:479`, `:486`). A lease queued in between is seen by neither half.
* `BlockedFails` (two batches of one task): the executor of a queued batch finds the phone
  paused, asks for `failed` (`service.py:620`), which the table refuses (`contracts.py:68`), and
  fails the tasks: the batch stays `queued` for ever.
* `SerialOnPhone` with `ResumeBy = {"route"}`: the route that resumes a phone does not ask whether
  a worker still holds a lease of it (`routes.py:214`, against
  `src/dev/tests/features/test_phone_app.py:1287`); with `{"split"}`, a task may start between the
  check of the leases and the write.
* `PausedStopsDispatch` with `Malformed = Batches`: filters whose values are refused raise after the
  phone was paused and before the loop is left (`service.py:791`).
* `CancelConfirmed` in `HubStop.cfg` with nothing lost: `execute_task` raises when the phone is not
  ready (`run_worker.py:236`); no receipt is sent and the lease stays with the hub for ever.
* `StopHeard` with `"handshake"` in `Lossy`: the heartbeat thread without a session sends nothing
  until the main thread polls, which is after the task.
* `HistoryAnswered` in `AgentTurn.cfg`: a turn left between two parallel tools leaves a call in the
  history that nothing answers; the cleaning (`session.py:483`) asks only whether the next message
  is a result, against "atomic blocks" (`:439`).
* `ChargedOnce` in `TaskOrchestrator.cfg` with `MaxTokens = 5`: what a subtask has spent when its
  time is over is charged once more (`task_orchestrator.py:579`, `:595`), though each of its calls was
  (`llm_gateway.py:169`), against `execution_budget.py:41`.
* `ExecutesApproved` in `Services.cfg` with `Modes = {"manual"}`: what is executed is read again
  after the check (`channels/api.py:1359`, `:1372`), so an edit in between is executed unapproved.
* `RunsWhatWasReviewed` with `overlap` for all: `approve_batch` approves the script it has read,
  an edit may have written another, and a claim that has found the earlier approval hands out
  the new one. No route passes `expected_revision`.
* `RunsWhatWasReviewed` without `~ overtaken` and with `MaxEdits = 3`: an edit SELECTs the approved
  batch (`repository.py:309`), the batch is claimed, and the edit writes its script and
  `pending_review` over `queued` (`:335`) before the executor reads the batch (`service.py:595`;
  what was claimed, `claimed_batch`, is not used). The executor, with that script in hand, comes to
  its own transition to `running` only after yet another edit was written, approved and claimed, finds
  `queued`, and hands over a script nobody has approved, against "禁止未审核或空脚本执行"
  (`service.py:6`). It was found when the invariant of the proof would not close; the property now
  says what the code does keep.
* `ArchiveHolds` (`OutputDelivery`): a reply says the text is archived here although the archive
  failed; and a task's result that a first rendering could put nowhere is sent again without
  its record knowing (`output_delivery.py:274` against `:336`), so two renderings may send it twice.
* `NoReplay` with two sweepers or `Patient = FALSE`: a task put back while a process of the node
  runs it is given to another, whose check comes before the nonce of the first is recorded.
* `ToolsOnce` is about the calls a turn answered, not about those it ran: a call answered from a
  cache passes the loop detector too, so with cached answers in between a tool may run three
  times with no other run between them, where `loop_detector.py` speaks of repeated calls.

### Reachable in the modules

* `repository.py:247`: a cancellation between the SELECT and the UPDATE of
  `update_batch_status(running)` is overwritten: a cancelled batch runs.
* `service.py:797`: after a cancellation that comes between the last look and the verdict,
  the verdict `failed` overwrites the request; `succeeded` and `partial_failed` are refused
  by the table, and the request stays unconfirmed until another one or a restart ends it.
* `repository.py:601`: `start_task_attempt` overwrites the cancellation of a task likewise.
* A batch that is `queued` when the process stops stays so; it can only be cancelled.
* Both threads of a daemon drop and replace one session; a receipt sent between is refused
  and not sent again (`run_worker.py:242`).
* `poll_task` reads the state of the phone once, before it waits (`worker_hub.py:303`).
* `PhoneReview`: a draft written between the saving of an approval and the status leaves an
  approved batch nobody can execute until it is edited; a late `approved` may overwrite
  `running`. `verify_and_consume_approval` and `update_batch_scripts` are called by nothing.
* `AgentTurn`: the limit of tokens is compared with all the tokens of the session, where the
  comments (`agent.py:1236`, `:1400`) say those of today. `budget_reviewer` is never supplied.
* `TaskOrchestrator`: a worker that ends after its task writes `done` over the saved verdict. An
  unavailable planner raises outside the try.
* `TaskSpecs`: `mark_started` stands outside the try: if it fails the task stays in
  `_running_task_specs` until a restart (`MarkFails`). `mark_finished` is told True whatever the
  report says. A stale save enables a schedule that was disabled.
* `EdgeTasks`: the sweep signs tasks of the tier root with the hot key, and the node refuses
  them; a task that was executed and whose results were all lost ends `failed`; the tasks of a
  dead node that were never handed out stay pending.
* `ReviewRoom`: after a revision and a resumption everybody may be excused, and the voices of
  earlier rounds count. The API's `leave` asks for presence in the present round.
* `MeetingOutbox`: a notifier that stops in the last attempt leaves its row `sending` for ever.
* `TodoItem`: a tick that stops while it alerts loses the reminder; a channel that did deliver
  and says it did not gets it twice. A row somebody deleted comes back with the next event.
* `SafeConnection`: the rows of a cursor are read without the lock; the end of an inner `with`
  commits what the outer block has written.
* `ExecutionLedger`: nothing calls `recover_abandoned`, so executions of a stopped process stay
  `running`; a generator that is closed does not flush the text it has kept back.
* `PluginLifecycle`: the rollback of `load_all` leaves the resource `plugin_resources:<name>`
  behind, which then has nothing to release.
* `MemoryDistill`: a failed row of the cache is never tried again though the comment says so
  (`pipeline.py:205`); products of the rules are distilled again; messages of other people are
  marked without having been read; a server that stops between the marks and the profile loses
  the facts for it. `skills/ops_memory_distiller` is another process over the same files, and the
  lock is in-process.
* `AgentDoor`: `/stop` waits for the lock the running turn holds, so it only ever stops a goal that
  an exception has left behind. The dashboard follows a task under a fixed session, and after
  `/new` never finds it. A late log of a worker writes `done` over the saved verdict; a refined
  title may overwrite one that was given meanwhile; a message that was bound before `/new` is
  answered in the closed conversation. `handle_stream` has no caller.
* `UserSessions` (`raced`): two refreshes of one token that overlap both succeed.
* `FailoverOwners` (`late`): an owner that comes while the last one releases the worker is given
  a worker that is about to stop.
* `ProxySwitch`: an edit of the active row is not applied to the host.
* `Backups`: Halo's database counts as saved although its archive failed to upload or was removed
  before it did; a status written late replaces a newer one; a removed file is skipped and
  counted as a success.
* `SearchSync`: a refused batch that an accepted one follows is never sent again (`skipped`); a mail
  of the second that was read is missed (`tied`); overlapping runs may write an older version
  (`crossed`).
* `RssDigest`: articles are marked as told before they are delivered; the two files are read,
  changed and written without a lock (`overlap`).

## Proofs

Everything is proved for arbitrary constants under the ASSUME of the module, which TLC
evaluates in every run. Each theorem has the form Spec => []P and follows from an inductive
invariant in three steps: Init implies it, a step preserves it (one lemma for each group of
actions, one step for each action), it implies P.

**CronServiceProofs.** `TypeCorrect`; `LoopIsUnique` (`OneLoop`); `MutualExclusion`
(`Exclusive`); and, if no name is reused during a run (`~Reregister`), `InflightIsExact`,
`NoStaleRun` (`RunningCurrent`) and `StopDrains` (`Drained`). `Typed` adds to the types that a
busy thread holds a job. `OneLoop` needs `Flags`, how the flags of the service and the place
of `stop` go together. The last three rest on `NameInv`: jobs a thread can still come to run
have different names (`LiveNames`), hence an entry of the in-flight table belongs to one run,
hence `start` is refused while a stale one executes. `StopDrains` adds `DrainedInv`: from the
moment `stop` has seen the table empty until the next start, nothing can begin.

Its second part is about `TodoItem`, whose ticks are jobs of cron: `TodoTypeCorrect`, and `RowFollows`
(`ItemFollows`) for any number of consumers, ticks, due dates, events and operations of the person.
That the newest event decides is not inductive: an event is applied whatever the row says, late or
twice. `Heard` and `Fetched` say why that does no harm: a consumer has in its hands the oldest event
nobody has acknowledged, and what is acknowledged is recorded, so an event that is applied is either
recorded already or the next one (`NextIsApplied`); no event is skipped, though the table of receipts
would allow it. `Chronicle` says that what follows a solution belongs to a later cycle, by which a
relapse passes the protection of a row that is done (`FollowsEvent`); `Obeyed`, that a row which is not
there and was not deleted has no receipt. For the reminders `Claimed` ties the tick to the row: the
claim that counts is the one the row names, and until its alert is confirmed nobody was told.

**PhoneBatchProofs.** The invariant `Inv` is the types and, for each batch, four parts:
`Walk` (the counters are below the task at hand, so none overflows), `Guarded` (the threads
between recheck and end are exactly the holder of the lock; a running batch is walked),
`Handing` (what lies ahead of the thread has not been handed out; a lease exists only while
its thread waits), `Ready` (the phone stays ready from the check under the lock until the
receipt, since only the holder of the lock pauses it). They give `TypeCorrect`, `OnceOnly`
(`HandedOutOnce`), `Driven` (`RunningIsDriven`), `ReadyThroughout` (`ReadyWhileDispatching`).
`HandedOutOnce` is not inductive by itself: nothing in it says that a thread never comes back
to a task, which is what `Handing` and `Walk` say. A step of one thread leaves the parts of
the other batches alone (`Keeps`). `Serial` (`SerialOnPhone`) holds under `OnlyService`
(`ResumeBy \subseteq {"service"}` and `Malformed = {}`): `Alone` says there is at most one abandoned
lease and that the phone is then paused or about to be, by a thread that holds the lock.
`VerdictEarned` (`VerdictIsEarned`) and `OutcomesKept` (`OutcomeKept`) rest on `Tally`: for each place of the
thread, the local counters of successes and failures are compared with the statuses of the
tasks behind it (`Found`, `Counted` with its cases `Walked` and `Overrun`), and a verdict that was
written was computed from such counters (`Earned`).

**WorkerHubProofs.** `TypeCorrect`; `Books`, for each lease what the queue, the table of
held leases, the event, the dispatcher and the phones know of it agrees (`Entry`), and what a
daemon has in its hands was executed (`Hands`). It gives `Once` (`ExecutedOnce`), `Truth`
(`AnswerIsTrue`), `NoneLost` (`NoLostLease`). `Apart` (`QueueApart`) needs `Turns`: places in the
queue follow the order of arrival. `Implements` is the refinement: every step of the hub, a
daemon or a dispatcher is a step of `LeaseContract` or leaves it unchanged, given `Books`.

**ServicesProofs**, `TaskSpecs`: `TypeCorrect`; `Approved` (`ApprovedIsValidated`): the row that is approved says
what was validated, since a save writes the copy as a whole and each request sets the status
from the copy it writes; `OneRun` (`RunsOneAtATime`): a run holds the mark of
`_running_task_specs` from before its first reading to its end; `UserWins`
(`EnrichGoesForward`): an enrichment that comes back replaces only what it was generated from.

The machines of `Services`: `HostIsKept` (`HostKept`), `ContentIsKept` (`ContentKept`) and
`SessionsAreKept` (`SessionsKept`), under assumptions that only say of what kind the constants are
(`FailoverAssumption` to `DoorAssumption`). Each machine has its inductive invariant in its own
module, checked by TLC before it was proved; a step of `Services` is a step of one of them
(`HostStep`, `ContentStep`, `SessionsStep`).

* `HeldInv` (`FailoverOwners`): the count of the owners is the number of those who hold the
  current worker, unless it was forced to stop; without it nobody knows who is the last to leave.
* `SwitchInv` (`ProxySwitch`): the lock is with the one who calls the helper or marks his node,
  so the host runs that node until it is marked.
* `SavedInv` (`Backups`): whatever speaks of an archive of Halo's database (the status file, a
  backup, an upload that read it before) has one to speak of, here, in the cloud or known to be
  missed; and where a backup waits for its upload, the files of the status file are on their way
  until one of them fails.
* `DriftInv` (`DriftWatch`): no throttle, and none that a scan has read, is later than the last line
  told, so a scan is silent only within the period after one.
* `LinkInv` (`WebClips`): a note is made by one call at a time and its rights are taken away in
  turn, and a link is given or kept only when nobody makes its note any more.
* `FollowInv` (`SearchSync`): a document is settled for a mark that will read it again, and for
  every mark once it is in the index; a run that sends has settled what comes before the rest of
  its batches, which it takes in order of time (`LeastOf`: there is a least one).
* `OnceInv` (`RssDigest`): of the articles of today all that were told are in the file, and known
  to whoever is choosing, but for the digests of callers that overlap.
* `DoorInv` (`AgentDoor`): `LocksAgree`: a lock is that of one conversation, and whoever is inside
  holds the lock of his. `LogsAgree`: the log of a conversation has a request only once it has asked,
  and its question stands at the end until it is answered, so question and answer are next to each
  other. `TasksAgree`: the row and the stream have a verdict only once the task has one, and it is
  that one; whoever polls meanwhile sees what was saved, or a `done` of the worker's log.
* `MemoryInv` (`SessionStore`): the rows have in order all that was said and not refused, and so has
  the cache (`MessagesKept`: an expiry or a restart leaves only the rows, and the next message starts
  from what they hold); the goal of the cache is that of the row unless a write of it
  failed, a goal belongs to one conversation, and it is not in the archive while it does
  (`GoalsAgree`), which is why it is archived once. `MemoryOfUser` compares what is remembered with
  the set of what was said, in the order of its numbers: with a history that is a sequence it was
  true as well, and out of reach of the prover.
* `PairsInv` (`UserSessions`): `OneOfEach` names each family's valid tokens; `Handled` says that a refresh
  whose caller has given up is of a family with a lost answer; `Holds`, that the pair the client
  holds, or is about to be given, can be refreshed, but for what `TokensAgree` excepts.

**AgentTurnProofs.** `TypeCorrect` (`Shape`: the record of a turn, place by place of the nested
generators). `VerdictsAgree` (`VerdictAgrees`): what the ledger, the agent and the client are told
of the end of a turn is the same; `Tale` says at each place what has been recorded and not yet
handled. `ToolsAreNotRepeated` (`ToolsOnce`) is not inductive: it speaks of the log, and the
detector decides by its own window, which forgets. `Logged` ties them together: the window is the
end of the log (`Newest`), so a call that repeats or alternates is refused before it is logged
(`Unlooped`); a query or receipt that was logged is in a cache (`Cachings`), from which it is
answered (`Unrepeated`). The attempt to prove an earlier wording, over the calls that were run,
failed for a good reason, see above.

`NothingIsOrphaned` (`NoOrphans`) speaks of what the model is given and
follows from the order of what is stored, `Orderly`: a result comes in its turn after the message
that asked for it with nothing but earlier results between (`Laid`), and such a message is named by its
turn and step (`Named`), which no other has (`Distinct`, `Asked`). So a window that begins with a
block begins with no result and is a tail of the session (`WindowIsTail`); the cleaning takes the
calls nobody answered at all, and whatever passes it has its first result (`Met`,
`SanitizedIsPresentable`); the validation then finds nothing to drop (`ValidatedIsPresentable`);
and a compacted list keeps a tail that begins with calls (`CompactedIsPresentable`). That this needs `Laid`
of the whole session, and the turn's own list to follow the session result by result
(`Answering`), is why the property is not inductive. What `Met` does not say, that every call is
answered, is what `HistoryAnswered` shows to be false.

**ReviewRoomProofs.** `TypeCorrect`; `AskedOnlyWhenReady` (`AskedIsReady`); `VerdictsOnWhatWasSeen`
(`DecidesWhatWasSeen`); and `MeetingTakesItsCourse`, the refinement of `MeetingStates` (`Course`):
every event is a step of the course or leaves it unchanged. `SoFar`: whoever was invited or spoke
did so in a round that has begun. `RoundsClosed`: a round that was decided is not open again.
`OrdersKnown`: an order nothing has happened since can be applied, and its owner has seen the
meeting as it is; the properties speak of the verdict and not of the order it came from.

**PartsProofs**, `EdgeTasks`: `TypeCorrect`; `DoneWasExecuted` (`OkIsGood`: a result that says ok, wherever it is, is
of a task that ended well); `ResultsAreEarned` (`ResultsEarned`) under `SweepAssumption`: the sweep
waits longer than a node takes (`Patient`) and there is one. The invariant `OneProcess` says that
a task is in the hands of one process of the node, which the table of the hub cannot show by
itself; with two sweeps that overlap, or an impatient one, it is false.

`MeetingOutbox`: `NoticesTypeCorrect`, and `OneLateMessage` (`LateByOne`) under the assumption of one
notifier, which is what the application starts. The inductive invariant is
`MeetingOK /\ NoticesTypeOK /\ Timely`, where `Timely` says what a notifier may have in its hands at
each of its places, given what the meeting has become since.

`PhoneReview`: `OnlyReviewedRuns` (`RunsWhatWasReviewed`). Neither half is inductive. That no approval
is good for two claims needs `UsedOnce`: an approval that can still be consumed was never used
(`Unused`), and of those on their way to a claim each has one of its own. That what runs was reviewed
needs the batch before it was ever claimed (`Before`: what is approved is reviewed as it is, and a
reviewer in the middle of an approval has read what is there) and after (`After`: nobody writes
or approves it any more); `overlap` and `overtaken` are exactly what breaks the two.

`SafeConnection`: `LockGoesWithTransaction` (`LockFollowsTransaction`). `LockKept` gives the count of the
lock as open blocks plus the open transaction, and says that `held` follows `in_transaction` between
operations. `OutputDelivery`: `ReportsAreKept` (`ReportKept`). `QueueFits` says what may still be tried,
which the property does not mention; `NamesReached`, that record, target and reply name what has the
text; `TaskKept`, that the record counts what was sent. `MemoryDistill`: `MemoryIsKept` (`MemoryKept`).
`ProfileLocked`: who is about to write the profile has read it as it is. `TakenOnce`: a message that was
given to the model stays in the hands of the worker until it is marked or too old to be found.

`ExecutionLedger`: `LedgerTellsTheTruth` (`LedgerTrue`). What the property says of the ledger depends on
what the recorder still holds. `NumberedInOrder`: what is written or kept back is an event that
happened, under its number; the numbers rise, and whatever is kept back comes after everything written. `Totalled` is the account of
tokens, steps and returned calls; `Judged` ties the status of the row to the first terminal event, after
which nothing counts any more (an event that is written later changes no total, since a row that is no
longer `running` is not projected on); `NoneMissing` counts what is written, kept back and on its way
against what happened, as long as no write has failed.

`PluginLifecycle`: `PluginsGiveBack` (`ReleasedInOrder`), for any set of manifests. Why nothing is released
before what depends on it differs for the two ways of giving back. A shutdown goes through the
resources from the end, and there no plug-in is followed by one it needs (`ResourcesInOrder`). A rollback
looks its cleanup up in the resources and goes by the transactions; that it has come to every dependent
already is `InTheirOrder` (plug-ins come after what they need, and `remaining` is where the rollback is)
together with `Recorded` (what a rollback has not come to is what is not released). A shutdown may
interrupt a rollback, and then starts from what `Kept` says: a cleanup that was recorded and not
called is one resource, and only one. `CoreLast` keeps the host's own registries for the end, and
`JobsFirst` says that nothing was called while a job is under way.

**TaskOrchestratorProofs.** `TypeCorrect`; `OutcomesAreEarned` (`OutcomeEarned`); `BudgetIsKept`
(`BudgetHolds`), for any plans, subtasks, threads, fallbacks and any budget.

* `OutcomeEarned` is not inductive: it says of a subtask with a worker that all it needs is done,
  and nothing in it stops a subtask that waits for a failed one from being ready later. `Parts`
  adds `Matched` (who has a worker was given one, when its direct dependencies were done),
  `Hopeful` (while the loop goes on nothing pending depends on what failed or was skipped, which
  is what `mark_downstream_skipped` must reach far enough for) and `Told` (what the ledger and the
  row say, place by place). That no subtask is left when the loop ends without one that is ready
  needs the graph: if none of the pending subtasks were ready, each would depend on another one,
  which needs strictly less, as there is no cycle; of the sets of what they need one is smallest
  (`Acyclic`).
* `BudgetHolds` needs `Frugal`. What is held is compared with what was really taken, never with
  what was charged, since a subtask that is late is charged once more for what its calls have
  already charged.
  The step of the report is a sum: what is used and what every worker of the batch may still
  charge (`Owed`) stays below the limit, from the division in `worker_share` (`ShareLeaves`) to the
  end of the batch (`WorkFrugal`, `CollectFrugal`); the next model of a fallback goes on with what
  its predecessor has left.
* The sums are `MapThenSumSet`, a fold over sets. That they do not depend on the order is shown
  without an induction theorem: a smallest set for which it fails is a contradiction (`MinimalSet`,
  from `WFMin` and the well-founded order of finite sets).

Only model-checked:

* everything with fairness (`StopReturns`, `ExecutorEnds`, `StopHeard`, `TurnEnds`, `TaskEnds`, `TaskSettles`,
  `DueIsTold`, `NoticeSettles`): liveness is out of this prover's reach;
* `PassedRunsAsAgreed` of `PlanRouting`, which is recursive.

## Not modelled

In the modelled components: workers attached directly to the phone service (for tests and local
use), the tables of events, result items and summaries; `list_jobs`, `health_snapshot`, named
handlers and the dates of cron (a set of minutes stands for an expression); version and
capability checks of the hub, the exit of a daemon on a signal; migrations of schemas;
commands, statistics and the composition of prompts of the agent; the texts of reports;
the fleet's metrics on the edge; shared invitations, co-hosts, export of meetings;
repeating reminders, templates, repayments and the daily brief of todos; the retrieval of the
memory engine.

The other components of the inventory are listed in `PROJECT.json` with their reasons.

## Plan

Further modules where state is left: repeating todos, the presence of meetings, skills.
