---------------------------- MODULE CronService ----------------------------
(***************************************************************************)
(* The timed-job service, src/lite_agent/services/cron.py.                 *)
(*                                                                         *)
(* Three kinds of threads meet in it: the scheduling loop (one thread per  *)
(* start), the workers of the ThreadPoolExecutor made by the same start,   *)
(* and the callers of run_job_manually, start, stop, add_job ...  A step   *)
(* of the model is what one thread does while it holds _lock (or, for the  *)
(* few statements outside it, one access to shared state).  The threads    *)
(* and the executor made by the g-th start are identified by g, the value  *)
(* of _generation at that moment.                                          *)
(***************************************************************************)
EXTENDS Naturals, Sequences

CONSTANTS
  Names,       \* job names
  Minutes,     \* minute keys the clock may show: int(timestamp // 60)
  Schedules,   \* sets of minutes a cron expression may select
  MaxJobs,     \* bound: CronJob objects ever created
  MaxGen,      \* bound: successful calls of start
  Workers,     \* the max_workers threads of one executor
  Callers,     \* threads that call run_job_manually
  Reregister   \* may a name be registered again while a run of it is pending

ASSUME CronAssumption ==
  /\ Minutes \subseteq Nat \ {0}
  /\ Schedules \subseteq SUBSET Minutes
  /\ MaxJobs \in Nat /\ MaxGen \in Nat
  /\ Reregister \in BOOLEAN
  /\ Callers \cap ((1 .. MaxGen) \X Workers) = {}

VARIABLES
  nextId, registered, name, due, enabled, last, isRunning,
  running, stopping, stopInProgress, generation, executor,
  loop, batch, queue, shut, pc, job, inflight, stop, drained

registry == <<nextId, registered, name, due, enabled>>
control  == <<running, stopping, stopInProgress, generation, executor>>
pool     == <<batch, queue, shut>>
runs     == <<pc, job, inflight, isRunning>>
vars     == <<registry, last, control, loop, pool, runs, stop, drained>>

JobId  == 1 .. MaxJobs
Gen    == 1 .. MaxGen
Task   == [job : JobId, slot : Minutes]
Pool   == Gen \X Workers
Runner == Callers \cup Pool

Idle == [pc |-> "idle", wait |-> FALSE, timed |-> FALSE, thread |-> 0, exec |-> 0]

TypeOK ==
  /\ nextId \in Nat \ {0}
  /\ registered \subseteq (1 .. (nextId - 1)) \cap JobId
  /\ name \in [JobId -> Names] /\ due \in [JobId -> Schedules]
  /\ enabled \in [JobId -> BOOLEAN] /\ isRunning \in [JobId -> BOOLEAN]
  /\ last \in [JobId -> Minutes \cup {0}]
  /\ running \in BOOLEAN /\ stopping \in BOOLEAN /\ stopInProgress \in BOOLEAN
  /\ generation \in 0 .. MaxGen /\ executor \in 0 .. MaxGen
  /\ loop \in [Gen -> {"off", "ready", "submit"}]
  /\ batch \in [Gen -> SUBSET Task]
  /\ queue \in [Gen -> Seq(Task)]
  /\ shut \subseteq Gen
  /\ pc \in [Runner -> {"idle", "taken", "running", "clearing"}]
  /\ job \in [Runner -> JobId \cup {0}]
  /\ inflight \subseteq Names
  /\ stop \in [pc : {"idle", "join", "shutdown", "pool", "drain", "done"},
               wait : BOOLEAN, timed : BOOLEAN, thread : 0 .. MaxGen, exec : 0 .. MaxGen]
  /\ drained \in BOOLEAN

Init ==
  /\ nextId = 1 /\ registered = {}
  /\ \E n \in Names : name = [j \in JobId |-> n]        \* no job yet:
  /\ \E s \in Schedules : due = [j \in JobId |-> s]    \* AddJob sets them
  /\ enabled = [j \in JobId |-> FALSE] /\ last = [j \in JobId |-> 0]
  /\ isRunning = [j \in JobId |-> FALSE]
  /\ running = FALSE /\ stopping = FALSE /\ stopInProgress = FALSE
  /\ generation = 0 /\ executor = 0
  /\ loop = [g \in Gen |-> "off"]
  /\ batch = [g \in Gen |-> {}] /\ queue = [g \in Gen |-> <<>>] /\ shut = {}
  /\ pc = [r \in Runner |-> "idle"] /\ job = [r \in Runner |-> 0]
  /\ inflight = {} /\ stop = Idle /\ drained = FALSE

-----------------------------------------------------------------------------
(* The registry of jobs.                                                   *)

\* A job object that has not been forgotten by every thread: claimed for a
\* slot, queued, or held by a runner.
Pending(j) ==
  \/ \E g \in Gen : \E t \in batch[g] : t.job = j
  \/ \E g \in Gen : \E i \in DOMAIN queue[g] : queue[g][i].job = j
  \/ \E r \in Runner : job[r] = j

AddJob(n, s, e) ==
  /\ nextId <= MaxJobs
  /\ \A j \in registered : name[j] # n
  /\ Reregister \/ \A j \in JobId : j < nextId /\ name[j] = n => ~Pending(j)
  /\ nextId' = nextId + 1
  /\ registered' = registered \cup {nextId}
  /\ name' = [name EXCEPT ![nextId] = n]
  /\ due' = [due EXCEPT ![nextId] = s]
  /\ enabled' = [enabled EXCEPT ![nextId] = e]
  /\ UNCHANGED <<last, control, loop, pool, runs, stop, drained>>

\* remove_job, remove_job_by_name and clear: the entries go, the CronJob
\* objects stay with whatever thread already holds them.
RemoveJobs(J) ==
  /\ J # {}
  /\ registered' = registered \ J
  /\ UNCHANGED <<nextId, name, due, enabled, last, control, loop, pool, runs, stop, drained>>

ToggleJob(j) ==
  /\ j \in registered
  /\ enabled' = [enabled EXCEPT ![j] = ~enabled[j]]
  /\ UNCHANGED <<nextId, registered, name, due, last, control, loop, pool, runs, stop, drained>>

-----------------------------------------------------------------------------
(* The scheduling loop.                                                    *)

ShouldRun(j, now) == enabled[j] /\ now \in due[j] /\ last[j] < now

\* One pass of the loop while it holds _lock, at whatever minute the clock
\* shows: wall clocks are set back and forth.
LoopGather(g, now) ==
  /\ loop[g] = "ready" /\ running
  /\ LET claimed == {j \in registered : ShouldRun(j, now)} IN
     /\ last' = [j \in JobId |-> IF j \in claimed THEN now ELSE last[j]]
     /\ claimed # {} /\ executor # 0
     /\ batch' = [batch EXCEPT ![g] = {[job |-> j, slot |-> now] : j \in claimed}]
     /\ loop' = [loop EXCEPT ![g] = "submit"]
  /\ UNCHANGED <<registry, control, queue, shut, runs, stop, drained>>

\* executor.submit for the next job of the batch, in registration order; a
\* shut executor raises RuntimeError, which is swallowed with the slot.
LoopSubmit(g) ==
  /\ loop[g] = "submit"
  /\ \E t \in batch[g] :
       /\ \A u \in batch[g] : t.job <= u.job
       /\ batch' = [batch EXCEPT ![g] = @ \ {t}]
       /\ queue' = IF g \in shut THEN queue ELSE [queue EXCEPT ![g] = Append(@, t)]
       /\ loop' = IF batch[g] = {t} THEN [loop EXCEPT ![g] = "ready"] ELSE loop
  /\ UNCHANGED <<registry, last, control, shut, runs, stop, drained>>

LoopExit(g) ==
  /\ loop[g] = "ready" /\ ~running
  /\ loop' = [loop EXCEPT ![g] = "off"]
  /\ UNCHANGED <<registry, last, control, pool, runs, stop, drained>>

-----------------------------------------------------------------------------
(* Executions: by a worker of the pool, or by the caller of                *)
(* run_job_manually.                                                       *)

Take(g, w) ==
  /\ pc[<<g, w>>] = "idle" /\ queue[g] # <<>>
  /\ pc' = [pc EXCEPT ![<<g, w>>] = "taken"]
  /\ job' = [job EXCEPT ![<<g, w>>] = Head(queue[g]).job]
  /\ queue' = [queue EXCEPT ![g] = Tail(@)]
  /\ UNCHANGED <<registry, last, control, loop, batch, shut, inflight, isRunning, stop, drained>>

Stale(g) == stopping \/ g # generation

Begin(r, j) ==
  /\ isRunning' = [isRunning EXCEPT ![j] = TRUE]
  /\ inflight' = inflight \cup {name[j]}
  /\ pc' = [pc EXCEPT ![r] = "running"]
  /\ job' = [job EXCEPT ![r] = j]

\* Variant: the worker does not look at is_running.
ExecuteUnlocked(g, w) ==
  LET r == <<g, w>> IN
  /\ pc[r] = "taken" /\ ~Stale(g) /\ Begin(r, job[r])
  /\ UNCHANGED <<registry, last, control, loop, pool, stop, drained>>

\* _execute_job_task up to the call of job.func
Execute(g, w) ==
  LET r == <<g, w>> IN
  /\ pc[r] = "taken"
  /\ \/ ~Stale(g) /\ ~isRunning[job[r]] /\ Begin(r, job[r])
     \/ /\ Stale(g) \/ isRunning[job[r]]
        /\ pc' = [pc EXCEPT ![r] = "idle"] /\ job' = [job EXCEPT ![r] = 0]
        /\ UNCHANGED <<inflight, isRunning>>
  /\ UNCHANGED <<registry, last, control, loop, pool, stop, drained>>

RunManually(c, j) ==
  /\ pc[c] = "idle"
  /\ ~stopping /\ j \in registered /\ ~isRunning[j]
  /\ Begin(c, j)
  /\ UNCHANGED <<registry, last, control, loop, pool, stop, drained>>

\* Variant: the in-flight entry is not dropped (the finally block is skipped).
FinishUncleared(r) ==
  /\ pc[r] = "running"
  /\ pc' = [pc EXCEPT ![r] = "clearing"]
  /\ UNCHANGED <<registry, last, control, loop, pool, job, inflight, isRunning, stop, drained>>

\* job.func returned or raised: both ways lead through the finally block,
\* which drops the in-flight entry before it drops the flag of the job.
Finish(r) ==
  /\ pc[r] = "running"
  /\ inflight' = inflight \ {name[job[r]]}
  /\ pc' = [pc EXCEPT ![r] = "clearing"]
  /\ UNCHANGED <<registry, last, control, loop, pool, job, isRunning, stop, drained>>

Release(r) ==
  /\ pc[r] = "clearing"
  /\ isRunning' = [isRunning EXCEPT ![job[r]] = FALSE]
  /\ pc' = [pc EXCEPT ![r] = "idle"] /\ job' = [job EXCEPT ![r] = 0]
  /\ UNCHANGED <<registry, last, control, loop, pool, inflight, stop, drained>>

-----------------------------------------------------------------------------
(* start and stop.                                                         *)

IsAlive(g) == g # 0 /\ loop[g] # "off"

Start ==
  /\ generation < MaxGen
  /\ ~stopInProgress /\ ~running
  /\ ~IsAlive(generation)
  /\ ~(stopping /\ inflight # {})
  /\ stopping' = FALSE /\ running' = TRUE
  /\ generation' = generation + 1
  /\ executor' = generation + 1
  /\ loop' = [loop EXCEPT ![generation + 1] = "ready"]
  /\ drained' = FALSE
  /\ UNCHANGED <<registry, last, stopInProgress, pool, runs, stop>>

\* stop(wait, timeout): _stop_lock admits one call at a time, so one record
\* holds the call that runs; timed says that timeout is not None.
StopBegin(wait, timed) ==
  /\ stop.pc = "idle"
  /\ stopInProgress' = TRUE /\ stopping' = TRUE /\ running' = FALSE
  /\ stop' = [pc |-> "join", wait |-> wait, timed |-> timed,
              thread |-> generation, exec |-> executor]
  /\ UNCHANGED <<registry, last, generation, executor, loop, pool, runs, drained>>

StopJoin ==
  /\ stop.pc = "join"
  /\ stop.timed \/ ~IsAlive(stop.thread)
  /\ stop' = [stop EXCEPT !.pc = IF stop.exec = 0 THEN "drain" ELSE "shutdown"]
  /\ UNCHANGED <<registry, last, control, loop, pool, runs, drained>>

\* executor.shutdown(wait, cancel_futures=True)
StopShutdown ==
  /\ stop.pc = "shutdown"
  /\ shut' = shut \cup {stop.exec}
  /\ queue' = [queue EXCEPT ![stop.exec] = <<>>]
  /\ stop' = [stop EXCEPT !.pc = "pool"]
  /\ UNCHANGED <<registry, last, control, loop, batch, runs, drained>>

StopPool ==
  /\ stop.pc = "pool"
  /\ stop.wait => \A w \in Workers : pc[<<stop.exec, w>>] = "idle"
  /\ stop' = [stop EXCEPT !.pc = "drain"]
  /\ UNCHANGED <<registry, last, control, loop, pool, runs, drained>>

\* Variant: only the pool is waited for, not the manual runs.
StopDrainPoolOnly ==
  /\ stop.pc = "drain"
  /\ stop' = [stop EXCEPT !.pc = "done"]
  /\ UNCHANGED <<registry, last, control, loop, pool, runs, drained>>

\* _wait_inflight
StopDrain ==
  /\ stop.pc = "drain"
  /\ stop.wait => stop.timed \/ inflight = {}
  /\ stop' = [stop EXCEPT !.pc = "done"]
  /\ UNCHANGED <<registry, last, control, loop, pool, runs, drained>>

\* The finally block.  drained records that a stop(wait=True, timeout=None)
\* has returned: the application now releases the plugins' resources.
StopEnd ==
  /\ stop.pc = "done"
  /\ executor' = IF executor = stop.exec THEN 0 ELSE executor
  /\ stopInProgress' = FALSE
  /\ stop' = Idle
  /\ drained' = (drained \/ (stop.wait /\ ~stop.timed))
  /\ UNCHANGED <<registry, last, running, stopping, generation, loop, pool, runs>>

StopStep == StopJoin \/ StopShutdown \/ StopPool \/ StopDrain \/ StopEnd

-----------------------------------------------------------------------------
Next ==
  \/ \E n \in Names, s \in Schedules, e \in BOOLEAN : AddJob(n, s, e)
  \/ \E J \in SUBSET registered : RemoveJobs(J)
  \/ \E j \in JobId : ToggleJob(j)
  \/ \E g \in Gen, now \in Minutes : LoopGather(g, now)
  \/ \E g \in Gen : LoopSubmit(g) \/ LoopExit(g)
  \/ \E g \in Gen, w \in Workers : Take(g, w) \/ Execute(g, w)
  \/ \E c \in Callers, j \in JobId : RunManually(c, j)
  \/ \E r \in Runner : Finish(r) \/ Release(r)
  \/ Start
  \/ \E wait, timed \in BOOLEAN : StopBegin(wait, timed)
  \/ StopStep

Spec == Init /\ [][Next]_vars

\* The threads keep running and job.func returns; nobody has to call anything.
Fairness ==
  /\ \A g \in Gen : WF_vars(LoopSubmit(g)) /\ WF_vars(LoopExit(g))
  /\ \A g \in Gen, w \in Workers : WF_vars(Take(g, w)) /\ WF_vars(Execute(g, w))
  /\ \A r \in Runner : WF_vars(Finish(r)) /\ WF_vars(Release(r))
  /\ WF_vars(StopStep)

FairSpec == Spec /\ Fairness

-----------------------------------------------------------------------------
Active(r)  == pc[r] \in {"running", "clearing"}
Running(r) == pc[r] = "running"

\* No two threads are inside the same job at once, and the flag is_running
\* is set exactly while a thread is: whether the run is scheduled or manual,
\* and although the flag is dropped in a second critical section.
Exclusive ==
  /\ \A q, r \in Runner : Active(q) /\ Active(r) /\ job[q] = job[r] => q = r
  /\ \A j \in JobId : isRunning[j] <=> \E r \in Runner : Active(r) /\ job[r] = j

\* While the service runs there is one scheduling loop, that of the last
\* start, and it has the executor of that start; a loop that outlived a
\* timed stop never coexists with a younger one.
OneLoop ==
  /\ \A g \in Gen : loop[g] # "off" => g = generation
  /\ running => executor = generation /\ IsAlive(generation)

\* The in-flight table, keyed by job name, names exactly the jobs whose
\* function is executing; stop and start rely on it.
InflightCovers ==
  \A n \in Names : n \in inflight <=> \E r \in Runner : Running(r) /\ name[job[r]] = n

\* A pool thread inside a job function belongs to the executor of the last
\* start: callbacks left over from an earlier one are dropped, and start is
\* refused while one of them is executing.
RunningCurrent == \A r \in Pool : Running(r) => r[1] = generation

\* When stop(wait=True, timeout=None) has returned, and until the next start,
\* no job function is executing, on a pool thread or on a caller's.
Drained == drained => \A r \in Runner : ~Running(r)

\* A call of stop returns: with no timeout it waits for the loop, the pool
\* and the callers' runs, none of which it has stopped from finishing.
StopReturns == stop.pc # "idle" ~> stop.pc = "idle"

=============================================================================
