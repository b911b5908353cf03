------------------------- MODULE CronServiceProofs -------------------------
(***************************************************************************)
(* Proofs about CronService, for any jobs, clock, pool size and number of  *)
(* restarts, and about TodoItem, whose ticks are jobs of it and may overlap*)
(* with one that a command started, for any consumers, ticks, due dates,   *)
(* events and operations of the person.                                    *)
(***************************************************************************)
EXTENDS CronService, TodoItem, TLAPS

\* A thread that is not idle holds a job, and a stop that shuts an executor
\* down has one.
HoldsJob ==
  /\ \A r \in Runner : IF pc[r] = "idle" THEN job[r] = 0 ELSE job[r] \in JobId
  /\ stop.pc \in {"shutdown", "pool"} => stop.exec # 0

\* The flags of the service and the place of the stop that runs.
Flags ==
  /\ stop.pc # "idle" <=> stopInProgress
  /\ stopInProgress => stopping
  /\ running => ~stopping
  /\ ~running /\ ~stopping => generation = 0

-----------------------------------------------------------------------------
Typed == TypeOK /\ HoldsJob

LEMMA InitTyped == ASSUME CronAssumption, Init PROVE Typed
<1> USE DEF CronAssumption, Init
<1>1. PICK n \in Names, s \in Schedules :
        name = [j \in JobId |-> n] /\ due = [j \in JobId |-> s]
  OBVIOUS
<1>2. \A g \in Gen : queue[g] \in Seq(Task)
  OBVIOUS
<1>3. queue \in [Gen -> Seq(Task)] /\ batch \in [Gen -> SUBSET Task]
  BY <1>2
<1>4. stop \in [pc : {"idle", "join", "shutdown", "pool", "drain", "done"},
               wait : BOOLEAN, timed : BOOLEAN, thread : 0 .. MaxGen, exec : 0 .. MaxGen]
  BY DEF Idle
<1>5. nextId \in Nat \ {0} /\ registered \subseteq (1 .. (nextId - 1)) \cap JobId
  OBVIOUS
<1>6. generation \in 0 .. MaxGen /\ executor \in 0 .. MaxGen /\ inflight \subseteq Names
  OBVIOUS
<1>7. TypeOK
  BY <1>1, <1>3, <1>4, <1>5, <1>6 DEF TypeOK
<1>8. QED
  BY <1>7 DEF Typed, HoldsJob, Idle

LEMMA TypedStep == ASSUME CronAssumption, Typed, [Next]_vars PROVE Typed'
<1> USE CronAssumption DEF CronAssumption, Typed, TypeOK, HoldsJob, registry, control, pool, runs
<1>1. ASSUME NEW n \in Names, NEW s \in Schedules, NEW e \in BOOLEAN, AddJob(n, s, e)
      PROVE Typed'
  BY <1>1 DEF AddJob, JobId
<1>2. ASSUME NEW J \in SUBSET registered, RemoveJobs(J) PROVE Typed'
  BY <1>2 DEF RemoveJobs
<1>3. ASSUME NEW j \in JobId, ToggleJob(j) PROVE Typed'
  BY <1>3 DEF ToggleJob
<1>4. ASSUME NEW g \in Gen, NEW now \in Minutes, LoopGather(g, now) PROVE Typed'
  <2> DEFINE claimed == {j \in registered : ShouldRun(j, now)}
  <2>1. {[job |-> j, slot |-> now] : j \in claimed} \subseteq Task
    BY DEF Task
  <2>2. batch' \in [Gen -> SUBSET Task] /\ last' \in [JobId -> Minutes \cup {0}]
    BY <1>4, <2>1 DEF LoopGather
  <2>3. QED
    BY <1>4, <2>2 DEF LoopGather
<1>5. ASSUME NEW g \in Gen, LoopSubmit(g) PROVE Typed'
  <2>1. PICK t \in batch[g] :
          /\ batch' = [batch EXCEPT ![g] = @ \ {t}]
          /\ queue' = IF g \in shut THEN queue ELSE [queue EXCEPT ![g] = Append(@, t)]
          /\ loop' = IF batch[g] = {t} THEN [loop EXCEPT ![g] = "ready"] ELSE loop
    BY <1>5 DEF LoopSubmit
  <2>2. Append(queue[g], t) \in Seq(Task)
    OBVIOUS
  <2>3. queue' \in [Gen -> Seq(Task)]
    BY <2>1, <2>2
  <2>4. batch' \in [Gen -> SUBSET Task] /\ loop' \in [Gen -> {"off", "ready", "submit"}]
    BY <2>1
  <2>5. QED
    BY <1>5, <2>3, <2>4 DEF LoopSubmit
<1>6. ASSUME NEW g \in Gen, LoopExit(g) PROVE Typed'
  BY <1>6 DEF LoopExit
<1>7. ASSUME NEW g \in Gen, NEW w \in Workers, Take(g, w) PROVE Typed'
  <2>1. <<g, w>> \in Runner
    BY DEF Runner, Pool
  <2>2. Head(queue[g]) \in Task /\ Tail(queue[g]) \in Seq(Task)
    BY <1>7 DEF Take
  <2>3. Head(queue[g]).job \in JobId
    BY <2>2 DEF Task
  <2>4. queue' \in [Gen -> Seq(Task)] /\ job' \in [Runner -> JobId \cup {0}]
    BY <1>7, <2>2, <2>3 DEF Take
  <2>5. HoldsJob'
    BY <1>7, <2>1, <2>3 DEF Take
  <2>6. QED
    BY <1>7, <2>1, <2>4, <2>5 DEF Take
<1>8. ASSUME NEW r \in Runner, NEW j \in JobId, Begin(r, j),
             UNCHANGED <<registry, last, control, loop, pool, stop, drained>>
      PROVE Typed'
  BY <1>8 DEF Begin
<1>9. ASSUME NEW g \in Gen, NEW w \in Workers, Execute(g, w) PROVE Typed'
  <2>1. <<g, w>> \in Runner /\ job[<<g, w>>] \in JobId
    BY <1>9 DEF Runner, Pool, Execute
  <2>2. CASE Begin(<<g, w>>, job[<<g, w>>])
    BY <1>8, <1>9, <2>1, <2>2 DEF Execute
  <2>3. CASE /\ pc' = [pc EXCEPT ![<<g, w>>] = "idle"]
             /\ job' = [job EXCEPT ![<<g, w>>] = 0]
             /\ UNCHANGED <<inflight, isRunning>>
    BY <1>9, <2>1, <2>3 DEF Execute
  <2>4. QED
    BY <1>9, <2>2, <2>3 DEF Execute
<1>10. ASSUME NEW c \in Callers, NEW j \in JobId, RunManually(c, j) PROVE Typed'
  BY <1>8, <1>10 DEF RunManually, Runner
<1>11. ASSUME NEW r \in Runner, Finish(r) PROVE Typed'
  BY <1>11 DEF Finish
<1>12. ASSUME NEW r \in Runner, Release(r) PROVE Typed'
  BY <1>12 DEF Release
<1>13. ASSUME Start PROVE Typed'
  <2>1. generation + 1 \in 0 .. MaxGen
    BY <1>13 DEF Start
  <2>2. loop' \in [Gen -> {"off", "ready", "submit"}]
    BY <1>13 DEF Start
  <2>3. QED
    BY <1>13, <2>1, <2>2 DEF Start
<1>14. ASSUME NEW wait \in BOOLEAN, NEW timed \in BOOLEAN, StopBegin(wait, timed) PROVE Typed'
  BY <1>14 DEF StopBegin
<1>15. ASSUME StopStep PROVE Typed'
  <2>1. CASE StopJoin
    BY <2>1 DEF StopJoin
  <2>2. CASE StopShutdown
    <3>1. \A g \in Gen : queue'[g] \in Seq(Task)
      BY <2>2 DEF StopShutdown
    <3>2. queue' \in [Gen -> Seq(Task)]
      BY <2>2, <3>1 DEF StopShutdown
    <3>3. stop.exec \in Gen /\ shut' \subseteq Gen
      BY <2>2 DEF StopShutdown, Gen
    <3>4. /\ stop' \in [pc : {"pool"}, wait : BOOLEAN, timed : BOOLEAN,
                        thread : 0 .. MaxGen, exec : 0 .. MaxGen]
          /\ stop'.exec # 0
      BY <2>2 DEF StopShutdown
    <3>5. QED
      BY <2>2, <3>2, <3>3, <3>4 DEF StopShutdown
  <2>3. CASE StopPool
    BY <2>3 DEF StopPool
  <2>4. CASE StopDrain
    BY <2>4 DEF StopDrain
  <2>5. CASE StopEnd
    <3>1. drained' \in BOOLEAN
      BY <2>5 DEF StopEnd
    <3>2. stop'.pc = "idle" /\ stop' \in [pc : {"idle"}, wait : BOOLEAN, timed : BOOLEAN, thread : 0 .. MaxGen, exec : 0 .. MaxGen]
      BY <2>5 DEF StopEnd, Idle
    <3>3. executor' \in 0 .. MaxGen /\ stopInProgress' \in BOOLEAN
      <4>1. executor' \in {0, executor} /\ stopInProgress' = FALSE
        BY <2>5 DEF StopEnd
      <4>2. 0 \in 0 .. MaxGen
        OBVIOUS
      <4>3. QED
        BY <4>1, <4>2, ZenonT(60)
    <3>4. UNCHANGED <<registry, last, running, stopping, generation, loop, pool, runs>>
      BY <2>5 DEF StopEnd
    <3>5. HoldsJob'
      BY <3>2, <3>4
    <3>6. stop' \in [pc : {"idle", "join", "shutdown", "pool", "drain", "done"},
                     wait : BOOLEAN, timed : BOOLEAN, thread : 0 .. MaxGen, exec : 0 .. MaxGen]
      BY <3>2
    <3>7. TypeOK'
      BY <3>1, <3>3, <3>4, <3>6
    <3>8. QED
      BY <3>5, <3>7
  <2>6. QED
    BY <1>15, <2>1, <2>2, <2>3, <2>4, <2>5 DEF StopStep
<1>16. CASE UNCHANGED vars
  BY <1>16 DEF vars
<1> HIDE DEF Typed
<1>17. QED
  BY <1>1, <1>2, <1>3, <1>4, <1>5, <1>6, <1>7, <1>9, <1>10, <1>11, <1>12, <1>13,
     <1>14, <1>15, <1>16, SMTT(30) DEF Next

\* The variables keep their types and every busy thread holds a job.
THEOREM TypeCorrect == ASSUME CronAssumption PROVE Spec => []TypeOK
<1>1. Init => Typed
  BY InitTyped
<1>2. Typed /\ [Next]_vars => Typed'
  BY TypedStep
<1>3. Typed => TypeOK
  BY DEF Typed
<1>4. QED
  BY <1>1, <1>2, <1>3, PTL DEF Spec

-----------------------------------------------------------------------------
(* start, stop and the loop.                                               *)

LEMMA FlagsStep == ASSUME CronAssumption, Typed, Flags, [Next]_vars PROVE Flags'
<1> USE DEF Flags, control
<1>1. CASE UNCHANGED <<stop, control>>
  BY <1>1
<1>2. CASE Start
  BY <1>2 DEF Start
<1>3. ASSUME NEW wait \in BOOLEAN, NEW timed \in BOOLEAN, StopBegin(wait, timed) PROVE Flags'
  BY <1>3 DEF StopBegin
<1>4. CASE StopStep
  <2>1. CASE UNCHANGED control /\ stop'.pc # "idle" /\ stop.pc # "idle"
    BY <2>1
  <2>2. CASE StopEnd
    BY <2>2 DEF StopEnd, Idle
  <2>3. QED
    BY <1>4, <2>1, <2>2
    DEF StopStep, StopJoin, StopShutdown, StopPool, StopDrain, Typed, TypeOK
<1>5. QED
  BY <1>1, <1>2, <1>3, <1>4
  DEF Next, vars, AddJob, RemoveJobs, ToggleJob, LoopGather, LoopSubmit, LoopExit, Take,
      Execute, RunManually, Finish, Release

LEMMA OneLoopStep ==
  ASSUME CronAssumption, Typed, Flags, OneLoop, [Next]_vars PROVE OneLoop'
<1> USE DEF OneLoop, control, IsAlive
<1>1. CASE UNCHANGED <<control, loop>>
  BY <1>1
<1>2. CASE Start
  BY <1>2 DEF Start, Typed, TypeOK, Gen, CronAssumption
<1>3. ASSUME NEW wait \in BOOLEAN, NEW timed \in BOOLEAN, StopBegin(wait, timed) PROVE OneLoop'
  BY <1>3 DEF StopBegin
<1>4. CASE StopEnd
  BY <1>4 DEF StopEnd, Flags
<1>5. ASSUME NEW g \in Gen, NEW now \in Minutes, LoopGather(g, now) PROVE OneLoop'
  BY <1>5 DEF LoopGather, Typed, TypeOK
<1>6. ASSUME NEW g \in Gen, LoopSubmit(g) PROVE OneLoop'
  BY <1>6 DEF LoopSubmit, Typed, TypeOK
<1>7. ASSUME NEW g \in Gen, LoopExit(g) PROVE OneLoop'
  BY <1>7 DEF LoopExit, Typed, TypeOK
<1>8. QED
  BY <1>1, <1>2, <1>3, <1>4, <1>5, <1>6, <1>7
  DEF Next, vars, AddJob, RemoveJobs, ToggleJob, Take, Execute, RunManually, Finish, Release,
      StopStep, StopJoin, StopShutdown, StopPool, StopDrain

\* While the service runs there is one scheduling loop, that of the last
\* start, however many stops timed out before it.
THEOREM LoopIsUnique == ASSUME CronAssumption PROVE Spec => []OneLoop
<1> DEFINE Inv == Typed /\ Flags /\ OneLoop
<1>1. Init => Inv
  <2>1. Init => Flags
    BY DEF Init, Flags, Idle
  <2>2. Init => OneLoop
    BY DEF Init, OneLoop, Gen
  <2>3. QED
    BY InitTyped, <2>1, <2>2
<1>2. Inv /\ [Next]_vars => Inv'
  BY TypedStep, FlagsStep, OneLoopStep
<1>3. Inv => OneLoop
  OBVIOUS
<1>4. QED
  BY <1>1, <1>2, <1>3, PTL DEF Spec

-----------------------------------------------------------------------------
(* Mutual exclusion of the runs of a job.                                  *)

LEMMA SameRuns ==
  ASSUME Exclusive, UNCHANGED isRunning,
         \A q \in Runner : Active(q)' <=> Active(q),
         \A q \in Runner : Active(q) => job'[q] = job[q]
  PROVE Exclusive'
<1>1. \A q, r \in Runner : Active(q)' /\ Active(r)' /\ job'[q] = job'[r] => q = r
  BY DEF Exclusive
<1>2. \A j \in JobId : isRunning'[j] <=> \E r \in Runner : Active(r)' /\ job'[r] = j
  BY DEF Exclusive
<1>3. QED
  BY <1>1, <1>2 DEF Exclusive

LEMMA ExclusiveStep ==
  ASSUME CronAssumption, Typed, Exclusive, [Next]_vars PROVE Exclusive'
<1> USE DEF Exclusive, Active, runs, Typed, TypeOK, HoldsJob
<1>1. CASE UNCHANGED <<pc, job, isRunning>>
  BY <1>1
<1>2. ASSUME NEW g \in Gen, NEW w \in Workers, Take(g, w) PROVE Exclusive'
  <2>0. /\ <<g, w>> \in Runner /\ pc[<<g, w>>] = "idle"
        /\ \A q \in Runner : pc'[q] = IF q = <<g, w>> THEN "taken" ELSE pc[q]
        /\ \A q \in Runner : q # <<g, w>> => job'[q] = job[q]
    BY <1>2 DEF Take, Runner, Pool
  <2>1. \A q \in Runner : Active(q)' <=> Active(q)
    BY <2>0
  <2>2. \A q \in Runner : Active(q) => job'[q] = job[q]
    BY <2>0
  <2>3. QED
    BY <1>2, <2>1, <2>2, SameRuns DEF Take
<1>3. ASSUME NEW r \in Runner, NEW j \in JobId, ~Active(r), ~isRunning[j], Begin(r, j)
      PROVE Exclusive'
  <2>1. \A q \in Runner : Active(q)' <=> Active(q) \/ q = r
    BY <1>3 DEF Begin
  <2>2. \A q \in Runner : job'[q] = IF q = r THEN j ELSE job[q]
    BY <1>3 DEF Begin
  <2>3. \A i \in JobId : isRunning'[i] <=> isRunning[i] \/ i = j
    BY <1>3 DEF Begin
  <2>4. \A q \in Runner : ~(Active(q) /\ job[q] = j)
    BY <1>3
  <2> HIDE DEF Active
  <2>5. \A p, q \in Runner : Active(p)' /\ Active(q)' /\ job'[p] = job'[q] => p = q
    BY <2>1, <2>2, <2>4
  <2>6. \A i \in JobId : isRunning'[i] <=> \E q \in Runner : Active(q)' /\ job'[q] = i
    BY <2>1, <2>2, <2>3, <1>3
  <2>7. QED
    BY <2>5, <2>6
<1>4. ASSUME NEW g \in Gen, NEW w \in Workers, Execute(g, w) PROVE Exclusive'
  <2>1. <<g, w>> \in Runner /\ ~Active(<<g, w>>) /\ job[<<g, w>>] \in JobId
    BY <1>4 DEF Execute, Runner, Pool
  <2>2. CASE ~isRunning[job[<<g, w>>]] /\ Begin(<<g, w>>, job[<<g, w>>])
    BY <1>3, <2>1, <2>2
  <2>3. CASE /\ pc' = [pc EXCEPT ![<<g, w>>] = "idle"]
             /\ job' = [job EXCEPT ![<<g, w>>] = 0]
             /\ UNCHANGED <<inflight, isRunning>>
    <3>1. /\ \A q \in Runner : pc'[q] = IF q = <<g, w>> THEN "idle" ELSE pc[q]
          /\ \A q \in Runner : job'[q] = IF q = <<g, w>> THEN 0 ELSE job[q]
      BY <2>1, <2>3
    <3>2. \A q \in Runner : Active(q)' <=> Active(q)
      BY <2>1, <3>1
    <3>3. \A q \in Runner : Active(q) => job'[q] = job[q]
      BY <2>1, <3>1
    <3>4. QED
      BY <2>3, <3>2, <3>3, SameRuns
  <2>4. QED
    BY <1>4, <2>2, <2>3 DEF Execute
<1>5. ASSUME NEW c \in Callers, NEW j \in JobId, RunManually(c, j) PROVE Exclusive'
  BY <1>3, <1>5 DEF RunManually, Runner
<1>6. ASSUME NEW r \in Runner, Finish(r) PROVE Exclusive'
  BY <1>6 DEF Finish
<1>7. ASSUME NEW r \in Runner, Release(r) PROVE Exclusive'
  BY <1>7 DEF Release
<1>8. QED
  BY <1>1, <1>2, <1>4, <1>5, <1>6, <1>7
  DEF Next, vars, AddJob, RemoveJobs, ToggleJob, LoopGather, LoopSubmit, LoopExit, Start,
      StopBegin, StopStep, StopJoin, StopShutdown, StopPool, StopDrain, StopEnd

\* No two threads are inside one job, whether scheduled or manual, and the
\* flag of the job is set exactly while one is.
THEOREM MutualExclusion == ASSUME CronAssumption PROVE Spec => []Exclusive
<1> DEFINE Inv == Typed /\ Exclusive
<1>1. Init => Inv
  BY InitTyped DEF Init, Exclusive, Active
<1>2. Inv /\ [Next]_vars => Inv'
  BY TypedStep, ExclusiveStep
<1>3. Inv => Exclusive
  OBVIOUS
<1>4. QED
  BY <1>1, <1>2, <1>3, PTL DEF Spec

-----------------------------------------------------------------------------
(* What stop and start can rely on when a name is registered again only    *)
(* after the runs of its last job have gone.                               *)

Live(j) == j \in registered \/ Pending(j)

\* A thread can still come to run only jobs with different names.
LiveNames ==
  /\ \A j \in JobId : Live(j) => j < nextId
  /\ \A i, j \in JobId : Live(i) /\ Live(j) /\ name[i] = name[j] => i = j

LEMMA SameOrFewerLive ==
  ASSUME LiveNames, UNCHANGED <<nextId, name>>, \A j \in JobId : Live(j)' => Live(j)
  PROVE LiveNames'
<1>1. \A j \in JobId : Live(j)' => j < nextId'
  BY DEF LiveNames
<1>2. \A i, j \in JobId : Live(i)' /\ Live(j)' /\ name'[i] = name'[j] => i = j
  BY DEF LiveNames
<1>3. QED
  BY <1>1, <1>2 DEF LiveNames

LEMMA AppendElements ==
  ASSUME NEW S, NEW s \in Seq(S), NEW x \in S, NEW i \in DOMAIN Append(s, x)
  PROVE  \/ i = Len(s) + 1 /\ Append(s, x)[i] = x
         \/ i \in DOMAIN s /\ Append(s, x)[i] = s[i]
<1>1. Len(s) \in Nat /\ DOMAIN s = 1 .. Len(s) /\ Append(s, x) \in Seq(S)
  OBVIOUS
<1>2. Len(Append(s, x)) = Len(s) + 1
  OBVIOUS
<1>3. i \in 1 .. Len(s) + 1
  BY <1>1, <1>2
<1>4. CASE i = Len(s) + 1
  BY <1>4
<1>5. CASE i # Len(s) + 1
  <2>1. i \in 1 .. Len(s)
    BY <1>1, <1>3, <1>5
  <2>2. Append(s, x)[i] = s[i]
    BY <2>1
  <2>3. QED
    BY <1>1, <2>1, <2>2
<1>6. QED
  BY <1>4, <1>5

LEMMA LiveNamesStep ==
  ASSUME CronAssumption, Reregister = FALSE, Typed, LiveNames, [Next]_vars
  PROVE LiveNames'
<1> USE DEF Typed, TypeOK, registry, runs, pool
<1>1. ASSUME NEW n \in Names, NEW s \in Schedules, NEW e \in BOOLEAN, AddJob(n, s, e)
      PROVE LiveNames'
  <2>1. nextId \in JobId
    BY <1>1 DEF AddJob, JobId, CronAssumption
  <2>2. \A j \in JobId : Pending(j)' <=> Pending(j)
    BY <1>1 DEF AddJob, Pending
  <2>3. \A j \in JobId : Live(j)' => Live(j) \/ j = nextId
    BY <1>1, <2>2 DEF AddJob, Live
  <2>4. \A j \in JobId : Live(j) => j # nextId /\ name[j] # n
    BY <1>1 DEF AddJob, Live, LiveNames, JobId
  <2>5. \A j \in JobId : name'[j] = IF j = nextId THEN n ELSE name[j]
    BY <1>1, <2>1 DEF AddJob
  <2>6. \A j \in JobId : Live(j)' => j < nextId'
    BY <1>1, <2>3 DEF AddJob, LiveNames, JobId
  <2>7. \A i, j \in JobId : Live(i)' /\ Live(j)' /\ name'[i] = name'[j] => i = j
    BY <2>3, <2>4, <2>5 DEF LiveNames
  <2>8. QED
    BY <2>6, <2>7 DEF LiveNames
<1>2. ASSUME UNCHANGED <<nextId, name, batch, queue, job>>, registered' \subseteq registered
      PROVE LiveNames'
  <2>1. \A j \in JobId : Live(j)' => Live(j)
    BY <1>2 DEF Live, Pending
  <2>2. QED
    BY <1>2, <2>1, SameOrFewerLive
<1>3. ASSUME NEW g \in Gen, NEW now \in Minutes, LoopGather(g, now) PROVE LiveNames'
  <2>1. \A h \in Gen, j \in JobId : (\E t \in batch'[h] : t.job = j) =>
          j \in registered \/ \E t \in batch[h] : t.job = j
    BY <1>3 DEF LoopGather
  <2>2. UNCHANGED <<nextId, name, registered, queue, job>>
    BY <1>3 DEF LoopGather
  <2>3. ASSUME NEW j \in JobId, Live(j)' PROVE Live(j)
    <3>1. CASE \E h \in Gen : \E t \in batch'[h] : t.job = j
      BY <2>1, <3>1 DEF Live, Pending
    <3>2. CASE j \in registered' \/ (\E h \in Gen : \E i \in DOMAIN queue'[h] : queue'[h][i].job = j)
                               \/ (\E r \in Runner : job'[r] = j)
      BY ONLY <2>2, <3>2 DEF Live, Pending
    <3>3. QED
      BY ONLY <2>3, <3>1, <3>2 DEF Live, Pending
  <2>4. QED
    BY <2>2, <2>3, SameOrFewerLive
<1>4. ASSUME NEW g \in Gen, LoopSubmit(g) PROVE LiveNames'
  <2>1. PICK t \in batch[g] :
          /\ batch' = [batch EXCEPT ![g] = @ \ {t}]
          /\ queue' = IF g \in shut THEN queue ELSE [queue EXCEPT ![g] = Append(@, t)]
    BY <1>4 DEF LoopSubmit
  <2>2. \A h \in Gen : batch'[h] \subseteq batch[h]
    BY <2>1
  <2>3. \A h \in Gen : \A i \in DOMAIN queue'[h] :
          queue'[h][i] = t \/ (i \in DOMAIN queue[h] /\ queue'[h][i] = queue[h][i])
    <3>1. \A i \in DOMAIN Append(queue[g], t) :
            Append(queue[g], t)[i] = t \/ (i \in DOMAIN queue[g] /\ Append(queue[g], t)[i] = queue[g][i])
      <4> DEFINE q == queue[g]
      <4>1. q \in Seq(Task) /\ t \in Task
        OBVIOUS
      <4> HIDE DEF q
      <4>2. ASSUME NEW i \in DOMAIN Append(q, t)
            PROVE  Append(q, t)[i] = t \/ (i \in DOMAIN q /\ Append(q, t)[i] = q[i])
        BY <4>1, AppendElements
      <4>3. QED
        BY <4>2 DEF q
    <3>2. \A h \in Gen : queue'[h] \in {queue[h], Append(queue[g], t)} /\ (h # g => queue'[h] = queue[h])
      BY <2>1
    <3>3. QED
      BY <3>1, <3>2
  <2>4. UNCHANGED <<nextId, name, registered, job>>
    BY <1>4 DEF LoopSubmit
  <2>5. \A j \in JobId : Live(j)' => Live(j)
    BY <2>1, <2>2, <2>3, <2>4 DEF Live, Pending
  <2>6. QED
    BY <2>4, <2>5, SameOrFewerLive
<1>5. ASSUME NEW g \in Gen, NEW w \in Workers, Take(g, w) PROVE LiveNames'
  <2>1. <<g, w>> \in Runner
    BY DEF Runner, Pool
  <2>2. /\ 1 \in DOMAIN queue[g] /\ Head(queue[g]) = queue[g][1]
        /\ \A i \in DOMAIN Tail(queue[g]) :
             i + 1 \in DOMAIN queue[g] /\ Tail(queue[g])[i] = queue[g][i + 1]
    BY <1>5 DEF Take
  <2>3. \A r \in Runner : job'[r] = IF r = <<g, w>> THEN queue[g][1].job ELSE job[r]
    BY <1>5, <2>1, <2>2 DEF Take
  <2>4. \A h \in Gen : \A i \in DOMAIN queue'[h] : \E k \in DOMAIN queue[h] :
          queue'[h][i] = queue[h][k]
    BY <1>5, <2>2 DEF Take
  <2>5. UNCHANGED <<nextId, name, registered, batch>>
    BY <1>5 DEF Take
  <2>6. \A j \in JobId : Live(j)' => Live(j)
    <3> SUFFICES ASSUME NEW j \in JobId, Pending(j)' PROVE Pending(j)
      BY <2>5 DEF Live
    <3>1. CASE \E h \in Gen : \E t \in batch'[h] : t.job = j
      BY <2>5, <3>1 DEF Pending
    <3>2. CASE \E h \in Gen : \E i \in DOMAIN queue'[h] : queue'[h][i].job = j
      BY <2>4, <3>2 DEF Pending
    <3>3. CASE \E r \in Runner : job'[r] = j
      BY <2>2, <2>3, <3>3, SMTT(40) DEF Pending
    <3>4. QED
      BY <3>1, <3>2, <3>3 DEF Pending
  <2>7. QED
    BY <2>5, <2>6, SameOrFewerLive
<1>6. ASSUME UNCHANGED <<nextId, name, registered, batch, queue>>,
             \A r \in Runner : job'[r] \in {0, job[r]} \/ job'[r] \in registered
      PROVE LiveNames'
  <2>1. \A j \in JobId : Live(j)' => Live(j)
    BY <1>6 DEF Live, Pending, JobId
  <2>2. QED
    BY <1>6, <2>1, SameOrFewerLive
<1>7. ASSUME NEW g \in Gen, NEW w \in Workers, Execute(g, w) PROVE LiveNames'
  <2>1. <<g, w>> \in Runner
    BY DEF Runner, Pool
  <2>2. \A r \in Runner : job'[r] \in {0, job[r]}
    <3>1. CASE Begin(<<g, w>>, job[<<g, w>>])
      BY <2>1, <3>1, ZenonT(60) DEF Begin
    <3>2. CASE job' = [job EXCEPT ![<<g, w>>] = 0]
      BY <3>2
    <3>3. QED
      BY <1>7, <3>1, <3>2 DEF Execute
  <2>3. QED
    BY <1>6, <1>7, <2>2 DEF Execute
<1>8. ASSUME NEW c \in Callers, NEW j \in JobId, RunManually(c, j) PROVE LiveNames'
  BY <1>6, <1>8 DEF RunManually, Begin
<1>9. ASSUME NEW r \in Runner, Release(r) PROVE LiveNames'
  BY <1>6, <1>9 DEF Release
<1>10. ASSUME StopShutdown PROVE LiveNames'
  <2>1. \A h \in Gen : \A i \in DOMAIN queue'[h] : i \in DOMAIN queue[h] /\ queue'[h][i] = queue[h][i]
    BY <1>10 DEF StopShutdown
  <2>2. UNCHANGED <<nextId, name, registered, batch, job>>
    BY <1>10 DEF StopShutdown
  <2>3. \A j \in JobId : Live(j)' => Live(j)
    BY <2>1, <2>2 DEF Live, Pending
  <2>4. QED
    BY <2>2, <2>3, SameOrFewerLive
<1>11. QED
  BY <1>1, <1>2, <1>3, <1>4, <1>5, <1>7, <1>8, <1>9, <1>10
  DEF Next, vars, RemoveJobs, ToggleJob, LoopExit, Finish, Start,
      StopBegin, StopStep, StopJoin, StopPool, StopDrain, StopEnd

LEMMA RunningIsInflight ==
  ASSUME Typed, InflightCovers, NEW r \in Runner, Running(r) PROVE inflight # {}
<1>1. job[r] \in JobId
  BY DEF Typed, HoldsJob, Running
<1>2. name[job[r]] \in Names
  BY <1>1 DEF Typed, TypeOK
<1>3. QED
  BY <1>2 DEF InflightCovers

LEMMA InflightStep ==
  ASSUME CronAssumption, Typed, Exclusive, LiveNames, InflightCovers, [Next]_vars
  PROVE InflightCovers'
<1> USE DEF Typed, TypeOK, HoldsJob, registry, runs, pool
<1>1. ASSUME UNCHANGED <<inflight, name>>, \A r \in Runner : Running(r)' <=> Running(r),
             \A r \in Runner : Running(r) => job'[r] = job[r]
      PROVE InflightCovers'
  <2>1. \A n \in Names : n \in inflight' <=> \E r \in Runner : Running(r)' /\ name'[job'[r]] = n
    BY <1>1 DEF InflightCovers
  <2>2. QED
    BY <2>1 DEF InflightCovers
<1>2. ASSUME NEW n \in Names, NEW s \in Schedules, NEW e \in BOOLEAN, AddJob(n, s, e)
      PROVE InflightCovers'
  <2>1. \A r \in Runner : Running(r) => job[r] # nextId
    <3>1. \A r \in Runner : Running(r) => job[r] \in JobId
      BY DEF Running
    <3>2. \A r \in Runner : Running(r) => job[r] < nextId
      BY <3>1 DEF LiveNames, Live, Pending
    <3>3. QED
      BY <3>1, <3>2 DEF JobId
  <2>2. \A r \in Runner : Running(r) => name'[job[r]] = name[job[r]]
    BY <1>2, <2>1 DEF AddJob, Running
  <2>3. \A m \in Names : m \in inflight' <=> \E r \in Runner : Running(r)' /\ name'[job'[r]] = m
    BY <1>2, <2>2 DEF AddJob, InflightCovers, Running
  <2>4. QED
    BY <2>3 DEF InflightCovers
<1>3. ASSUME NEW r \in Runner, NEW j \in JobId, ~Running(r), Begin(r, j), UNCHANGED name
      PROVE InflightCovers'
  <2>1. \A q \in Runner : Running(q)' <=> Running(q) \/ q = r
    BY <1>3 DEF Begin, Running
  <2>2. \A q \in Runner : job'[q] = IF q = r THEN j ELSE job[q]
    BY <1>3 DEF Begin
  <2>3. inflight' = inflight \cup {name[j]}
    BY <1>3 DEF Begin
  <2>4. \A q \in Runner : name'[job'[q]] = IF q = r THEN name[j] ELSE name[job[q]]
    BY <1>3, <2>2
  <2>5. ASSUME NEW n \in Names
        PROVE  n \in inflight' <=> \E q \in Runner : Running(q)' /\ name'[job'[q]] = n
    <3>1. CASE n = name[j]
      BY <2>1, <2>3, <2>4, <3>1
    <3>2. CASE n # name[j]
      <4>1. n \in inflight' <=> n \in inflight
        BY <2>3, <3>2
      <4>2. \A q \in Runner : Running(q)' /\ name'[job'[q]] = n <=> Running(q) /\ name[job[q]] = n
        BY <1>3, <2>1, <2>4, <3>2
      <4>3. QED
        BY <4>1, <4>2 DEF InflightCovers
    <3>3. QED
      BY <3>1, <3>2
  <2>6. QED
    BY <2>5 DEF InflightCovers
<1>4. ASSUME NEW g \in Gen, NEW w \in Workers, Execute(g, w) PROVE InflightCovers'
  <2>1. <<g, w>> \in Runner /\ ~Running(<<g, w>>) /\ job[<<g, w>>] \in JobId
    BY <1>4 DEF Execute, Runner, Pool, Running
  <2>2. CASE Begin(<<g, w>>, job[<<g, w>>])
    BY <1>3, <1>4, <2>1, <2>2 DEF Execute
  <2>3. CASE /\ pc' = [pc EXCEPT ![<<g, w>>] = "idle"]
             /\ job' = [job EXCEPT ![<<g, w>>] = 0]
             /\ UNCHANGED <<inflight, isRunning>>
    <3>1. \A r \in Runner : Running(r)' <=> Running(r)
      BY <2>1, <2>3 DEF Running
    <3>2. \A r \in Runner : Running(r) => job'[r] = job[r]
      BY <2>1, <2>3
    <3>3. QED
      BY <1>1, <1>4, <2>3, <3>1, <3>2 DEF Execute
  <2>4. QED
    BY <1>4, <2>2, <2>3 DEF Execute
<1>5. ASSUME NEW c \in Callers, NEW j \in JobId, RunManually(c, j) PROVE InflightCovers'
  BY <1>3, <1>5 DEF RunManually, Runner, Running
<1>6. ASSUME NEW r \in Runner, Finish(r) PROVE InflightCovers'
  <2>1. Running(r) /\ UNCHANGED <<job, name>> /\ inflight' = inflight \ {name[job[r]]}
    BY <1>6 DEF Finish, Running
  <2>2. \A q \in Runner : Running(q)' <=> Running(q) /\ q # r
    BY <1>6 DEF Finish, Running
  <2>3. ASSUME NEW q \in Runner, Running(q), name[job[q]] = name[job[r]] PROVE q = r
    <3>1. job[q] \in JobId /\ job[r] \in JobId
      BY <2>1, <2>3 DEF Running
    <3>2. job[q] = job[r]
      BY <2>3, <3>1 DEF LiveNames, Live, Pending
    <3>3. QED
      BY <2>1, <2>3, <3>2 DEF Exclusive, Active, Running
  <2> HIDE DEF Running
  <2>4. \A n \in Names : n \in inflight' <=> \E q \in Runner : Running(q)' /\ name'[job'[q]] = n
    BY <2>1, <2>2, <2>3 DEF InflightCovers
  <2>5. QED
    BY <2>4 DEF InflightCovers
<1>7. ASSUME NEW r \in Runner, Release(r) PROVE InflightCovers'
  <2>1. \A q \in Runner : Running(q)' <=> Running(q)
    BY <1>7 DEF Release, Running
  <2>2. \A q \in Runner : Running(q) => job'[q] = job[q]
    BY <1>7 DEF Release, Running
  <2>3. QED
    BY <1>1, <1>7, <2>1, <2>2 DEF Release
<1>8. ASSUME NEW g \in Gen, NEW w \in Workers, Take(g, w) PROVE InflightCovers'
  <2>1. \A q \in Runner : Running(q)' <=> Running(q)
    BY <1>8 DEF Take, Running
  <2>2. \A q \in Runner : Running(q) => job'[q] = job[q]
    BY <1>8 DEF Take, Running
  <2>3. QED
    BY <1>1, <1>8, <2>1, <2>2 DEF Take
<1>9. CASE UNCHANGED <<inflight, name, pc, job>>
  BY <1>1, <1>9 DEF Running
<1>10. QED
  BY <1>2, <1>4, <1>5, <1>6, <1>7, <1>8, <1>9
  DEF Next, vars, RemoveJobs, ToggleJob, LoopGather, LoopSubmit, LoopExit, Start,
      StopBegin, StopStep, StopJoin, StopShutdown, StopPool, StopDrain, StopEnd

\* Callbacks run only under the executor of the last start.
LEMMA RunningCurrentStep ==
  ASSUME CronAssumption, Typed, Flags, InflightCovers, RunningCurrent, [Next]_vars
  PROVE RunningCurrent'
<1> USE DEF Typed, TypeOK, control, runs, Runner
<1>1. CASE Start
  <2>1. ASSUME NEW r \in Pool, Running(r) PROVE FALSE
    <3>1. r[1] = generation /\ r[1] \in Gen
      BY <2>1 DEF RunningCurrent, Pool
    <3>2. generation # 0
      BY <3>1 DEF Gen
    <3>3. stopping
      BY <1>1, <3>2 DEF Start, Flags
    <3>4. inflight # {}
      BY <2>1, RunningIsInflight
    <3>5. QED
      BY <1>1, <3>3, <3>4 DEF Start
  <2>2. QED
    BY <1>1, <2>1 DEF Start, RunningCurrent, Running
<1>2. ASSUME NEW g \in Gen, NEW w \in Workers, Execute(g, w) PROVE RunningCurrent'
  <2>1. UNCHANGED generation
    BY <1>2 DEF Execute
  <2>2. <<g, w>> \in Pool /\ <<g, w>>[1] = g
    BY DEF Pool
  <2>3. CASE ~Stale(g) /\ Begin(<<g, w>>, job[<<g, w>>])
    BY <2>1, <2>2, <2>3 DEF Begin, Stale, RunningCurrent, Running
  <2>4. CASE pc' = [pc EXCEPT ![<<g, w>>] = "idle"]
    BY <2>1, <2>2, <2>4 DEF RunningCurrent, Running
  <2>5. QED
    BY <1>2, <2>3, <2>4 DEF Execute
<1>3. ASSUME NEW c \in Callers, NEW j \in JobId, RunManually(c, j) PROVE RunningCurrent'
  <2>1. c \notin Pool
    BY DEF CronAssumption, Pool, Gen
  <2>2. QED
    BY <1>3, <2>1 DEF RunManually, Begin, RunningCurrent, Running
<1>4. ASSUME UNCHANGED generation, \A r \in Runner : Running(r)' => Running(r)
      PROVE RunningCurrent'
  BY <1>4 DEF RunningCurrent
<1>5. ASSUME NEW r \in Runner, Finish(r) \/ Release(r) PROVE RunningCurrent'
  BY <1>4, <1>5 DEF Finish, Release, Running
<1>6. ASSUME NEW g \in Gen, NEW w \in Workers, Take(g, w) PROVE RunningCurrent'
  BY <1>4, <1>6 DEF Take, Running
<1>7. CASE UNCHANGED <<generation, pc>>
  BY <1>4, <1>7 DEF Running
<1>8. QED
  BY <1>1, <1>2, <1>3, <1>5, <1>6, <1>7
  DEF Next, vars, AddJob, RemoveJobs, ToggleJob, LoopGather, LoopSubmit, LoopExit,
      StopBegin, StopStep, StopJoin, StopShutdown, StopPool, StopDrain, StopEnd

\* A full stop that is about to return, or has returned, leaves nothing running.
DrainedInv ==
  /\ stop.pc = "done" /\ stop.wait /\ ~stop.timed => \A r \in Runner : ~Running(r)
  /\ drained => stopping /\ \A r \in Runner : ~Running(r)

LEMMA DrainedStep ==
  ASSUME CronAssumption, Typed, Flags, InflightCovers, DrainedInv, [Next]_vars
  PROVE DrainedInv'
<1> USE DEF Typed, TypeOK, control, runs, DrainedInv
<1>1. ASSUME UNCHANGED <<stop, drained, stopping>>, \A r \in Runner : Running(r)' => Running(r)
      PROVE DrainedInv'
  BY <1>1
<1>2. ASSUME ~stopping, UNCHANGED <<stop, drained>> PROVE DrainedInv'
  BY <1>2 DEF Flags
<1>3. CASE Start
  BY <1>3 DEF Start, Flags
<1>4. ASSUME NEW wait \in BOOLEAN, NEW timed \in BOOLEAN, StopBegin(wait, timed)
      PROVE DrainedInv'
  BY <1>4 DEF StopBegin, Running
<1>5. CASE StopJoin \/ StopShutdown \/ StopPool
  BY <1>5 DEF StopJoin, StopShutdown, StopPool, Running
<1>6. CASE StopDrain
  <2>1. stop.wait /\ ~stop.timed => \A r \in Runner : ~Running(r)
    BY <1>6, RunningIsInflight DEF StopDrain
  <2>2. UNCHANGED <<drained, stopping, pc>> /\ stop'.wait = stop.wait /\ stop'.timed = stop.timed
    BY <1>6 DEF StopDrain
  <2>3. QED
    BY <2>1, <2>2 DEF Running
<1>7. CASE StopEnd
  BY <1>7 DEF StopEnd, Idle, Flags, Running
<1>8. ASSUME NEW g \in Gen, NEW w \in Workers, Execute(g, w) PROVE DrainedInv'
  <2>1. CASE ~Stale(g)
    BY <1>2, <1>8, <2>1 DEF Execute, Stale
  <2>2. CASE pc' = [pc EXCEPT ![<<g, w>>] = "idle"]
    BY <1>1, <1>8, <2>2 DEF Execute, Running
  <2>3. QED
    BY <1>8, <2>1, <2>2 DEF Execute
<1>9. ASSUME NEW c \in Callers, NEW j \in JobId, RunManually(c, j) PROVE DrainedInv'
  BY <1>2, <1>9 DEF RunManually
<1>10. ASSUME NEW r \in Runner, Finish(r) \/ Release(r) PROVE DrainedInv'
  BY <1>1, <1>10 DEF Finish, Release, Running
<1>11. ASSUME NEW g \in Gen, NEW w \in Workers, Take(g, w) PROVE DrainedInv'
  BY <1>1, <1>11 DEF Take, Running
<1>12. CASE UNCHANGED <<stop, drained, stopping, pc>>
  BY <1>1, <1>12 DEF Running
<1>13. QED
  BY <1>3, <1>4, <1>5, <1>6, <1>7, <1>8, <1>9, <1>10, <1>11, <1>12
  DEF Next, vars, AddJob, RemoveJobs, ToggleJob, LoopGather, LoopSubmit, LoopExit, StopStep

\* The inductive invariant of the three theorems below.
NameInv ==
  Typed /\ Flags /\ Exclusive /\ LiveNames /\ InflightCovers /\ RunningCurrent /\ DrainedInv

LEMMA NameInvariant ==
  ASSUME CronAssumption, Reregister = FALSE PROVE Spec => []NameInv
<1>1. Init => NameInv
  <2> SUFFICES ASSUME Init PROVE NameInv
    OBVIOUS
  <2>1. Typed
    BY InitTyped
  <2>2. Flags
    BY DEF Init, Flags, Idle
  <2>3. \A r \in Runner : ~Active(r) /\ ~Running(r)
    BY DEF Init, Active, Running
  <2>4. Exclusive
    BY <2>3 DEF Init, Exclusive
  <2>5. \A j \in JobId : ~Live(j)
    BY DEF Init, Live, Pending, JobId
  <2>6. LiveNames
    BY <2>5 DEF LiveNames
  <2>7. InflightCovers /\ RunningCurrent /\ DrainedInv
    BY <2>3 DEF Init, InflightCovers, RunningCurrent, DrainedInv, Runner
  <2>8. QED
    BY <2>1, <2>2, <2>4, <2>6, <2>7 DEF NameInv
<1>2. NameInv /\ [Next]_vars => NameInv'
  BY TypedStep, FlagsStep, ExclusiveStep, LiveNamesStep, InflightStep, RunningCurrentStep,
     DrainedStep DEF NameInv
<1>3. QED
  BY <1>1, <1>2, PTL DEF Spec

\* The in-flight table names exactly the jobs whose function is executing.
THEOREM InflightIsExact ==
  ASSUME CronAssumption, Reregister = FALSE PROVE Spec => []InflightCovers
<1>1. NameInv => InflightCovers
  BY DEF NameInv
<1>2. QED
  BY <1>1, NameInvariant, PTL

\* No callback left over from an earlier start ever executes a job.
THEOREM NoStaleRun ==
  ASSUME CronAssumption, Reregister = FALSE PROVE Spec => []RunningCurrent
<1>1. NameInv => RunningCurrent
  BY DEF NameInv
<1>2. QED
  BY <1>1, NameInvariant, PTL

\* When stop(wait=True, timeout=None) has returned nothing is executing, so
\* the application may release what the jobs use.
THEOREM StopDrains ==
  ASSUME CronAssumption, Reregister = FALSE PROVE Spec => []Drained
<1>1. NameInv => Drained
  BY DEF NameInv, DrainedInv, Drained
<1>2. QED
  BY <1>1, NameInvariant, PTL

-----------------------------------------------------------------------------
(* A todo that follows a case (TodoItem).                                   *)

EventType == [type : {"detected", "resolved"}, cycle : Revisions]
RowType ==
  [status : Open \cup {"none", "snoozed", "shelved", "done", "dropped"},
   revision : 0 .. MaxRevision, cycle : Revisions, human : BOOLEAN, enabled : BOOLEAN,
   notified : Ticks \cup {"null", "past", "lost"}, due : Dues, dueTold : Dues]
TickType ==
  [pc : {"idle", "claim", "send", "release", "finish"}, due : Dues, same : BOOLEAN, fresh : BOOLEAN]
ReceiptType == [revision : 0 .. MaxRevision, cycle : Revisions]
ConsumerType == [pc : {"idle", "apply", "ack"}, at : Revisions]

\* The case: cycles are counted up to the number of events, they never go
\* back, and what follows a solution belongs to a later cycle.
Chronicle ==
  /\ \A n \in 1 .. Len(history) : history[n].cycle <= n
  /\ \A m, n \in 1 .. Len(history) : m <= n => history[m].cycle <= history[n].cycle
  /\ \A m, n \in 1 .. Len(history) : m < n /\ Resolved(m) => history[m].cycle < history[n].cycle
  /\ Len(history) > 0 => ~ Resolved(1)

\* A consumer holds an event that happened, the oldest that was not acknowledged.
Fetched ==
  \A c \in Consumers : consumer[c].pc # "idle" =>
    /\ consumer[c].at <= Len(history)
    /\ \A q \in 1 .. (consumer[c].at - 1) : q \in acked

TodoTyped == TodoTypeOK /\ Chronicle /\ Fetched

LEMMA IdleTyped ==
  ASSUME TodoAssumption
  PROVE  /\ IdleTick \in TickType /\ NoRow \in RowType /\ IdleConsumer \in ConsumerType
         /\ NoRow.due \in Dues /\ NoRow.due = NoRow.dueTold
<1>1. (CHOOSE d \in Dues : TRUE) \in Dues
  BY DEF TodoAssumption
<1>2. 1 \in Revisions /\ 0 \in 0 .. MaxRevision
  BY DEF TodoAssumption, Revisions
<1>3. IdleConsumer \in ConsumerType
  BY <1>2 DEF IdleConsumer, ConsumerType
<1> DEFINE day == CHOOSE d \in Dues : TRUE
<1> HIDE DEF day
<1>4. day \in Dues
  BY <1>1 DEF day
<1>5. IdleTick = [pc |-> "idle", due |-> day, same |-> FALSE, fresh |-> FALSE]
  BY DEF IdleTick, day
<1>6. NoRow = [status |-> "none", revision |-> 0, cycle |-> 1, human |-> FALSE, enabled |-> TRUE,
               notified |-> "null", due |-> day, dueTold |-> day]
  BY DEF NoRow, day
<1>7. IdleTick \in TickType
  BY <1>4, <1>5 DEF TickType
<1>8. NoRow \in RowType /\ NoRow.due = NoRow.dueTold /\ NoRow.due \in Dues
  BY <1>2, <1>4, <1>6 DEF RowType
<1>9. QED
  BY <1>3, <1>7, <1>8

LEMMA TodoTypes ==
  ASSUME TRUE
  PROVE  TodoTypeOK <=>
    /\ history \in Seq(EventType) /\ Len(history) <= MaxRevision /\ acked \subseteq Revisions
    /\ consumer \in [Consumers -> ConsumerType] /\ receipt \in ReceiptType /\ row \in RowType
    /\ tick \in [Ticks -> TickType] /\ kind \in Kinds /\ edits \in 0 .. MaxEdits /\ told \in Nat
    /\ hands \in BOOLEAN /\ closed \in 0 .. MaxRevision
BY DEF TodoTypeOK, EventType, ConsumerType, ReceiptType, RowType, TickType

LEMMA InitTodoTyped == ASSUME TodoAssumption, TodoInit PROVE TodoTyped
<1>1. history = <<>> /\ history \in Seq(EventType) /\ Len(history) = 0
  BY DEF TodoInit
<1>2. receipt \in ReceiptType
  BY DEF TodoInit, ReceiptType, Revisions, TodoAssumption
<1>3. /\ consumer \in [Consumers -> ConsumerType] /\ row \in RowType
      /\ tick \in [Ticks -> TickType]
  BY IdleTyped DEF TodoInit
<1>4. /\ acked \subseteq Revisions /\ edits \in 0 .. MaxEdits /\ told \in Nat
      /\ closed \in 0 .. MaxRevision /\ Len(history) <= MaxRevision
  BY <1>1 DEF TodoInit, TodoAssumption
<1>5. kind \in Kinds /\ hands \in BOOLEAN
  BY DEF TodoInit
<1>6. Chronicle
  BY <1>1 DEF Chronicle
<1>7. Fetched
  BY DEF TodoInit, Fetched, IdleConsumer
<1>8. QED
  BY <1>1, <1>2, <1>3, <1>4, <1>5, <1>6, <1>7, TodoTypes DEF TodoTyped

\* The next event of the case.
LEMMA HappenTyped ==
  ASSUME TodoAssumption, TodoTyped, Happen
  PROVE  history' \in Seq(EventType) /\ Len(history') <= MaxRevision /\ Chronicle'
<1> DEFINE solved == Len(history) > 0 /\ Resolved(Len(history))
           before == IF Len(history) = 0 THEN 1 ELSE history[Len(history)].cycle
           now == IF solved THEN before + 1 ELSE before
<1>1. PICK type \in {"detected", "resolved"} :
        /\ type = "resolved" => Len(history) > 0 /\ ~ solved /\ kind = "code"
        /\ history' = Append(history, [type |-> type, cycle |-> now])
  BY DEF Happen
<1>2. history \in Seq(EventType) /\ Len(history) < MaxRevision /\ Len(history) \in Nat
  BY DEF TodoTyped, TodoTypeOK, EventType, Happen
<1>3. \A n \in 1 .. Len(history) : history[n] \in EventType
  BY <1>2
<1>4. \A n \in 1 .. Len(history) : history[n].cycle \in Nat /\ history[n].cycle >= 1
  BY <1>3 DEF EventType, Revisions
<1>5. before \in Nat /\ before >= 1 /\ (Len(history) > 0 => before <= Len(history))
      /\ \A n \in 1 .. Len(history) : history[n].cycle <= before
  BY <1>2, <1>4 DEF TodoTyped, Chronicle
<1>6. /\ now \in Nat /\ now >= 1 /\ now <= Len(history) + 1
      /\ \A n \in 1 .. Len(history) : history[n].cycle <= now
  BY <1>2, <1>4, <1>5
<1>7. \A n \in 1 .. Len(history) : Resolved(n) => history[n].cycle < now
  <2> SUFFICES ASSUME NEW n \in 1 .. Len(history), Resolved(n) PROVE history[n].cycle < now
    OBVIOUS
  <2>1. CASE n = Len(history)
    BY <1>2, <1>4, <1>5, <2>1
  <2>2. CASE n < Len(history)
    <3>1. Len(history) \in 1 .. Len(history) /\ before = history[Len(history)].cycle
      BY <1>2, <2>2
    <3>2. history[n].cycle < before
      BY <2>2, <3>1 DEF TodoTyped, Chronicle
    <3>3. QED
      BY <1>2, <1>4, <1>5, <3>2
  <2>3. QED
    BY <1>2, <2>1, <2>2
<1> HIDE DEF solved, now, before
<1>8. MaxRevision \in Nat /\ now \in Revisions
  BY <1>2, <1>6 DEF Revisions, TodoAssumption
<1>9. [type |-> type, cycle |-> now] \in EventType
  BY <1>8 DEF EventType
<1>10. /\ history' \in Seq(EventType) /\ Len(history') = Len(history) + 1
       /\ \A n \in 1 .. Len(history) : history'[n] = history[n]
       /\ history'[Len(history) + 1] = [type |-> type, cycle |-> now]
  BY <1>1, <1>2, <1>9
<1>11. \A n \in 1 .. Len(history') : n \in 1 .. Len(history) \/ n = Len(history) + 1
  BY <1>2, <1>10
<1>12. \A n \in 1 .. Len(history') : history'[n].cycle <= n
  BY <1>2, <1>6, <1>10, <1>11 DEF TodoTyped, Chronicle
<1>13. \A m, n \in 1 .. Len(history') : m <= n => history'[m].cycle <= history'[n].cycle
  <2> SUFFICES ASSUME NEW m \in 1 .. Len(history'), NEW n \in 1 .. Len(history'), m <= n
               PROVE history'[m].cycle <= history'[n].cycle
    OBVIOUS
  <2>1. CASE n \in 1 .. Len(history)
    <3>1. m \in 1 .. Len(history)
      BY <1>2, <2>1
    <3>2. QED
      BY <1>10, <2>1, <3>1 DEF TodoTyped, Chronicle
  <2>2. CASE n = Len(history) + 1
    BY <1>6, <1>10, <1>11, <2>2
  <2>3. QED
    BY <1>11, <2>1, <2>2
<1>14. \A m, n \in 1 .. Len(history') :
         m < n /\ history'[m].type = "resolved" => history'[m].cycle < history'[n].cycle
  <2> SUFFICES ASSUME NEW m \in 1 .. Len(history'), NEW n \in 1 .. Len(history'), m < n,
                      history'[m].type = "resolved"
               PROVE history'[m].cycle < history'[n].cycle
    OBVIOUS
  <2>1. m \in 1 .. Len(history) /\ Resolved(m)
    BY <1>2, <1>10, <1>11 DEF Resolved
  <2>2. CASE n \in 1 .. Len(history)
    BY <1>10, <2>1, <2>2 DEF TodoTyped, Chronicle
  <2>3. CASE n = Len(history) + 1
    BY <1>7, <1>10, <2>1, <2>3
  <2>4. QED
    BY <1>11, <2>2, <2>3
<1>15. history'[1].type # "resolved"
  <2>1. CASE Len(history) = 0
    BY <1>1, <1>10, <2>1
  <2>2. CASE Len(history) > 0
    BY <1>2, <1>10, <2>2 DEF TodoTyped, Chronicle, Resolved
  <2>3. QED
    BY <1>2, <2>1, <2>2
<1>16. QED
  BY <1>2, <1>8, <1>10, <1>12, <1>13, <1>14, <1>15 DEF Chronicle, Resolved

\* Disarming the ticks changes nothing else about them.
LEMMA RearmedTicks ==
  ASSUME tick \in [Ticks -> TickType], Rearmed
  PROVE  /\ tick' \in [Ticks -> TickType] /\ told' = 0
         /\ \A t \in Ticks : tick'[t].pc = tick[t].pc /\ tick'[t].due = tick[t].due
                             /\ tick'[t].same = tick[t].same /\ ~ tick'[t].fresh
BY DEF Rearmed, TickType

LEMMA PersonTyped ==
  ASSUME TodoAssumption, TodoTyped, Person
  PROVE  /\ row' \in RowType /\ tick' \in [Ticks -> TickType] /\ told' \in Nat
         /\ edits' \in 0 .. MaxEdits /\ hands' \in BOOLEAN /\ closed' \in 0 .. MaxRevision
         /\ UNCHANGED <<source, kind>>
<1>1. /\ row \in RowType /\ tick \in [Ticks -> TickType] /\ told \in Nat /\ hands \in BOOLEAN
      /\ closed \in 0 .. MaxRevision /\ edits \in 0 .. MaxEdits /\ row.cycle \in Revisions
  <2>1. row \in RowType => row.cycle \in Revisions
    BY DEF RowType
  <2>2. QED
    BY <2>1, TodoTypes DEF TodoTyped
<1>2. Edit /\ MaxEdits \in Nat /\ MaxRevision \in Nat
  BY DEF Person, StartTodo, Renew, Snooze, Shelve, CloseIt, Redate, Rewrite, Mute, Delete,
         TodoAssumption
<1>3. edits' \in 0 .. MaxEdits /\ UNCHANGED <<source, kind>>
  BY <1>1, <1>2 DEF Edit
<1>4. 0 \in 0 .. MaxRevision /\ row.cycle \in 0 .. MaxRevision
  BY <1>1, <1>2 DEF Revisions
<1>5. CASE StartTodo \/ Renew \/ Snooze
  <2>1. row' \in RowType
    <3>1. CASE StartTodo
      BY <1>1, <3>1 DEF StartTodo, RowType, Open
    <3>2. CASE Renew
      BY <1>1, <3>2 DEF Renew, RowType, Open
    <3>3. CASE Snooze
      BY <1>1, <3>3 DEF Snooze, RowType
    <3>4. QED
      BY <1>5, <3>1, <3>2, <3>3
  <2>2. Rearmed /\ hands' = TRUE /\ closed' = 0
    BY <1>5 DEF StartTodo, Renew, Snooze
  <2>3. QED
    BY <1>1, <1>3, <1>4, <2>1, <2>2, RearmedTicks
<1>6. CASE Shelve \/ CloseIt
  <2>1. row' \in RowType
    BY <1>1, <1>6 DEF Shelve, CloseIt, RowType
  <2>2. hands' = TRUE /\ closed' \in {0, row.cycle} /\ UNCHANGED <<told, tick>>
    BY <1>6 DEF Shelve, CloseIt
  <2>3. QED
    BY <1>1, <1>3, <1>4, <2>1, <2>2
<1>7. CASE Redate
  <2>1. row' \in RowType
    BY <1>1, <1>7, ZenonT(60) DEF Redate, RowType
  <2>2. Rearmed /\ hands' = TRUE /\ closed' = closed
    BY <1>7 DEF Redate
  <2>3. QED
    BY <1>1, <1>3, <1>4, <2>1, <2>2, RearmedTicks
<1>8. CASE Rewrite \/ Mute
  <2>1. row' \in RowType
    BY <1>1, <1>8, ZenonT(60) DEF Rewrite, Mute, RowType
  <2>2. closed' = closed /\ UNCHANGED <<told, tick>>
    BY <1>8 DEF Rewrite, Mute, ghosts
  <2>3. hands' = TRUE \/ hands' = hands
    BY <1>8 DEF Rewrite, Mute, ghosts
  <2>4. hands' \in BOOLEAN
    BY <1>1, <2>3, Zenon
  <2>5. QED
    BY <1>1, <1>3, <1>4, <2>1, <2>2, <2>4
<1>9. CASE Delete
  <2>1. row' \in RowType
    BY <1>9, IdleTyped DEF Delete
  <2>2. hands' = TRUE /\ closed' = 0 /\ told' = 0 /\ tick' \in [Ticks -> TickType]
    BY <1>1, <1>9, ZenonT(60) DEF Delete, TickType
  <2>3. QED
    BY <1>1, <1>3, <1>4, <2>1, <2>2
<1>10. QED
  BY <1>5, <1>6, <1>7, <1>8, <1>9 DEF Person

LEMMA ApplyTyped ==
  ASSUME TodoAssumption, TodoTyped, NEW c \in Consumers, Apply(c)
  PROVE  /\ row' \in RowType /\ tick' \in [Ticks -> TickType] /\ told' \in Nat
         /\ receipt' \in ReceiptType /\ hands' \in BOOLEAN /\ closed' \in 0 .. MaxRevision
         /\ consumer' \in [Consumers -> ConsumerType]
         /\ UNCHANGED <<history, acked, kind, edits>>
<1> DEFINE at == consumer[c].at
           cycle == history[at].cycle
<1>1. /\ row \in RowType /\ tick \in [Ticks -> TickType] /\ told \in Nat /\ hands \in BOOLEAN
      /\ closed \in 0 .. MaxRevision /\ receipt \in ReceiptType
      /\ consumer \in [Consumers -> ConsumerType] /\ history \in Seq(EventType)
  BY TodoTypes DEF TodoTyped
<1>2. consumer' \in [Consumers -> ConsumerType] /\ UNCHANGED <<history, acked, kind, edits>>
  BY <1>1 DEF Apply, ConsumerType
<1>3. at \in Revisions /\ at \in 1 .. Len(history)
  <2>1. consumer[c].pc # "idle" /\ consumer[c] \in ConsumerType /\ Len(history) \in Nat
    BY <1>1 DEF Apply
  <2>2. at \in Revisions /\ at <= Len(history)
    BY <2>1 DEF ConsumerType, TodoTyped, Fetched
  <2>3. QED
    BY <2>1, <2>2 DEF Revisions
<1>4. history[at] \in EventType
  BY <1>1, <1>3
<1>5. cycle \in Revisions /\ at \in 0 .. MaxRevision /\ 0 \in 0 .. MaxRevision
  BY <1>3, <1>4 DEF EventType, Revisions, TodoAssumption
<1>6. \/ UNCHANGED <<receipt, row, tick, ghosts>>
      \/ /\ receipt' = [revision |-> at, cycle |-> cycle]
         /\ Resolve(at, cycle) \/ Upsert(at, cycle)
  BY DEF Apply
<1> HIDE DEF at, cycle
<1>7. CASE UNCHANGED <<receipt, row, tick, ghosts>>
  BY <1>1, <1>2, <1>7 DEF ghosts
<1>8. ASSUME receipt' = [revision |-> at, cycle |-> cycle] PROVE receipt' \in ReceiptType
  BY <1>5, <1>8 DEF ReceiptType
<1>9. ASSUME Resolve(at, cycle)
      PROVE  row' \in RowType /\ UNCHANGED <<tick, told, hands, closed>>
  <2>1. row' \in RowType
    BY <1>1, <1>5, <1>9 DEF Resolve, RowType
  <2>2. QED
    BY <1>9, <2>1 DEF Resolve, ghosts
<1>10. ASSUME Upsert(at, cycle)
       PROVE  /\ row' \in RowType /\ tick' \in [Ticks -> TickType] /\ told' \in Nat
              /\ hands' \in BOOLEAN /\ closed' \in 0 .. MaxRevision
  <2>1. CASE row.status = "none"
    <3>1. /\ row' = [NoRow EXCEPT !.status = "pending", !.revision = at, !.cycle = cycle]
          /\ hands' = FALSE /\ closed' = 0 /\ Rearmed
      BY <1>10, <2>1 DEF Upsert
    <3>2. row' \in RowType
      BY <1>5, <3>1, IdleTyped DEF RowType, Open
    <3>3. tick' \in [Ticks -> TickType] /\ told' \in Nat /\ closed' \in 0 .. MaxRevision
      BY <1>1, <1>5, <3>1, RearmedTicks
    <3>4. QED
      BY <3>1, <3>2, <3>3
  <2>2. CASE row.status = "done" /\ ~ Protected(cycle)
    <3>1. /\ row' = [row EXCEPT !.status = "pending", !.revision = at, !.cycle = cycle,
                                !.notified = "null"]
          /\ UNCHANGED <<hands, closed>> /\ Rearmed
      BY <1>10, <2>2 DEF Upsert
    <3>2. row' \in RowType
      BY <1>1, <1>5, <3>1 DEF RowType, Open
    <3>3. tick' \in [Ticks -> TickType] /\ told' \in Nat
      BY <1>1, <3>1, RearmedTicks
    <3>4. QED
      BY <1>1, <3>1, <3>2, <3>3
  <2>3. CASE row.status # "none" /\ ~ (row.status = "done" /\ ~ Protected(cycle))
    <3>1. /\ row' = [row EXCEPT !.revision = at, !.cycle = cycle]
          /\ UNCHANGED <<tick, ghosts>>
      BY <1>10, <2>3 DEF Upsert
    <3>2. row' \in RowType
      BY <1>1, <1>5, <3>1 DEF RowType
    <3>3. QED
      BY <1>1, <3>1, <3>2 DEF ghosts
  <2>4. QED
    BY <2>1, <2>2, <2>3
<1>11. QED
  BY <1>1, <1>2, <1>6, <1>7, <1>8, <1>9, <1>10

LEMMA RemindTyped ==
  ASSUME TodoAssumption, TodoTyped, NEW t \in Ticks, Remind(t)
  PROVE  /\ row' \in RowType /\ tick' \in [Ticks -> TickType] /\ told' \in Nat
         /\ UNCHANGED <<source, kind, edits, hands, closed>>
<1>1. row \in RowType /\ tick \in [Ticks -> TickType] /\ told \in Nat
  BY TodoTypes DEF TodoTyped
<1>2. UNCHANGED <<source, kind, edits, hands, closed>>
  BY DEF Remind, Wake, Look, Claim, Confirmed, Refused, ReleaseClaim, FinishNotice, Stop, ghosts
<1>3. told' \in Nat
  <2>1. told' = told \/ told' = told + 1
    BY DEF Remind, Wake, Look, Claim, Confirmed, Refused, ReleaseClaim, FinishNotice, Stop, ghosts
  <2>2. QED
    BY <1>1, <2>1
<1>4. ASSUME NEW r \in RowType, NEW mark \in {"null", "past", "lost"}
      PROVE  After(t, r, mark) \in RowType
  BY DEF After, RowType
<1>5. [tick EXCEPT ![t] = IdleTick] \in [Ticks -> TickType]
  BY <1>1, IdleTyped
<1>6. CASE Wake(t)
  BY <1>1, <1>2, <1>3, <1>6 DEF Wake, RowType, Open
<1>7. CASE Look(t)
  <2>1. row.due \in Dues
    BY <1>1 DEF RowType
  <2>2. [pc |-> "claim", due |-> row.due, same |-> TRUE, fresh |-> FALSE] \in TickType
    BY <2>1 DEF TickType
  <2>3. QED
    BY <1>1, <1>2, <1>3, <1>7, <2>2 DEF Look
<1>8. CASE Claim(t)
  <2>1. tick[t].due \in Dues
    BY <1>1 DEF TickType
  <2>2. CASE MayClaim(t)
    <3>1. /\ row' = [row EXCEPT !.notified = t, !.dueTold = tick[t].due]
          /\ tick' = [tick EXCEPT ![t].pc = "send", ![t].fresh = TRUE]
      BY <1>8, <2>2 DEF Claim
    <3>2. row' \in RowType
      BY <1>1, <2>1, <3>1 DEF RowType
    <3>3. tick' \in [Ticks -> TickType]
      BY <1>1, <3>1, ZenonT(60) DEF TickType
    <3>4. QED
      BY <1>2, <1>3, <3>2, <3>3
  <2>3. CASE ~ MayClaim(t)
    BY <1>1, <1>2, <1>3, <1>5, <1>8, <2>3 DEF Claim
  <2>4. QED
    BY <2>2, <2>3
<1>9. CASE Confirmed(t)
  <2>1. [tick EXCEPT ![t].pc = "finish"] \in [Ticks -> TickType]
    BY <1>1 DEF TickType
  <2>2. row' \in {row, After(t, row, "past")}
        /\ tick' \in {[tick EXCEPT ![t].pc = "finish"], [tick EXCEPT ![t] = IdleTick]}
    BY <1>9 DEF Confirmed
  <2>3. QED
    BY <1>1, <1>2, <1>3, <1>4, <1>5, <2>1, <2>2
<1>10. CASE Refused(t)
  BY <1>1, <1>2, <1>3, <1>10 DEF Refused, TickType
<1>11. CASE ReleaseClaim(t) \/ Stop(t)
  <2>1. \E mark \in {"null", "past", "lost"} : row' = After(t, row, mark)
    BY <1>11 DEF ReleaseClaim, Stop
  <2>2. tick' = [tick EXCEPT ![t] = IdleTick]
    BY <1>11 DEF ReleaseClaim, Stop
  <2>3. QED
    BY <1>1, <1>2, <1>3, <1>4, <1>5, <2>1, <2>2
<1>12. CASE FinishNotice(t)
  <2> DEFINE r == IF row.notified = t /\ row.status \in Open THEN [row EXCEPT !.status = "done"]
                  ELSE row
  <2>1. r \in RowType
    BY <1>1 DEF RowType
  <2>2. row' = After(t, r, "past") /\ tick' = [tick EXCEPT ![t] = IdleTick]
    BY <1>12 DEF FinishNotice
  <2> HIDE DEF r
  <2>3. QED
    BY <1>1, <1>2, <1>3, <1>4, <1>5, <2>1, <2>2
<1>13. QED
  BY <1>6, <1>7, <1>8, <1>9, <1>10, <1>11, <1>12 DEF Remind

\* Taking up an event, acknowledging it, and stopping in between.
LEMMA QueueTyped ==
  ASSUME TodoAssumption, TodoTyped, NEW c \in Consumers, Fetch(c) \/ Ack(c) \/ GiveUp(c)
  PROVE  /\ acked' \subseteq Revisions /\ acked \subseteq acked'
         /\ consumer' \in [Consumers -> ConsumerType] /\ Fetched'
         /\ UNCHANGED <<history, receipt, row, tick, kind, edits, ghosts>>
<1>1. /\ acked \subseteq Revisions /\ consumer \in [Consumers -> ConsumerType]
      /\ consumer[c].at \in Revisions /\ Fetched
  <2>1. acked \subseteq Revisions /\ consumer \in [Consumers -> ConsumerType]
    BY TodoTypes DEF TodoTyped
  <2>2. QED
    BY <2>1 DEF ConsumerType, TodoTyped
<1>2. UNCHANGED <<history, receipt, row, tick, kind, edits, ghosts>>
  BY DEF Fetch, Ack, GiveUp
<1>3. CASE Fetch(c)
  <2>1. PICK r \in Revisions \ acked :
          /\ r <= Len(history) /\ \A q \in Revisions \ acked : r <= q
          /\ consumer' = [consumer EXCEPT ![c] = [pc |-> "apply", at |-> r]]
    BY <1>3 DEF Fetch
  <2>2. acked' = acked /\ consumer' \in [Consumers -> ConsumerType]
    BY <1>1, <1>3, <2>1 DEF Fetch, ConsumerType
  <2>3. \A q \in 1 .. (r - 1) : q \in acked
    BY <2>1 DEF Revisions, TodoAssumption
  <2>4. Fetched'
    BY <1>1, <1>2, <2>1, <2>2, <2>3 DEF Fetched
  <2>5. QED
    BY <1>1, <1>2, <2>2, <2>4
<1>4. CASE Ack(c) \/ GiveUp(c)
  <2>1. acked' \in {acked, acked \cup {consumer[c].at}}
    <3>1. consumer[c].pc \in {"idle", "apply", "ack"}
      BY <1>1 DEF ConsumerType
    <3>2. CASE Ack(c)
      BY <3>2 DEF Ack
    <3>3. CASE GiveUp(c)
      BY <3>1, <3>3 DEF GiveUp
    <3>4. QED
      BY <1>4, <3>2, <3>3
  <2>2. consumer' = [consumer EXCEPT ![c] = IdleConsumer]
    BY <1>4 DEF Ack, GiveUp
  <2>3. acked' \subseteq Revisions /\ acked \subseteq acked'
    BY <1>1, <2>1
  <2>4. consumer' \in [Consumers -> ConsumerType]
    BY <1>1, <2>2, IdleTyped
  <2>5. Fetched'
    BY <1>1, <1>2, <2>2, <2>3 DEF Fetched, IdleConsumer
  <2>6. QED
    BY <1>2, <2>3, <2>4, <2>5
<1>5. QED
  BY <1>3, <1>4

LEMMA TodoTypedStep ==
  ASSUME TodoAssumption, TodoTyped, [TodoNext]_todoVars PROVE TodoTyped'
<1>1. /\ history \in Seq(EventType) /\ Len(history) <= MaxRevision /\ acked \subseteq Revisions
      /\ consumer \in [Consumers -> ConsumerType] /\ receipt \in ReceiptType /\ row \in RowType
      /\ tick \in [Ticks -> TickType] /\ kind \in Kinds /\ edits \in 0 .. MaxEdits /\ told \in Nat
      /\ hands \in BOOLEAN /\ closed \in 0 .. MaxRevision
  BY TodoTypes DEF TodoTyped
<1>2. ASSUME /\ history' \in Seq(EventType) /\ Len(history') <= MaxRevision
             /\ acked' \subseteq Revisions /\ consumer' \in [Consumers -> ConsumerType]
             /\ receipt' \in ReceiptType /\ row' \in RowType /\ tick' \in [Ticks -> TickType]
             /\ kind' \in Kinds /\ edits' \in 0 .. MaxEdits /\ told' \in Nat
             /\ hands' \in BOOLEAN /\ closed' \in 0 .. MaxRevision
      PROVE  TodoTypeOK'
  BY <1>2 DEF TodoTypeOK, EventType, ConsumerType, ReceiptType, RowType, TickType, Revisions, Open
<1>3. ASSUME history' = history PROVE Chronicle'
  BY <1>3 DEF TodoTyped, Chronicle, Resolved
<1>4. ASSUME UNCHANGED <<history, consumer, acked>> PROVE Fetched'
  BY <1>4 DEF TodoTyped, Fetched
<1>5. CASE Happen
  <2>1. UNCHANGED <<acked, consumer, receipt, row, tick, kind, edits, told, hands, closed>>
    BY <1>5 DEF Happen, ghosts
  <2>2. history' \in Seq(EventType) /\ Len(history') <= MaxRevision /\ Chronicle'
    BY <1>5, HappenTyped
  <2>3. Fetched'
    <3>1. Len(history) \in Nat /\ Len(history') = Len(history) + 1
      BY <1>1, <1>5 DEF Happen
    <3>2. \A c \in Consumers : consumer[c].at \in Nat
      BY <1>1 DEF ConsumerType, Revisions
    <3>3. QED
      BY <2>1, <3>1, <3>2 DEF TodoTyped, Fetched
  <2>4. TodoTypeOK'
    BY <1>1, <1>2, <2>1, <2>2
  <2>5. QED
    BY <2>2, <2>3, <2>4 DEF TodoTyped
<1>6. CASE Person
  <2>1. UNCHANGED <<history, acked, consumer, receipt, kind>>
    BY <1>6, PersonTyped DEF source
  <2>2. /\ row' \in RowType /\ tick' \in [Ticks -> TickType] /\ told' \in Nat
        /\ edits' \in 0 .. MaxEdits /\ hands' \in BOOLEAN /\ closed' \in 0 .. MaxRevision
    BY <1>6, PersonTyped
  <2>3. QED
    BY <1>1, <1>2, <1>3, <1>4, <2>1, <2>2 DEF TodoTyped
<1>7. ASSUME NEW c \in Consumers, Apply(c) PROVE TodoTyped'
  <2>1. /\ row' \in RowType /\ tick' \in [Ticks -> TickType] /\ told' \in Nat
        /\ receipt' \in ReceiptType /\ hands' \in BOOLEAN /\ closed' \in 0 .. MaxRevision
        /\ consumer' \in [Consumers -> ConsumerType]
        /\ UNCHANGED <<history, acked, kind, edits>>
    BY <1>7, ApplyTyped
  <2>2. Fetched'
    BY <1>1, <1>7, <2>1 DEF Apply, TodoTyped, Fetched, ConsumerType
  <2>3. QED
    BY <1>1, <1>2, <1>3, <2>1, <2>2 DEF TodoTyped
<1>8. ASSUME NEW c \in Consumers, Fetch(c) \/ Ack(c) \/ GiveUp(c) PROVE TodoTyped'
  <2>1. /\ acked' \subseteq Revisions /\ consumer' \in [Consumers -> ConsumerType] /\ Fetched'
        /\ UNCHANGED <<history, receipt, row, tick, kind, edits, ghosts>>
    BY <1>8, QueueTyped
  <2>2. QED
    BY <1>1, <1>2, <1>3, <2>1 DEF TodoTyped, ghosts
<1>9. ASSUME NEW t \in Ticks, Remind(t) PROVE TodoTyped'
  <2>1. /\ row' \in RowType /\ tick' \in [Ticks -> TickType] /\ told' \in Nat
        /\ UNCHANGED <<history, acked, consumer, receipt, kind, edits, hands, closed>>
    BY <1>9, RemindTyped DEF source
  <2>2. QED
    BY <1>1, <1>2, <1>3, <1>4, <2>1 DEF TodoTyped
<1>10. CASE UNCHANGED todoVars
  BY <1>1, <1>2, <1>3, <1>4, <1>10 DEF TodoTyped, todoVars
<1>11. QED
  BY <1>5, <1>6, <1>7, <1>8, <1>9, <1>10 DEF TodoNext, Consume

\* The variables keep their types.
THEOREM TodoTypeCorrect == ASSUME TodoAssumption PROVE TodoSpec => []TodoTypeOK
<1>1. TodoInit => TodoTyped
  BY InitTodoTyped
<1>2. TodoTyped /\ [TodoNext]_todoVars => TodoTyped'
  BY TodoTypedStep
<1>3. TodoTyped => TodoTypeOK
  BY DEF TodoTyped
<1>4. QED
  BY <1>1, <1>2, <1>3, PTL DEF TodoSpec

-----------------------------------------------------------------------------
(* The row follows the case and the person.                                 *)

\* The receipt is of the newest recorded event, what was acknowledged or is
\* about to be is recorded, and the row carries the revision of the receipt.
Heard ==
  /\ receipt.revision <= Len(history)
  /\ receipt.revision > 0 => receipt.cycle = history[receipt.revision].cycle
  /\ receipt.revision = 0 => receipt.cycle = 1
  /\ \A q \in acked : q <= receipt.revision
  /\ \A c \in Consumers : consumer[c].pc = "ack" => consumer[c].at <= receipt.revision
  /\ row.status # "none" =>
       row.revision = receipt.revision /\ row.revision > 0 /\ row.cycle = receipt.cycle

\* Without a receipt there is no row but one the person has deleted; a row of
\* a quality case that nobody touched is open or done; only notices are
\* finished by a tick; and nothing is closed in a cycle still to come.
Obeyed ==
  /\ closed <= receipt.cycle
  /\ row.status = "none" => closed = 0
  /\ row.status = "none" /\ ~ hands => receipt.revision = 0
  /\ kind = "code" /\ ~ hands => row.status \in {"none", "pending", "done"}
  /\ kind = "code" /\ ~ hands => ~ row.human
  /\ \A t \in Ticks : tick[t].pc = "finish" => kind = "notice"

\* An event that is applied is either recorded already, or the next one.
LEMMA NextIsApplied ==
  ASSUME TodoAssumption, TodoTyped, Heard, NEW c \in Consumers, Apply(c),
         NEW r, r = consumer[c].at, NEW cycle, cycle = history[r].cycle
  PROVE  /\ r \in 1 .. Len(history) /\ cycle \in Revisions
         /\ \/ r <= receipt.revision /\ UNCHANGED <<receipt, row, tick, ghosts>>
            \/ /\ r = receipt.revision + 1 /\ receipt.cycle <= cycle
               /\ receipt' = [revision |-> r, cycle |-> cycle]
               /\ IF Resolved(r) THEN Resolve(r, cycle) ELSE Upsert(r, cycle)
<1>1. /\ receipt \in ReceiptType /\ history \in Seq(EventType) /\ row \in RowType
      /\ consumer[c] \in ConsumerType /\ consumer[c].pc # "idle" /\ Len(history) \in Nat
  BY TodoTypes DEF TodoTyped, Apply
<1>2. r \in Nat /\ r >= 1 /\ r <= Len(history)
  BY <1>1 DEF ConsumerType, Revisions, TodoTyped, Fetched
<1>3. \A n \in 1 .. Len(history) : history[n] \in EventType
  BY <1>1
<1>4. /\ cycle \in Revisions /\ cycle \in Nat /\ cycle >= 1
      /\ receipt.revision \in Nat /\ receipt.cycle \in Nat
      /\ row.revision \in Nat /\ row.cycle \in Nat
  BY <1>1, <1>2, <1>3, SMTT(40) DEF ReceiptType, EventType, RowType, Revisions
<1>5. r > receipt.revision => r = receipt.revision + 1
  <2> SUFFICES ASSUME r > receipt.revision + 1 PROVE FALSE
    BY <1>2, <1>4
  <2>1. r - 1 \in 1 .. (r - 1) /\ r - 1 > receipt.revision
    BY <1>2, <1>4, SMTT(40)
  <2>2. r - 1 \in acked
    BY <1>1, <2>1 DEF TodoTyped, Fetched
  <2>3. r - 1 <= receipt.revision
    BY <2>2 DEF Heard
  <2>4. QED
    BY <1>2, <1>4, <2>1, <2>3
<1>6. r > receipt.revision => receipt.cycle <= cycle
  <2> SUFFICES ASSUME r > receipt.revision PROVE receipt.cycle <= cycle
    OBVIOUS
  <2>1. CASE receipt.revision = 0
    BY <1>4, <2>1 DEF Heard
  <2>2. CASE receipt.revision > 0
    <3>1. receipt.revision \in 1 .. Len(history) /\ r \in 1 .. Len(history)
      BY <1>1, <1>2, <1>4, <2>2
    <3>2. history[receipt.revision].cycle <= history[r].cycle
      BY <1>2, <1>4, <3>1 DEF TodoTyped, Chronicle
    <3>3. QED
      BY <2>2, <3>2 DEF Heard
  <2>3. QED
    BY <1>4, <2>1, <2>2
<1>7. IsStale(r, cycle) <=> r <= receipt.revision
  <2>1. Larger(IF row.status # "none" THEN row.revision ELSE 0, receipt.revision) = receipt.revision
    BY <1>4 DEF Heard, Larger
  <2>2. receipt.cycle >= 1
    BY <1>1 DEF ReceiptType, Revisions
  <2>3. Larger(IF row.status # "none" THEN row.cycle ELSE 1, receipt.cycle) = receipt.cycle
    BY <1>4, <2>2 DEF Heard, Larger
  <2>4. IsStale(r, cycle) <=> r <= receipt.revision \/ cycle < receipt.cycle
    BY <2>1, <2>3 DEF IsStale
  <2>5. QED
    BY <1>2, <1>4, <1>6, <2>4
<1>8. \/ IsStale(r, cycle) /\ UNCHANGED <<receipt, row, tick, ghosts>>
      \/ /\ ~ IsStale(r, cycle) /\ receipt' = [revision |-> r, cycle |-> cycle]
         /\ IF Resolved(r) THEN Resolve(r, cycle) ELSE Upsert(r, cycle)
  BY DEF Apply
<1>9. CASE IsStale(r, cycle)
  <2>1. r <= receipt.revision /\ UNCHANGED <<receipt, row, tick, ghosts>>
    BY <1>7, <1>8, <1>9
  <2>2. QED
    BY <1>1, <1>2, <1>4, <2>1
<1>10. CASE ~ IsStale(r, cycle)
  <2>1. r > receipt.revision
    BY <1>2, <1>4, <1>7, <1>10
  <2>2. QED
    BY <1>1, <1>2, <1>4, <1>5, <1>6, <1>8, <1>10, <2>1
<1>11. QED
  BY <1>9, <1>10

\* What a tick does to the row, but for its claim.
LEMMA RemindRow ==
  ASSUME TodoTyped, NEW t \in Ticks, Remind(t)
  PROVE  /\ row'.revision = row.revision /\ row'.cycle = row.cycle /\ row'.human = row.human
         /\ \/ row'.status = row.status
            \/ row.status = "snoozed" /\ row'.status = "pending"
            \/ row.status \in Open /\ row'.status = "done" /\ tick[t].pc = "finish"
<1>1. row \in RowType
  BY TodoTypes DEF TodoTyped
<1>2. ASSUME NEW r \in RowType, NEW mark
      PROVE  /\ After(t, r, mark).revision = r.revision /\ After(t, r, mark).cycle = r.cycle
             /\ After(t, r, mark).human = r.human /\ After(t, r, mark).status = r.status
  BY DEF After, RowType
<1>3. CASE Look(t) \/ Refused(t) \/ Claim(t) \/ Wake(t)
  BY <1>1, <1>3 DEF Look, Refused, Claim, Wake, RowType
<1>4. CASE Confirmed(t)
  BY <1>1, <1>2, <1>4 DEF Confirmed
<1>5. CASE ReleaseClaim(t) \/ Stop(t)
  BY <1>1, <1>2, <1>5 DEF ReleaseClaim, Stop
<1>6. CASE FinishNotice(t)
  <2>1. CASE row.notified = t /\ row.status \in Open
    <3> DEFINE r == [row EXCEPT !.status = "done"]
    <3>1. r \in RowType /\ r.revision = row.revision /\ r.cycle = row.cycle /\ r.human = row.human
          /\ r.status = "done"
      BY <1>1 DEF RowType
    <3>2. row' = After(t, r, "past") /\ tick[t].pc = "finish"
      BY <1>6, <2>1 DEF FinishNotice
    <3> HIDE DEF r
    <3>3. QED
      BY <1>2, <2>1, <3>1, <3>2
  <2>2. CASE ~ (row.notified = t /\ row.status \in Open)
    <3>1. row' = After(t, row, "past")
      BY <1>6, <2>2 DEF FinishNotice
    <3>2. QED
      BY <1>1, <1>2, <3>1
  <2>3. QED
    BY <2>1, <2>2
<1>7. QED
  BY <1>3, <1>4, <1>5, <1>6 DEF Remind

\* What the person does to it.
LEMMA PersonRow ==
  ASSUME TodoTyped, Person
  PROVE  /\ row.status # "none"
         /\ \/ /\ row'.status = "none" /\ closed' = 0
            \/ /\ row'.status # "none" /\ row'.revision = row.revision /\ row'.cycle = row.cycle
               /\ \/ closed' = 0
                  \/ closed' = closed /\ row'.status = row.status
                  \/ closed' = row.cycle /\ row'.status \in {"done", "dropped"}
         /\ \/ hands' = TRUE
            \/ /\ hands' = hands /\ row'.human = row.human /\ row'.status = row.status
<1>1. row \in RowType
  BY TodoTypes DEF TodoTyped
<1>2. row.status # "none"
  BY DEF Person, Edit, StartTodo, Renew, Snooze, Shelve, CloseIt, Redate, Rewrite, Mute, Delete
<1>3. CASE StartTodo \/ Renew \/ Snooze \/ Shelve
  BY <1>1, <1>2, <1>3 DEF StartTodo, Renew, Snooze, Shelve, RowType
<1>4. CASE CloseIt
  BY <1>1, <1>2, <1>4 DEF CloseIt, RowType
<1>5. CASE Redate \/ Rewrite
  <2>1. hands' = TRUE /\ closed' = closed
    BY <1>5 DEF Redate, Rewrite
  <2>2. row'.status = row.status /\ row'.revision = row.revision /\ row'.cycle = row.cycle
    BY <1>1, <1>5 DEF Redate, Rewrite, RowType
  <2>3. QED
    BY <1>2, <2>1, <2>2
<1>6. CASE Mute
  <2>1. hands' = hands /\ closed' = closed
    BY <1>6 DEF Mute, ghosts
  <2>2. row'.status = row.status /\ row'.revision = row.revision /\ row'.cycle = row.cycle
        /\ row'.human = row.human
    BY <1>1, <1>6 DEF Mute, RowType
  <2>3. QED
    BY <1>2, <2>1, <2>2
<1>7. CASE Delete
  BY <1>2, <1>7 DEF Delete, NoRow
<1>8. QED
  BY <1>3, <1>4, <1>5, <1>6, <1>7 DEF Person

\* What a new event does to it.
LEMMA EventRow ==
  ASSUME TodoTyped, NEW r \in Nat, NEW cycle \in Nat, Resolve(r, cycle) \/ Upsert(r, cycle)
  PROVE  /\ row'.status # "none" => row'.revision = r /\ row'.cycle = cycle
         /\ \/ UNCHANGED <<hands, closed>> /\ row'.human = row.human
            \/ /\ row.status = "none" /\ row'.status = "pending" /\ ~ row'.human
               /\ hands' = FALSE /\ closed' = 0 /\ Upsert(r, cycle)
         /\ row.status = "none" /\ Resolve(r, cycle) => row'.status = "none"
<1>1. row \in RowType
  BY TodoTypes DEF TodoTyped
<1>2. CASE Resolve(r, cycle)
  BY <1>1, <1>2 DEF Resolve, ghosts, RowType
<1>3. CASE Upsert(r, cycle) /\ row.status = "none"
  BY <1>3 DEF Upsert, Resolve, NoRow
<1>4. CASE Upsert(r, cycle) /\ row.status # "none"
  <2>1. row'.revision = r /\ row'.cycle = cycle /\ row'.human = row.human
    BY <1>1, <1>4 DEF Upsert, RowType
  <2>2. UNCHANGED <<hands, closed>>
    BY <1>4 DEF Upsert, ghosts
  <2>3. QED
    BY <1>4, <2>1, <2>2
<1>5. QED
  BY <1>2, <1>3, <1>4

LEMMA HeardStep ==
  ASSUME TodoAssumption, TodoTyped, Heard, [TodoNext]_todoVars PROVE Heard'
<1>1. /\ receipt \in ReceiptType /\ history \in Seq(EventType) /\ row \in RowType
      /\ consumer \in [Consumers -> ConsumerType] /\ acked \subseteq Revisions
      /\ Len(history) \in Nat /\ receipt.revision \in Nat
  <2>1. receipt \in ReceiptType /\ history \in Seq(EventType)
    BY TodoTypes DEF TodoTyped
  <2>2. receipt.revision \in Nat /\ Len(history) \in Nat
    BY <2>1 DEF ReceiptType
  <2>3. QED
    BY <2>1, <2>2, TodoTypes DEF TodoTyped
<1>2. CASE UNCHANGED <<history, receipt, row, acked, consumer>>
  BY <1>2 DEF Heard
<1>3. CASE Happen
  <2>1. UNCHANGED <<acked, consumer, receipt, row>>
    BY <1>3 DEF Happen
  <2>2. /\ Len(history') = Len(history) + 1
        /\ \A n \in 1 .. Len(history) : history'[n] = history[n]
    BY <1>1, <1>3 DEF Happen
  <2>3. receipt.revision > 0 => receipt.revision \in 1 .. Len(history)
    BY <1>1 DEF Heard
  <2>4. QED
    BY <1>1, <2>1, <2>2, <2>3 DEF Heard
<1>4. ASSUME UNCHANGED <<history, receipt, acked, consumer>>,
             \/ row'.status = "none"
             \/ row.status # "none" /\ row'.revision = row.revision /\ row'.cycle = row.cycle
      PROVE  Heard'
  BY <1>4 DEF Heard
<1>5. CASE Person
  <2>1. UNCHANGED <<history, receipt, acked, consumer>>
    BY <1>5, PersonTyped DEF source
  <2>2. QED
    BY <1>4, <1>5, <2>1, PersonRow
<1>6. ASSUME NEW c \in Consumers, Fetch(c) \/ Ack(c) \/ GiveUp(c) PROVE Heard'
  <2>1. UNCHANGED <<history, receipt, row>>
    BY <1>6, QueueTyped
  <2>2. consumer[c] \in ConsumerType
    BY <1>1
  <2>3. acked' = acked \/ (consumer[c].pc = "ack" /\ acked' = acked \cup {consumer[c].at})
    <3>1. consumer[c].pc \in {"idle", "apply", "ack"}
      BY <2>2 DEF ConsumerType
    <3>2. CASE Fetch(c)
      BY <3>2 DEF Fetch
    <3>3. CASE Ack(c)
      BY <3>3 DEF Ack
    <3>4. CASE GiveUp(c)
      BY <3>1, <3>4 DEF GiveUp
    <3>5. QED
      BY <1>6, <3>2, <3>3, <3>4
  <2>4. \A q \in acked' : q <= receipt.revision
    BY <2>2, <2>3 DEF Heard
  <2>5. \A d \in Consumers : consumer'[d].pc = "ack" =>
          consumer[d].pc = "ack" /\ consumer'[d] = consumer[d]
    <3>1. CASE Fetch(c)
      <4>1. \E n \in Revisions : consumer' = [consumer EXCEPT ![c] = [pc |-> "apply", at |-> n]]
        BY <3>1 DEF Fetch
      <4>2. QED
        BY <1>1, <4>1
    <3>2. CASE Ack(c) \/ GiveUp(c)
      <4>1. consumer' = [consumer EXCEPT ![c] = IdleConsumer]
        BY <3>2 DEF Ack, GiveUp
      <4>2. QED
        BY <1>1, <4>1 DEF IdleConsumer
    <3>3. QED
      BY <1>6, <3>1, <3>2
  <2>6. QED
    BY <2>1, <2>4, <2>5 DEF Heard
<1>7. ASSUME NEW c \in Consumers, Apply(c) PROVE Heard'
  <2> DEFINE r == consumer[c].at
             cycle == history[r].cycle
  <2>1. /\ r \in 1 .. Len(history) /\ cycle \in Revisions
        /\ \/ r <= receipt.revision /\ UNCHANGED <<receipt, row, tick, ghosts>>
           \/ /\ r = receipt.revision + 1 /\ receipt.cycle <= cycle
              /\ receipt' = [revision |-> r, cycle |-> cycle]
              /\ IF Resolved(r) THEN Resolve(r, cycle) ELSE Upsert(r, cycle)
    BY <1>7, NextIsApplied
  <2>2. /\ UNCHANGED <<history, acked>>
        /\ consumer' = [consumer EXCEPT ![c].pc = "ack"]
    BY <1>7 DEF Apply
  <2>3. \A d \in Consumers : consumer'[d].at = consumer[d].at
        /\ (consumer'[d].pc = "ack" => d = c \/ consumer[d].pc = "ack")
    BY <1>1, <2>2 DEF ConsumerType
  <2>4. \A d \in Consumers : consumer[d].at \in Nat
    BY <1>1 DEF ConsumerType, Revisions
  <2>5. r \in Nat /\ r >= 1 /\ cycle \in Nat
    BY <1>1, <2>1 DEF Revisions
  <2>6. \A q \in acked : q \in Nat
    BY <1>1 DEF Revisions
  <2>7. CASE r <= receipt.revision /\ UNCHANGED <<receipt, row, tick, ghosts>>
    <3>1. \A d \in Consumers : consumer'[d].pc = "ack" => consumer'[d].at <= receipt.revision
      BY <2>3, <2>7 DEF Heard
    <3>2. QED
      BY <2>2, <2>7, <3>1 DEF Heard
  <2>8. CASE /\ r = receipt.revision + 1 /\ receipt.cycle <= cycle
             /\ receipt' = [revision |-> r, cycle |-> cycle]
             /\ IF Resolved(r) THEN Resolve(r, cycle) ELSE Upsert(r, cycle)
    <3>1. receipt'.revision = r /\ receipt'.cycle = cycle /\ r > receipt.revision
      BY <1>1, <2>8
    <3>2. \A d \in Consumers : consumer'[d].pc = "ack" => consumer'[d].at <= r
      BY <1>1, <2>3, <2>4, <2>5, <3>1 DEF Heard
    <3>3. \A q \in acked : q <= r
      BY <1>1, <2>5, <2>6, <3>1 DEF Heard
    <3>4. row'.status # "none" => row'.revision = r /\ row'.cycle = cycle
      BY <2>5, <2>8, EventRow
    <3>5. QED
      BY <2>1, <2>2, <2>5, <3>1, <3>2, <3>3, <3>4 DEF Heard
  <2>9. QED
    BY <2>1, <2>7, <2>8
<1>8. ASSUME NEW t \in Ticks, Remind(t) PROVE Heard'
  <2>1. UNCHANGED <<history, receipt, acked, consumer>>
    BY <1>8, RemindTyped DEF source
  <2>2. /\ row'.revision = row.revision /\ row'.cycle = row.cycle
        /\ row.status = "none" => row'.status = "none"
    BY <1>8, RemindRow DEF Open
  <2>3. QED
    BY <1>4, <2>1, <2>2
<1>9. QED
  BY <1>2, <1>3, <1>5, <1>6, <1>7, <1>8 DEF TodoNext, Consume, todoVars

-----------------------------------------------------------------------------
\* The first and the last part of NewestWins.
ByTheCase ==
  receipt.revision > 0 /\ kind = "code" /\ ~ hands =>
    (row.status \in Open <=> ~ Resolved(receipt.revision))
StaysClosed == closed > 0 /\ row.status \notin {"done", "dropped"} => receipt.cycle > closed

Follows == Obeyed /\ ByTheCase /\ StaysClosed

LEMMA FollowsEvent ==
  ASSUME TodoAssumption, TodoTyped, Heard, Follows,
         NEW c \in Consumers, Apply(c), UNCHANGED kind
  PROVE  Follows'
<1> DEFINE r == consumer[c].at
           cycle == history[r].cycle
<1>1. /\ receipt \in ReceiptType /\ history \in Seq(EventType) /\ row \in RowType
      /\ receipt.revision \in Nat /\ receipt.cycle \in Nat /\ closed \in Nat
      /\ Len(history) \in Nat /\ tick \in [Ticks -> TickType]
  <2>1. receipt \in ReceiptType /\ history \in Seq(EventType) /\ closed \in 0 .. MaxRevision
    BY TodoTypes DEF TodoTyped
  <2>2. /\ receipt.revision \in Nat /\ Len(history) \in Nat
        /\ receipt.cycle \in Nat /\ closed \in Nat
    BY <2>1 DEF ReceiptType, Revisions
  <2>3. QED
    BY <2>1, <2>2, TodoTypes DEF TodoTyped
<1>2. /\ r \in 1 .. Len(history) /\ cycle \in Revisions
      /\ \/ r <= receipt.revision /\ UNCHANGED <<receipt, row, tick, ghosts>>
         \/ /\ r = receipt.revision + 1 /\ receipt.cycle <= cycle
            /\ receipt' = [revision |-> r, cycle |-> cycle]
            /\ IF Resolved(r) THEN Resolve(r, cycle) ELSE Upsert(r, cycle)
  BY NextIsApplied
<1>3. UNCHANGED <<history, kind>>
  BY DEF Apply
<1>4. r \in Nat /\ r >= 1 /\ cycle \in Nat
  BY <1>1, <1>2 DEF Revisions
<1>5. CASE UNCHANGED <<receipt, row, tick, ghosts>>
  BY <1>3, <1>5 DEF Follows, Obeyed, ByTheCase, StaysClosed, Resolved, ghosts
<1>6. CASE /\ r = receipt.revision + 1 /\ receipt.cycle <= cycle
           /\ receipt' = [revision |-> r, cycle |-> cycle]
           /\ IF Resolved(r) THEN Resolve(r, cycle) ELSE Upsert(r, cycle)
  <2>1. /\ receipt'.revision = r /\ receipt'.cycle = cycle /\ receipt'.revision > 0
        /\ (Resolved(receipt.revision)' <=> history[r].type = "resolved")
    BY <1>3, <1>4, <1>6 DEF Resolved
  <2> HIDE DEF r, cycle
  <2>q. Resolved(r) <=> history[r].type = "resolved"
    BY DEF Resolved
  <2>t. \A t \in Ticks : tick'[t].pc = tick[t].pc
    <3>1. tick' = tick \/ Rearmed
      BY <1>6 DEF Resolve, Upsert
    <3>2. QED
      BY <1>1, <3>1, RearmedTicks
  <2>2. CASE Resolved(r)
    <3>1. Resolve(r, cycle)
      BY <1>6, <2>2
    <3>2. UNCHANGED <<hands, closed>>
      BY <3>1 DEF Resolve, ghosts
    <3>3. /\ row'.human = row.human
          /\ row.status = "none" => row'.status = "none"
          /\ row.status \in Open /\ ~ row.human => row'.status = "done"
          /\ row'.status = row.status \/ row'.status = "done"
      <4>1. CASE row.status = "none"
        BY <3>1, <4>1 DEF Resolve, Open
      <4>2. CASE row.status # "none"
        <5> DEFINE status == IF row.status \in Open /\ ~ row.human THEN "done" ELSE row.status
        <5>1. row' = [row EXCEPT !.revision = r, !.cycle = cycle, !.status = status]
          BY <3>1, <4>2 DEF Resolve
        <5> HIDE DEF status
        <5>2. row'.human = row.human /\ row'.status = status
          BY <1>1, <5>1 DEF RowType
        <5>3. QED
          BY <4>2, <5>2 DEF status
      <4>3. QED
        BY <4>1, <4>2
    <3>4. row.status = "none" => hands
      <4> SUFFICES ASSUME row.status = "none", ~ hands PROVE FALSE
        OBVIOUS
      <4>1. receipt.revision = 0
        BY DEF Follows, Obeyed
      <4>2. r = 1
        BY <1>6, <4>1
      <4>3. QED
        BY <1>1, <1>2, <2>2, <4>2 DEF TodoTyped, Chronicle
    <3>5. Obeyed'
      <4>1. closed' <= receipt'.cycle
        BY <1>1, <1>4, <1>6, <2>1, <3>2 DEF Follows, Obeyed
      <4>2. (row'.status = "none" => closed' = 0 /\ hands')
        BY <3>2, <3>3, <3>4 DEF Follows, Obeyed
      <4>3. kind = "code" /\ ~ hands => row'.status \in {"none", "pending", "done"} /\ ~ row'.human
        BY <3>3 DEF Follows, Obeyed
      <4>4. QED
        BY <1>3, <2>t, <3>2, <4>1, <4>2, <4>3 DEF Follows, Obeyed
    <3>6. ByTheCase'
      <4>1. kind = "code" /\ ~ hands => row'.status \notin Open
        BY <3>3 DEF Follows, Obeyed, Open
      <4>2. QED
        BY <1>3, <2>1, <2>2, <2>q, <3>2, <4>1 DEF ByTheCase
    <3>7. StaysClosed'
      <4>1. row'.status \notin {"done", "dropped"} => row.status \notin {"done", "dropped"}
        BY <3>3
      <4>2. QED
        BY <1>1, <1>4, <1>6, <2>1, <3>2, <4>1 DEF Follows, StaysClosed
    <3>8. QED
      BY <3>5, <3>6, <3>7 DEF Follows
  <2>3. CASE ~ Resolved(r) /\ row.status = "none"
    <3>1. /\ row'.status = "pending" /\ ~ row'.human /\ hands' = FALSE /\ closed' = 0
      BY <1>6, <2>3 DEF Upsert, NoRow
    <3>2. Obeyed'
      <4>1. closed' <= receipt'.cycle
        BY <1>4, <2>1, <3>1
      <4>2. QED
        BY <1>3, <2>t, <3>1, <4>1 DEF Follows, Obeyed
    <3>3. ByTheCase' /\ StaysClosed'
      BY <2>1, <2>3, <2>q, <3>1 DEF ByTheCase, StaysClosed, Open
    <3>4. QED
      BY <3>2, <3>3 DEF Follows
  <2>4. CASE ~ Resolved(r) /\ row.status # "none"
    <3>1. Upsert(r, cycle)
      BY <1>6, <2>4
    <3>2. /\ row'.human = row.human
          /\ row'.status = IF row.status = "done" /\ ~ Protected(cycle) THEN "pending" ELSE row.status
      BY <1>1, <2>4, <3>1, ZenonT(60) DEF Upsert, RowType
    <3>3. UNCHANGED <<hands, closed>>
      BY <2>4, <3>1 DEF Upsert, ghosts
    <3>4. row.cycle = receipt.cycle /\ receipt.revision > 0
      BY <2>4 DEF Heard
    <3>5. Obeyed'
      <4>1. closed' <= receipt'.cycle
        BY <1>1, <1>4, <1>6, <2>1, <3>3 DEF Follows, Obeyed
      <4>2. row'.status # "none"
        BY <2>4, <3>2
      <4>3. kind = "code" /\ ~ hands => row'.status \in {"none", "pending", "done"} /\ ~ row'.human
        BY <3>2 DEF Follows, Obeyed
      <4>4. QED
        BY <1>3, <2>t, <3>3, <4>1, <4>2, <4>3 DEF Follows, Obeyed
    <3>6. ByTheCase'
      <4>1. SUFFICES ASSUME kind = "code", ~ hands PROVE row'.status = "pending"
        BY <1>3, <2>1, <2>4, <2>q, <3>3, <4>1 DEF ByTheCase, Open
      <4>2. row.status \in {"pending", "done"} /\ ~ row.human
        BY <2>4, <4>1 DEF Follows, Obeyed
      <4>3. CASE row.status = "pending"
        BY <3>2, <4>3
      <4>4. CASE row.status = "done"
        <5>1. Resolved(receipt.revision)
          BY <3>4, <4>1, <4>4 DEF Follows, ByTheCase, Open
        <5>2. receipt.revision \in 1 .. Len(history) /\ receipt.revision < r
          BY <1>1, <1>2, <1>6, <3>4
        <5>3. history[receipt.revision].cycle < history[r].cycle
          BY <1>2, <5>1, <5>2 DEF TodoTyped, Chronicle
        <5>4. receipt.cycle < cycle
          BY <3>4, <5>3 DEF Heard, cycle
        <5>5. ~ (cycle <= row.cycle)
          BY <1>1, <1>4, <3>4, <5>4
        <5>6. ~ Protected(cycle)
          BY <4>2, <4>4, <5>5 DEF Protected
        <5>7. QED
          BY <3>2, <4>4, <5>6
      <4>5. QED
        BY <4>2, <4>3, <4>4
    <3>7. StaysClosed'
      <4>1. SUFFICES ASSUME closed > 0, row'.status \notin {"done", "dropped"} PROVE cycle > closed
        BY <2>1, <3>3 DEF StaysClosed
      <4>2. CASE row.status = "done" /\ ~ Protected(cycle)
        <5>1. ~ (cycle <= receipt.cycle)
          BY <3>4, <4>2 DEF Protected
        <5>2. closed <= receipt.cycle
          BY DEF Follows, Obeyed
        <5>3. QED
          BY <1>1, <1>4, <5>1, <5>2
      <4>3. CASE row'.status = row.status
        <5>1. receipt.cycle > closed
          BY <4>1, <4>3 DEF Follows, StaysClosed
        <5>2. QED
          BY <1>1, <1>4, <1>6, <5>1
      <4>4. QED
        BY <3>2, <4>2, <4>3
    <3>8. QED
      BY <3>5, <3>6, <3>7 DEF Follows
  <2>5. QED
    BY <2>2, <2>3, <2>4
<1>7. QED
  BY <1>2, <1>5, <1>6

LEMMA PersonTicks ==
  ASSUME TodoTyped, Person PROVE \A t \in Ticks : tick'[t].pc = tick[t].pc
<1>1. tick \in [Ticks -> TickType]
  BY TodoTypes DEF TodoTyped
<1>2. CASE Delete
  BY <1>1, <1>2 DEF Delete, TickType
<1>3. CASE Rearmed
  BY <1>1, <1>3, RearmedTicks
<1>4. CASE tick' = tick
  BY <1>4
<1>5. QED
  BY <1>2, <1>3, <1>4 DEF Person, StartTodo, Renew, Snooze, Shelve, CloseIt, Redate, Rewrite, Mute

LEMMA RemindTicks ==
  ASSUME TodoAssumption, TodoTyped, Follows, NEW t \in Ticks, Remind(t)
  PROVE  \A u \in Ticks : tick'[u].pc = "finish" => kind = "notice"
<1>1. tick \in [Ticks -> TickType] /\ \A u \in Ticks : tick[u].pc = "finish" => kind = "notice"
  BY TodoTypes DEF TodoTyped, Follows, Obeyed
<1>2. CASE tick' = tick \/ tick' = [tick EXCEPT ![t] = IdleTick]
  BY <1>1, <1>2 DEF IdleTick
<1>3. CASE Look(t)
  BY <1>1, <1>3 DEF Look
<1>4. CASE Claim(t)
  <2>1. CASE MayClaim(t)
    <3>1. tick' = [tick EXCEPT ![t].pc = "send", ![t].fresh = TRUE]
      BY <1>4, <2>1 DEF Claim
    <3>2. QED
      BY <1>1, <3>1 DEF TickType
  <2>2. CASE ~ MayClaim(t)
    BY <1>2, <1>4, <2>2 DEF Claim
  <2>3. QED
    BY <2>1, <2>2
<1>5. CASE Confirmed(t)
  <2>1. CASE kind = "notice"
    BY <2>1
  <2>2. CASE kind # "notice"
    BY <1>2, <1>5, <2>2 DEF Confirmed
  <2>3. QED
    BY <2>1, <2>2
<1>6. CASE Refused(t)
  BY <1>1, <1>6 DEF Refused, TickType
<1>7. QED
  BY <1>2, <1>3, <1>4, <1>5, <1>6 DEF Remind, Wake, ReleaseClaim, FinishNotice, Stop

LEMMA FollowsStep ==
  ASSUME TodoAssumption, TodoTyped, Heard, Follows, [TodoNext]_todoVars PROVE Follows'
<1>1. /\ receipt.revision \in Nat /\ receipt.cycle \in Nat /\ Len(history) \in Nat
      /\ history \in Seq(EventType) /\ closed \in Nat
  <2>1. receipt \in ReceiptType /\ history \in Seq(EventType) /\ closed \in 0 .. MaxRevision
    BY TodoTypes DEF TodoTyped
  <2>2. QED
    BY <2>1 DEF ReceiptType, Revisions
<1>2. CASE UNCHANGED <<history, receipt, row, tick, kind, ghosts>>
  BY <1>2 DEF Follows, Obeyed, ByTheCase, StaysClosed, Resolved, ghosts
<1>3. CASE Happen
  <2>1. UNCHANGED <<receipt, row, tick, kind, hands, closed>>
    BY <1>3 DEF Happen, ghosts
  <2>2. \A n \in 1 .. Len(history) : history'[n] = history[n]
    BY <1>1, <1>3 DEF Happen
  <2>3. receipt.revision > 0 => receipt.revision \in 1 .. Len(history)
    BY <1>1 DEF Heard
  <2>4. receipt.revision > 0 => (Resolved(receipt.revision)' <=> Resolved(receipt.revision))
    BY <2>1, <2>2, <2>3 DEF Resolved
  <2>5. Obeyed' /\ StaysClosed'
    BY <2>1 DEF Follows, Obeyed, StaysClosed
  <2>6. ByTheCase'
    BY <2>1, <2>4 DEF Follows, ByTheCase
  <2>7. QED
    BY <2>5, <2>6 DEF Follows
<1>4. CASE Person
  <2>1. UNCHANGED <<history, receipt, kind>>
    BY <1>4, PersonTyped DEF source
  <2>2. row.cycle = receipt.cycle /\ row.status # "none"
    BY <1>4, PersonRow DEF Heard
  <2>3. \/ closed' = 0
        \/ closed' = closed /\ row'.status = row.status
        \/ closed' = receipt.cycle /\ row'.status \in {"done", "dropped"}
    BY <1>4, <2>2, PersonRow
  <2>4. \/ hands' = TRUE
        \/ hands' = hands /\ row'.human = row.human /\ row'.status = row.status
    BY <1>4, PersonRow
  <2>5. closed' <= receipt'.cycle
    BY <1>1, <2>1, <2>3 DEF Follows, Obeyed
  <2>6. row'.status = "none" => closed' = 0
    BY <1>4, PersonRow
  <2>7. row'.status = "none" => hands'
    BY <2>2, <2>4
  <2>8. kind = "code" /\ ~ hands' => row'.status \in {"none", "pending", "done"} /\ ~ row'.human
    BY <2>4 DEF Follows, Obeyed
  <2>9. \A t \in Ticks : tick'[t].pc = tick[t].pc
    BY <1>4, PersonTicks
  <2>10. Obeyed'
    BY <2>1, <2>5, <2>6, <2>7, <2>8, <2>9 DEF Follows, Obeyed
  <2>11. ByTheCase'
    BY <2>1, <2>4 DEF Follows, ByTheCase, Resolved
  <2>12. StaysClosed'
    BY <1>1, <2>1, <2>3 DEF Follows, StaysClosed
  <2>13. QED
    BY <2>10, <2>11, <2>12 DEF Follows
<1>5. ASSUME NEW c \in Consumers, Apply(c) PROVE Follows'
  <2>1. UNCHANGED kind
    BY <1>5 DEF Apply
  <2>2. QED
    BY <1>5, <2>1, FollowsEvent
<1>6. ASSUME NEW c \in Consumers, Fetch(c) \/ Ack(c) \/ GiveUp(c) PROVE Follows'
  BY <1>2, <1>6, QueueTyped
<1>7. ASSUME NEW t \in Ticks, Remind(t) PROVE Follows'
  <2>1. UNCHANGED <<history, receipt, kind, hands, closed>>
    BY <1>7, RemindTyped DEF source
  <2>2. /\ row'.human = row.human
        /\ \/ row'.status = row.status
           \/ row.status = "snoozed" /\ row'.status = "pending"
           \/ row.status \in Open /\ row'.status = "done" /\ kind = "notice"
    BY <1>7, RemindRow DEF Follows, Obeyed
  <2>3. Obeyed'
    <3>1. \A u \in Ticks : tick'[u].pc = "finish" => kind = "notice"
      BY <1>7, RemindTicks
    <3>2. /\ row'.status = "none" => row.status = "none"
          /\ kind = "code" /\ ~ hands => row'.status \in {"none", "pending", "done"} /\ ~ row'.human
      BY <2>2 DEF Follows, Obeyed
    <3>3. QED
      BY <2>1, <3>1, <3>2 DEF Follows, Obeyed
  <2>4. ByTheCase'
    <3>1. kind = "code" /\ ~ hands => row'.status = row.status
      BY <2>2 DEF Follows, Obeyed
    <3>2. QED
      BY <2>1, <3>1 DEF Follows, ByTheCase, Resolved
  <2>5. StaysClosed'
    BY <2>1, <2>2 DEF Follows, StaysClosed, Open
  <2>6. QED
    BY <2>3, <2>4, <2>5 DEF Follows
<1>8. CASE UNCHANGED todoVars
  BY <1>2, <1>8 DEF todoVars, ghosts
<1>9. QED
  BY <1>3, <1>4, <1>5, <1>6, <1>7, <1>8 DEF TodoNext, Consume

-----------------------------------------------------------------------------
(* The reminders.                                                           *)

\* The tick whose claim counts is the one the row names; until its alert is
\* confirmed nobody was told, and what was put off is to be told again.
Claimed ==
  /\ \A t \in Ticks :
       /\ tick[t].pc \in {"idle", "claim"} => ~ tick[t].fresh
       /\ tick[t].fresh <=> row.notified = t
       /\ tick[t].fresh /\ told > 0 => tick[t].pc = "finish"
  /\ told > 0 => row.notified # "null"
  /\ row.status = "snoozed" => row.notified = "null"

Reminds == Claimed /\ RemindedOnce

\* The reminder is armed again.
LEMMA ArmedAgain ==
  ASSUME TodoAssumption, told' = 0, row'.notified = "null",
         \A t \in Ticks : ~ tick'[t].fresh
  PROVE  Reminds'
<1>1. \A t \in Ticks : row'.notified # t
  BY DEF TodoAssumption
<1>2. Claimed'
  BY <1>1 DEF Claimed
<1>3. RemindedOnce'
  BY DEF RemindedOnce
<1>4. QED
  BY <1>2, <1>3 DEF Reminds

\* The row changes, its reminder does not.
LEMMA SameClaim ==
  ASSUME Reminds, tick' = tick, told' = told,
         row'.notified = row.notified, row'.due = row.due, row'.dueTold = row.dueTold,
         row'.status \in Open => row.status \in Open \/ row.notified = "null",
         row'.status = "snoozed" => row.status = "snoozed"
  PROVE  Reminds'
<1>1. Claimed'
  BY DEF Reminds, Claimed
<1>2. RemindedOnce'
  BY DEF Reminds, RemindedOnce
<1>3. QED
  BY <1>1, <1>2 DEF Reminds

\* A tick is over, and its claim, if it still had it, belongs to the past.
LEMMA TickOver ==
  ASSUME TodoAssumption, TodoTyped, Reminds, NEW t \in Ticks, NEW mark \in {"null", "past", "lost"},
         tick' = [tick EXCEPT ![t] = IdleTick],
         row'.notified = IF row.notified = t THEN mark ELSE row.notified,
         row'.due = row.due, row'.dueTold = row.dueTold,
         row'.status \in Open => row.status \in Open,
         row'.status = "snoozed" => row.status = "snoozed",
         told' \in {0, 1},
         row.notified # t => told' = told,
         row.notified = t /\ mark = "null" => told' = 0,
         row.notified = t /\ mark = "past" /\ row'.status \in Open => told' > 0
  PROVE  Reminds'
<1>1. tick \in [Ticks -> TickType]
  BY TodoTypes DEF TodoTyped
<1>2. mark \notin Ticks /\ "null" \notin Ticks
  BY DEF TodoAssumption
<1>3. \A u \in Ticks : u # t => tick'[u] = tick[u]
  BY <1>1
<1>4. tick'[t].pc = "idle" /\ ~ tick'[t].fresh
  BY <1>1 DEF IdleTick
<1>5. CASE row.notified = t
  <2>1. row'.notified = mark /\ row.status # "snoozed"
    BY <1>2, <1>5 DEF Reminds, Claimed
  <2>2. \A u \in Ticks : ~ tick'[u].fresh /\ row'.notified # u
    BY <1>2, <1>3, <1>4, <1>5, <2>1 DEF Reminds, Claimed
  <2>3. told' > 0 => row'.notified # "null"
    BY <1>5, <2>1
  <2>4. Claimed'
    BY <2>1, <2>2, <2>3 DEF Claimed
  <2>5. row.dueTold = row.due
    BY <1>2, <1>5 DEF Reminds, RemindedOnce
  <2>6. RemindedOnce'
    BY <1>5, <2>1, <2>5 DEF RemindedOnce
  <2>7. QED
    BY <2>4, <2>6 DEF Reminds
<1>6. CASE row.notified # t
  <2>1. row'.notified = row.notified /\ told' = told
    BY <1>6
  <2>2. Claimed'
    BY <1>3, <1>4, <1>6, <2>1 DEF Reminds, Claimed
  <2>3. RemindedOnce'
    BY <2>1 DEF Reminds, RemindedOnce
  <2>4. QED
    BY <2>2, <2>3 DEF Reminds
<1>7. QED
  BY <1>5, <1>6

LEMMA AfterRow ==
  ASSUME TodoTyped, NEW t, NEW mark, NEW r \in RowType
  PROVE  /\ After(t, r, mark).notified = IF r.notified = t THEN mark ELSE r.notified
         /\ After(t, r, mark).due = r.due /\ After(t, r, mark).dueTold = r.dueTold
         /\ After(t, r, mark).status = r.status
BY DEF After, RowType

LEMMA PersonReminds ==
  ASSUME TodoAssumption, TodoTyped, Reminds, Person PROVE Reminds'
<1>1. row \in RowType /\ tick \in [Ticks -> TickType]
  BY TodoTypes DEF TodoTyped
<1>2. CASE StartTodo \/ Renew \/ Snooze \/ Redate
  <2>1. Rearmed
    BY <1>2 DEF StartTodo, Renew, Snooze, Redate
  <2>2. row'.notified = "null"
    BY <1>1, <1>2 DEF StartTodo, Renew, Snooze, Redate, RowType
  <2>3. QED
    BY <1>1, <2>1, <2>2, RearmedTicks, ArmedAgain
<1>3. CASE Delete
  <2>1. row'.notified = "null" /\ told' = 0
    BY <1>3 DEF Delete, NoRow
  <2>2. \A t \in Ticks : ~ tick'[t].fresh
    BY <1>1, <1>3 DEF Delete, TickType
  <2>3. QED
    BY <2>1, <2>2, ArmedAgain
<1>4. CASE Shelve \/ CloseIt \/ Rewrite \/ Mute
  <2>1. tick' = tick /\ told' = told
    BY <1>4 DEF Shelve, CloseIt, Rewrite, Mute, ghosts
  <2>2. row'.notified = row.notified /\ row'.due = row.due /\ row'.dueTold = row.dueTold
    BY <1>1, <1>4 DEF Shelve, CloseIt, Rewrite, Mute, RowType
  <2>3. row'.status = row.status \/ row'.status \in {"shelved", "done", "dropped"}
    BY <1>1, <1>4 DEF Shelve, CloseIt, Rewrite, Mute, RowType
  <2>4. QED
    BY <2>1, <2>2, <2>3, SameClaim DEF Open
<1>5. QED
  BY <1>2, <1>3, <1>4 DEF Person

LEMMA EventReminds ==
  ASSUME TodoAssumption, TodoTyped, Reminds, NEW c \in Consumers, Apply(c) PROVE Reminds'
<1> DEFINE r == consumer[c].at
           cycle == history[r].cycle
<1>1. row \in RowType /\ tick \in [Ticks -> TickType]
  BY TodoTypes DEF TodoTyped
<1>2. \/ UNCHANGED <<row, tick, ghosts>> \/ Resolve(r, cycle) \/ Upsert(r, cycle)
  BY DEF Apply
<1> HIDE DEF r, cycle
<1>3. CASE UNCHANGED <<row, tick, ghosts>>
  BY <1>3, SameClaim DEF ghosts
<1>4. CASE Resolve(r, cycle)
  <2>1. tick' = tick /\ told' = told
    BY <1>4 DEF Resolve, ghosts
  <2>2. row'.notified = row.notified /\ row'.due = row.due /\ row'.dueTold = row.dueTold
    BY <1>1, <1>4 DEF Resolve, RowType
  <2>3. row'.status = row.status \/ row'.status = "done"
    BY <1>1, <1>4 DEF Resolve, RowType
  <2>4. QED
    BY <2>1, <2>2, <2>3, SameClaim DEF Open
<1>5. CASE Upsert(r, cycle)
  <2>1. CASE row.status = "none" \/ (row.status = "done" /\ ~ Protected(cycle))
    <3>1. Rearmed
      BY <1>5, <2>1 DEF Upsert
    <3>2. row'.notified = "null"
      BY <1>1, <1>5, <2>1, ZenonT(60) DEF Upsert, NoRow, RowType
    <3>3. QED
      BY <1>1, <3>1, <3>2, RearmedTicks, ArmedAgain
  <2>2. CASE ~ (row.status = "none" \/ (row.status = "done" /\ ~ Protected(cycle)))
    <3>1. row' = [row EXCEPT !.revision = r, !.cycle = cycle] /\ tick' = tick /\ told' = told
      BY <1>5, <2>2 DEF Upsert, ghosts
    <3>2. /\ row'.notified = row.notified /\ row'.due = row.due /\ row'.dueTold = row.dueTold
          /\ row'.status = row.status
      BY <1>1, <3>1 DEF RowType
    <3>3. QED
      BY <3>1, <3>2, SameClaim
  <2>3. QED
    BY <2>1, <2>2
<1>6. QED
  BY <1>2, <1>3, <1>4, <1>5

LEMMA TickReminds ==
  ASSUME TodoAssumption, TodoTyped, Reminds, NEW t \in Ticks, Remind(t) PROVE Reminds'
<1>1. row \in RowType /\ tick \in [Ticks -> TickType] /\ told \in Nat /\ t \notin {"null", "past", "lost"}
  BY TodoTypes DEF TodoTyped, TodoAssumption
<1>2. told \in {0, 1}
  BY <1>1 DEF Reminds, RemindedOnce
<1>3. CASE Wake(t)
  <2>1. tick' = tick /\ told' = told
    BY <1>3 DEF Wake, ghosts
  <2>2. /\ row'.notified = row.notified /\ row'.due = row.due /\ row'.dueTold = row.dueTold
        /\ row'.status = "pending" /\ row.notified = "null"
    BY <1>1, <1>3 DEF Wake, RowType, Reminds, Claimed
  <2>3. QED
    BY <2>1, <2>2, SameClaim
<1>4. CASE Look(t)
  <2>1. row' = row /\ told' = told /\ tick[t].pc = "idle"
    BY <1>4 DEF Look, ghosts
  <2>2. \A u \in Ticks : \/ tick'[u] = tick[u]
                         \/ u = t /\ tick'[u].pc = "claim" /\ ~ tick'[u].fresh
    BY <1>1, <1>4 DEF Look
  <2>3. ~ tick[t].fresh
    BY <2>1 DEF Reminds, Claimed
  <2>4. Claimed'
    BY <2>1, <2>2, <2>3 DEF Reminds, Claimed
  <2>5. RemindedOnce'
    BY <2>1 DEF Reminds, RemindedOnce
  <2>6. QED
    BY <2>4, <2>5 DEF Reminds
<1>5. CASE Claim(t)
  <2>1. ~ tick[t].fresh /\ row.notified # t
    BY <1>5 DEF Claim, Reminds, Claimed
  <2>2. CASE MayClaim(t)
    <3>1. /\ row' = [row EXCEPT !.notified = t, !.dueTold = tick[t].due]
          /\ tick' = [tick EXCEPT ![t].pc = "send", ![t].fresh = TRUE]
          /\ told' = told /\ row.notified = "null" /\ row.due = tick[t].due /\ row.status \in Open
      BY <1>5, <2>2 DEF Claim, MayClaim, ghosts
    <3>2. row'.notified = t /\ row'.dueTold = row'.due /\ row'.status = row.status
      BY <1>1, <3>1 DEF RowType
    <3>3. told = 0
      BY <1>1, <3>1 DEF Reminds, Claimed
    <3>4. \A u \in Ticks : u # t => tick'[u] = tick[u] /\ ~ tick[u].fresh
      BY <1>1, <3>1 DEF Reminds, Claimed, TodoAssumption
    <3>5. tick'[t].pc = "send" /\ tick'[t].fresh
      BY <1>1, <3>1 DEF TickType
    <3>6. Claimed'
      <4>1. \A u \in Ticks : u # t => ~ tick'[u].fresh /\ row'.notified # u
        BY <3>2, <3>4
      <4>2. told' = 0
        BY <3>1, <3>3
      <4>3. row'.status # "snoozed" /\ row'.notified # "null"
        BY <1>1, <3>1, <3>2 DEF Open
      <4>4. QED
        BY <3>2, <3>5, <4>1, <4>2, <4>3 DEF Claimed
    <3>7. RemindedOnce'
      BY <1>1, <3>1, <3>2, <3>3 DEF RemindedOnce
    <3>8. QED
      BY <3>6, <3>7 DEF Reminds
  <2>3. CASE ~ MayClaim(t)
    <3>1. tick' = [tick EXCEPT ![t] = IdleTick] /\ row' = row /\ told' = told
      BY <1>5, <2>3 DEF Claim, ghosts
    <3>2. QED
      BY <1>2, <2>1, <3>1, TickOver
  <2>4. QED
    BY <2>2, <2>3
<1>6. CASE Confirmed(t)
  <2>1. tick[t].pc = "send" /\ told' = IF tick[t].fresh THEN told + 1 ELSE told
    BY <1>6 DEF Confirmed
  <2>2. tick[t].fresh <=> row.notified = t
    BY DEF Reminds, Claimed
  <2>3. tick[t].fresh => told = 0
    BY <1>1, <2>1 DEF Reminds, Claimed
  <2>4. /\ told' \in {0, 1} /\ (row.notified = t => told' = 1)
        /\ (row.notified # t => told' = told)
    BY <1>2, <2>1, <2>2, <2>3
  <2>5. CASE kind = "notice"
    <3>1. tick' = [tick EXCEPT ![t].pc = "finish"] /\ row' = row
      BY <1>6, <2>5 DEF Confirmed
    <3>2. \A u \in Ticks : tick'[u].fresh = tick[u].fresh /\ (u # t => tick'[u] = tick[u])
      BY <1>1, <3>1 DEF TickType
    <3>3. tick'[t].pc = "finish"
      BY <1>1, <3>1 DEF TickType
    <3>4. \A u \in Ticks : u # t /\ tick[u].fresh => told' = told
      BY <2>4 DEF Reminds, Claimed
    <3>5. \A u \in Ticks : tick'[u].pc \in {"idle", "claim"} => ~ tick'[u].fresh
      BY <3>2, <3>3 DEF Reminds, Claimed
    <3>6. \A u \in Ticks : tick'[u].fresh <=> row.notified = u
      BY <3>2 DEF Reminds, Claimed
    <3>7. \A u \in Ticks : tick'[u].fresh /\ told' > 0 => tick'[u].pc = "finish"
      BY <3>2, <3>3, <3>4 DEF Reminds, Claimed
    <3>8. /\ told' > 0 => row.notified # "null"
          /\ row.status = "snoozed" => row.notified = "null"
      BY <1>1, <2>4 DEF Reminds, Claimed
    <3>9. Claimed'
      BY <3>1, <3>5, <3>6, <3>7, <3>8 DEF Claimed
    <3>10. told' <= 1
      BY <2>4
    <3>11. row.status \in Open /\ row.notified = "past" => told' > 0
      BY <1>1, <2>4 DEF Reminds, RemindedOnce
    <3>12. RemindedOnce'
      BY <3>1, <3>10, <3>11 DEF Reminds, RemindedOnce
    <3>13. QED
      BY <3>9, <3>12 DEF Reminds
  <2>6. CASE kind # "notice"
    <3>1. tick' = [tick EXCEPT ![t] = IdleTick] /\ row' = After(t, row, "past")
      BY <1>6, <2>6 DEF Confirmed
    <3>2. /\ row'.notified = IF row.notified = t THEN "past" ELSE row.notified
          /\ row'.due = row.due /\ row'.dueTold = row.dueTold /\ row'.status = row.status
      BY <1>1, <3>1, AfterRow
    <3>3. row.notified = t => told' > 0
      BY <2>4
    <3>4. QED
      BY <2>4, <3>1, <3>2, <3>3, TickOver
  <2>7. QED
    BY <2>5, <2>6
<1>7. CASE Refused(t)
  <2>1. tick[t].pc = "send" /\ row' = row /\ told' = told
        /\ tick' = [tick EXCEPT ![t].pc = "release"]
    BY <1>7 DEF Refused, ghosts
  <2>2. \A u \in Ticks : tick'[u].fresh = tick[u].fresh /\ (u # t => tick'[u] = tick[u])
    BY <1>1, <2>1 DEF TickType
  <2>3. tick'[t].pc = "release"
    BY <1>1, <2>1 DEF TickType
  <2>4. Claimed'
    BY <2>1, <2>2, <2>3 DEF Reminds, Claimed
  <2>5. RemindedOnce'
    BY <2>1 DEF Reminds, RemindedOnce
  <2>6. QED
    BY <2>4, <2>5 DEF Reminds
<1>8. CASE ReleaseClaim(t)
  <2> DEFINE mark == IF row.status \in Open THEN "null" ELSE "past"
  <2>1. /\ tick[t].pc = "release" /\ tick' = [tick EXCEPT ![t] = IdleTick] /\ told' = told
        /\ row' = After(t, row, mark)
    BY <1>8 DEF ReleaseClaim, ghosts
  <2>2. /\ row'.notified = IF row.notified = t THEN mark ELSE row.notified
        /\ row'.due = row.due /\ row'.dueTold = row.dueTold /\ row'.status = row.status
    BY <1>1, <2>1, AfterRow
  <2>3. row.notified = t => told = 0
    BY <1>1, <2>1 DEF Reminds, Claimed
  <2>4. mark \in {"null", "past", "lost"} /\ (mark = "past" => row'.status \notin Open)
    BY <2>2
  <2> HIDE DEF mark
  <2>5. QED
    BY <1>2, <2>1, <2>2, <2>3, <2>4, TickOver
<1>9. CASE FinishNotice(t)
  <2> DEFINE r == IF row.notified = t /\ row.status \in Open THEN [row EXCEPT !.status = "done"]
                  ELSE row
  <2>1. /\ tick' = [tick EXCEPT ![t] = IdleTick] /\ told' = told
        /\ row' = After(t, r, "past")
    BY <1>9 DEF FinishNotice, ghosts
  <2>2. /\ r \in RowType /\ r.notified = row.notified /\ r.due = row.due /\ r.dueTold = row.dueTold
        /\ r.status = row.status \/ r.status = "done"
        /\ row.notified = t => r.status \notin Open
    BY <1>1 DEF RowType, Open
  <2> HIDE DEF r
  <2>3. /\ row'.notified = IF row.notified = t THEN "past" ELSE row.notified
        /\ row'.due = row.due /\ row'.dueTold = row.dueTold /\ row'.status = r.status
    BY <2>1, <2>2, AfterRow
  <2>4. /\ row'.status \in Open => row.status \in Open
        /\ row'.status = "snoozed" => row.status = "snoozed"
    BY <2>2, <2>3 DEF Open
  <2>5. QED
    BY <1>2, <2>1, <2>2, <2>3, <2>4, TickOver
<1>10. CASE Stop(t)
  <2>1. /\ tick' = [tick EXCEPT ![t] = IdleTick] /\ told' = told
        /\ row' = After(t, row, "lost")
    BY <1>10 DEF Stop, ghosts
  <2>2. /\ row'.notified = IF row.notified = t THEN "lost" ELSE row.notified
        /\ row'.due = row.due /\ row'.dueTold = row.dueTold /\ row'.status = row.status
    BY <1>1, <2>1, AfterRow
  <2>3. QED
    BY <1>2, <2>1, <2>2, TickOver
<1>11. QED
  BY <1>3, <1>4, <1>5, <1>6, <1>7, <1>8, <1>9, <1>10 DEF Remind

LEMMA RemindsStep ==
  ASSUME TodoAssumption, TodoTyped, Reminds, [TodoNext]_todoVars PROVE Reminds'
<1>1. CASE UNCHANGED <<row, tick, told>>
  BY <1>1, SameClaim
<1>2. CASE Happen
  BY <1>1, <1>2 DEF Happen, ghosts
<1>3. CASE Person
  BY <1>3, PersonReminds
<1>4. ASSUME NEW c \in Consumers, Apply(c) PROVE Reminds'
  BY <1>4, EventReminds
<1>5. ASSUME NEW c \in Consumers, Fetch(c) \/ Ack(c) \/ GiveUp(c) PROVE Reminds'
  BY <1>1, <1>5 DEF Fetch, Ack, GiveUp, ghosts
<1>6. ASSUME NEW t \in Ticks, Remind(t) PROVE Reminds'
  BY <1>6, TickReminds
<1>7. CASE UNCHANGED todoVars
  BY <1>1, <1>7 DEF todoVars
<1>8. QED
  BY <1>2, <1>3, <1>4, <1>5, <1>6, <1>7 DEF TodoNext, Consume

-----------------------------------------------------------------------------
FollowInv == TodoTyped /\ Heard /\ Follows /\ Reminds

\* In whatever order and however often the events are applied, by whichever
\* consumer: the newest one decides over a row nobody touched, what the other
\* system was told is recorded is recorded, what the person closed stays
\* closed until the case relapses; and however ticks overlap, fail and stop,
\* the person is told once for the date the row has.
THEOREM RowFollows == ASSUME TodoAssumption PROVE TodoSpec => []ItemFollows
<1>1. TodoInit => FollowInv
  <2> SUFFICES ASSUME TodoInit PROVE FollowInv
    OBVIOUS
  <2>1. TodoTyped
    BY InitTodoTyped
  <2>2. /\ history = <<>> /\ acked = {} /\ consumer = [c \in Consumers |-> IdleConsumer]
        /\ receipt = [revision |-> 0, cycle |-> 1] /\ row = NoRow
        /\ tick = [t \in Ticks |-> IdleTick] /\ told = 0 /\ hands = FALSE /\ closed = 0
    BY DEF TodoInit
  <2>3. row.status = "none" /\ row.notified = "null" /\ ~ row.human
    BY <2>2 DEF NoRow
  <2>4. \A t \in Ticks : tick[t].pc = "idle" /\ ~ tick[t].fresh
    BY <2>2 DEF IdleTick
  <2>5. Heard
    BY <2>2, <2>3 DEF Heard, IdleConsumer
  <2>6. Obeyed
    BY <2>2, <2>3, <2>4 DEF Obeyed
  <2>7. ByTheCase /\ StaysClosed
    BY <2>2 DEF ByTheCase, StaysClosed
  <2>8. Claimed
    BY <2>2, <2>3, <2>4 DEF Claimed, TodoAssumption
  <2>9. row.dueTold = row.due
    BY <2>2, IdleTyped
  <2>10. RemindedOnce
    BY <2>2, <2>3, <2>9 DEF RemindedOnce
  <2>11. QED
    BY <2>1, <2>5, <2>6, <2>7, <2>8, <2>10 DEF FollowInv, Follows, Reminds
<1>2. ASSUME FollowInv, [TodoNext]_todoVars PROVE FollowInv'
  BY <1>2, TodoTypedStep, HeardStep, FollowsStep, RemindsStep DEF FollowInv
<1>3. FollowInv => ItemFollows
  <2>1. FollowInv => NewestWins
    BY DEF FollowInv, Heard, Follows, ByTheCase, StaysClosed, NewestWins
  <2>2. FollowInv => RemindedOnce
    BY DEF FollowInv, Reminds
  <2>3. QED
    BY <2>1, <2>2 DEF ItemFollows
<1>4. QED
  BY <1>1, <1>2, <1>3, PTL DEF TodoSpec
=============================================================================
