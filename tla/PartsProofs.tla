------------------------------ MODULE PartsProofs ------------------------------
(***************************************************************************)
(* Proofs about the parts with one invariant each.  EdgeTasks, for any tasks, *)
(* processes, retries and attempts: that "done" is earned needs nothing but   *)
(* the way results travel; that no command is executed again after its nonce  *)
(* was recorded rests on the rule that a task has one process at a time,      *)
(* which needs what the sweep relies on: it is not started beside another     *)
(* one, and it waits for longer than a process keeps a task.  Then the parts  *)
(* that MCParts checks together, each by itself: MeetingOutbox, PhoneReview,  *)
(* SafeConnection, OutputDelivery, MemoryDistill, ExecutionLedger and         *)
(* PluginLifecycle.                                                         *)
(***************************************************************************)
EXTENDS EdgeTasks, MeetingOutbox, PhoneReview, SafeConnection, OutputDelivery, MemoryDistill, ExecutionLedger,
        PluginLifecycle, FiniteSetTheorems, SequenceTheorems, TLAPS

\* A process of the node, and what is on its way to the hub.
Process == [pc : {"idle", "pulled", "running", "ran", "sending"}, task : Tasks \cup {0},
            valid : BOOLEAN, exit : Exits, left : 0 .. Attempts]
Fitting(q) == (q.pc # "idle" => q.task \in Tasks) /\ (q.pc = "sending" => q.left # 0)
Results == [task : Tasks, exit : Exits]

\* Whoever says "ok" of a task, or will when its attempts get through, has
\* seen its command end with exit code 0.
OkIsGood ==
  /\ \A p \in Processes : process[p].exit = "ok" => process[p].task \in good
  /\ \A m \in late : m.exit = "ok" => m.task \in good
  /\ DoneIsEarned

\* edge_sweep is not started beside itself, and waits for long enough.
SweepAssumption == Patient /\ \A r, s \in Sweepers : r = s

\* A task has one process at a time, and none once a sweep means to send it
\* again; as long as it has one, nobody else is given it.
Out(r) == r.status \in {"dispatched", "done", "failed"}
OneProcess ==
  /\ \A p \in Processes : process[p].pc # "idle" => Out(row[process[p].task])
  /\ \A p, q \in Processes :
       process[p].pc # "idle" /\ process[q].pc # "idle" /\ process[p].task = process[q].task => p = q
  /\ \A s \in Sweepers : \A t \in stuck[s] :
       Out(row[t]) /\ \A p \in Processes : ~ Holding(p, t)

-------------------------------------------------------------------------------
(* The rows and the processes keep their shape.                             *)

LEMMA IdleIsProcess == ASSUME EdgeAssumption PROVE Idle \in Process
  BY DEF EdgeAssumption, Idle, Process, Exits

LEMMA NoRowIsRow == ASSUME EdgeAssumption PROVE NoRow \in Rows
  BY DEF EdgeAssumption, NoRow, Rows

LEMMA InitType == ASSUME EdgeAssumption, Init PROVE TypeOK
<1>1. row \in [Tasks -> Rows]
  BY NoRowIsRow DEF Init
<1>2. /\ process \in [Processes -> Process]
      /\ \A p \in Processes : process[p].pc = "idle"
  BY IdleIsProcess DEF Init, Idle
<1>3. QED
  BY <1>1, <1>2 DEF Init, TypeOK, Process

\* What a result does to the row of its task, if the row still waits for it.
LEMMA SubmittedType ==
  ASSUME TypeOK, NEW t \in Tasks, NEW exit \in Exits
  PROVE  /\ Submitted(t, exit) \in [Tasks -> Rows]
         /\ \A u \in Tasks : \/ Submitted(t, exit)[u] = row[u]
                             \/ /\ u = t /\ row[t].status = "dispatched"
                                /\ Submitted(t, exit)[t].status \in {"done", "failed"}
                                /\ Submitted(t, exit)[t].status = "done" => exit = "ok"
<1> DEFINE r == [row[t] EXCEPT !.status = IF exit = "ok" THEN "done" ELSE "failed"]
<1>1. row \in [Tasks -> Rows] /\ row[t] \in Rows
  BY DEF TypeOK
<1>2. r \in Rows /\ r.status \in {"done", "failed"} /\ (r.status = "done" => exit = "ok")
  BY <1>1 DEF Rows
<1>3. Submitted(t, exit) = IF row[t].status # "dispatched" THEN row ELSE [row EXCEPT ![t] = r]
  BY DEF Submitted
<1>4. QED
  <2> HIDE DEF r
  <2>1. QED
    BY <1>1, <1>2, <1>3

\* A sweep gives a row back to the queue, or gives it up.
LEMMA RetransmittedType ==
  ASSUME EdgeAssumption, TypeOK, NEW t \in Tasks
  PROVE  /\ Retransmitted(t) \in [Tasks -> Rows]
         /\ \A u \in Tasks : \/ Retransmitted(t)[u] = row[u]
                             \/ /\ u = t /\ row[t].status = "dispatched"
                                /\ Retransmitted(t)[t].status \in {"pending", "failed"}
<1> DEFINE again == [row[t] EXCEPT !.status = "pending", !.fresh = TRUE, !.key = "hot",
                                   !.retries = @ + 1]
           lost  == [row[t] EXCEPT !.status = "failed"]
<1>1. row \in [Tasks -> Rows] /\ row[t] \in Rows
  BY DEF TypeOK
<1>2. lost \in Rows /\ lost.status = "failed"
  BY <1>1 DEF Rows
<1>3. row[t].retries < MaxRetries => again \in Rows /\ again.status = "pending"
  <2> SUFFICES ASSUME row[t].retries < MaxRetries PROVE again \in Rows /\ again.status = "pending"
    OBVIOUS
  <2>1. row[t].retries + 1 \in 0 .. MaxRetries
    BY <1>1 DEF Rows, EdgeAssumption
  <2>2. QED
    BY <1>1, <2>1 DEF Rows
<1>4. Retransmitted(t) = IF row[t].status # "dispatched" THEN row
                         ELSE IF row[t].retries < MaxRetries THEN [row EXCEPT ![t] = again]
                         ELSE [row EXCEPT ![t] = lost]
  BY DEF Retransmitted
<1>5. QED
  <2> HIDE DEF again, lost
  <2>1. QED
    BY <1>1, <1>2, <1>3, <1>4

(* A step of the hub changes the rows, and what is on its way.              *)
Hub == \/ \E t \in Tasks : Create(t) \/ Age(t)
       \/ \E s \in Sweepers : Look(s) \/ Sweep(s)
       \/ Arrive

LEMMA HubType ==
  ASSUME EdgeAssumption, TypeOK, Hub PROVE TypeOK'
<1>1. row \in [Tasks -> Rows] /\ late \subseteq Results
  BY DEF TypeOK, Results
<1>2. \A t \in Tasks, r \in Rows : (row' = [row EXCEPT ![t] = r]) => row' \in [Tasks -> Rows]
  BY <1>1
<1>3. ASSUME NEW t \in Tasks, Create(t) PROVE TypeOK'
  <2> DEFINE r == [NoRow EXCEPT !.status = "pending", !.key = Tier[t]]
  <2>1. r \in Rows
    <3>1. Tier[t] \in {"hot", "root"}
      BY DEF EdgeAssumption
    <3>2. QED
      BY <3>1, NoRowIsRow DEF Rows
  <2>2. row' = [row EXCEPT ![t] = r] /\ UNCHANGED <<process, nonces, late, stuck, good>>
    BY <1>3 DEF Create
  <2>3. QED
    BY <1>2, <2>1, <2>2 DEF TypeOK
<1>4. ASSUME NEW t \in Tasks, Age(t) PROVE TypeOK'
  <2> DEFINE r == [row[t] EXCEPT !.fresh = FALSE]
  <2>1. r \in Rows
    BY <1>1 DEF Rows
  <2>2. row' = [row EXCEPT ![t] = r] /\ UNCHANGED <<process, nonces, late, stuck, good>>
    BY <1>4 DEF Age
  <2>3. QED
    BY <1>2, <2>1, <2>2 DEF TypeOK
<1>5. ASSUME NEW s \in Sweepers, Look(s) PROVE TypeOK'
  <2>1. PICK found \in SUBSET With("dispatched") : stuck' = [stuck EXCEPT ![s] = found]
    BY <1>5 DEF Look
  <2>2. found \subseteq Tasks
    BY <2>1 DEF With
  <2>3. QED
    BY <1>5, <2>1, <2>2 DEF Look, TypeOK
<1>6. ASSUME NEW s \in Sweepers, Sweep(s) PROVE TypeOK'
  <2>1. PICK u \in stuck[s] : row' = Retransmitted(u) /\ stuck' = [stuck EXCEPT ![s] = @ \ {u}]
    BY <1>6 DEF Sweep
  <2>2. u \in Tasks /\ stuck' \in [Sweepers -> SUBSET Tasks]
    BY <2>1 DEF TypeOK
  <2>3. QED
    BY <1>6, <2>1, <2>2, RetransmittedType DEF Sweep, TypeOK
<1>7. CASE Arrive
  <2>1. PICK m \in late : row' = Submitted(m.task, m.exit) /\ late' = late \ {m}
    BY <1>7 DEF Arrive
  <2>2. m.task \in Tasks /\ m.exit \in Exits
    BY <1>1, <2>1 DEF Results
  <2>3. QED
    BY <1>7, <2>1, <2>2, SubmittedType DEF Arrive, TypeOK
<1>8. QED
  BY <1>3, <1>4, <1>5, <1>6, <1>7 DEF Hub

\* What a process is about after a step of its own.
LEMMA ProcessAfter ==
  ASSUME TypeOK, NEW p \in Processes, NEW q \in Process, Set(p, q)
  PROVE  /\ process' \in [Processes -> Process] /\ process'[p] = q
         /\ \A o \in Processes \ {p} : process'[o] = process[o]
         /\ Fitting(q) => \A o \in Processes : Fitting(process'[o])
  BY DEF TypeOK, Process, Set, Fitting

LEMMA AnsweringType ==
  ASSUME EdgeAssumption, NEW q \in Process, NEW exit \in Exits
  PROVE  /\ Answering(q, exit) \in Process
         /\ Answering(q, exit).pc = "sending" /\ Answering(q, exit).exit = exit
         /\ Answering(q, exit).task = q.task /\ Answering(q, exit).left # 0
<1>1. Attempts \in 0 .. Attempts
  BY DEF EdgeAssumption
<1>2. Answering(q, exit) \in Process
  BY <1>1 DEF Answering, Process
<1>3. Answering(q, exit).pc = "sending" /\ Answering(q, exit).exit = exit
  BY DEF Answering, Process
<1>4. Answering(q, exit).task = q.task /\ Answering(q, exit).left = Attempts
  BY DEF Answering, Process
<1>5. QED
  BY <1>2, <1>3, <1>4 DEF EdgeAssumption

\* Each step of a process puts it somewhere it may be, and is about the task
\* it has, unless it takes one or lets it go.
LEMMA ProcessStep ==
  ASSUME EdgeAssumption, TypeOK, NEW p \in Processes, Sentinel(p) \/ Crash(p)
  PROVE  \E q \in Process :
           /\ process' = [process EXCEPT ![p] = q] /\ Fitting(q)
           /\ \/ q = Idle \/ q = process[p]
              \/ Pull(p) /\ q.exit = "refused"
              \/ /\ process[p].pc # "idle" /\ q.pc # "idle" /\ q.task = process[p].task
                 /\ q.exit = "ok" => process[p].exit = "ok" \/ q.task \in good'
<1> DEFINE mine == process[p]
           Follows(q) ==
             /\ Fitting(q)
             /\ \/ q = Idle \/ q = mine
                \/ Pull(p) /\ q.exit = "refused"
                \/ /\ mine.pc # "idle" /\ q.pc # "idle" /\ q.task = mine.task
                   /\ q.exit = "ok" => mine.exit = "ok" \/ q.task \in good'
<1> SUFFICES \E q \in Process : process' = [process EXCEPT ![p] = q] /\ Follows(q)
  OBVIOUS
<1>1. /\ process \in [Processes -> Process] /\ mine \in Process
      /\ Fitting(mine) /\ process = [process EXCEPT ![p] = mine]
  BY DEF TypeOK, Process, Fitting
<1>2. Idle \in Process /\ Idle.pc = "idle" /\ Idle.exit = "refused" /\ Fitting(Idle)
  BY IdleIsProcess DEF Idle, Fitting
<1>3. \A e \in Exits : /\ Answering(mine, e) \in Process /\ Answering(mine, e).pc = "sending"
                       /\ Answering(mine, e).task = mine.task /\ Answering(mine, e).left # 0
                       /\ Answering(mine, e).exit = e
  BY <1>1, AnsweringType
<1>4. CASE Pull(p)
  <2>1. PICK t \in With("pending") :
          \/ Set(p, [Idle EXCEPT !.pc = "pulled", !.task = t,
                                 !.valid = row[t].key = Tier[t] /\ row[t].fresh])
          \/ UNCHANGED process
    BY <1>4 DEF Pull
  <2> DEFINE q == [Idle EXCEPT !.pc = "pulled", !.task = t,
                               !.valid = row[t].key = Tier[t] /\ row[t].fresh]
  <2>2. t \in Tasks /\ (row[t].key = Tier[t] /\ row[t].fresh) \in BOOLEAN
    BY <2>1 DEF With, TypeOK, Rows
  <2>3. q \in Process /\ q.task = t /\ q.pc = "pulled"
    BY <1>2, <2>2 DEF Process
  <2>4. q.exit = "refused"
    BY <1>2 DEF Process
  <2>5. CASE Set(p, q)
    <3> HIDE DEF q
    <3>1. QED
      BY <1>4, <2>2, <2>3, <2>4, <2>5 DEF Set, Fitting
  <2>6. CASE UNCHANGED process
    BY <1>1, <2>6
  <2>7. QED
    BY <2>1, <2>5, <2>6
<1>5. CASE Verify(p)
  <2>1. mine.pc = "pulled" /\ "refused" \in Exits
    BY <1>5 DEF Verify, Exits
  <2>2. [mine EXCEPT !.pc = "running"] \in Process
    BY <1>1 DEF Process
  <2>3. /\ [mine EXCEPT !.pc = "running"].pc = "running"
        /\ [mine EXCEPT !.pc = "running"].task = mine.task
        /\ [mine EXCEPT !.pc = "running"].exit = mine.exit
    BY <1>1 DEF Process
  <2>4. \/ process' = [process EXCEPT ![p] = [mine EXCEPT !.pc = "running"]]
        \/ process' = [process EXCEPT ![p] = Answering(mine, "refused")]
    BY <1>5 DEF Verify, Set
  <2>5. QED
    BY <1>1, <1>3, <2>1, <2>2, <2>3, <2>4 DEF Fitting
<1>6. CASE Run(p)
  <2>1. mine.pc = "running" /\ "refused" \in Exits
    BY <1>6 DEF Run, Exits
  <2>2. \A e \in Exits : [mine EXCEPT !.pc = "ran", !.exit = e] \in Process
    BY <1>1 DEF Process
  <2>3. \A e \in Exits : /\ [mine EXCEPT !.pc = "ran", !.exit = e].pc = "ran"
                         /\ [mine EXCEPT !.pc = "ran", !.exit = e].task = mine.task
                         /\ [mine EXCEPT !.pc = "ran", !.exit = e].exit = e
    BY <1>1 DEF Process
  <2>4. \/ \E e \in Exits :
             /\ process' = [process EXCEPT ![p] = [mine EXCEPT !.pc = "ran", !.exit = e]]
             /\ e = "ok" => mine.task \in good'
        \/ process' = [process EXCEPT ![p] = Answering(mine, "refused")]
    <3>1. ASSUME NEW e \in {"ok", "bad"}, Set(p, [process[p] EXCEPT !.pc = "ran", !.exit = e]),
                 good' = IF e = "ok" THEN good \cup {process[p].task} ELSE good
          PROVE  /\ e \in Exits /\ (e = "ok" => mine.task \in good')
                 /\ process' = [process EXCEPT ![p] = [mine EXCEPT !.pc = "ran", !.exit = e]]
      <4>1. e \in Exits /\ (e = "ok" => mine.task \in good')
        BY <3>1 DEF Exits
      <4>2. QED
        BY <3>1, <4>1, Zenon DEF Set
    <3>2. QED
      BY <1>6, <3>1 DEF Run, Set
  <2>5. Follows(Answering(mine, "refused")) /\ Answering(mine, "refused") \in Process
    BY <1>1, <1>3, <2>1 DEF Fitting
  <2>6. \A e \in Exits : (e = "ok" => mine.task \in good') =>
          Follows([mine EXCEPT !.pc = "ran", !.exit = e])
    BY <1>1, <2>1, <2>2, <2>3 DEF Fitting
  <2>7. QED
    <3> HIDE DEF Follows, mine
    <3>1. QED
      BY <2>2, <2>4, <2>5, <2>6
<1>7. CASE Record(p)
  <2>1. mine.pc = "ran" /\ mine.exit \in Exits
        /\ process' = [process EXCEPT ![p] = Answering(mine, mine.exit)]
    BY <1>1, <1>7 DEF Record, Set, Process
  <2>2. Follows(Answering(mine, mine.exit)) /\ Answering(mine, mine.exit) \in Process
    BY <1>1, <1>3, <2>1 DEF Fitting
  <2>3. QED
    <3> HIDE DEF Follows, mine
    <3>1. QED
      BY <2>1, <2>2
<1>8. CASE Send(p)
  <2> DEFINE again == IF mine.left = 1 THEN Idle ELSE [mine EXCEPT !.left = mine.left - 1]
  <2>1. mine.pc = "sending" /\ process' \in {[process EXCEPT ![p] = Idle], [process EXCEPT ![p] = again]}
    BY <1>8 DEF Send, Set
  <2>2. again = Idle \/ (again \in Process /\ again.pc = "sending" /\ again.task = mine.task
                               /\ again.left # 0 /\ again.exit = mine.exit)
    <3> DEFINE less == [mine EXCEPT !.left = mine.left - 1]
    <3>1. mine.left # 1 => mine.left - 1 \in 1 .. Attempts
      BY <1>1, <2>1 DEF Process, EdgeAssumption, Fitting
    <3>2. mine.left - 1 \in 1 .. Attempts => less \in Process
      BY <1>1 DEF Process
    <3>3. less.pc = "sending" /\ less.task = mine.task /\ less.left = mine.left - 1
          /\ less.exit = mine.exit
      BY <1>1, <2>1 DEF Process
    <3>4. QED
      BY <3>1, <3>2, <3>3
  <2>3. QED
    <3> HIDE DEF again
    <3>1. QED
      BY <1>1, <1>2, <2>1, <2>2 DEF Fitting
<1>9. CASE Crash(p)
  BY <1>2, <1>9 DEF Crash, Set
<1>10. QED
  BY <1>4, <1>5, <1>6, <1>7, <1>8, <1>9 DEF Sentinel

LEMMA NodeType ==
  ASSUME EdgeAssumption, TypeOK, NEW p \in Processes, Sentinel(p) \/ Crash(p)
  PROVE  TypeOK'
<1>1. /\ process' \in [Processes -> Process]
      /\ \A o \in Processes : Fitting(process'[o])
  BY ProcessStep, ProcessAfter DEF Set
<1>2. /\ process[p].task \in Tasks \/ process[p].pc = "idle"
      /\ process[p].exit \in Exits /\ row \in [Tasks -> Rows]
  BY DEF TypeOK
<1>3. row' \in [Tasks -> Rows]
  <2>1. CASE Pull(p)
    <3>1. PICK t \in With("pending") : row' = [row EXCEPT ![t].status = "dispatched"]
      BY <2>1 DEF Pull
    <3>2. t \in Tasks /\ [row[t] EXCEPT !.status = "dispatched"] \in Rows
      BY <1>2, <3>1 DEF With, Rows
    <3>3. QED
      BY <1>2, <3>1, <3>2
  <2>2. CASE Send(p)
    BY <1>2, <2>2, SubmittedType DEF Send
  <2>3. QED
    BY <1>2, <2>1, <2>2 DEF Sentinel, Verify, Run, Record, Crash
<1>4. nonces' \subseteq Tasks /\ good' \subseteq Tasks /\ late' \subseteq Results
  <2>1. CASE Run(p) \/ Record(p)
    BY <1>2, <2>1 DEF TypeOK, Run, Record, Results
  <2>2. CASE Send(p)
    BY <1>2, <2>2, SMTT(40) DEF TypeOK, Send, Results
  <2>3. QED
    BY <2>1, <2>2 DEF TypeOK, Sentinel, Pull, Verify, Crash, Results
<1>5. stuck' = stuck
  BY DEF Sentinel, Pull, Verify, Run, Record, Send, Crash
<1>6. QED
  BY <1>1, <1>3, <1>4, <1>5 DEF TypeOK, Process, Results, Fitting

-------------------------------------------------------------------------------
(* What is reported is what happened.                                       *)

LEMMA OkIsGoodStep ==
  ASSUME EdgeAssumption, TypeOK, OkIsGood, [Next]_vars
  PROVE  OkIsGood'
<1>1. /\ row \in [Tasks -> Rows] /\ late \subseteq Results
      /\ \A p \in Processes : process[p].exit \in Exits
                              /\ (process[p].pc # "idle" => process[p].task \in Tasks)
  BY DEF TypeOK, Results
<1>2. /\ \A p \in Processes : process[p].exit = "ok" => process[p].task \in good
      /\ \A m \in late : m.exit = "ok" => m.task \in good
      /\ \A t \in Tasks : row[t].status = "done" => t \in good
  BY DEF OkIsGood, DoneIsEarned, With
<1>3. SUFFICES /\ \A p \in Processes : process'[p].exit = "ok" => process'[p].task \in good'
               /\ \A m \in late' : m.exit = "ok" => m.task \in good'
               /\ \A t \in Tasks : row'[t].status = "done" => t \in good'
  BY DEF OkIsGood, DoneIsEarned, With
<1>4. CASE UNCHANGED vars
  BY <1>2, <1>4 DEF vars
<1>5. ASSUME NEW t \in Tasks, Create(t) \/ Age(t)
      PROVE  /\ UNCHANGED <<process, late, good>>
             /\ \A u \in Tasks : row'[u].status = "done" => row[u].status = "done"
  <2>1. CASE Create(t)
    <3> DEFINE r == [NoRow EXCEPT !.status = "pending", !.key = Tier[t]]
    <3>1. row' = [row EXCEPT ![t] = r] /\ r.status = "pending"
      BY <2>1 DEF Create, NoRow
    <3>2. \A u \in Tasks : row'[u] = row[u] \/ row'[u].status = "pending"
      <4> HIDE DEF r
      <4>1. QED
        BY <1>1, <3>1
    <3>3. QED
      BY <2>1, <3>2 DEF Create
  <2>2. CASE Age(t)
    BY <1>1, <2>2 DEF Age, Rows
  <2>3. QED
    BY <1>5, <2>1, <2>2
<1>6. ASSUME NEW s \in Sweepers, Look(s) \/ Sweep(s)
      PROVE  /\ UNCHANGED <<process, late, good>>
             /\ \A u \in Tasks : row'[u].status = "done" => row[u].status = "done"
  <2>1. CASE Look(s)
    BY <2>1 DEF Look
  <2>2. CASE Sweep(s)
    <3>1. PICK t \in stuck[s] : row' = Retransmitted(t)
      BY <2>2 DEF Sweep
    <3>2. t \in Tasks
      BY <3>1 DEF TypeOK
    <3>3. \A u \in Tasks : Retransmitted(t)[u] = row[u] \/ Retransmitted(t)[u].status \in {"pending", "failed"}
      BY <3>2, RetransmittedType
    <3>4. UNCHANGED <<process, late, good>>
      BY <2>2 DEF Sweep
    <3>5. ASSUME NEW u \in Tasks, row'[u].status = "done" PROVE row[u].status = "done"
      <4>1. row'[u] = row[u] \/ row'[u].status \in {"pending", "failed"}
        BY <3>1, <3>3
      <4>2. QED
        BY <3>5, <4>1
    <3>6. QED
      BY <3>4, <3>5
  <2>3. QED
    BY <1>6, <2>1, <2>2
<1>7. CASE Arrive
  <2>1. PICK m \in late : row' = Submitted(m.task, m.exit) /\ late' = late \ {m}
    BY <1>7 DEF Arrive
  <2>2. m.task \in Tasks /\ m.exit \in Exits
    BY <1>1, <2>1 DEF Results
  <2>3. \A u \in Tasks : row'[u].status = "done" =>
          row[u].status = "done" \/ (u = m.task /\ m.exit = "ok")
    <3>1. PICK k \in Tasks, e \in Exits : row' = Submitted(k, e) /\ k = m.task /\ e = m.exit
      BY <2>1, <2>2
    <3>2. \A u \in Tasks : \/ Submitted(k, e)[u] = row[u]
                           \/ /\ u = k
                              /\ Submitted(k, e)[k].status = "done" => e = "ok"
      <4>1. TypeOK /\ k \in Tasks /\ e \in Exits
        OBVIOUS
      <4>2. QED
        BY <4>1, SubmittedType
    <3>3. QED
      BY <3>1, <3>2
  <2>4. UNCHANGED <<process, good>> /\ late' \subseteq late
    BY <1>7, <2>1 DEF Arrive
  <2>5. m.exit = "ok" => m.task \in good
    BY <1>2, <2>1
  <2>6. QED
    BY <1>2, <2>3, <2>4, <2>5
<1>8. ASSUME NEW p \in Processes, Sentinel(p) \/ Crash(p)
      PROVE  /\ \A o \in Processes : process'[o].exit = "ok" => process'[o].task \in good'
             /\ \A m \in late' : m.exit = "ok" => m.task \in good'
             /\ \A t \in Tasks : row'[t].status = "done" => t \in good'
  <2>1. good \subseteq good'
    BY <1>8 DEF Sentinel, Pull, Verify, Run, Record, Send, Crash
  <2>2. \A o \in Processes : process'[o].exit = "ok" => process'[o].task \in good'
    <3>1. PICK q \in Process :
            /\ process' = [process EXCEPT ![p] = q]
            /\ \/ q = Idle \/ q = process[p]
               \/ q.exit = "refused"
               \/ /\ q.task = process[p].task
                  /\ q.exit = "ok" => process[p].exit = "ok" \/ q.task \in good'
      BY <1>8, ProcessStep
    <3>2. Idle.exit # "ok"
      BY DEF Idle
    <3>3. q.exit = "ok" => q.task \in good'
      BY <1>2, <2>1, <3>1, <3>2
    <3>4. \A o \in Processes : process'[o] = IF o = p THEN q ELSE process[o]
      BY <3>1 DEF TypeOK
    <3>5. QED
      BY <1>2, <2>1, <3>3, <3>4
  <2>3. \A m \in late' : m \in late \/ m = [task |-> process[p].task, exit |-> process[p].exit]
    <3>1. CASE Send(p)
      BY <3>1, SMTT(40) DEF Send
    <3>2. CASE ~ Send(p)
      BY <1>8, <3>2 DEF Sentinel, Pull, Verify, Run, Record, Crash
    <3>3. QED
      BY <3>1, <3>2
  <2>4. \A u \in Tasks : row'[u].status = "done" =>
          row[u].status = "done" \/ (u = process[p].task /\ process[p].exit = "ok")
    <3>1. CASE Pull(p)
      <4>1. PICK t \in With("pending") : row' = [row EXCEPT ![t].status = "dispatched"]
        BY <3>1 DEF Pull
      <4>2. QED
        BY <1>1, <4>1 DEF With, Rows
    <3>2. CASE Send(p)
      BY <1>1, <3>2, SubmittedType DEF Send
    <3>3. QED
      BY <1>8, <3>1, <3>2 DEF Sentinel, Verify, Run, Record, Crash
  <2>5. QED
    BY <1>2, <2>1, <2>2, <2>3, <2>4
<1>9. QED
  BY <1>2, <1>4, <1>5, <1>6, <1>7, <1>8 DEF Next

-------------------------------------------------------------------------------
(* A task has one process at a time.                                        *)

Inv == TypeOK /\ OneProcess /\ NoReplay

LEMMA InitInv == ASSUME EdgeAssumption, Init PROVE Inv
<1>1. \A p \in Processes : process[p].pc = "idle"
  BY DEF Init, Idle
<1>2. OneProcess /\ NoReplay
  BY <1>1 DEF Init, OneProcess, NoReplay
<1>3. QED
  BY <1>2, InitType DEF Inv

\* The hub lets no task go that is out, unless the sweep puts it back into the
\* queue: and then nobody has it.
LEMMA HubKeepsOne ==
  ASSUME EdgeAssumption, SweepAssumption, Inv, Hub PROVE OneProcess' /\ NoReplay'
<1>1. /\ row \in [Tasks -> Rows]
      /\ \A p \in Processes : process[p].pc # "idle" => process[p].task \in Tasks /\ Out(row[process[p].task])
      /\ \A s \in Sweepers, u \in Tasks : u \in stuck[s] =>
           Out(row[u]) /\ \A p \in Processes : ~ Holding(p, u)
      /\ stuck \in [Sweepers -> SUBSET Tasks] /\ \A r, s \in Sweepers : r = s
  BY SMTT(40) DEF Inv, TypeOK, OneProcess, SweepAssumption
<1>2. UNCHANGED <<process, nonces>> /\ \A p \in Processes, u \in Tasks : Holding(p, u) = Holding(p, u)'
  BY DEF Hub, Create, Age, Look, Sweep, Arrive, Holding
<1> DEFINE Kept == /\ \A p \in Processes : process[p].pc # "idle" => Out(row'[process[p].task])
                   /\ \A s \in Sweepers : \A u \in stuck'[s] :
                        Out(row'[u]) /\ u \in Tasks /\ \A p \in Processes : ~ Holding(p, u)
<1>3. SUFFICES Kept
  BY <1>2 DEF Inv, OneProcess, NoReplay
<1> HIDE DEF Kept
<1>4. ASSUME stuck' = stuck, \A u \in Tasks : Out(row[u]) => Out(row'[u]) PROVE Kept
  BY <1>1, <1>4 DEF Kept
<1>5. ASSUME NEW t \in Tasks, Create(t) \/ Age(t) PROVE Kept
  <2>1. stuck' = stuck /\ \A u \in Tasks : Out(row[u]) => Out(row'[u])
    BY <1>1, <1>5 DEF Create, Age, Out, Rows
  <2>2. QED
    BY <1>4, <2>1
<1>6. ASSUME NEW s \in Sweepers, Look(s) PROVE Kept
  <2>1. PICK found \in SUBSET With("dispatched") :
          /\ Patient => \A u \in found, p \in Processes : ~ Holding(p, u)
          /\ stuck' = [stuck EXCEPT ![s] = found]
    BY <1>6 DEF Look
  <2>2. row' = row /\ \A r \in Sweepers : stuck'[r] = found
    BY <1>1, <1>6, <2>1 DEF Look
  <2>3. \A u \in found : u \in Tasks /\ Out(row[u]) /\ \A p \in Processes : ~ Holding(p, u)
    BY <2>1 DEF With, Out, SweepAssumption
  <2>4. QED
    BY <1>1, <2>2, <2>3 DEF Out, Kept
<1>7. ASSUME NEW s \in Sweepers, Sweep(s) PROVE Kept
  <2>1. PICK u \in stuck[s] : row' = Retransmitted(u) /\ stuck' = [stuck EXCEPT ![s] = @ \ {u}]
    BY <1>7 DEF Sweep
  <2>2. u \in Tasks /\ \A r \in Sweepers : stuck'[r] = stuck[r] \ {u}
    BY <1>1, <2>1
  <2>3. \A v \in Tasks \ {u} : row'[v] = row[v]
    BY <2>1, <2>2, RetransmittedType DEF Inv
  <2>4. \A v \in Tasks \ {u} : Out(row[v]) => Out(row'[v])
    BY <2>3 DEF Out
  <2>5. \A p \in Processes : process[p].pc # "idle" => process[p].task # u
    BY <1>1, <2>1, <2>2 DEF Holding
  <2>6. QED
    BY <1>1, <2>2, <2>4, <2>5, ZenonT(60) DEF Kept
<1>8. CASE Arrive
  <2>1. PICK m \in late : row' = Submitted(m.task, m.exit)
    BY <1>8 DEF Arrive
  <2>2. m.task \in Tasks /\ m.exit \in Exits /\ stuck' = stuck
    BY <1>8, <2>1 DEF Inv, TypeOK, Arrive
  <2>3. \A u \in Tasks : Out(row[u]) => Out(row'[u])
    <3>1. PICK k \in Tasks, e \in Exits : row' = Submitted(k, e)
      BY <2>1, <2>2
    <3>2. \A u \in Tasks : row'[u] = row[u] \/ (u = k /\ row'[k].status \in {"done", "failed"})
      BY <3>1, SubmittedType DEF Inv
    <3>3. QED
      BY <3>2 DEF Out
  <2>4. QED
    BY <1>1, <2>2, <2>3 DEF Kept
<1>9. QED
  BY <1>5, <1>6, <1>7, <1>8 DEF Hub

\* A process only takes a task that waits in the queue, so nobody has it.
LEMMA NodeKeepsOne ==
  ASSUME EdgeAssumption, Inv, NEW p \in Processes, Sentinel(p) \/ Crash(p)
  PROVE  OneProcess' /\ NoReplay'
<1>1. /\ row \in [Tasks -> Rows] /\ process \in [Processes -> Process]
      /\ \A o \in Processes : process[o].pc # "idle" => process[o].task \in Tasks
      /\ \A r \in Sweepers : stuck[r] \subseteq Tasks
  BY DEF Inv, TypeOK, Process
<1>2. /\ \A o \in Processes : process[o].pc # "idle" => Out(row[process[o].task])
      /\ \A o, q \in Processes :
           process[o].pc # "idle" /\ process[q].pc # "idle" /\ process[o].task = process[q].task => o = q
      /\ \A r \in Sweepers : \A u \in stuck[r] : Out(row[u]) /\ \A o \in Processes : ~ Holding(o, u)
  BY DEF Inv, OneProcess
<1>3. stuck' = stuck /\ TypeOK'
  BY NodeType DEF Inv, Sentinel, Pull, Verify, Run, Record, Send, Crash
<1>4. PICK q \in Process :
        /\ process' = [process EXCEPT ![p] = q]
        /\ \/ q = Idle \/ Pull(p)
           \/ q.pc = process[p].pc /\ q.task = process[p].task
           \/ process[p].pc # "idle" /\ q.pc # "idle" /\ q.task = process[p].task
  BY ProcessStep DEF Inv
<1>5. process'[p] = q /\ \A o \in Processes \ {p} : process'[o] = process[o]
  BY <1>1, <1>4
<1>6. CASE Pull(p)
  <2>1. PICK t \in With("pending") :
          /\ row' = [row EXCEPT ![t].status = "dispatched"]
          /\ \/ Set(p, [Idle EXCEPT !.pc = "pulled", !.task = t,
                                    !.valid = row[t].key = Tier[t] /\ row[t].fresh])
             \/ UNCHANGED process
    BY <1>6 DEF Pull
  <2>2. t \in Tasks /\ ~ Out(row[t]) /\ Out(row'[t]) /\ \A u \in Tasks \ {t} : row'[u] = row[u]
    BY <1>1, <2>1 DEF With, Out, Rows
  <2>3. \A u \in Tasks : Out(row[u]) => Out(row'[u])
    BY <2>2 DEF Out
  <2>4. \A o \in Processes : process[o].pc # "idle" => process[o].task # t
    BY <1>2, <2>2
  <2>5. \A r \in Sweepers : t \notin stuck[r]
    BY <1>2, <2>2
  <2>6. \/ process' = process
        \/ process'[p].pc = "pulled" /\ process'[p].task = t /\ process[p].pc = "idle"
    <3> DEFINE r == [Idle EXCEPT !.pc = "pulled", !.task = t,
                                 !.valid = row[t].key = Tier[t] /\ row[t].fresh]
    <3>1. process[p].pc = "idle" /\ (process' = [process EXCEPT ![p] = r] \/ process' = process)
      BY <1>6, <2>1 DEF Pull, Set
    <3>2. r.pc = "pulled" /\ r.task = t
      BY IdleIsProcess DEF Process
    <3>3. QED
      <4> HIDE DEF r
      <4>1. QED
        BY <1>1, <3>1, <3>2
  <2>7. OneProcess'
    <3>1. \A o \in Processes : process'[o].pc # "idle" => Out(row'[process'[o].task])
      <4>1. CASE process' = process
        BY <1>1, <1>2, <2>3, <4>1
      <4>2. CASE process' # process
        <5>1. process'[p].task = t
          BY <2>6, <4>2
        <5>2. \A o \in Processes \ {p} : process'[o] = process[o]
          BY <1>5
        <5>3. \A o \in Processes \ {p} : process'[o].pc # "idle" => Out(row[process'[o].task])
          BY <1>2, <5>2
        <5>4. \A o \in Processes \ {p} : process'[o].pc # "idle" => process'[o].task \in Tasks
          BY <1>1, <5>2
        <5>5. \A o \in Processes \ {p} : process'[o].pc # "idle" => Out(row'[process'[o].task])
          BY <2>3, <5>3, <5>4
        <5>6. QED
          BY <2>2, <5>1, <5>5
      <4>3. QED
        BY <4>1, <4>2
    <3>2. \A o, q2 \in Processes :
             process'[o].pc # "idle" /\ process'[q2].pc # "idle" /\ process'[o].task = process'[q2].task
               => o = q2
      <4>1. CASE process' = process
        BY <1>2, <4>1
      <4>2. CASE process' # process
        <5>1. \A o \in Processes \ {p} : process'[o].pc # "idle" => process'[o].task # process'[p].task
          BY <1>5, <2>4, <2>6, <4>2
        <5>2. \A o \in Processes \ {p} : process'[o] = process[o]
          BY <1>5
        <5>3. \A o, q2 \in Processes \ {p} :
                 process'[o].pc # "idle" /\ process'[q2].pc # "idle" /\ process'[o].task = process'[q2].task
                   => o = q2
          BY <1>2, <5>2
        <5>4. QED
          BY <5>1, <5>3
      <4>3. QED
        BY <4>1, <4>2
    <3>3. \A r \in Sweepers : \A u \in stuck'[r] :
             Out(row'[u]) /\ \A o \in Processes : ~ (process'[o].pc # "idle" /\ process'[o].task = u)
      <4> SUFFICES ASSUME NEW r \in Sweepers, NEW u \in stuck[r]
                   PROVE  /\ Out(row'[u])
                          /\ \A o \in Processes : ~ (process'[o].pc # "idle" /\ process'[o].task = u)
        BY <1>3
      <4>1. u \in Tasks /\ u # t /\ Out(row[u])
            /\ \A o \in Processes : ~ (process[o].pc # "idle" /\ process[o].task = u)
        BY <1>1, <1>2, <2>5 DEF Holding
      <4>2. process'[p] = process[p] \/ process'[p].task = t
        BY <2>6
      <4>3. QED
        BY <1>5, <2>3, <4>1, <4>2
    <3>4. QED
      BY <3>1, <3>2, <3>3 DEF OneProcess, Holding
  <2>8. NoReplay'
    <3>1. nonces' = nonces
      BY <1>6 DEF Pull
    <3>2. QED
      BY <1>5, <2>6, <3>1 DEF Inv, NoReplay
  <2>9. QED
    BY <2>7, <2>8
<1>7. CASE ~ Pull(p)
  <2>1. /\ q.pc # "idle" => process[p].pc # "idle" /\ q.task = process[p].task
    BY <1>4, <1>7 DEF Idle
  <2>2. \A u \in Tasks : Out(row[u]) => Out(row'[u])
    <3>1. CASE Send(p)
      <4>1. process[p].task \in Tasks /\ process[p].exit \in Exits
        BY <1>1, <3>1 DEF Send, Process
      <4>2. QED
        BY <3>1, <4>1, SubmittedType DEF Send, Out, Inv
    <3>2. CASE ~ Send(p)
      BY <1>7, <3>2 DEF Sentinel, Verify, Run, Record, Crash, Out
    <3>3. QED
      BY <3>1, <3>2
  <2>3. OneProcess'
    <3>1. \A o \in Processes : process'[o].pc # "idle" =>
             process[o].pc # "idle" /\ process'[o].task = process[o].task
      BY <1>5, <2>1
    <3>2. \A o \in Processes : process'[o].pc # "idle" => Out(row'[process'[o].task])
      BY <1>1, <1>2, <2>2, <3>1
    <3>3. \A o, q2 \in Processes :
             process'[o].pc # "idle" /\ process'[q2].pc # "idle" /\ process'[o].task = process'[q2].task
               => o = q2
      BY <1>2, <3>1
    <3>4. \A r \in Sweepers : \A u \in stuck'[r] :
             Out(row'[u]) /\ \A o \in Processes : ~ (process'[o].pc # "idle" /\ process'[o].task = u)
      BY <1>1, <1>2, <1>3, <2>2, <3>1 DEF Holding
    <3>5. QED
      BY <3>2, <3>3, <3>4 DEF OneProcess, Holding
  <2>4. NoReplay'
    <3>1. \A o \in Processes \ {p} : process[o].pc # "idle" /\ process[p].pc # "idle"
                                      => process[o].task # process[p].task
      BY <1>2
    <3>2. nonces' \subseteq nonces \cup {process[p].task} /\ (nonces' = nonces \/ process[p].pc # "idle")
      BY <1>7 DEF Sentinel, Verify, Run, Record, Send, Crash
    <3>3. \A o \in Processes \ {p} : process[o].pc \in {"running", "ran"} => process[o].task \notin nonces'
      BY <3>1, <3>2 DEF Inv, NoReplay
    <3>4. q.pc \in {"running", "ran"} => q.task \notin nonces'
      <4>1. CASE Verify(p)
        <5>1. \/ /\ q = [process[p] EXCEPT !.pc = "running"]
                 /\ process[p].task \notin nonces
              \/ q = Answering(process[p], "refused")
          BY <1>1, <1>5, <4>1 DEF Verify, Set
        <5>2. nonces' = nonces /\ Answering(process[p], "refused").pc = "sending"
              /\ [process[p] EXCEPT !.pc = "running"].task = process[p].task
          BY <1>1, <4>1, AnsweringType DEF Verify, Exits, Process
        <5>3. QED
          BY <5>1, <5>2
      <4>2. CASE Run(p)
        BY <1>1, <1>5, <2>1, <4>2 DEF Run, Inv, NoReplay
      <4>3. CASE Record(p)
        <5>1. q = Answering(process[p], process[p].exit)
          BY <1>1, <1>5, <4>3 DEF Record, Set
        <5>2. q.pc = "sending"
          BY <1>1, <5>1, AnsweringType DEF Process
        <5>3. QED
          BY <5>2
      <4>4. CASE Send(p) \/ Crash(p)
        BY <1>1, <1>5, <4>4 DEF Send, Crash, Set, Idle, Process
      <4>5. QED
        BY <1>7, <4>1, <4>2, <4>3, <4>4 DEF Sentinel
    <3>5. QED
      BY <1>5, <3>3, <3>4 DEF NoReplay
  <2>5. QED
    BY <2>3, <2>4
<1>8. QED
  BY <1>6, <1>7

-------------------------------------------------------------------------------

\* The rows of edge_tasks and what the processes are about keep their shape, and
\* a process that sends a result has attempts left.
THEOREM TypeCorrect == ASSUME EdgeAssumption PROVE Spec => []TypeOK
<1>1. Init => TypeOK
  BY InitType
<1>2. TypeOK /\ [Next]_vars => TypeOK'
  <2> SUFFICES ASSUME TypeOK, [Next]_vars PROVE TypeOK'
    OBVIOUS
  <2>1. CASE UNCHANGED vars
    BY <2>1 DEF vars, TypeOK
  <2>2. CASE Hub
    BY <2>2, HubType
  <2>3. ASSUME NEW p \in Processes, Sentinel(p) \/ Crash(p) PROVE TypeOK'
    BY <2>3, NodeType
  <2>4. QED
    BY <2>1, <2>2, <2>3 DEF Next, Hub
<1>3. QED
  BY <1>1, <1>2, PTL DEF Spec

\* Whatever is lost, doubled, late, retransmitted or executed by two processes
\* at once: the hub calls done only what ended with exit code 0 on the node.
THEOREM DoneWasExecuted == ASSUME EdgeAssumption PROVE Spec => []DoneIsEarned
<1>1. Init => TypeOK /\ OkIsGood
  <2>1. Init => OkIsGood
    BY DEF Init, OkIsGood, DoneIsEarned, With, NoRow, Idle
  <2>2. QED
    BY <2>1, InitType
<1>2. TypeOK /\ TypeOK' /\ OkIsGood /\ [Next]_vars => OkIsGood'
  BY OkIsGoodStep
<1>3. OkIsGood => DoneIsEarned
  BY DEF OkIsGood
<1>4. QED
  BY <1>1, <1>2, <1>3, TypeCorrect, PTL DEF Spec

\* With a sweep that is not started beside itself and is patient enough, no
\* command is executed after its nonce was recorded, by whichever process, and
\* what the hub calls done was executed.
THEOREM ResultsAreEarned ==
  ASSUME EdgeAssumption, SweepAssumption PROVE Spec => []ResultsEarned
<1>1. Init => Inv
  BY InitInv
<1>2. Inv /\ TypeOK' /\ [Next]_vars => Inv'
  <2> SUFFICES ASSUME Inv, TypeOK', [Next]_vars PROVE Inv'
    OBVIOUS
  <2>1. CASE UNCHANGED vars
    BY <2>1 DEF vars, Inv, OneProcess, NoReplay, Out, Holding
  <2>2. CASE Hub
    BY <2>2, HubKeepsOne DEF Inv
  <2>3. ASSUME NEW p \in Processes, Sentinel(p) \/ Crash(p) PROVE Inv'
    BY <2>3, NodeKeepsOne DEF Inv
  <2>4. QED
    BY <2>1, <2>2, <2>3 DEF Next, Hub
<1>3. Inv /\ DoneIsEarned => ResultsEarned
  BY DEF Inv, ResultsEarned
<1>4. QED
  BY <1>1, <1>2, <1>3, TypeCorrect, DoneWasExecuted, PTL DEF Spec

-------------------------------------------------------------------------------
(* The notices about a meeting: MeetingOutbox, over the row of MeetingStates,  *)
(* for any number of channels and attempts, and for the one notifier the      *)
(* plug-in starts.                                                            *)

\* start_notifier: there is one notifier.
OneNotifier == \A m, n \in Notifiers : m = n

MeetingOK ==
  meeting \in [state : {"open", "awaiting_approval", "changes_requested"} \cup Final,
               round : Rounds, archived : BOOLEAN]

\* The owner was asked in round r, or might have been, and is not any more.
Over(r) ==
  \/ meeting.round > r
  \/ meeting.round = r /\ meeting.state \in {"changes_requested"} \cup Final

\* A notifier is only about a request that was made; once a message was late,
\* nobody is in front of the next one.
Timely ==
  /\ \A n \in Notifiers : notifier[n].pc # "idle" =>
       Asked(notifier[n].round) \/ Over(notifier[n].round)
  /\ \A r \in Rounds : belated[r] # 0 =>
       /\ belated[r] = 1 /\ Over(r)
       /\ \A n \in Notifiers : notifier[n].pc = "send" => notifier[n].round # r

NoticesInv == MeetingOK /\ NoticesTypeOK /\ Timely

LEMMA NoticesInit == ASSUME OutboxInit PROVE NoticesInv
<1> USE RoundAssumption, OutboxAssumption DEF RoundAssumption, OutboxAssumption, OutboxInit, Rounds
<1>1. MeetingOK
  BY DEF MeetingOK, Start, Final
<1>2. NoticesTypeOK
  BY DEF NoticesTypeOK, Settled, NoNotice, Resting
<1>3. Timely
  BY DEF Timely, Resting
<1>4. QED
  BY <1>1, <1>2, <1>3 DEF NoticesInv

\* A step of the meeting; a request that was decided stays decided.
LEMMA MeetingGoesOn ==
  ASSUME MeetingOK, Course
  PROVE  /\ MeetingOK'
         /\ \A r \in Rounds : Over(r) => Over(r)'
         /\ \A r \in Rounds : Asked(r) => Asked(r)' \/ Over(r)'
<1> USE RoundAssumption DEF RoundAssumption, MeetingOK, Over, Asked, Rounds, Final
<1>1. CASE NextRound
  <2>1. /\ meeting.round \in Rounds /\ meeting.round < MaxRound
        /\ meeting.state \in {"open", "changes_requested"}
        /\ meeting' = [state |-> "open", round |-> meeting.round + 1, archived |-> meeting.archived]
    BY <1>1 DEF NextRound
  <2>2. meeting.round + 1 \in Rounds
    BY <2>1
  <2>3. MeetingOK'
    BY <2>1, <2>2
  <2>4. /\ \A r \in Rounds : Over(r) => Over(r)'
        /\ \A r \in Rounds : Asked(r) => Asked(r)' \/ Over(r)'
    BY <2>1
  <2>5. QED
    BY <2>3, <2>4
<1>2. CASE Ask
  BY <1>2 DEF Ask
<1>3. CASE Verdict
  BY <1>3 DEF Verdict
<1>4. CASE Cancel
  BY <1>4 DEF Cancel
<1>5. CASE Close
  BY <1>5 DEF Close
<1>6. QED
  BY <1>1, <1>2, <1>3, <1>4, <1>5 DEF Course

\* Nobody is asked about a request that was decided.
LEMMA NotAsked == ASSUME MeetingOK, NEW r \in Rounds, Over(r) PROVE ~ Asked(r)
  BY DEF MeetingOK, Over, Asked, Rounds, Final

LEMMA OthersStep ==
  ASSUME NoticesInv, Requested \/ Other \/ \E r \in Rounds : Due(r)
  PROVE  NoticesInv'
<1> USE RoundAssumption, OutboxAssumption
<1>1. MeetingOK /\ NoticesTypeOK /\ Timely
  BY DEF NoticesInv
<1>2. CASE Requested \/ Other
  <2>1. Course /\ UNCHANGED <<notifier, belated>>
    BY <1>2 DEF Requested, Other, Course
  <2>2. /\ MeetingOK'
        /\ \A r \in Rounds : Over(r) => Over(r)'
        /\ \A r \in Rounds : Asked(r) => Asked(r)' \/ Over(r)'
    BY <1>1, <2>1, MeetingGoesOn
  <2>3. NoticesTypeOK'
    <3>1. CASE Other
      BY <1>1, <2>1, <3>1 DEF Other, NoticesTypeOK
    <3>2. CASE Requested
      <4>1. [NoNotice EXCEPT !.state = "pending", !.due = TRUE]
              \in [state : {"none", "pending", "sending"} \cup Settled,
                   attempts : 0 .. MaxAttempts, due : BOOLEAN]
        <5>1. 0 \in 0 .. MaxAttempts
          BY DEF OutboxAssumption
        <5>2. QED
          BY <5>1, Zenon DEF NoNotice
      <4>2. QED
        BY <1>1, <2>1, <3>2, <4>1 DEF Requested, NoticesTypeOK
    <3>3. QED
      BY <1>2, <3>1, <3>2
  <2>4. Timely'
    <3>1. \A n \in Notifiers : notifier[n].round \in Rounds
      BY <1>1 DEF NoticesTypeOK
    <3>2. QED
      BY <1>1, <2>1, <2>2, <3>1 DEF Timely
  <2>5. QED
    BY <2>2, <2>3, <2>4 DEF NoticesInv
<1>3. ASSUME NEW r \in Rounds, Due(r) PROVE NoticesInv'
  <2>1. UNCHANGED <<meeting, notifier, belated>>
    BY <1>3 DEF Due
  <2>2. NoticesTypeOK'
    <3> DEFINE notice == [outbox[r] EXCEPT !.due = TRUE]
    <3>1. notice \in [state : {"none", "pending", "sending"} \cup Settled,
                      attempts : 0 .. MaxAttempts, due : BOOLEAN]
      BY <1>1, ZenonT(60) DEF NoticesTypeOK
    <3>2. outbox' = [outbox EXCEPT ![r] = notice]
      BY <1>3 DEF Due
    <3> HIDE DEF notice
    <3>3. QED
      BY <1>1, <2>1, <3>1, <3>2 DEF NoticesTypeOK
  <2>3. MeetingOK' /\ Timely'
    BY <1>1, <2>1 DEF MeetingOK, Timely, Asked, Over
  <2>4. QED
    BY <2>2, <2>3 DEF NoticesInv
<1>4. QED
  BY <1>2, <1>3

LEMMA NotifierStep ==
  ASSUME OneNotifier, NoticesInv, NEW n \in Notifiers,
         Notify(n) \/ NotifierStops(n)
  PROVE  NoticesInv'
<1> USE RoundAssumption, OutboxAssumption
<1>1. MeetingOK /\ NoticesTypeOK /\ Timely /\ notifier[n].round \in Rounds
  BY DEF NoticesInv, NoticesTypeOK
<1>2. MeetingOK' /\ \A r \in Rounds : (Over(r) <=> Over(r)') /\ (Asked(r) <=> Asked(r)')
  BY <1>1 DEF Notify, ClaimNotice, CheckAsked, SendNotice, WriteOutcome, NotifierStops, MeetingOK, Over, Asked
<1>3. Resting \in [pc : {"idle", "check", "send", "write"}, round : Rounds,
                   left : 0 .. Channels, last : BOOLEAN,
                   outcome : {"none", "delivered", "cancelled"}]
  BY DEF Resting, Rounds, RoundAssumption, OutboxAssumption
<1>4. CASE ClaimNotice(n)
  <2>1. PICK r \in Candidates :
          IF Asked(r)
          THEN /\ outbox' = [outbox EXCEPT ![r] =
                    [outbox[r] EXCEPT !.state = "sending", !.due = FALSE, !.attempts = @ + 1]]
               /\ notifier' = [notifier EXCEPT ![n] =
                    [pc |-> "check", round |-> r, left |-> Channels,
                     last |-> outbox[r].attempts + 1 = MaxAttempts, outcome |-> "none"]]
          ELSE outbox' = [outbox EXCEPT ![r].state = "cancelled"] /\ UNCHANGED notifier
    BY <1>4 DEF ClaimNotice
  <2>2. r \in Rounds /\ outbox[r].attempts \in 0 .. MaxAttempts /\ outbox[r].attempts < MaxAttempts
    BY <1>1 DEF NoticesTypeOK, Candidates
  <2>3. belated' = belated
    BY <1>4 DEF ClaimNotice
  <2>4. CASE Asked(r)
    <3>1. [outbox[r] EXCEPT !.state = "sending", !.due = FALSE, !.attempts = @ + 1]
            \in [state : {"none", "pending", "sending"} \cup Settled,
                 attempts : 0 .. MaxAttempts, due : BOOLEAN]
      <4>1. outbox[r].attempts + 1 \in 0 .. MaxAttempts
        BY <2>2 DEF OutboxAssumption
      <4>2. outbox[r] \in [state : {"none", "pending", "sending"} \cup Settled,
                           attempts : 0 .. MaxAttempts, due : BOOLEAN]
        BY <1>1, <2>2 DEF NoticesTypeOK
      <4>3. QED
        BY <4>1, <4>2
    <3>2. [pc |-> "check", round |-> r, left |-> Channels,
           last |-> outbox[r].attempts + 1 = MaxAttempts, outcome |-> "none"]
            \in [pc : {"idle", "check", "send", "write"}, round : Rounds,
                 left : 0 .. Channels, last : BOOLEAN,
                 outcome : {"none", "delivered", "cancelled"}]
      BY <2>2 DEF OutboxAssumption
    <3>3. NoticesTypeOK'
      <4>1. outbox' \in [Rounds -> [state : {"none", "pending", "sending"} \cup Settled,
                                   attempts : 0 .. MaxAttempts, due : BOOLEAN]]
        <5>1. outbox' = [outbox EXCEPT ![r] =
                 [outbox[r] EXCEPT !.state = "sending", !.due = FALSE, !.attempts = @ + 1]]
          BY <2>1, <2>4
        <5>2. outbox \in [Rounds -> [state : {"none", "pending", "sending"} \cup Settled,
                                    attempts : 0 .. MaxAttempts, due : BOOLEAN]]
          BY <1>1 DEF NoticesTypeOK
        <5>3. QED
          BY <3>1, <5>1, <5>2
      <4>2. notifier' \in [Notifiers -> [pc : {"idle", "check", "send", "write"}, round : Rounds,
                                         left : 0 .. Channels, last : BOOLEAN,
                                         outcome : {"none", "delivered", "cancelled"}]]
        BY <1>1, <2>1, <2>4, <3>2, ZenonT(60) DEF NoticesTypeOK
      <4>3. QED
        BY <1>1, <2>3, <4>1, <4>2 DEF NoticesTypeOK
    <3>4. \A m \in Notifiers : notifier'[m].pc = "check" /\ notifier'[m].round = r
      BY <1>1, <2>1, <2>4 DEF NoticesTypeOK, OneNotifier
    <3>5. Timely'
      BY <1>1, <1>2, <2>2, <2>3, <2>4, <3>4 DEF Timely
    <3>6. QED
      BY <1>2, <3>3, <3>5 DEF NoticesInv
  <2>5. CASE ~ Asked(r)
    <3>1. outbox' = [outbox EXCEPT ![r].state = "cancelled"] /\ UNCHANGED <<notifier, belated>>
      BY <2>1, <2>3, <2>5
    <3>2. NoticesTypeOK'
      <4>1. [outbox[r] EXCEPT !.state = "cancelled"]
              \in [state : {"none", "pending", "sending"} \cup Settled,
                   attempts : 0 .. MaxAttempts, due : BOOLEAN]
        BY <1>1, <2>2 DEF NoticesTypeOK, Settled
      <4>2. outbox' = [outbox EXCEPT ![r] = [outbox[r] EXCEPT !.state = "cancelled"]]
        BY <3>1
      <4>3. QED
        BY <1>1, <3>1, <4>1, <4>2, ZenonT(60) DEF NoticesTypeOK
    <3>3. Timely'
      BY <1>1, <1>2, <3>1 DEF Timely, NoticesTypeOK
    <3>4. QED
      BY <1>2, <3>2, <3>3 DEF NoticesInv
  <2>6. QED
    BY <2>4, <2>5
<1>5. CASE CheckAsked(n)
  <2>1. notifier[n].pc = "check" /\ UNCHANGED <<outbox, belated>>
    BY <1>5 DEF CheckAsked
  <2>2. NoticesTypeOK'
    <3>1. notifier' = [notifier EXCEPT ![n] =
            IF Asked(notifier[n].round) THEN [notifier[n] EXCEPT !.pc = "send"]
            ELSE [notifier[n] EXCEPT !.pc = "write", !.outcome = "cancelled"]]
      BY <1>5 DEF CheckAsked
    <3>2. /\ [notifier[n] EXCEPT !.pc = "send"]
               \in [pc : {"idle", "check", "send", "write"}, round : Rounds,
                    left : 0 .. Channels, last : BOOLEAN,
                    outcome : {"none", "delivered", "cancelled"}]
          /\ [notifier[n] EXCEPT !.pc = "write", !.outcome = "cancelled"]
               \in [pc : {"idle", "check", "send", "write"}, round : Rounds,
                    left : 0 .. Channels, last : BOOLEAN,
                    outcome : {"none", "delivered", "cancelled"}]
      BY <1>1, ZenonT(60) DEF NoticesTypeOK
    <3>3. QED
      BY <1>1, <2>1, <3>1, <3>2 DEF NoticesTypeOK
  <2>3. \A m \in Notifiers : /\ notifier'[m].round = notifier[n].round
                             /\ notifier'[m].pc = "send" => Asked(notifier[n].round)
    BY <1>1, <1>5 DEF CheckAsked, NoticesTypeOK, OneNotifier
  <2>4. Timely'
    BY <1>1, <1>2, <2>1, <2>3, NotAsked DEF Timely
  <2>5. QED
    BY <1>2, <2>2, <2>4 DEF NoticesInv
<1>6. CASE SendNotice(n)
  <2> DEFINE r == notifier[n].round
  <2>1. /\ notifier[n].pc = "send" /\ outbox' = outbox
        /\ belated' = IF Asked(r) THEN belated ELSE [belated EXCEPT ![r] = @ + 1]
    BY <1>6 DEF SendNotice
  <2>2. notifier[n].left \in 0 .. Channels
    BY <1>1 DEF NoticesTypeOK
  <2>3. notifier' \in [Notifiers -> [pc : {"idle", "check", "send", "write"}, round : Rounds,
                                     left : 0 .. Channels, last : BOOLEAN,
                                     outcome : {"none", "delivered", "cancelled"}]]
    <3>1. PICK q \in {[notifier[n] EXCEPT !.pc = "write", !.outcome = "delivered"],
                      [notifier[n] EXCEPT !.pc = "check", !.left = notifier[n].left - 1],
                      [notifier[n] EXCEPT !.pc = "write"]} :
            /\ notifier' = [notifier EXCEPT ![n] = q]
            /\ q.pc = "check" => notifier[n].left > 1
      <4>1. \/ notifier' = [notifier EXCEPT ![n] =
                              [notifier[n] EXCEPT !.pc = "write", !.outcome = "delivered"]]
            \/ /\ notifier[n].left > 1
               /\ notifier' = [notifier EXCEPT ![n] =
                    [notifier[n] EXCEPT !.pc = "check", !.left = notifier[n].left - 1]]
            \/ notifier' = [notifier EXCEPT ![n] = [notifier[n] EXCEPT !.pc = "write"]]
        BY <1>6, Zenon DEF SendNotice
      <4>2. notifier[n] \in [pc : {"idle", "check", "send", "write"}, round : Rounds,
                            left : 0 .. Channels, last : BOOLEAN,
                            outcome : {"none", "delivered", "cancelled"}]
        BY <1>1 DEF NoticesTypeOK
      <4>3. /\ [notifier[n] EXCEPT !.pc = "write"].pc = "write"
            /\ [notifier[n] EXCEPT !.pc = "write", !.outcome = "delivered"].pc = "write"
        BY <4>2
      <4>4. CASE notifier' = [notifier EXCEPT ![n] =
                              [notifier[n] EXCEPT !.pc = "write", !.outcome = "delivered"]]
        BY <4>3, <4>4, Zenon
      <4>5. CASE /\ notifier[n].left > 1
                 /\ notifier' = [notifier EXCEPT ![n] =
                                  [notifier[n] EXCEPT !.pc = "check", !.left = notifier[n].left - 1]]
        BY <4>5, Zenon
      <4>6. CASE notifier' = [notifier EXCEPT ![n] = [notifier[n] EXCEPT !.pc = "write"]]
        BY <4>3, <4>6, Zenon
      <4>7. QED
        BY <4>1, <4>4, <4>5, <4>6, Zenon
    <3>2. notifier[n].left > 1 => notifier[n].left - 1 \in 0 .. Channels
      BY <2>2 DEF OutboxAssumption
    <3>3. q \in [pc : {"idle", "check", "send", "write"}, round : Rounds,
                 left : 0 .. Channels, last : BOOLEAN,
                 outcome : {"none", "delivered", "cancelled"}]
      <4>1. notifier[n] \in [pc : {"idle", "check", "send", "write"}, round : Rounds,
                            left : 0 .. Channels, last : BOOLEAN,
                            outcome : {"none", "delivered", "cancelled"}]
        BY <1>1 DEF NoticesTypeOK
      <4>2. CASE q = [notifier[n] EXCEPT !.pc = "write", !.outcome = "delivered"]
        BY <4>1, <4>2
      <4>3. CASE q = [notifier[n] EXCEPT !.pc = "check", !.left = notifier[n].left - 1]
        <5>1. q.pc = "check"
          BY <4>1, <4>3
        <5>2. notifier[n].left - 1 \in 0 .. Channels
          BY <3>1, <3>2, <5>1
        <5>3. QED
          BY <4>1, <4>3, <5>2
      <4>4. CASE q = [notifier[n] EXCEPT !.pc = "write"]
        BY <4>1, <4>4
      <4>5. QED
        BY <3>1, <4>2, <4>3, <4>4
    <3>4. QED
      BY <1>1, <3>1, <3>3 DEF NoticesTypeOK
  <2>4. NoticesTypeOK'
    BY <1>1, <2>1, <2>3 DEF NoticesTypeOK
  <2>5. \A m \in Notifiers : notifier'[m].round = r /\ notifier'[m].pc \in {"check", "write"}
    <3>1. n \in Notifiers /\ \A m \in Notifiers : m = n
      BY DEF OneNotifier
    <3>2. notifier'[n].round = r /\ notifier'[n].pc \in {"check", "write"}
      <4>1. PICK q \in {[notifier[n] EXCEPT !.pc = "write", !.outcome = "delivered"],
                        [notifier[n] EXCEPT !.pc = "check", !.left = notifier[n].left - 1],
                        [notifier[n] EXCEPT !.pc = "write"]} :
              notifier' = [notifier EXCEPT ![n] = q]
        BY <1>6, Zenon DEF SendNotice
      <4>2. notifier \in [Notifiers -> [pc : {"idle", "check", "send", "write"}, round : Rounds,
                                        left : 0 .. Channels, last : BOOLEAN,
                                        outcome : {"none", "delivered", "cancelled"}]]
        BY <1>1 DEF NoticesTypeOK
      <4>3. q.round = r /\ q.pc \in {"check", "write"}
        BY <4>1, <4>2
      <4>4. notifier'[n] = q
        BY <4>1, <4>2
      <4>5. QED
        BY <4>3, <4>4
    <3>3. QED
      BY <3>1, <3>2
  <2>6. belated[r] = 0 /\ (Asked(r) \/ Over(r))
    BY <1>1, <2>1 DEF Timely
  <2>7. \A s \in Rounds : belated'[s] # 0 => belated'[s] = 1 /\ Over(s)
    BY <1>1, <2>1, <2>6 DEF Timely, NoticesTypeOK
  <2>8. Timely'
    BY <1>1, <1>2, <2>5, <2>6, <2>7 DEF Timely
  <2>9. QED
    BY <1>2, <2>4, <2>8 DEF NoticesInv
<1>7. CASE WriteOutcome(n) \/ NotifierStops(n)
  <2>1. notifier' = [notifier EXCEPT ![n] = Resting] /\ belated' = belated
    BY <1>7 DEF WriteOutcome, NotifierStops
  <2>2. \A m \in Notifiers : notifier'[m].pc = "idle"
    BY <1>1, <2>1 DEF NoticesTypeOK, Resting, OneNotifier
  <2>3. outbox' \in [Rounds -> [state : {"none", "pending", "sending"} \cup Settled,
                               attempts : 0 .. MaxAttempts, due : BOOLEAN]]
    <3>1. CASE WriteOutcome(n)
      <4>1. notifier[n].outcome \in {"none", "delivered", "cancelled"}
        BY <1>1 DEF NoticesTypeOK
      <4>2. (IF notifier[n].outcome # "none" THEN notifier[n].outcome
             ELSE IF notifier[n].last THEN "failed" ELSE "pending")
               \in {"none", "pending", "sending"} \cup Settled
        BY <4>1 DEF Settled
      <4>3. QED
        <5> DEFINE k == notifier[n].round
                   state == IF notifier[n].outcome # "none" THEN notifier[n].outcome
                            ELSE IF notifier[n].last THEN "failed" ELSE "pending"
                   notice == [outbox[k] EXCEPT !.due = FALSE, !.state = state]
        <5>1. outbox' = [outbox EXCEPT ![k] = notice]
          BY <3>1 DEF WriteOutcome
        <5>2. outbox \in [Rounds -> [state : {"none", "pending", "sending"} \cup Settled,
                                    attempts : 0 .. MaxAttempts, due : BOOLEAN]]
          BY <1>1 DEF NoticesTypeOK
        <5>3. state \in {"none", "pending", "sending"} \cup Settled /\ k \in Rounds
          BY <1>1, <4>2
        <5>4. notice \in [state : {"none", "pending", "sending"} \cup Settled,
                         attempts : 0 .. MaxAttempts, due : BOOLEAN]
          <6> HIDE DEF state, k
          <6>1. QED
            BY <5>2, <5>3
        <5>5. QED
          <6> HIDE DEF notice
          <6>1. QED
            BY <5>1, <5>2, <5>4
    <3>2. CASE NotifierStops(n)
      BY <1>1, <3>2 DEF NotifierStops, NoticesTypeOK
    <3>3. QED
      BY <1>7, <3>1, <3>2
  <2>4. NoticesTypeOK'
    BY <1>1, <1>3, <2>1, <2>3 DEF NoticesTypeOK
  <2>5. Timely'
    BY <1>1, <1>2, <2>1, <2>2 DEF Timely
  <2>6. QED
    BY <1>2, <2>4, <2>5 DEF NoticesInv
<1>8. QED
  BY <1>4, <1>5, <1>6, <1>7 DEF Notify

LEMMA NoticesInvariant ==
  ASSUME OneNotifier PROVE OutboxSpec => []NoticesInv
<1>1. OutboxInit => NoticesInv
  BY NoticesInit
<1>2. NoticesInv /\ [OutboxNext]_outboxVars => NoticesInv'
  <2> SUFFICES ASSUME NoticesInv, [OutboxNext]_outboxVars PROVE NoticesInv'
    OBVIOUS
  <2>1. CASE UNCHANGED outboxVars
    BY <2>1 DEF outboxVars, NoticesInv, MeetingOK, NoticesTypeOK, Timely, Asked, Over
  <2>2. CASE OutboxNext
    BY <2>2, OthersStep, NotifierStep DEF OutboxNext
  <2>3. QED
    BY <2>1, <2>2
<1>3. QED
  BY <1>1, <1>2, PTL DEF OutboxSpec

\* The outbox and the notifier keep their shape; no notice is tried more often
\* than MaxAttempts times.
THEOREM NoticesTypeCorrect ==
  ASSUME OneNotifier PROVE OutboxSpec => []NoticesTypeOK
<1>1. NoticesInv => NoticesTypeOK
  BY DEF NoticesInv
<1>2. QED
  BY <1>1, NoticesInvariant, PTL

\* However many channels, retries, crashes and rounds there are, at most one
\* message about a request leaves after the owner is no longer asked for it.
THEOREM OneLateMessage ==
  ASSUME OneNotifier PROVE OutboxSpec => []LateByOne
<1>1. NoticesInv => LateByOne
  <2> SUFFICES ASSUME NoticesInv, NEW r \in Rounds PROVE belated[r] <= 1
    BY DEF LateByOne
  <2>1. belated[r] \in Nat /\ (belated[r] # 0 => belated[r] = 1)
    BY DEF NoticesInv, NoticesTypeOK, Timely
  <2>2. QED
    BY <2>1
<1>2. QED
  BY <1>1, NoticesInvariant, PTL

-------------------------------------------------------------------------------
(* The review of scripts: PhoneReview.                                      *)

Texts == Scripts \cup {NoScript}
Slips(pcs, stamps) == [pc : pcs, script : Texts, stamp : stamps]
Working == {"begin", "lock"} \cup Inside
Carrying == Working \ {"begin", "setFinal"}
InReview == {"read", "saved", "approving"}
EditorSlips == Slips({"idle", "drafted", "selected"}, {0})
ReviewerSlips == Slips({"idle", "rejecting"} \cup InReview, {0})
CallerSlips == Slips({"idle", "checked", "consume", "claim"} \cup Working, 0 .. MaxApprovals)
Approvals == [status : {"none", "approved", "revoked"}, consumed : BOOLEAN, script : Texts,
              stamp : 0 .. MaxApprovals, fresh : BOOLEAN]
ReviewTypeOK ==
  /\ overlap \in BOOLEAN /\ overtaken \in BOOLEAN
  /\ batch \in [status : BatchStatus, scripts : Texts]
  /\ approval \in Approvals
  /\ editor \in [Editors -> EditorSlips] /\ reviewer \in [Reviewers -> ReviewerSlips]
  /\ caller \in [Callers -> CallerSlips]
  /\ edits \in 0 .. MaxEdits /\ approvals \in 0 .. MaxApprovals
  /\ reviewed \subseteq Texts /\ claims \in [Stamps -> Nat]

\* An approval that can still be consumed has never been used; one that was
\* consumed is used by whoever consumed it, and by nobody else.
Unused(s) == claims[s] = 0 /\ \A x \in Callers : caller[x].pc = "claim" => caller[x].stamp # s
UsedOnce ==
  /\ approval.status # "none" => approval.stamp \in 1 .. approvals
  /\ approval.status # "none" /\ ~ approval.consumed => Unused(approval.stamp)
  /\ \A x \in Callers : caller[x].pc \in {"consume", "claim"} => caller[x].stamp \in 1 .. approvals
  /\ \A x \in Callers : caller[x].pc = "claim" => claims[caller[x].stamp] = 0
  /\ \A x, y \in Callers :
       caller[x].pc = "claim" /\ caller[y].pc = "claim" /\ caller[x].stamp = caller[y].stamp => x = y
  /\ \A s \in Stamps : claims[s] \in {0, 1} /\ (s > approvals => Unused(s))

\* The requests of writers and reviewers follow each other.
InTurn ==
  /\ \A e, f \in Editors : editor[e].pc # "idle" /\ editor[f].pc # "idle" => e = f
  /\ \A v, w \in Reviewers : reviewer[v].pc # "idle" /\ reviewer[w].pc # "idle" => v = w
  /\ \A e \in Editors, v \in Reviewers : editor[e].pc = "idle" \/ reviewer[v].pc = "idle"

\* Before an execution was claimed, what is approved has been reviewed as it is.
Before ==
  /\ batch.status \in {"draft", "pending_review", "approved", "cancelled"}
  /\ batch.status = "approved" => batch.scripts \in reviewed
  /\ \A x \in Callers : caller[x].pc \notin Working
  /\ \A v \in Reviewers :
       /\ reviewer[v].pc \in InReview => batch.status # "approved"
       /\ reviewer[v].pc = "read" => reviewer[v].script = batch.scripts
       /\ reviewer[v].pc \in {"saved", "approving"} => batch.scripts \in reviewed
\* From then on nobody writes the script or approves it any more.
After ==
  /\ batch.status \in {"queued", "running", "cancel_requested"} \cup BatchFinal
  /\ batch.scripts \in reviewed
  /\ \A x \in Callers : caller[x].pc \in Carrying => caller[x].script \in reviewed
  /\ \A e \in Editors : editor[e].pc # "selected"
  /\ \A v \in Reviewers : reviewer[v].pc \notin InReview
OnlyReviewed == (Before \/ After) /\ ran \subseteq reviewed

ReviewInv ==
  /\ ReviewTypeOK /\ UsedOnce
  /\ ~ overlap => InTurn
  /\ ~ overlap /\ ~ overtaken => OnlyReviewed

LEMMA StandingIsSlip ==
  ASSUME NEW pcs, NEW place \in pcs, NEW stamps, 0 \in stamps
  PROVE  Standing(place) \in Slips(pcs, stamps) /\ Standing(place).pc = place
         /\ Standing(place).script = NoScript /\ Standing(place).stamp = 0
  BY DEF Standing, Slips, Texts

LEMMA ReviewInitInv == ASSUME ReviewInit PROVE ReviewInv
<1>1. 0 \in 0 .. MaxApprovals /\ 0 \in 0 .. MaxEdits
  BY ReviewAssumption DEF ReviewAssumption
<1>2. /\ Standing("idle") \in EditorSlips /\ Standing("idle") \in ReviewerSlips
      /\ Standing("idle") \in CallerSlips /\ Standing("idle").pc = "idle"
  BY <1>1, StandingIsSlip DEF EditorSlips, ReviewerSlips, CallerSlips
<1>3. ReviewTypeOK
  <2>1. batch \in [status : BatchStatus, scripts : Texts]
    BY DEF ReviewInit, BatchStatus, Texts
  <2>2. approval \in Approvals
    BY <1>1 DEF ReviewInit, NoApproval, Approvals, Texts
  <2>3. QED
    BY <1>1, <1>2, <2>1, <2>2 DEF ReviewTypeOK, ReviewInit
<1>4. \A x \in Callers : caller[x].pc = "idle"
  BY <1>2 DEF ReviewInit
<1>5. UsedOnce
  BY <1>4 DEF UsedOnce, Unused, ReviewInit, NoApproval
<1>6. InTurn /\ OnlyReviewed
  BY <1>2, <1>4 DEF InTurn, OnlyReviewed, Before, ReviewInit, InReview, Working, Inside
<1>7. QED
  BY <1>3, <1>5, <1>6 DEF ReviewInv

-------------------------------------------------------------------------------
(* Writers.                                                                 *)

LEMMA EditorStep ==
  ASSUME ReviewInv, NEW e \in Editors, Draft(e) \/ SelectDraft(e) \/ WriteDraft(e)
  PROVE  ReviewInv'
<1>1. ReviewTypeOK /\ UsedOnce /\ (~ overlap => InTurn) /\ (~ overlap /\ ~ overtaken => OnlyReviewed)
  BY DEF ReviewInv
<1>2. /\ UNCHANGED <<overlap, reviewer, caller, approvals, reviewed, ran, claims, overtaken>>
      /\ edits' \in 0 .. MaxEdits
  BY <1>1, ReviewAssumption DEF Draft, SelectDraft, WriteDraft, reviewHistory, ReviewTypeOK, ReviewAssumption
<1>3. 0 \in {0} /\ Standing("idle") \in EditorSlips /\ Standing("idle").pc = "idle"
  BY StandingIsSlip DEF EditorSlips
<1>4. PICK to \in EditorSlips : /\ editor' = [editor EXCEPT ![e] = to]
                                /\ editor[e].pc # "idle" \/ Comes
  <2>1. CASE Draft(e)
    <3>1. PICK s \in Scripts : editor' = [editor EXCEPT ![e] = [Standing("drafted") EXCEPT !.script = s]]
      BY <2>1 DEF Draft
    <3>2. [Standing("drafted") EXCEPT !.script = s] \in EditorSlips
      BY DEF Standing, EditorSlips, Slips, Texts
    <3>3. QED
      BY <2>1, <3>1, <3>2 DEF Draft
  <2>2. CASE SelectDraft(e)
    <3>1. [editor[e] EXCEPT !.pc = "selected"] \in EditorSlips
      BY <1>1 DEF ReviewTypeOK, EditorSlips, Slips
    <3>2. QED
      BY <1>3, <2>2, <3>1 DEF SelectDraft
  <2>3. CASE WriteDraft(e)
    BY <1>3, <2>3 DEF WriteDraft
  <2>4. QED
    BY <2>1, <2>2, <2>3
<1>5. /\ editor' \in [Editors -> EditorSlips] /\ editor'[e] = to
      /\ \A f \in Editors \ {e} : editor'[f] = editor[f]
  BY <1>1, <1>4 DEF ReviewTypeOK
<1>6. ~ overlap => InTurn'
  <2> SUFFICES ASSUME ~ overlap PROVE InTurn'
    OBVIOUS
  <2>1. CASE editor[e].pc # "idle"
    BY <1>1, <1>2, <1>5, <2>1 DEF InTurn
  <2>2. CASE Comes
    <3>1. (\A f \in Editors : editor[f].pc = "idle") /\ (\A v \in Reviewers : reviewer[v].pc = "idle")
      BY <2>2 DEF Comes
    <3>2. QED
      BY <1>2, <1>5, <3>1 DEF InTurn
  <2>3. QED
    BY <1>4, <2>1, <2>2
<1>7. CASE Draft(e) \/ SelectDraft(e)
  <2>1. UNCHANGED <<batch, approval>>
    BY <1>7 DEF Draft, SelectDraft, reviewRows
  <2>2. ReviewTypeOK'
    BY <1>1, <1>2, <1>5, <2>1 DEF ReviewTypeOK
  <2>3. UsedOnce'
    BY <1>1, <1>2, <2>1 DEF UsedOnce, Unused
  <2>4. ASSUME OnlyReviewed PROVE OnlyReviewed'
    <3>1. CASE Before
      BY <1>2, <2>1, <2>4, <3>1 DEF OnlyReviewed, Before
    <3>2. CASE After
      <4>1. to.pc # "selected"
        <5>1. CASE Draft(e)
          <6>1. PICK s \in Scripts : editor' = [editor EXCEPT ![e] = [Standing("drafted") EXCEPT !.script = s]]
            BY <5>1 DEF Draft
          <6>2. editor'[e].pc = "drafted"
            BY <1>1, <6>1 DEF ReviewTypeOK, Standing
          <6>3. QED
            BY <1>5, <6>2
        <5>2. CASE SelectDraft(e)
          <6>1. batch.status \in Locked \cup {"cancel_requested"}
            BY <3>2 DEF After, Locked
          <6>2. ~ BatchMayMove("cancel_requested", "pending_review")
            BY DEF BatchMayMove, BatchTransitions, BatchStatus
          <6>3. editor' = [editor EXCEPT ![e] = Standing("idle")]
            BY <5>2, <6>1, <6>2 DEF SelectDraft
          <6>4. QED
            BY <1>1, <1>3, <1>5, <6>3 DEF ReviewTypeOK
        <5>3. QED
          BY <1>7, <5>1, <5>2
      <4>2. QED
        BY <1>2, <1>5, <2>1, <2>4, <3>2, <4>1 DEF OnlyReviewed, After
    <3>3. QED
      BY <2>4, <3>1, <3>2 DEF OnlyReviewed
  <2>5. QED
    BY <1>1, <1>2, <1>6, <2>2, <2>3, <2>4 DEF ReviewInv
<1>8. CASE WriteDraft(e)
  <2>1. /\ editor[e].pc = "selected" /\ editor' = [editor EXCEPT ![e] = Standing("idle")]
        /\ batch' = [status |-> "pending_review", scripts |-> editor[e].script]
        /\ approval' = IF approval.status = "approved"
                       THEN [approval EXCEPT !.status = "revoked", !.consumed = TRUE] ELSE approval
    BY <1>8 DEF WriteDraft
  <2>2. batch' \in [status : BatchStatus, scripts : Texts]
    BY <1>1, <2>1 DEF ReviewTypeOK, EditorSlips, Slips, BatchStatus
  <2>3. /\ approval' \in Approvals /\ approval'.stamp = approval.stamp
        /\ approval'.status # "none" => approval.status # "none"
        /\ ~ approval'.consumed => ~ approval.consumed
    <3>1. CASE approval.status = "approved"
      BY <1>1, <2>1, <3>1 DEF ReviewTypeOK, Approvals
    <3>2. CASE approval.status # "approved"
      BY <1>1, <2>1, <3>2 DEF ReviewTypeOK
    <3>3. QED
      BY <3>1, <3>2
  <2>4. ReviewTypeOK'
    BY <1>1, <1>2, <1>5, <2>2, <2>3 DEF ReviewTypeOK
  <2>5. UsedOnce'
    BY <1>1, <1>2, <2>3 DEF UsedOnce, Unused
  <2>6. ASSUME ~ overlap, OnlyReviewed PROVE OnlyReviewed'
    <3>1. Before
      BY <2>1, <2>6 DEF OnlyReviewed, After
    <3>2. \A v \in Reviewers : reviewer[v].pc = "idle"
      BY <1>1, <2>1, <2>6 DEF InTurn
    <3>3. batch'.status = "pending_review"
      BY <2>1
    <3>4. QED
      BY <1>2, <2>6, <3>1, <3>2, <3>3 DEF OnlyReviewed, Before, InReview
  <2>7. QED
    BY <1>1, <1>2, <1>6, <2>4, <2>5, <2>6 DEF ReviewInv
<1>9. QED
  BY <1>7, <1>8

-------------------------------------------------------------------------------
(* Reviewers.                                                               *)

LEMMA ReviewerTurn ==
  ASSUME ReviewTypeOK, ~ overlap => InTurn, NEW v \in Reviewers, NEW to \in ReviewerSlips,
         reviewer[v].pc # "idle" \/ Comes, reviewer' = [reviewer EXCEPT ![v] = to],
         UNCHANGED <<overlap, editor>>
  PROVE  /\ reviewer' \in [Reviewers -> ReviewerSlips] /\ reviewer'[v] = to
         /\ \A w \in Reviewers \ {v} : reviewer'[w] = reviewer[w]
         /\ ~ overlap => InTurn'
         /\ ~ overlap => /\ \A w \in Reviewers \ {v} : reviewer[w].pc = "idle"
                         /\ \A e \in Editors : editor[e].pc = "idle"
<1>1. /\ reviewer' \in [Reviewers -> ReviewerSlips] /\ reviewer'[v] = to
      /\ \A w \in Reviewers \ {v} : reviewer'[w] = reviewer[w]
  BY DEF ReviewTypeOK
<1>2. ASSUME ~ overlap
      PROVE  /\ \A w \in Reviewers \ {v} : reviewer[w].pc = "idle"
             /\ \A e \in Editors : editor[e].pc = "idle"
  <2>1. CASE reviewer[v].pc # "idle"
    BY <1>2, <2>1 DEF InTurn
  <2>2. CASE Comes
    BY <1>2, <2>2 DEF Comes
  <2>3. QED
    BY <2>1, <2>2
<1>3. ASSUME ~ overlap PROVE InTurn'
  BY <1>1, <1>2, <1>3 DEF InTurn
<1>4. QED
  BY <1>1, <1>2, <1>3

LEMMA ReadStep == ASSUME ReviewInv, NEW v \in Reviewers, Read(v) PROVE ReviewInv'
<1>1. ReviewTypeOK /\ UsedOnce /\ (~ overlap => InTurn) /\ (~ overlap /\ ~ overtaken => OnlyReviewed)
  BY DEF ReviewInv
<1> DEFINE to == [pc |-> "read", script |-> batch.scripts, stamp |-> 0]
<1>2. /\ Comes /\ batch.status \in {"pending_review", "draft"} /\ reviewer' = [reviewer EXCEPT ![v] = to]
      /\ UNCHANGED <<overlap, batch, approval, editor, caller, edits, approvals, reviewed, ran, claims, overtaken>>
  BY DEF Read, reviewRows, reviewHistory
<1>3. to \in ReviewerSlips
  BY <1>1 DEF ReviewTypeOK, ReviewerSlips, Slips, InReview
<1>4. /\ reviewer' \in [Reviewers -> ReviewerSlips] /\ reviewer'[v] = to
      /\ \A w \in Reviewers \ {v} : reviewer'[w] = reviewer[w]
      /\ ~ overlap => InTurn'
  BY <1>1, <1>2, <1>3, ReviewerTurn
<1>5. ReviewTypeOK'
  BY <1>1, <1>2, <1>4 DEF ReviewTypeOK
<1>6. UsedOnce'
  BY <1>1, <1>2 DEF UsedOnce, Unused
<1>7. ASSUME OnlyReviewed PROVE OnlyReviewed'
  <2>1. Before
    BY <1>2, <1>7 DEF OnlyReviewed, After, BatchFinal
  <2>2. QED
    BY <1>2, <1>4, <1>7, <2>1 DEF OnlyReviewed, Before
<1>8. QED
  BY <1>1, <1>2, <1>4, <1>5, <1>6, <1>7 DEF ReviewInv

LEMMA SaveStep == ASSUME ReviewInv, NEW v \in Reviewers, SaveApproval(v) PROVE ReviewInv'
<1>1. ReviewTypeOK /\ UsedOnce /\ (~ overlap => InTurn) /\ (~ overlap /\ ~ overtaken => OnlyReviewed)
  BY DEF ReviewInv
<1> DEFINE new == [NoApproval EXCEPT !.status = "approved", !.script = reviewer[v].script,
                                     !.stamp = approvals + 1]
<1>2. /\ reviewer[v].pc = "read" /\ approvals < MaxApprovals /\ approvals' = approvals + 1
      /\ approval' = new /\ reviewed' = reviewed \cup {reviewer[v].script}
      /\ reviewer' = [reviewer EXCEPT ![v] = Standing("saved")]
      /\ UNCHANGED <<overlap, batch, editor, caller, edits, ran, claims, overtaken>>
  BY DEF SaveApproval
<1>3. Standing("saved") \in ReviewerSlips /\ Standing("saved").pc = "saved"
  <2>1. "saved" \in {"idle", "rejecting"} \cup InReview
    BY DEF InReview
  <2>2. QED
    BY <2>1, StandingIsSlip DEF ReviewerSlips
<1>4. /\ reviewer' \in [Reviewers -> ReviewerSlips] /\ reviewer'[v] = Standing("saved")
      /\ \A w \in Reviewers \ {v} : reviewer'[w] = reviewer[w]
      /\ ~ overlap => InTurn'
  BY <1>1, <1>2, <1>3, ReviewerTurn
<1>5. reviewer[v].script \in Texts /\ approvals \in Nat /\ approvals + 1 \in 1 .. MaxApprovals
  BY <1>1, <1>2, ReviewAssumption DEF ReviewTypeOK, ReviewerSlips, Slips, ReviewAssumption
<1>6. new \in Approvals /\ new.stamp = approvals + 1
  <2>1. NoApproval \in Approvals
    BY ReviewAssumption DEF NoApproval, Approvals, Texts, ReviewAssumption
  <2>2. approvals + 1 \in 0 .. MaxApprovals
    BY <1>5
  <2>3. QED
    BY <1>5, <2>1, <2>2 DEF Approvals
<1> HIDE DEF new
<1>7. ReviewTypeOK'
  <2>1. approvals' \in 0 .. MaxApprovals /\ reviewed' \subseteq Texts
    BY <1>1, <1>2, <1>5 DEF ReviewTypeOK
  <2>2. QED
    BY <1>1, <1>2, <1>4, <1>6, <2>1 DEF ReviewTypeOK
<1>8. UsedOnce'
  <2>1. approval'.stamp = approvals + 1 /\ approvals + 1 \in Stamps /\ Unused(approvals + 1)
    BY <1>1, <1>2, <1>5, <1>6 DEF UsedOnce, Stamps
  <2>2. approval'.stamp \in 1 .. approvals' /\ Unused(approval.stamp)'
    BY <1>2, <1>5, <1>6, <2>1 DEF Unused
  <2>3. \A x \in Callers : caller[x].pc \in {"consume", "claim"} => caller[x].stamp \in 1 .. approvals'
    BY <1>1, <1>2, <1>5 DEF UsedOnce
  <2>4. \A s \in Stamps : claims[s] \in {0, 1} /\ (s > approvals' => Unused(s)')
    BY <1>1, <1>2, <1>5 DEF UsedOnce, Unused, Stamps
  <2>5. QED
    BY <1>1, <1>2, <2>2, <2>3, <2>4 DEF UsedOnce
<1>9. ASSUME ~ overlap, OnlyReviewed PROVE OnlyReviewed'
  <2>1. Before
    BY <1>2, <1>9 DEF OnlyReviewed, After, InReview
  <2>2. reviewer[v].script = batch.scripts
    BY <1>2, <2>1 DEF Before
  <2>3. QED
    BY <1>2, <1>3, <1>4, <1>9, <2>1, <2>2 DEF OnlyReviewed, Before, InReview
<1>10. QED
  BY <1>1, <1>2, <1>4, <1>7, <1>8, <1>9 DEF ReviewInv

\* The remaining steps of a reviewer write no script and no approval.
LEMMA ReviewerStep ==
  ASSUME ReviewInv, NEW v \in Reviewers,
         ToApproved(v) \/ SetApproved(v) \/ ToReject(v) \/ Reject(v)
  PROVE  ReviewInv'
<1>1. ReviewTypeOK /\ UsedOnce /\ (~ overlap => InTurn) /\ (~ overlap /\ ~ overtaken => OnlyReviewed)
  BY DEF ReviewInv
<1>2. UNCHANGED <<overlap, approval, editor, caller, edits, approvals, reviewed, ran, claims, overtaken>>
  BY DEF ToApproved, SetApproved, ToReject, Reject, Cancelled, reviewRows, reviewHistory
<1>3. PICK place \in {"idle", "approving", "rejecting"} :
        /\ reviewer' = [reviewer EXCEPT ![v] = Standing(place)]
        /\ reviewer[v].pc # "idle" \/ Comes
        /\ place = "approving" => reviewer[v].pc = "saved"
  <2>1. CASE ToApproved(v)
    BY <2>1 DEF ToApproved
  <2>2. CASE SetApproved(v)
    BY <2>2 DEF SetApproved
  <2>3. CASE ToReject(v)
    BY <2>3 DEF ToReject
  <2>4. CASE Reject(v)
    BY <2>4 DEF Reject
  <2>5. QED
    BY <2>1, <2>2, <2>3, <2>4
<1>4. Standing(place) \in ReviewerSlips /\ Standing(place).pc = place
  <2>1. place \in {"idle", "rejecting"} \cup InReview
    BY DEF InReview
  <2>2. QED
    BY <2>1, StandingIsSlip DEF ReviewerSlips
<1>5. /\ reviewer' \in [Reviewers -> ReviewerSlips] /\ reviewer'[v] = Standing(place)
      /\ \A w \in Reviewers \ {v} : reviewer'[w] = reviewer[w]
      /\ ~ overlap => InTurn'
      /\ ~ overlap => \A w \in Reviewers \ {v} : reviewer[w].pc = "idle"
  BY <1>1, <1>2, <1>3, <1>4, ReviewerTurn
<1>6. /\ batch' \in [status : BatchStatus, scripts : Texts] /\ batch'.scripts = batch.scripts
      /\ \/ batch' = batch
         \/ reviewer[v].pc = "approving" /\ batch'.status = "approved" /\ place = "idle"
         \/ batch.status = "running" /\ batch'.status = "cancel_requested"
         \/ batch.status \notin {"running"} \cup BatchFinal /\ batch'.status = "cancelled"
  <2>1. CASE ToApproved(v) \/ ToReject(v)
    BY <1>1, <2>1 DEF ToApproved, ToReject, reviewRows, ReviewTypeOK
  <2>2. CASE SetApproved(v)
    <3>1. Standing("idle").pc = "idle" /\ reviewer' = [reviewer EXCEPT ![v] = Standing("idle")]
      BY <2>2 DEF SetApproved, Standing
    <3>2. place = "idle"
      BY <1>1, <1>4, <1>5, <3>1 DEF ReviewTypeOK
    <3>3. batch' = [batch EXCEPT !.status = "approved"] /\ reviewer[v].pc = "approving"
      BY <2>2 DEF SetApproved
    <3>4. QED
      BY <1>1, <3>2, <3>3 DEF ReviewTypeOK, BatchStatus
  <2>3. CASE Reject(v)
    <3>1. CASE batch.status \in BatchFinal
      BY <1>1, <2>3, <3>1 DEF Reject, ReviewTypeOK
    <3>2. CASE batch.status = "running" /\ batch.status \notin BatchFinal
      BY <1>1, <2>3, <3>2 DEF Reject, Cancelled, ReviewTypeOK, BatchStatus
    <3>3. CASE batch.status # "running" /\ batch.status \notin BatchFinal
      BY <1>1, <2>3, <3>3 DEF Reject, Cancelled, ReviewTypeOK, BatchStatus
    <3>4. QED
      BY <3>1, <3>2, <3>3
  <2>4. QED
    BY <2>1, <2>2, <2>3
<1>7. ReviewTypeOK'
  BY <1>1, <1>2, <1>5, <1>6 DEF ReviewTypeOK
<1>8. UsedOnce'
  BY <1>1, <1>2 DEF UsedOnce, Unused
<1>9. ASSUME ~ overlap, OnlyReviewed PROVE OnlyReviewed'
  <2>1. CASE Before
    <3>1. batch'.status \in {"draft", "pending_review", "approved", "cancelled"}
      BY <1>6, <2>1 DEF Before
    <3>2. batch'.status = "approved" => batch'.scripts \in reviewed
      BY <1>6, <2>1 DEF Before
    <3>3. \A w \in Reviewers :
            /\ reviewer'[w].pc \in InReview => batch'.status # "approved"
            /\ reviewer'[w].pc = "read" => reviewer'[w].script = batch'.scripts
            /\ reviewer'[w].pc \in {"saved", "approving"} => batch'.scripts \in reviewed
      <4>1. \A w \in Reviewers \ {v} : reviewer'[w].pc = "idle"
        BY <1>5, <1>9
      <4>2. reviewer'[v].pc = place /\ (place = "approving" => batch' = batch \/ batch'.status # "approved")
        BY <1>4, <1>5, <1>6
      <4>3. place = "approving" => batch.scripts \in reviewed /\ batch.status # "approved"
        BY <1>3, <2>1 DEF Before, InReview
      <4>4. CASE place = "approving"
        BY <1>6, <4>1, <4>2, <4>3, <4>4 DEF InReview
      <4>5. CASE place \in {"idle", "rejecting"}
        BY <4>1, <4>2, <4>5 DEF InReview
      <4>6. QED
        BY <4>4, <4>5
    <3>4. QED
      BY <1>2, <1>9, <2>1, <3>1, <3>2, <3>3 DEF OnlyReviewed, Before
  <2>2. CASE After
    <3>1. reviewer[v].pc \notin InReview
      BY <2>2 DEF After
    <3>2. batch'.status \in {"queued", "running", "cancel_requested"} \cup BatchFinal
      BY <1>6, <2>2, <3>1 DEF After, BatchFinal, InReview
    <3>3. \A w \in Reviewers : reviewer'[w].pc \notin InReview
      BY <1>3, <1>4, <1>5, <2>2, <3>1 DEF After, InReview
    <3>4. QED
      BY <1>2, <1>6, <1>9, <2>2, <3>2, <3>3 DEF OnlyReviewed, After
  <2>3. QED
    BY <1>9, <2>1, <2>2 DEF OnlyReviewed
<1>10. QED
  BY <1>1, <1>2, <1>5, <1>7, <1>8, <1>9 DEF ReviewInv

LEMMA BatchStep == ASSUME ReviewInv, Expire \/ CancelBatch PROVE ReviewInv'
<1>1. ReviewTypeOK /\ UsedOnce /\ (~ overlap => InTurn) /\ (~ overlap /\ ~ overtaken => OnlyReviewed)
  BY DEF ReviewInv
<1>2. UNCHANGED <<overlap, editor, reviewer, caller, edits, approvals, reviewed, ran, claims, overtaken>>
  BY DEF Expire, CancelBatch, Cancelled, requests, reviewHistory
<1>3. InTurn => InTurn'
  BY <1>2 DEF InTurn
<1>4. CASE Expire
  <2>1. batch' = batch /\ approval' = [approval EXCEPT !.fresh = FALSE]
    BY <1>4 DEF Expire
  <2>2. /\ approval' \in Approvals /\ approval'.stamp = approval.stamp
        /\ approval'.status = approval.status /\ approval'.consumed = approval.consumed
    BY <1>1, <2>1 DEF ReviewTypeOK, Approvals
  <2>3. ReviewTypeOK'
    BY <1>1, <1>2, <2>1, <2>2 DEF ReviewTypeOK
  <2>4. UsedOnce'
    BY <1>1, <1>2, <2>2 DEF UsedOnce, Unused
  <2>5. OnlyReviewed => OnlyReviewed'
    BY <1>2, <2>1 DEF OnlyReviewed, Before, After
  <2>6. QED
    BY <1>1, <1>2, <1>3, <2>3, <2>4, <2>5 DEF ReviewInv
<1>5. CASE CancelBatch
  <2>1. approval' = approval /\ batch.status \notin BatchFinal
    BY <1>5 DEF CancelBatch, Cancelled
  <2>2. batch' = [batch EXCEPT !.status = IF batch.status = "running" THEN "cancel_requested" ELSE "cancelled"]
    BY <1>5 DEF CancelBatch, Cancelled
  <2>3. /\ batch' \in [status : BatchStatus, scripts : Texts] /\ batch'.scripts = batch.scripts
        /\ \/ batch.status = "running" /\ batch'.status = "cancel_requested"
           \/ batch.status # "running" /\ batch'.status = "cancelled"
    BY <1>1, <2>2 DEF ReviewTypeOK, BatchStatus
  <2>4. ReviewTypeOK'
    BY <1>1, <1>2, <2>1, <2>3 DEF ReviewTypeOK
  <2>5. UsedOnce'
    BY <1>1, <1>2, <2>1 DEF UsedOnce, Unused
  <2>6. OnlyReviewed => OnlyReviewed'
    <3>1. Before => Before'
      BY <1>2, <2>3 DEF Before
    <3>2. After => After'
      BY <1>2, <2>3 DEF After, BatchFinal
    <3>3. QED
      BY <1>2, <3>1, <3>2 DEF OnlyReviewed
  <2>7. QED
    BY <1>1, <1>2, <1>3, <2>4, <2>5, <2>6 DEF ReviewInv
<1>6. QED
  BY <1>4, <1>5

-------------------------------------------------------------------------------
(* Those who execute.                                                       *)

LEMMA CallerTurn ==
  ASSUME ReviewTypeOK, NEW x \in Callers, NEW to \in CallerSlips, caller' = [caller EXCEPT ![x] = to]
  PROVE  /\ caller' \in [Callers -> CallerSlips] /\ caller'[x] = to
         /\ \A y \in Callers \ {x} : caller'[y] = caller[y]
  BY DEF ReviewTypeOK

LEMMA UsedOnceKept ==
  ASSUME UsedOnce, UNCHANGED <<approval, approvals, claims>>,
         \A y \in Callers : caller'[y].pc \in {"consume", "claim"} => caller'[y] = caller[y]
  PROVE  UsedOnce'
<1>1. \A s \in Nat : Unused(s) => Unused(s)'
  BY DEF Unused
<1>2. /\ approval'.status # "none" => approval'.stamp \in 1 .. approvals'
      /\ \A y \in Callers : caller'[y].pc \in {"consume", "claim"} => caller'[y].stamp \in 1 .. approvals'
      /\ \A y \in Callers : caller'[y].pc = "claim" => claims'[caller'[y].stamp] = 0
  BY DEF UsedOnce
<1>3. approval'.status # "none" /\ ~ approval'.consumed => Unused(approval.stamp)'
  BY DEF UsedOnce, Unused
<1>4. \A s \in Stamps : claims'[s] \in {0, 1} /\ (s > approvals' => Unused(s)')
  BY DEF UsedOnce, Unused
<1>5. \A y, z \in Callers :
        caller'[y].pc = "claim" /\ caller'[z].pc = "claim" /\ caller'[y].stamp = caller'[z].stamp => y = z
  BY DEF UsedOnce
<1>6. QED
  BY <1>2, <1>3, <1>4, <1>5 DEF UsedOnce

\* A caller who does not execute yet touches nothing that an execution rests on.
LEMMA OnlyReviewedKept ==
  ASSUME OnlyReviewed, UNCHANGED <<batch, editor, reviewer, reviewed, ran>>,
         \A y \in Callers : caller'[y].pc \in Working => caller'[y] = caller[y]
  PROVE  OnlyReviewed'
<1>1. Before => Before'
  BY DEF Before
<1>2. After => After'
  BY DEF After, Carrying
<1>3. QED
  BY <1>1, <1>2 DEF OnlyReviewed

LEMMA CheckStep == ASSUME ReviewInv, NEW x \in Callers, Check(x) PROVE ReviewInv'
<1>1. ReviewTypeOK /\ UsedOnce /\ (~ overlap => InTurn) /\ (~ overlap /\ ~ overtaken => OnlyReviewed)
  BY DEF ReviewInv
<1> DEFINE to == [pc |-> "checked", script |-> batch.scripts, stamp |-> 0]
<1>2. /\ caller' = [caller EXCEPT ![x] = to]
      /\ UNCHANGED <<overlap, batch, approval, editor, reviewer, edits, approvals, reviewed, ran, claims, overtaken>>
  BY DEF Check, Move, reviewRows, reviewHistory
<1>3. to \in CallerSlips
  BY <1>1, ReviewAssumption DEF ReviewTypeOK, CallerSlips, Slips, ReviewAssumption
<1>4. /\ caller' \in [Callers -> CallerSlips] /\ caller'[x].pc = "checked"
      /\ \A y \in Callers \ {x} : caller'[y] = caller[y]
  BY <1>1, <1>2, <1>3, CallerTurn
<1>5. \A y \in Callers : caller'[y].pc \in Working \cup {"consume", "claim"} => caller'[y] = caller[y]
  BY <1>4 DEF Working, Inside
<1>6. UsedOnce'
  BY <1>1, <1>2, <1>5, UsedOnceKept
<1>7. OnlyReviewed => OnlyReviewed'
  BY <1>2, <1>5, OnlyReviewedKept
<1>8. ReviewTypeOK' /\ (InTurn => InTurn')
  BY <1>1, <1>2, <1>4 DEF ReviewTypeOK, InTurn
<1>9. QED
  BY <1>1, <1>2, <1>6, <1>7, <1>8 DEF ReviewInv

LEMMA LookUpStep == ASSUME ReviewInv, NEW x \in Callers, LookUp(x) PROVE ReviewInv'
<1>1. ReviewTypeOK /\ UsedOnce /\ (~ overlap => InTurn) /\ (~ overlap /\ ~ overtaken => OnlyReviewed)
  BY DEF ReviewInv
<1>2. UNCHANGED <<overlap, batch, approval, editor, reviewer, edits, approvals, reviewed, ran, claims, overtaken>>
  BY DEF LookUp, reviewRows, reviewHistory
<1>3. PICK to \in CallerSlips :
        /\ caller' = [caller EXCEPT ![x] = to]
        /\ \/ to.pc = "idle"
           \/ to.pc = "consume" /\ to.stamp = approval.stamp /\ approval.status # "none"
  <2>1. CASE approval.status = "none"
    <3>1. 0 \in 0 .. MaxApprovals
      BY ReviewAssumption DEF ReviewAssumption
    <3>2. Standing("idle") \in CallerSlips /\ Standing("idle").pc = "idle"
      BY <3>1, StandingIsSlip DEF CallerSlips
    <3>3. QED
      BY <2>1, <3>2 DEF LookUp, Move
  <2>2. CASE approval.status # "none"
    <3> DEFINE to == [caller[x] EXCEPT !.pc = "consume", !.stamp = approval.stamp]
    <3>1. to \in CallerSlips /\ to.pc = "consume" /\ to.stamp = approval.stamp
      BY <1>1 DEF ReviewTypeOK, CallerSlips, Slips, Approvals
    <3>2. QED
      BY <2>2, <3>1 DEF LookUp, Move
  <2>3. QED
    BY <2>1, <2>2
<1>4. /\ caller' \in [Callers -> CallerSlips] /\ caller'[x] = to
      /\ \A y \in Callers \ {x} : caller'[y] = caller[y]
  BY <1>1, <1>3, CallerTurn
<1>5. \A y \in Callers : caller'[y].pc \in Working \cup {"claim"} => caller'[y] = caller[y]
  BY <1>3, <1>4 DEF Working, Inside
<1>6. UsedOnce'
  <2>1. \A y \in Callers : caller'[y].pc \in {"consume", "claim"} => caller'[y].stamp \in 1 .. approvals'
    BY <1>1, <1>2, <1>3, <1>4 DEF UsedOnce
  <2>2. /\ approval'.status # "none" => approval'.stamp \in 1 .. approvals'
        /\ \A y \in Callers : caller'[y].pc = "claim" => claims'[caller'[y].stamp] = 0
        /\ approval'.status # "none" /\ ~ approval'.consumed => Unused(approval.stamp)'
    BY <1>1, <1>2, <1>5 DEF UsedOnce, Unused
  <2>3. \A s \in Stamps : claims'[s] \in {0, 1} /\ (s > approvals' => Unused(s)')
    BY <1>1, <1>2, <1>5 DEF UsedOnce, Unused
  <2>4. \A y, z \in Callers :
          caller'[y].pc = "claim" /\ caller'[z].pc = "claim" /\ caller'[y].stamp = caller'[z].stamp => y = z
    BY <1>1, <1>5 DEF UsedOnce
  <2>5. QED
    BY <1>2, <2>1, <2>2, <2>3, <2>4 DEF UsedOnce
<1>7. OnlyReviewed => OnlyReviewed'
  BY <1>2, <1>5, OnlyReviewedKept
<1>8. ReviewTypeOK' /\ (InTurn => InTurn')
  BY <1>1, <1>2, <1>4 DEF ReviewTypeOK, InTurn
<1>9. QED
  BY <1>1, <1>2, <1>6, <1>7, <1>8 DEF ReviewInv

LEMMA ConsumeStep == ASSUME ReviewInv, NEW x \in Callers, Consume(x) PROVE ReviewInv'
<1>1. ReviewTypeOK /\ UsedOnce /\ (~ overlap => InTurn) /\ (~ overlap /\ ~ overtaken => OnlyReviewed)
  BY DEF ReviewInv
<1>2. /\ UNCHANGED <<overlap, batch, editor, reviewer, edits, approvals, reviewed, ran, claims, overtaken>>
      /\ caller[x].pc = "consume"
  BY DEF Consume, reviewHistory
<1>3. ASSUME NEW to \in CallerSlips, caller' = [caller EXCEPT ![x] = to], to.pc \in {"idle", "claim"},
             approval' \in Approvals, UsedOnce'
      PROVE  ReviewInv'
  <2>1. /\ caller' \in [Callers -> CallerSlips] /\ caller'[x] = to
        /\ \A y \in Callers \ {x} : caller'[y] = caller[y]
    BY <1>1, <1>3, CallerTurn
  <2>2. \A y \in Callers : caller'[y].pc \in Working => caller'[y] = caller[y]
    BY <1>3, <2>1 DEF Working, Inside
  <2>3. OnlyReviewed => OnlyReviewed'
    BY <1>2, <2>2, OnlyReviewedKept
  <2>4. ReviewTypeOK' /\ (InTurn => InTurn')
    BY <1>1, <1>2, <1>3, <2>1 DEF ReviewTypeOK, InTurn
  <2>5. QED
    BY <1>1, <1>2, <1>3, <2>3, <2>4 DEF ReviewInv
<1>4. CASE /\ approval.status = "approved" /\ ~ approval.consumed /\ approval.fresh
           /\ Hash(approval.script, approval.stamp) = Hash(caller[x].script, caller[x].stamp)
  <2> DEFINE to == [caller[x] EXCEPT !.pc = "claim"]
  <2>1. approval' = [approval EXCEPT !.consumed = TRUE] /\ caller' = [caller EXCEPT ![x] = to]
    BY <1>4 DEF Consume, MoveTo, Move
  <2>2. to \in CallerSlips /\ to.pc = "claim" /\ to.stamp = caller[x].stamp
    BY <1>1 DEF ReviewTypeOK, CallerSlips, Slips
  <2>3. /\ approval' \in Approvals /\ approval'.consumed /\ approval'.stamp = approval.stamp
        /\ approval'.status = approval.status
    BY <1>1, <2>1 DEF ReviewTypeOK, Approvals
  <2>4. to.stamp = approval.stamp
    BY <1>4, <2>2 DEF Hash
  <2> HIDE DEF to
  <2>5. /\ caller'[x] = to /\ \A y \in Callers \ {x} : caller'[y] = caller[y]
    BY <1>1, <2>1, <2>2, CallerTurn
  <2>6. Unused(to.stamp) /\ to.stamp \in 1 .. approvals
    BY <1>1, <1>4, <2>4 DEF UsedOnce
  <2>7. \A y \in Callers : caller'[y].pc \in {"consume", "claim"} => caller'[y].stamp \in 1 .. approvals
    BY <1>1, <2>5, <2>6 DEF UsedOnce
  <2>8. \A y \in Callers : caller'[y].pc = "claim" => claims[caller'[y].stamp] = 0
    BY <1>1, <2>5, <2>6 DEF UsedOnce, Unused
  <2>9. \A y, z \in Callers :
          caller'[y].pc = "claim" /\ caller'[z].pc = "claim" /\ caller'[y].stamp = caller'[z].stamp => y = z
    <3>1. \A y \in Callers \ {x} : caller'[y].pc = "claim" => caller'[y].stamp # to.stamp
      BY <2>5, <2>6 DEF Unused
    <3>2. QED
      BY <1>1, <2>5, <3>1 DEF UsedOnce
  <2>10. \A s \in Stamps : claims[s] \in {0, 1} /\ (s > approvals => Unused(s)')
    <3>1. TAKE s \in Stamps
    <3>2. s \in Nat /\ approvals \in Nat
      BY <1>1, ReviewAssumption DEF Stamps, ReviewTypeOK, ReviewAssumption
    <3>3. s > approvals => s # to.stamp
      BY <2>6, <3>2
    <3>4. Unused(s) /\ s # to.stamp => Unused(s)'
      BY <1>2, <2>5 DEF Unused
    <3>5. QED
      BY <1>1, <3>3, <3>4 DEF UsedOnce
  <2>11. UsedOnce'
    BY <1>1, <1>2, <2>3, <2>7, <2>8, <2>9, <2>10 DEF UsedOnce
  <2>12. QED
    BY <1>3, <2>1, <2>2, <2>3, <2>11
<1>5. CASE ~ (/\ approval.status = "approved" /\ ~ approval.consumed /\ approval.fresh
              /\ Hash(approval.script, approval.stamp) = Hash(caller[x].script, caller[x].stamp))
  <2>1. approval' = approval /\ caller' = [caller EXCEPT ![x] = Standing("idle")]
    BY <1>5 DEF Consume, Move
  <2>2. 0 \in 0 .. MaxApprovals
    BY ReviewAssumption DEF ReviewAssumption
  <2>3. Standing("idle") \in CallerSlips /\ Standing("idle").pc = "idle"
    BY <2>2, StandingIsSlip DEF CallerSlips
  <2>4. \A y \in Callers : caller'[y].pc \in {"consume", "claim"} => caller'[y] = caller[y]
    BY <1>1, <2>1, <2>3, CallerTurn
  <2>5. UsedOnce' /\ approval' \in Approvals
    BY <1>1, <1>2, <2>1, <2>4, UsedOnceKept DEF ReviewTypeOK
  <2>6. QED
    BY <1>3, <2>1, <2>3, <2>5
<1>6. QED
  BY <1>4, <1>5

LEMMA ClaimStep == ASSUME ReviewInv, NEW x \in Callers, Claim(x) PROVE ReviewInv'
<1>1. ReviewTypeOK /\ UsedOnce /\ (~ overlap => InTurn) /\ (~ overlap /\ ~ overtaken => OnlyReviewed)
  BY DEF ReviewInv
<1>2. /\ UNCHANGED <<overlap, approval, editor, reviewer, edits, approvals, reviewed, ran>>
      /\ caller[x].pc = "claim"
  BY DEF Claim
<1>3. 0 \in 0 .. MaxApprovals
  BY ReviewAssumption DEF ReviewAssumption
<1>4. CASE batch.status = "approved"
  <2> DEFINE stamp == caller[x].stamp
  <2>1. /\ batch' = [batch EXCEPT !.status = "queued"] /\ claims' = [claims EXCEPT ![stamp] = @ + 1]
        /\ overtaken' = (overtaken \/ \E e \in Editors : editor[e].pc = "selected")
        /\ caller' = [caller EXCEPT ![x] = Standing("begin")]
    BY <1>4 DEF Claim, Move
  <2>2. "begin" \in {"idle", "checked", "consume", "claim"} \cup Working
    BY DEF Working
  <2>3. Standing("begin") \in CallerSlips /\ Standing("begin").pc = "begin"
    BY <1>3, <2>2, StandingIsSlip DEF CallerSlips
  <2>4. /\ caller' \in [Callers -> CallerSlips] /\ caller'[x].pc = "begin"
        /\ \A y \in Callers \ {x} : caller'[y] = caller[y]
    BY <1>1, <2>1, <2>3, CallerTurn
  <2>5. stamp \in 1 .. approvals /\ claims[stamp] = 0 /\ stamp \in Stamps
    BY <1>1, <1>2, ReviewAssumption DEF UsedOnce, Stamps, ReviewTypeOK, ReviewAssumption
  <2>6. /\ claims' \in [Stamps -> Nat] /\ claims'[stamp] = 1
        /\ \A s \in Stamps \ {stamp} : claims'[s] = claims[s]
    BY <1>1, <2>1, <2>5 DEF ReviewTypeOK
  <2>7. batch' \in [status : BatchStatus, scripts : Texts] /\ batch'.status = "queued"
        /\ batch'.scripts = batch.scripts
    BY <1>1, <2>1 DEF ReviewTypeOK, BatchStatus
  <2>8. ReviewTypeOK'
    BY <1>1, <1>2, <2>1, <2>4, <2>6, <2>7 DEF ReviewTypeOK
  <2>9. UsedOnce'
    <3>1. \A s \in Stamps \ {stamp} : Unused(s) => Unused(s)'
      BY <2>4, <2>6 DEF Unused
    <3>2. \A y \in Callers : caller'[y].pc \in {"consume", "claim"} => y # x /\ caller'[y] = caller[y]
      BY <2>4
    <3>3. approval.status # "none" /\ ~ approval.consumed =>
            approval.stamp \in Stamps \ {stamp} /\ Unused(approval.stamp)
      BY <1>1, <1>2, ReviewAssumption DEF UsedOnce, Unused, Stamps, ReviewTypeOK, ReviewAssumption
    <3>4. approval.status # "none" /\ ~ approval.consumed => Unused(approval.stamp)'
      BY <1>2, <3>1, <3>3
    <3>5. \A y \in Callers : caller'[y].pc = "claim" => claims'[caller'[y].stamp] = 0
      <4>1. TAKE y \in Callers
      <4>2. HAVE caller'[y].pc = "claim"
      <4>3. caller[y].pc = "claim" /\ y # x /\ caller'[y] = caller[y]
        BY <3>2, <4>2
      <4>4. caller[y].stamp \in 1 .. approvals /\ claims[caller[y].stamp] = 0 /\ caller[y].stamp # stamp
        BY <1>1, <1>2, <4>3 DEF UsedOnce
      <4>5. caller[y].stamp \in Stamps
        BY <1>1, <4>4, ReviewAssumption DEF Stamps, ReviewTypeOK, ReviewAssumption
      <4>6. QED
        BY <2>6, <4>3, <4>4, <4>5
    <3>6. \A s \in Stamps : claims'[s] \in {0, 1} /\ (s > approvals => Unused(s)')
      BY <1>1, <2>5, <2>6, <3>1 DEF UsedOnce, ReviewTypeOK, Stamps
    <3>7. \A y, z \in Callers :
            caller'[y].pc = "claim" /\ caller'[z].pc = "claim" /\ caller'[y].stamp = caller'[z].stamp => y = z
      BY <1>1, <3>2 DEF UsedOnce
    <3>8. \A y \in Callers : caller'[y].pc \in {"consume", "claim"} => caller'[y].stamp \in 1 .. approvals
      BY <1>1, <3>2 DEF UsedOnce
    <3>9. QED
      BY <1>1, <1>2, <3>4, <3>5, <3>6, <3>7, <3>8 DEF UsedOnce
  <2>10. ASSUME ~ overlap, ~ overtaken' PROVE OnlyReviewed'
    <3>1. ~ overtaken /\ \A e \in Editors : editor[e].pc # "selected"
      BY <1>1, <2>1, <2>10 DEF ReviewTypeOK
    <3>2. Before /\ ran \subseteq reviewed
      BY <1>1, <1>4, <2>10, <3>1 DEF OnlyReviewed, After, BatchFinal
    <3>3. /\ batch.scripts \in reviewed /\ (\A y \in Callers : caller[y].pc \notin Working)
          /\ \A v \in Reviewers : reviewer[v].pc \notin InReview
      BY <1>4, <3>2 DEF Before
    <3>4. \A y \in Callers : caller'[y].pc \notin Carrying
      BY <2>4, <3>3 DEF Carrying
    <3>5. QED
      BY <1>2, <2>7, <3>1, <3>2, <3>3, <3>4 DEF OnlyReviewed, After
  <2>11. QED
    BY <1>1, <1>2, <2>8, <2>9, <2>10 DEF ReviewInv, InTurn
<1>5. CASE batch.status # "approved"
  <2>1. UNCHANGED <<batch, claims, overtaken>> /\ caller' = [caller EXCEPT ![x] = Standing("idle")]
    BY <1>5 DEF Claim, Move
  <2>2. Standing("idle") \in CallerSlips /\ Standing("idle").pc = "idle"
    BY <1>3, StandingIsSlip DEF CallerSlips
  <2>3. /\ caller' \in [Callers -> CallerSlips] /\ caller'[x].pc = "idle"
        /\ \A y \in Callers \ {x} : caller'[y] = caller[y]
    BY <1>1, <2>1, <2>2, CallerTurn
  <2>4. \A y \in Callers : caller'[y].pc \in Working \cup {"consume", "claim"} => caller'[y] = caller[y]
    BY <2>3 DEF Working, Inside
  <2>5. UsedOnce'
    BY <1>1, <1>2, <2>1, <2>4, UsedOnceKept
  <2>6. OnlyReviewed => OnlyReviewed'
    BY <1>2, <2>1, <2>4, OnlyReviewedKept
  <2>7. ReviewTypeOK' /\ (InTurn => InTurn')
    BY <1>1, <1>2, <2>1, <2>3 DEF ReviewTypeOK, InTurn
  <2>8. QED
    BY <1>1, <1>2, <2>1, <2>5, <2>6, <2>7 DEF ReviewInv
<1>6. QED
  BY <1>4, <1>5

\* What a step of an execution may do.
LEMMA WorkTurn ==
  ASSUME ReviewInv, NEW x \in Callers, NEW to \in CallerSlips,
         caller' = [caller EXCEPT ![x] = to],
         caller[x].pc \in Working, to.pc \in {"idle"} \cup (Working \ {"begin"}),
         to.pc \in Carrying => \/ to.script = batch.scripts
                               \/ caller[x].pc \in Carrying /\ to.script = caller[x].script,
         batch' \in [status : BatchStatus, scripts : Texts], batch'.scripts = batch.scripts,
         batch'.status = batch.status \/ batch'.status \in {"running"} \cup BatchFinal,
         ran' = ran \/ (caller[x].pc \in Carrying /\ ran' = ran \cup {caller[x].script}),
         UNCHANGED <<overlap, approval, editor, reviewer, edits, approvals, reviewed, claims, overtaken>>
  PROVE  ReviewInv'
<1>1. ReviewTypeOK /\ UsedOnce /\ (~ overlap => InTurn) /\ (~ overlap /\ ~ overtaken => OnlyReviewed)
  BY DEF ReviewInv
<1>2. /\ caller' \in [Callers -> CallerSlips] /\ caller'[x] = to
      /\ \A y \in Callers \ {x} : caller'[y] = caller[y]
  BY <1>1, CallerTurn
<1>3. \A y \in Callers : caller'[y].pc \in {"consume", "claim"} => caller'[y] = caller[y]
  BY <1>2 DEF Working, Inside
<1>4. UsedOnce'
  BY <1>1, <1>3, UsedOnceKept
<1>5. ReviewTypeOK' /\ (InTurn => InTurn')
  BY <1>1, <1>2 DEF ReviewTypeOK, InTurn
<1>6. ASSUME OnlyReviewed PROVE OnlyReviewed'
  <2>1. After /\ ran \subseteq reviewed
    BY <1>6 DEF OnlyReviewed, Before
  <2>2. \A y \in Callers : caller'[y].pc \in Carrying => caller'[y].script \in reviewed
    BY <1>2, <2>1 DEF After
  <2>3. batch'.status \in {"queued", "running", "cancel_requested"} \cup BatchFinal
    BY <2>1 DEF After
  <2>4. ran' \subseteq reviewed
    BY <2>1 DEF After
  <2>5. QED
    BY <2>1, <2>2, <2>3, <2>4 DEF OnlyReviewed, After
<1>7. QED
  BY <1>1, <1>4, <1>5, <1>6 DEF ReviewInv

LEMMA WorkPlaces ==
  /\ Working \subseteq {"idle", "checked", "consume", "claim"} \cup Working
  /\ Working = {"begin", "lock", "toRunning", "setRunning", "attempt", "setAttempt", "dispatch",
                "sum", "setFinal"}
  /\ Carrying = {"lock", "toRunning", "setRunning", "attempt", "setAttempt", "dispatch", "sum"}
  /\ 0 \in 0 .. MaxApprovals
  /\ Standing("idle") \in CallerSlips /\ Standing("idle").pc = "idle"
  /\ Standing("setFinal") \in CallerSlips /\ Standing("setFinal").pc = "setFinal"
<1>1. /\ Working = {"begin", "lock", "toRunning", "setRunning", "attempt", "setAttempt", "dispatch",
                    "sum", "setFinal"}
      /\ Carrying = {"lock", "toRunning", "setRunning", "attempt", "setAttempt", "dispatch", "sum"}
  BY DEF Working, Carrying, Inside
<1>2. 0 \in 0 .. MaxApprovals
  BY ReviewAssumption DEF ReviewAssumption
<1>3. QED
  BY <1>1, <1>2, StandingIsSlip DEF CallerSlips

\* A caller that only goes on to another place keeps its script.
LEMMA WalksOn ==
  ASSUME ReviewInv, NEW x \in Callers, NEW place \in Carrying
  PROVE  /\ [caller[x] EXCEPT !.pc = place] \in CallerSlips
         /\ [caller[x] EXCEPT !.pc = place].pc = place
         /\ [caller[x] EXCEPT !.pc = place].script = caller[x].script
         /\ batch \in [status : BatchStatus, scripts : Texts]
  BY DEF ReviewInv, ReviewTypeOK, CallerSlips, Slips, Carrying

LEMMA BeginStep == ASSUME ReviewInv, NEW x \in Callers, Begin(x) PROVE ReviewInv'
<1>1. /\ caller[x].pc = "begin" /\ batch \in [status : BatchStatus, scripts : Texts]
      /\ UNCHANGED <<overlap, batch, approval, editor, reviewer, edits, approvals, reviewed, ran, claims, overtaken>>
  BY DEF Begin, reviewRows, reviewHistory, ReviewInv, ReviewTypeOK
<1>2. CASE batch.status \in Cancelling
  <2>1. caller' = [caller EXCEPT ![x] = Standing("idle")]
    BY <1>2 DEF Begin, Move
  <2>2. QED
    BY <1>1, <2>1, WorkPlaces, WorkTurn
<1>3. CASE batch.status \notin Cancelling
  <2> DEFINE to == [Standing("lock") EXCEPT !.script = batch.scripts]
  <2>1. caller' = [caller EXCEPT ![x] = to]
    BY <1>3 DEF Begin, Move
  <2>2. to \in CallerSlips /\ to.pc = "lock" /\ to.script = batch.scripts
    BY <1>1, WorkPlaces DEF Standing, CallerSlips, Slips
  <2>3. QED
    BY <1>1, <2>1, <2>2, WorkPlaces, WorkTurn
<1>4. QED
  BY <1>2, <1>3

\* Entering the lock, and the steps that look at a status.
LEMMA WatchStep ==
  ASSUME ReviewInv, NEW x \in Callers, Enter(x) \/ ToRunning(x) \/ Attempt(x)
  PROVE  ReviewInv'
<1>1. /\ caller[x].pc \in {"lock", "toRunning", "attempt"}
      /\ UNCHANGED <<overlap, batch, approval, editor, reviewer, edits, approvals, reviewed, ran, claims, overtaken>>
  BY DEF Enter, ToRunning, Attempt, reviewRows, reviewHistory
<1>2. batch \in [status : BatchStatus, scripts : Texts]
  BY DEF ReviewInv, ReviewTypeOK
<1>3. ASSUME caller' = [caller EXCEPT ![x] = Standing("idle")] PROVE ReviewInv'
  BY <1>1, <1>2, <1>3, WorkPlaces, WorkTurn
<1>4. ASSUME NEW place \in {"toRunning", "setRunning", "setAttempt", "sum"},
             caller' = [caller EXCEPT ![x] = [caller[x] EXCEPT !.pc = place]]
      PROVE  ReviewInv'
  <2> DEFINE to == [caller[x] EXCEPT !.pc = place]
  <2>1. place \in Carrying
    BY WorkPlaces
  <2>2. to \in CallerSlips /\ to.pc = place /\ to.script = caller[x].script
    BY <2>1, WalksOn
  <2> HIDE DEF to
  <2>3. caller' = [caller EXCEPT ![x] = to]
    BY <1>4 DEF to
  <2>4. QED
    BY <1>1, <1>2, <1>4, <2>2, <2>3, WorkPlaces, WorkTurn, ZenonT(60)
<1>5. CASE Enter(x)
  BY <1>3, <1>4, <1>5 DEF Enter, Move, MoveTo
<1>6. CASE ToRunning(x)
  BY <1>3, <1>4, <1>6 DEF ToRunning, Move, MoveTo
<1>7. CASE Attempt(x)
  BY <1>4, <1>7 DEF Attempt, Move, MoveTo
<1>8. QED
  BY <1>5, <1>6, <1>7

\* The steps that write a status or the task, or hand the script over.
LEMMA HandOverStep ==
  ASSUME ReviewInv, NEW x \in Callers, SetRunning(x) \/ SetAttempt(x) \/ Dispatch(x)
  PROVE  ReviewInv'
<1>1. /\ caller[x].pc \in {"setRunning", "setAttempt", "dispatch"}
      /\ UNCHANGED <<overlap, approval, editor, reviewer, edits, approvals, reviewed, claims, overtaken>>
  BY DEF SetRunning, SetAttempt, Dispatch, reviewHistory
<1>2. batch \in [status : BatchStatus, scripts : Texts]
  BY DEF ReviewInv, ReviewTypeOK
<1>3. PICK place \in {"attempt", "dispatch", "sum"} : caller' = [caller EXCEPT ![x] = [caller[x] EXCEPT !.pc = place]]
  BY DEF SetRunning, SetAttempt, Dispatch, Move, MoveTo
<1> DEFINE to == [caller[x] EXCEPT !.pc = place]
<1>4. to \in CallerSlips /\ to.pc = place /\ to.script = caller[x].script
  <2>1. place \in Carrying
    BY WorkPlaces
  <2>2. QED
    BY <2>1, WalksOn
<1>5. /\ batch' \in [status : BatchStatus, scripts : Texts] /\ batch'.scripts = batch.scripts
      /\ batch'.status = batch.status \/ batch'.status = "running"
  <2>1. CASE SetRunning(x)
    BY <1>2, <2>1 DEF SetRunning, BatchStatus
  <2>2. CASE SetAttempt(x) \/ Dispatch(x)
    BY <1>2, <2>2 DEF SetAttempt, Dispatch
  <2>3. QED
    BY <2>1, <2>2
<1>6. ran' = ran \/ ran' = ran \cup {caller[x].script}
  BY DEF SetRunning, SetAttempt, Dispatch, reviewHistory
<1> HIDE DEF to
<1>7. caller' = [caller EXCEPT ![x] = to]
  BY <1>3 DEF to
<1>8. to.pc \in {"attempt", "dispatch", "sum"}
  BY <1>3, <1>4
<1>9. QED
  BY <1>1, <1>4, <1>5, <1>6, <1>7, <1>8, WorkPlaces, WorkTurn

\* The verdict.
LEMMA VerdictStep ==
  ASSUME ReviewInv, NEW x \in Callers, SumUp(x) \/ SetFinal(x)
  PROVE  ReviewInv'
<1>1. /\ caller[x].pc \in {"sum", "setFinal"}
      /\ UNCHANGED <<overlap, approval, editor, reviewer, edits, approvals, reviewed, ran, claims, overtaken>>
  BY DEF SumUp, SetFinal, reviewHistory
<1>2. batch \in [status : BatchStatus, scripts : Texts]
  BY DEF ReviewInv, ReviewTypeOK
<1>3. /\ batch' \in [status : BatchStatus, scripts : Texts] /\ batch'.scripts = batch.scripts
      /\ batch'.status = batch.status \/ batch'.status \in BatchFinal
  <2>1. CASE SumUp(x)
    BY <1>2, <2>1 DEF SumUp, BatchStatus, BatchFinal
  <2>2. CASE SetFinal(x)
    <3>1. PICK s \in {"succeeded", "failed"} : batch' = [batch EXCEPT !.status = s]
      BY <2>2 DEF SetFinal
    <3>2. QED
      BY <1>2, <3>1 DEF BatchStatus, BatchFinal
  <2>3. QED
    BY <2>1, <2>2
<1>4. PICK place \in {"idle", "setFinal"} : caller' = [caller EXCEPT ![x] = Standing(place)]
  BY DEF SumUp, SetFinal, Move
<1>5. Standing(place) \in CallerSlips /\ Standing(place).pc = place
  BY <1>4, WorkPlaces
<1>6. Standing(place).pc \in {"idle", "setFinal"}
  BY <1>4, <1>5
<1>7. QED
  BY <1>1, <1>3, <1>4, <1>5, <1>6, WorkPlaces, WorkTurn

-------------------------------------------------------------------------------
LEMMA ReviewStep == ASSUME ReviewInv, [ReviewNext]_reviewVars PROVE ReviewInv'
<1>1. ASSUME NEW e \in Editors, Draft(e) \/ SelectDraft(e) \/ WriteDraft(e) PROVE ReviewInv'
  BY <1>1, EditorStep
<1>2. ASSUME NEW v \in Reviewers,
             \/ Read(v) \/ SaveApproval(v) \/ ToApproved(v) \/ SetApproved(v)
             \/ ToReject(v) \/ Reject(v)
      PROVE  ReviewInv'
  BY <1>2, ReadStep, SaveStep, ReviewerStep
<1>3. ASSUME NEW x \in Callers,
             \/ Check(x) \/ LookUp(x) \/ Consume(x) \/ Claim(x) \/ Begin(x) \/ Enter(x)
             \/ ToRunning(x) \/ SetRunning(x) \/ Attempt(x) \/ SetAttempt(x) \/ Dispatch(x)
             \/ SumUp(x) \/ SetFinal(x)
      PROVE  ReviewInv'
  BY <1>3, CheckStep, LookUpStep, ConsumeStep, ClaimStep, BeginStep, WatchStep, HandOverStep, VerdictStep
<1>4. CASE UNCHANGED reviewVars
  BY <1>4 DEF reviewVars, reviewRows, requests, reviewHistory, ReviewInv, ReviewTypeOK, UsedOnce, Unused,
              InTurn, OnlyReviewed, Before, After
<1>5. QED
  BY <1>1, <1>2, <1>3, <1>4, BatchStep DEF ReviewNext

\* ReviewInv is inductive: the approvals are used once whoever comes in
\* between, and what runs was reviewed as long as nobody does.
LEMMA ReviewInvariant == ReviewSpec => []ReviewInv
<1>1. ReviewInit => ReviewInv
  BY ReviewInitInv
<1>2. ReviewInv /\ [ReviewNext]_reviewVars => ReviewInv'
  BY ReviewStep
<1>3. QED
  BY <1>1, <1>2, PTL DEF ReviewSpec

\* RunsWhatWasReviewed for every number of writers, reviewers, callers, edits
\* and approvals: no approval is good for two executions
\* (consume_approval_atomic), and a worker is given no script that nobody has
\* approved, unless requests to write and review overlap or an edit was under
\* way when the execution was claimed.
THEOREM OnlyReviewedRuns == ReviewSpec => []RunsWhatWasReviewed
<1>1. ReviewInv => RunsWhatWasReviewed
  BY DEF ReviewInv, UsedOnce, OnlyReviewed, RunsWhatWasReviewed
<1>2. QED
  BY <1>1, ReviewInvariant, PTL

-------------------------------------------------------------------------------
(* The lock of a connection: SafeConnection, for any threads and depth.     *)

\* The lock is held by at most one thread, for its open blocks and for the
\* transaction that is open, whose writes are all that thread's own; a closed
\* connection has no transaction.
ConnectionTypeOK ==
  /\ owner \in Threads \cup {Nobody} /\ count \in Nat /\ depth \in Nat
  /\ tx \in BOOLEAN /\ held \in BOOLEAN /\ closed \in BOOLEAN
  /\ blocks \in [Threads -> Nat] /\ wrote \subseteq Threads
Opened == IF tx THEN 1 ELSE 0
LockKept ==
  /\ held = tx /\ (closed => ~ tx)
  /\ wrote \subseteq {owner} /\ (wrote # {} => tx)
  /\ \A t \in Threads : t # owner => blocks[t] = 0
  /\ owner = Nobody => count = 0 /\ depth = 0 /\ ~ tx
  /\ owner # Nobody => depth = blocks[owner] /\ count = depth + Opened
  /\ count = 0 => owner = Nobody

ConnectionInv == ConnectionTypeOK /\ LockKept

LEMMA ConnectionInitInv == ASSUME ConnectionAssumption, ConnectionInit PROVE ConnectionInv
  BY DEF ConnectionAssumption, ConnectionInit, ConnectionInv, ConnectionTypeOK, LockKept, Opened

\* What an operation does, seen from outside: the thread that may have the lock
\* opens or closes blocks, and a transaction.
LEMMA OperationKeeps ==
  ASSUME ConnectionAssumption, ConnectionInv, NEW t \in Threads, MayLock(t), NEW n \in Nat,
         blocks' \in [Threads -> Nat], \A u \in Threads \ {t} : blocks'[u] = blocks[u],
         n - count = blocks'[t] - blocks[t],
         tx' \in BOOLEAN, closed' \in BOOLEAN, closed' => ~ tx',
         wrote' \subseteq wrote \cup {t}, wrote' # {} => tx', depth' = blocks'[t],
         Sync(t, n)
  PROVE  ConnectionInv'
<1>1. \A u \in Threads : u # t => blocks[u] = 0
  BY DEF ConnectionInv, LockKept, MayLock, ConnectionAssumption, ConnectionTypeOK
<1>2. count = blocks[t] + Opened /\ (held <=> tx) /\ wrote \subseteq {t} /\ blocks[t] \in Nat /\ count \in Nat
  <2>1. CASE owner = t
    BY <2>1 DEF ConnectionInv, LockKept, ConnectionAssumption, ConnectionTypeOK
  <2>2. CASE owner = Nobody
    BY <2>2 DEF ConnectionInv, LockKept, ConnectionAssumption, ConnectionTypeOK, Opened
  <2>3. QED
    BY <2>1, <2>2 DEF MayLock
<1>3. (held' <=> tx') /\ held' \in BOOLEAN
  BY DEF Sync
<1>4. n = blocks'[t] + Opened /\ blocks'[t] \in Nat
  BY <1>2 DEF Opened
<1>5. count' = blocks'[t] + Opened' /\ count' \in Nat
  BY <1>2, <1>4 DEF Sync, Left, Opened
<1>6. owner' = IF count' = 0 THEN Nobody ELSE t
  BY DEF Sync, Left
<1>7. (count' = 0 => ~ tx' /\ blocks'[t] = 0) /\ depth' \in Nat
  BY <1>4, <1>5 DEF Opened
<1>8. wrote' \subseteq {t} /\ (wrote' # {} => count' # 0)
  BY <1>2, <1>5, <1>7
<1>9. ConnectionTypeOK'
  BY <1>3, <1>5, <1>6, <1>7, <1>8 DEF ConnectionTypeOK
<1>10. LockKept'
  BY <1>1, <1>3, <1>5, <1>6, <1>7, <1>8 DEF LockKept, ConnectionAssumption
<1>11. QED
  BY <1>9, <1>10 DEF ConnectionInv

LEMMA ConnectionStep ==
  ASSUME ConnectionAssumption, ConnectionInv, NEW t \in Threads,
         \/ Execute(t) \/ Script(t) \/ Commit(t) \/ Rollback(t)
         \/ CloseConnection(t) \/ EnterBlock(t) \/ ExitBlock(t)
  PROVE  ConnectionInv'
<1>1. ConnectionTypeOK /\ LockKept
  BY DEF ConnectionInv
<1>0. MayLock(t) => depth = blocks[t] /\ blocks[t] \in Nat /\ count \in Nat
  BY <1>1 DEF MayLock, ConnectionTypeOK, LockKept, ConnectionAssumption
<1>2. CASE Execute(t) \/ Script(t) \/ Commit(t) \/ Rollback(t) \/ CloseConnection(t)
  <2>1. MayLock(t) /\ Sync(t, count) /\ UNCHANGED <<blocks, depth>> /\ count \in Nat
    BY <1>1, <1>2 DEF Execute, Script, Commit, Rollback, CloseConnection, ConnectionTypeOK
  <2>2. tx' \in BOOLEAN /\ closed' \in BOOLEAN /\ (closed' => ~ tx')
    <3>1. tx \in BOOLEAN /\ closed \in BOOLEAN /\ (closed => ~ tx)
      BY <1>1 DEF ConnectionTypeOK, LockKept
    <3>2. CASE CloseConnection(t)
      BY <3>2 DEF CloseConnection
    <3>3. CASE ~ CloseConnection(t)
      <4>1. (\E opens \in BOOLEAN : tx' = (tx \/ opens)) \/ tx' = FALSE \/ tx' = tx
        BY <1>2, <3>3, Zenon DEF Execute, Script, Commit, Rollback
      <4>2. tx' \in BOOLEAN
        BY <3>1, <4>1
      <4>3. closed' = closed /\ ~ closed
        BY <1>2, <3>3 DEF Execute, Script, Commit, Rollback
      <4>4. QED
        BY <3>1, <4>2, <4>3
    <3>4. QED
      BY <3>2, <3>3
  <2>3. wrote' \subseteq wrote \cup {t} /\ (wrote' # {} => tx')
    <3>1. CASE Execute(t)
      <4>1. PICK opens, done \in BOOLEAN :
              /\ tx' = (tx \/ opens)
              /\ wrote' = IF tx' /\ done THEN wrote \cup {t} ELSE wrote
        BY <3>1 DEF Execute
      <4>2. CASE tx' /\ done
        BY <4>1, <4>2
      <4>3. CASE ~ (tx' /\ done)
        BY <1>1, <4>1, <4>3 DEF LockKept
      <4>4. QED
        BY <4>2, <4>3
    <3>2. CASE Commit(t)
      BY <1>1, <3>2 DEF Commit, LockKept
    <3>3. CASE Script(t) \/ Rollback(t) \/ CloseConnection(t)
      BY <3>3 DEF Script, Rollback, CloseConnection
    <3>4. QED
      BY <1>2, <3>1, <3>2, <3>3
  <2>4. QED
    BY <1>1, <1>0, <2>1, <2>2, <2>3, OperationKeeps DEF ConnectionTypeOK
<1>3. CASE EnterBlock(t)
  <2>1. MayLock(t) /\ Sync(t, count + 1) /\ count + 1 \in Nat /\ UNCHANGED <<tx, closed, wrote>>
    BY <1>1, <1>3, <1>0 DEF EnterBlock, ConnectionTypeOK
  <2>2. /\ blocks' = [blocks EXCEPT ![t] = blocks[t] + 1] /\ depth' = depth + 1
        /\ blocks[t] \in Nat /\ depth = blocks[t] /\ count \in Nat
    BY <1>1, <1>3, <1>0 DEF EnterBlock, ConnectionTypeOK
  <2>3. blocks' \in [Threads -> Nat] /\ depth' = blocks'[t]
        /\ (\A u \in Threads \ {t} : blocks'[u] = blocks[u]) /\ blocks'[t] = blocks[t] + 1
    BY <1>1, <2>2 DEF ConnectionTypeOK
  <2>4. (count + 1) - count = blocks'[t] - blocks[t]
    BY <2>2, <2>3
  <2>5. tx' \in BOOLEAN /\ closed' \in BOOLEAN /\ (closed' => ~ tx') /\ wrote' \subseteq wrote \cup {t} /\ (wrote' # {} => tx')
    BY <1>1, <2>1 DEF ConnectionTypeOK, LockKept
  <2>6. QED
    BY <2>1, <2>3, <2>4, <2>5, OperationKeeps
<1>4. CASE ExitBlock(t)
  <2>1. blocks[t] \in Nat /\ blocks[t] > 0 /\ count \in Nat
    BY <1>1, <1>4 DEF ExitBlock, ConnectionTypeOK
  <2>2. MayLock(t) /\ depth = blocks[t] /\ count = blocks[t] + Opened
    BY <1>1, <2>1 DEF LockKept, MayLock, ConnectionAssumption
  <2>3. count - 1 \in Nat /\ Sync(t, count - 1)
    BY <1>4, <2>1, <2>2 DEF ExitBlock, Opened
  <2>4. /\ blocks' = [blocks EXCEPT ![t] = blocks[t] - 1] /\ depth' = depth - 1
        /\ tx' = FALSE /\ wrote' = {}
    BY <1>4 DEF ExitBlock
  <2>5. closed' \in BOOLEAN
    BY <1>1, <1>4 DEF ExitBlock, ConnectionTypeOK
  <2>6. blocks' \in [Threads -> Nat] /\ depth' = blocks'[t]
        /\ (\A u \in Threads \ {t} : blocks'[u] = blocks[u]) /\ blocks'[t] = blocks[t] - 1
    BY <1>1, <2>1, <2>2, <2>4 DEF ConnectionTypeOK
  <2>7. (count - 1) - count = blocks'[t] - blocks[t]
    BY <2>1, <2>6
  <2>8. QED
    BY <2>2, <2>3, <2>4, <2>5, <2>6, <2>7, OperationKeeps
<1>5. QED
  BY <1>2, <1>3, <1>4

LEMMA ConnectionInvariant == ConnectionSpec => []ConnectionInv
<1>1. ConnectionInit => ConnectionInv
  BY ConnectionInitInv, ConnectionAssumption
<1>2. ConnectionInv /\ [ConnectionNext]_connectionVars => ConnectionInv'
  <2> SUFFICES ASSUME ConnectionInv, [ConnectionNext]_connectionVars PROVE ConnectionInv'
    OBVIOUS
  <2>1. CASE UNCHANGED connectionVars
    BY <2>1 DEF connectionVars, oplock, ConnectionInv, ConnectionTypeOK, LockKept, Opened
  <2>2. CASE ConnectionNext
    BY <2>2, ConnectionStep, ConnectionAssumption DEF ConnectionNext
  <2>3. QED
    BY <2>1, <2>2
<1>3. QED
  BY <1>1, <1>2, PTL DEF ConnectionSpec

\* For any number of threads and any nesting: whoever has the lock has all open
\* blocks and all that is written and not committed, and nobody keeps the lock
\* for anything else (SafeConnection._sync_transaction_lock).
THEOREM LockGoesWithTransaction == ConnectionSpec => []LockFollowsTransaction
<1>1. ConnectionInv => LockFollowsTransaction
  BY ConnectionAssumption DEF ConnectionInv, ConnectionTypeOK, LockKept, Opened, LockFollowsTransaction, ConnectionAssumption
<1>2. QED
  BY <1>1, ConnectionInvariant, PTL

-------------------------------------------------------------------------------
(* The delivery of an output: OutputDelivery.                               *)

Wheres == Destinations \cup {"inline", Nowhere}
DeliveryTypeOK ==
  /\ policy.full \in Modes /\ policy.explicit \in BOOLEAN /\ policy.task \in BOOLEAN
  /\ record \in [destination : Wheres, archived : BOOLEAN]
  /\ partial \in BOOLEAN /\ unnoted \in BOOLEAN
  /\ pc \in {"idle", "once", "plain", "deliver", "retry", "again", "answer"}
  /\ target \in Wheres
  /\ reply.claim \in Destinations \cup {Nowhere, "archive", "failed"}
  /\ accepted \in [External -> Nat] /\ reached \subseteq Destinations

\* What may still be tried belongs to what was chosen.
QueueFits ==
  /\ policy.full = "inline" => queue = <<>>
  /\ policy.full = "sqlite" => queue \in {<<"sqlite">>, <<>>}
  /\ policy.full = "email" => queue \in {<<"email", "sqlite">>, <<"sqlite">>, <<>>}
  /\ policy.full = "hedgedoc" /\ policy.explicit =>
       queue \in {<<"hedgedoc", "sqlite">>, <<"sqlite">>, <<>>}
ReachedFits ==
  /\ "hedgedoc" \in reached => policy.full \in {"auto", "hedgedoc"}
  /\ "email" \in reached => \/ policy.full \in {"auto", "email"}
                            \/ policy.full = "hedgedoc" /\ ~ policy.explicit

\* The record, the target and the reply name what has the text.
NamesReached ==
  /\ record.destination \in Destinations => record.destination \in reached
  /\ pc = "answer" /\ target \in Destinations => target \in reached
  /\ reply.claim \in Destinations => reply.claim \in reached

\* The record of a task counts the one outer destination that took its result,
\* and a result is partial before it is called undelivered.
Taken == accepted.email + accepted.hedgedoc
TaskKept ==
  policy.task =>
    /\ pc # "plain"
    /\ pc = "deliver" => record.destination = Nowhere
    /\ ~ unnoted => Taken = IF record.destination \in External THEN 1 ELSE 0
    /\ pc \in {"retry", "again"} => partial
    /\ pc = "answer" /\ target = Nowhere => partial
    /\ reply.claim = "failed" => partial

DeliveryInv == DeliveryTypeOK /\ QueueFits /\ ReachedFits /\ NamesReached /\ TaskKept

LEMMA DeliveryInitInv == ASSUME DeliveryInit PROVE DeliveryInv
<1> USE DEF DeliveryInit, Reply
<1>1. policy.full \in Modes /\ policy.explicit \in BOOLEAN /\ policy.task \in BOOLEAN
  OBVIOUS
<1>2. DeliveryTypeOK
  BY <1>1 DEF DeliveryTypeOK, Wheres, Destinations, External, Nowhere
<1>3. QueueFits /\ ReachedFits /\ NamesReached
  BY DEF QueueFits, ReachedFits, NamesReached, Destinations, External, Nowhere
<1>4. TaskKept
  BY DEF TaskKept, Taken, External, Nowhere
<1>5. QED
  BY <1>2, <1>3, <1>4 DEF DeliveryInv

LEMMA RestOfQueue ==
  /\ Tail(<<"sqlite">>) = <<>> /\ Head(<<"sqlite">>) = "sqlite"
  /\ Tail(<<"email", "sqlite">>) = <<"sqlite">> /\ Head(<<"email", "sqlite">>) = "email"
  /\ Tail(<<"hedgedoc", "sqlite">>) = <<"sqlite">> /\ Head(<<"hedgedoc", "sqlite">>) = "hedgedoc"
  OBVIOUS

LEMMA OrderFits == ASSUME DeliveryTypeOK, queue' = DeliveryOrder, policy' = policy PROVE QueueFits'
<1>1. CASE policy.full = "inline"
  BY <1>1 DEF DeliveryOrder, QueueFits
<1>2. CASE policy.full = "sqlite"
  BY <1>2 DEF DeliveryOrder, QueueFits
<1>3. CASE policy.full = "email"
  BY <1>3 DEF DeliveryOrder, QueueFits
<1>4. CASE policy.full = "hedgedoc"
  BY <1>4 DEF DeliveryOrder, QueueFits
<1>5. CASE policy.full = "auto"
  BY <1>5 DEF QueueFits
<1>6. QED
  BY <1>1, <1>2, <1>3, <1>4, <1>5 DEF DeliveryTypeOK, Modes, Destinations, External

\* What is at the head of the queue may be given the text.
LEMMA HeadFits ==
  ASSUME DeliveryTypeOK, QueueFits, queue # <<>>
  PROVE  /\ Head(queue) = "hedgedoc" => policy.full \in {"auto", "hedgedoc"}
         /\ Head(queue) = "email" => \/ policy.full \in {"auto", "email"}
                                     \/ policy.full = "hedgedoc" /\ ~ policy.explicit
         /\ policy' = policy /\ queue' = Tail(queue) => QueueFits'
<1>1. CASE policy.full = "sqlite"
  BY <1>1, RestOfQueue DEF QueueFits
<1>2. CASE policy.full = "email"
  BY <1>2, RestOfQueue DEF QueueFits
<1>3. CASE policy.full = "hedgedoc" /\ policy.explicit
  BY <1>3, RestOfQueue DEF QueueFits
<1>4. CASE policy.full = "auto" \/ (policy.full = "hedgedoc" /\ ~ policy.explicit)
  BY <1>4 DEF QueueFits
<1>5. policy.full # "inline"
  BY DEF QueueFits
<1>6. policy.full \in {"sqlite", "email", "hedgedoc", "auto"}
  BY <1>5 DEF DeliveryTypeOK, Modes, Destinations, External
<1>7. QED
  BY <1>1, <1>2, <1>3, <1>4, <1>6, Zenon

LEMMA OnceStep == ASSUME DeliveryInv, Once PROVE DeliveryInv'
<1>1. DeliveryTypeOK /\ QueueFits /\ ReachedFits /\ NamesReached /\ TaskKept
  BY DEF DeliveryInv
<1>2. pc = "once" /\ UNCHANGED <<policy, partial, fits, wants, reply, accepted, unnoted, renders>>
  BY DEF Once
<1>3. CASE record.destination # Nowhere
  <2>1. pc' = "answer" /\ target' = record.destination /\ UNCHANGED <<record, reached, queue>>
    BY <1>3 DEF Once
  <2>2. DeliveryTypeOK' /\ QueueFits' /\ ReachedFits'
    BY <1>1, <1>2, <2>1 DEF DeliveryTypeOK, QueueFits, ReachedFits
  <2>3. NamesReached'
    BY <1>1, <1>2, <2>1 DEF NamesReached
  <2>4. TaskKept'
    BY <1>1, <1>2, <1>3, <2>1 DEF TaskKept, Taken
  <2>5. QED
    BY <2>2, <2>3, <2>4 DEF DeliveryInv
<1>4. CASE record.destination = Nowhere
  <2> DEFINE out == wants /\ policy.full # "inline"
  <2>1. PICK archived \in BOOLEAN :
          /\ record' = [record EXCEPT !.archived = archived,
               !.destination = IF out THEN Nowhere ELSE "inline"]
          /\ reached' = IF archived THEN reached \cup {"sqlite"} ELSE reached
    BY <1>4 DEF Once
  <2>2. IF out THEN pc' = "deliver" /\ queue' = DeliveryOrder /\ UNCHANGED target
        ELSE pc' = "answer" /\ target' = "inline" /\ UNCHANGED queue
    BY <1>4 DEF Once
  <2>3. record'.destination = (IF out THEN Nowhere ELSE "inline") /\ record' \in [destination : Wheres, archived : BOOLEAN]
    BY <1>1, <2>1 DEF DeliveryTypeOK, Wheres
  <2>4. /\ reached \subseteq reached' /\ reached' \subseteq reached \cup {"sqlite"}
        /\ reached' \subseteq Destinations
    BY <1>1, <2>1 DEF DeliveryTypeOK, Destinations
  <2>5. DeliveryTypeOK'
    BY <1>1, <1>2, <2>2, <2>3, <2>4 DEF DeliveryTypeOK, Wheres
  <2>6. QueueFits'
    <3>1. CASE out
      BY <1>1, <1>2, <2>2, <3>1, OrderFits
    <3>2. CASE ~ out
      BY <1>1, <1>2, <2>2, <3>2 DEF QueueFits
    <3>3. QED
      BY <3>1, <3>2
  <2>7. ReachedFits'
    BY <1>1, <1>2, <2>4 DEF ReachedFits
  <2>8. NamesReached'
    BY <1>1, <1>2, <2>2, <2>3, <2>4 DEF NamesReached, Destinations, External, Nowhere
  <2>9. TaskKept'
    <3>1. record.destination \notin External /\ record'.destination \notin External
      BY <1>4, <2>3 DEF External, Nowhere
    <3>2. Taken' = Taken /\ pc' \in {"deliver", "answer"} /\ (pc' = "answer" => target' = "inline")
          /\ (pc' = "deliver" => record'.destination = Nowhere)
      BY <1>2, <2>2, <2>3 DEF Taken
    <3>3. QED
      BY <1>1, <1>2, <3>1, <3>2 DEF TaskKept, Nowhere
  <2>10. QED
    BY <2>5, <2>6, <2>7, <2>8, <2>9 DEF DeliveryInv
<1>5. QED
  BY <1>3, <1>4

\* A destination, or none, takes the text.
LEMMA DeliveredStep ==
  ASSUME DeliveryInv, pc \in {"deliver", "again"}, NEW d \in Destinations \cup {Nowhere}, Delivered(d),
         UNCHANGED <<policy, fits, wants, reply, renders>>,
         reached' = (IF d = Nowhere THEN reached ELSE reached \cup {d}),
         accepted' = (IF d \in External THEN [accepted EXCEPT ![d] = accepted[d] + 1] ELSE accepted),
         d = "hedgedoc" => policy.full \in {"auto", "hedgedoc"},
         d = "email" => \/ policy.full \in {"auto", "email"}
                        \/ policy.full = "hedgedoc" /\ ~ policy.explicit
  PROVE  DeliveryInv'
<1>1. DeliveryTypeOK /\ QueueFits /\ ReachedFits /\ NamesReached /\ TaskKept
  BY DEF DeliveryInv
<1>2. queue' = <<>> /\ QueueFits'
  BY DEF Delivered, QueueFits
<1>3. ReachedFits'
  BY <1>1 DEF ReachedFits
<1>4. /\ accepted' \in [External -> Nat] /\ reached' \subseteq Destinations /\ reached \subseteq reached'
      /\ d \in Destinations => d \in reached'
  BY <1>1 DEF DeliveryTypeOK, Destinations, External, Nowhere
<1>5. Taken \in Nat /\ Taken' = IF d \in External THEN Taken + 1 ELSE Taken
  <2>1. accepted["email"] \in Nat /\ accepted["hedgedoc"] \in Nat
    BY <1>1 DEF DeliveryTypeOK, External
  <2>2. CASE d = "email"
    BY <1>1, <2>1, <2>2 DEF DeliveryTypeOK, External, Taken
  <2>3. CASE d = "hedgedoc"
    BY <1>1, <2>1, <2>3 DEF DeliveryTypeOK, External, Taken
  <2>4. CASE d \notin External
    BY <2>1, <2>4 DEF Taken
  <2>5. QED
    BY <2>2, <2>3, <2>4 DEF External
<1>6. CASE pc = "deliver"
  <2>1. /\ record' = [record EXCEPT !.destination = d] /\ UNCHANGED unnoted
        /\ partial' = (partial \/ (d \notin External /\ ~ (d = "sqlite" /\ policy.full = "sqlite")))
    BY <1>6 DEF Delivered
  <2>2. record' \in [destination : Wheres, archived : BOOLEAN] /\ record'.destination = d
    BY <1>1, <2>1 DEF DeliveryTypeOK, Wheres
  <2>3. partial' \in BOOLEAN /\ (partial => partial') /\ (d = Nowhere => partial')
    BY <1>1, <2>1 DEF DeliveryTypeOK, External, Nowhere
  <2>4. IF d = Nowhere THEN pc' = "retry" /\ UNCHANGED target ELSE pc' = "answer" /\ target' = d
    BY <1>6 DEF Delivered
  <2>5. DeliveryTypeOK'
    BY <1>1, <1>4, <2>1, <2>2, <2>3, <2>4 DEF DeliveryTypeOK, Wheres
  <2>6. NamesReached'
    BY <1>1, <1>4, <2>2, <2>4 DEF NamesReached
  <2>7. TaskKept'
    <3>1. SUFFICES ASSUME policy.task PROVE TaskKept'
      BY DEF TaskKept
    <3>2. record.destination = Nowhere /\ record.destination \notin External /\ (~ unnoted => Taken = 0)
      BY <1>1, <1>6, <3>1 DEF TaskKept, External, Nowhere
    <3>3. ~ unnoted' => Taken' = IF record'.destination \in External THEN 1 ELSE 0
      BY <1>5, <2>1, <2>2, <3>2
    <3>4. pc' \in {"retry", "answer"} /\ (pc' = "retry" => partial') /\ (pc' = "answer" => target' # Nowhere)
      BY <2>3, <2>4
    <3>5. reply' = reply /\ (reply.claim = "failed" => partial')
      BY <1>1, <2>3, <3>1 DEF TaskKept
    <3>6. QED
      BY <3>3, <3>4, <3>5 DEF TaskKept
  <2>8. QED
    BY <1>2, <1>3, <2>5, <2>6, <2>7 DEF DeliveryInv
<1>7. CASE pc = "again"
  <2>1. /\ UNCHANGED <<record, partial>> /\ pc' = "answer" /\ target' = d
        /\ unnoted' = (unnoted \/ (policy.task /\ d \in External))
    BY <1>7 DEF Delivered
  <2>2. unnoted' \in BOOLEAN
    BY <1>1, <2>1 DEF DeliveryTypeOK
  <2>3. DeliveryTypeOK'
    BY <1>1, <1>4, <2>1, <2>2 DEF DeliveryTypeOK, Wheres
  <2>4. NamesReached'
    BY <1>1, <1>4, <2>1 DEF NamesReached
  <2>5. TaskKept'
    <3>1. SUFFICES ASSUME policy.task PROVE TaskKept'
      BY DEF TaskKept
    <3>2. ~ unnoted' => ~ unnoted /\ d \notin External
      BY <2>1, <3>1
    <3>3. ~ unnoted' => Taken' = IF record'.destination \in External THEN 1 ELSE 0
      BY <1>1, <1>5, <2>1, <3>1, <3>2 DEF TaskKept
    <3>4. partial'
      BY <1>1, <1>7, <2>1, <3>1 DEF TaskKept
    <3>5. QED
      BY <2>1, <3>3, <3>4 DEF TaskKept
  <2>6. QED
    BY <1>2, <1>3, <2>3, <2>4, <2>5 DEF DeliveryInv
<1>8. QED
  BY <1>6, <1>7

LEMMA DeliverStep == ASSUME DeliveryInv, Deliver PROVE DeliveryInv'
<1>1. DeliveryTypeOK /\ QueueFits /\ ReachedFits /\ NamesReached /\ TaskKept
  BY DEF DeliveryInv
<1>2. pc \in {"deliver", "again"} /\ UNCHANGED <<policy, fits, wants, reply, renders>>
  BY DEF Deliver
<1>3. CASE queue = <<>>
  <2>1. Delivered(Nowhere) /\ UNCHANGED <<accepted, reached>>
    BY <1>3 DEF Deliver
  <2>2. Nowhere \notin External /\ Nowhere \notin {"hedgedoc", "email"}
    BY DEF External, Nowhere
  <2>3. QED
    BY <1>2, <2>1, <2>2, DeliveredStep
<1>4. CASE queue # <<>>
  <2> DEFINE d == Head(queue)
  <2>1. /\ d = "hedgedoc" => policy.full \in {"auto", "hedgedoc"}
        /\ d = "email" => \/ policy.full \in {"auto", "email"}
                          \/ policy.full = "hedgedoc" /\ ~ policy.explicit
        /\ queue' = Tail(queue) => QueueFits'
    BY <1>1, <1>2, <1>4, HeadFits
  <2>2. \/ /\ d \in External /\ Delivered(d)
           /\ accepted' = [accepted EXCEPT ![d] = accepted[d] + 1] /\ reached' = reached \cup {d}
        \/ /\ d \in External /\ Refused /\ UNCHANGED accepted
           /\ reached' \in {reached, reached \cup {d}}
        \/ /\ d = "sqlite" /\ Delivered(d) /\ reached' = reached \cup {d} /\ UNCHANGED accepted
        \/ /\ d = "sqlite" /\ Refused /\ UNCHANGED <<accepted, reached>>
    BY <1>4 DEF Deliver
  <2>3. d \in External \cup {"sqlite"}
    BY <2>2
  <2> HIDE DEF d
  <2>4. CASE Delivered(d) /\ reached' = reached \cup {d} /\ accepted' = IF d \in External THEN [accepted EXCEPT ![d] = accepted[d] + 1] ELSE accepted
    <3>1. d \in Destinations /\ d # Nowhere
      BY <2>3 DEF Destinations, External, Nowhere
    <3>2. QED
      BY <1>2, <2>1, <2>4, <3>1, DeliveredStep
  <2>5. CASE Refused /\ accepted' = accepted /\ reached' \in {reached, reached \cup {d}}
    <3>1. QueueFits' /\ UNCHANGED <<policy, record, partial, pc, target, unnoted, accepted, reply>>
      BY <1>2, <2>1, <2>5 DEF Refused, d
    <3>2. reached \subseteq reached' /\ reached' \subseteq Destinations
      BY <1>1, <2>3, <2>5 DEF DeliveryTypeOK, Destinations
    <3>3. DeliveryTypeOK'
      BY <1>1, <3>1, <3>2 DEF DeliveryTypeOK
    <3>4. ReachedFits'
      BY <1>1, <2>1, <2>5, <3>1 DEF ReachedFits
    <3>5. NamesReached'
      BY <1>1, <3>1, <3>2 DEF NamesReached
    <3>6. TaskKept'
      BY <1>1, <3>1 DEF TaskKept, Taken
    <3>7. QED
      BY <3>1, <3>3, <3>4, <3>5, <3>6 DEF DeliveryInv
  <2>6. "sqlite" \notin External
    BY DEF External
  <2>7. QED
    BY <2>2, <2>4, <2>5, <2>6
<1>5. QED
  BY <1>3, <1>4

LEMMA OtherStep == ASSUME DeliveryInv, Render \/ Plain \/ Retry PROVE DeliveryInv'
<1>1. DeliveryTypeOK /\ QueueFits /\ ReachedFits /\ NamesReached /\ TaskKept
  BY DEF DeliveryInv
<1>2. UNCHANGED <<policy, record, partial, reply, accepted, reached, unnoted>>
  BY DEF Render, Plain, Retry
<1>3. QueueFits'
  <2>1. queue' = queue \/ queue' = DeliveryOrder
    BY DEF Render, Plain, Retry
  <2>2. QED
    BY <1>1, <1>2, <2>1, OrderFits DEF QueueFits
<1>4. target' \in {target, "inline"} /\ pc' \in {"idle", "once", "plain", "deliver", "retry", "again", "answer"}
      /\ (pc' = "answer" => target' = "inline")
  BY DEF Render, Plain, Retry
<1>5. DeliveryTypeOK'
  BY <1>1, <1>2, <1>4 DEF DeliveryTypeOK, Wheres
<1>6. ReachedFits' /\ NamesReached'
  BY <1>1, <1>2, <1>4 DEF ReachedFits, NamesReached, Destinations, External
<1>7. TaskKept'
  <2>1. SUFFICES ASSUME policy.task PROVE TaskKept'
    BY <1>2 DEF TaskKept
  <2>2. ~ Plain
    BY <1>1, <2>1 DEF Plain, TaskKept
  <2>3. pc' = "once" \/ (pc = "retry" /\ pc' = "again")
    BY <2>1, <2>2, Zenon DEF Render, Retry
  <2>4. QED
    BY <1>1, <1>2, <2>1, <2>3 DEF TaskKept, Taken
<1>8. QED
  BY <1>3, <1>5, <1>6, <1>7 DEF DeliveryInv

LEMMA AnswerStep == ASSUME DeliveryInv, Answer PROVE DeliveryInv'
<1>1. DeliveryTypeOK /\ QueueFits /\ ReachedFits /\ NamesReached /\ TaskKept
  BY DEF DeliveryInv
<1>2. /\ pc = "answer" /\ pc' = "idle" /\ target' = Nowhere
      /\ UNCHANGED <<policy, record, partial, queue, accepted, reached, unnoted>>
  BY DEF Answer
<1>3. \/ reply'.claim \in {Nowhere, "archive"}
      \/ reply'.claim = "failed" /\ target = Nowhere
      \/ reply'.claim = target /\ target # Nowhere /\ target # "inline"
  BY DEF Answer, Reply
<1>4. DeliveryTypeOK'
  BY <1>1, <1>2, <1>3 DEF DeliveryTypeOK, Wheres
<1>5. QueueFits' /\ ReachedFits'
  BY <1>1, <1>2 DEF QueueFits, ReachedFits
<1>6. NamesReached'
  BY <1>1, <1>2, <1>3 DEF NamesReached, Destinations, External, Nowhere
<1>7. TaskKept'
  <2>1. "failed" \notin Wheres \cup {"archive"}
    BY DEF Wheres, Destinations, External, Nowhere
  <2>2. reply'.claim = "failed" => target = Nowhere
    BY <1>1, <1>3, <2>1 DEF DeliveryTypeOK, Wheres
  <2>3. QED
    BY <1>1, <1>2, <2>2 DEF TaskKept, Taken
<1>8. QED
  BY <1>4, <1>5, <1>6, <1>7 DEF DeliveryInv

LEMMA DeliveryInvariant == DeliverySpec => []DeliveryInv
<1>1. DeliveryInit => DeliveryInv
  BY DeliveryInitInv
<1>2. DeliveryInv /\ [DeliveryNext]_deliveryVars => DeliveryInv'
  <2> SUFFICES ASSUME DeliveryInv, [DeliveryNext]_deliveryVars PROVE DeliveryInv'
    OBVIOUS
  <2>1. CASE UNCHANGED deliveryVars
    BY <2>1 DEF deliveryVars, DeliveryInv, DeliveryTypeOK, QueueFits, ReachedFits, NamesReached, TaskKept, Taken
  <2>2. CASE DeliveryNext
    BY <2>2, OnceStep, DeliverStep, OtherStep, AnswerStep DEF DeliveryNext
  <2>3. QED
    BY <2>1, <2>2
<1>3. QED
  BY <1>1, <1>2, PTL DEF DeliverySpec

\* For every policy, every way the destinations fail and however often a result
\* is rendered: what a reply names has the text, the result of a task is taken
\* by one outer destination, unless its record does not know of it, and nothing
\* leaves for a destination that was not chosen (output_delivery).
THEOREM ReportsAreKept == DeliverySpec => []ReportKept
<1>1. DeliveryInv => ReportKept
  BY DEF DeliveryInv, ReachedFits, NamesReached, TaskKept, Taken, ReportKept
<1>2. QED
  BY <1>1, DeliveryInvariant, PTL

-------------------------------------------------------------------------------
(* Messages and profile: MemoryDistill, for any facts.                      *)

Status == {"none", "fresh", "old", "distilled"}
Profile(p) == p = [manual |-> p.manual, auto |-> p.auto, pending |-> p.pending]
Thread(w) == w = [pc |-> w.pc, taken |-> w.taken, facts |-> w.facts, rules |-> w.rules,
                  done |-> w.done, read |-> w.read]
Command(u) == u = [pc |-> u.pc, list |-> u.list, at |-> u.at, read |-> u.read]
MemoryTypeOK ==
  /\ rows \in [Facts -> [Kinds -> Status]]
  /\ Profile(persona) /\ Thread(worker) /\ Command(user)
  /\ worker.pc \in {"idle", "extract", "cache", "store", "status", "mark", "persona", "write"}
  /\ worker.taken \subseteq Facts \X Kinds
  /\ extracted \in [Facts -> Nat] /\ broken \in BOOLEAN

\* Between reading the profile and writing it nobody else writes it.
ProfileLocked ==
  /\ confirmed \subseteq persona.manual
  /\ ~ (worker.pc = "write" /\ user.pc = "write")
  /\ worker.pc = "write" => worker.read = persona
  /\ user.pc = "write" => user.read = persona

\* A message that was given to the model is marked before another distillation
\* can find it, or is too old to be found.
Given == {"cache", "store", "status", "mark"}
TakenOnce ==
  \A f \in Facts :
    /\ worker.pc # "idle" /\ <<f, "said">> \in worker.taken => rows[f]["said"] # "none"
    /\ ~ broken =>
         /\ extracted[f] \in {0, 1}
         /\ extracted[f] = 1 =>
              /\ rows[f]["said"] # "none"
              /\ rows[f]["said"] = "fresh" => worker.pc \in Given /\ <<f, "said">> \in worker.taken
         /\ worker.pc = "extract" /\ <<f, "said">> \in worker.taken => extracted[f] = 0

MemoryInv == MemoryTypeOK /\ ProfileLocked /\ TakenOnce

LEMMA MemoryInitInv == ASSUME MemoryInit PROVE MemoryInv
<1> USE DEF MemoryInit, AtRest, NoCommand, Kinds
<1>1. MemoryTypeOK
  BY DEF MemoryTypeOK, Status, Profile, Thread, Command
<1>2. ProfileLocked
  BY DEF ProfileLocked
<1>3. TakenOnce
  BY DEF TakenOnce
<1>4. QED
  BY <1>1, <1>2, <1>3 DEF MemoryInv

LEMMA MessagesStep ==
  ASSUME MemoryInv, NEW f \in Facts, Say(f) \/ \E k \in Kinds : AgeRow(f, k)
  PROVE  MemoryInv'
<1>1. MemoryTypeOK /\ ProfileLocked /\ TakenOnce
  BY DEF MemoryInv
<1>2. UNCHANGED <<cache, persona, worker, user, extracted, confirmed, broken>>
  BY DEF Say, AgeRow, memoryHistory
<1>3. PICK k \in Kinds, s \in {"fresh", "old"} :
        /\ rows' = [rows EXCEPT ![f][k] = s]
        /\ \/ k = "said" /\ s = "fresh" /\ EngineFree /\ rows[f][k] = "none"
           \/ s = "old" /\ rows[f][k] = "fresh"
  BY DEF Say, AgeRow, Kinds
<1>4. rows' \in [Facts -> [Kinds -> Status]]
  BY <1>1, <1>3 DEF MemoryTypeOK, Status
<1>5. MemoryTypeOK' /\ ProfileLocked'
  BY <1>1, <1>2, <1>4 DEF MemoryTypeOK, ProfileLocked
<1>6. \A g \in Facts : \/ rows'[g]["said"] = rows[g]["said"]
                       \/ rows'[g]["said"] = "old"
                       \/ rows'[g]["said"] = "fresh" /\ rows[g]["said"] = "none" /\ worker.pc = "idle"
  BY <1>1, <1>3 DEF MemoryTypeOK, EngineFree, Kinds
<1>7. TakenOnce'
  BY <1>1, <1>2, <1>6 DEF TakenOnce, Given
<1>8. QED
  BY <1>5, <1>7 DEF MemoryInv

LEMMA TakeStep == ASSUME MemoryInv, Take PROVE MemoryInv'
<1>1. MemoryTypeOK /\ ProfileLocked /\ TakenOnce
  BY DEF MemoryInv
<1>2. /\ worker.pc = "idle" /\ UNCHANGED <<rows, cache, persona, user, extracted, confirmed, broken>>
      /\ worker' = [AtRest EXCEPT !.pc = "extract", !.taken = Fresh]
  BY DEF Take, Distilling, memoryHistory
<1>3. worker'.pc = "extract" /\ worker'.taken = Fresh /\ Thread(worker')
  BY <1>2 DEF AtRest, Thread
<1>4. Fresh \subseteq Facts \X Kinds /\ \A f \in Facts : <<f, "said">> \in Fresh => rows[f]["said"] = "fresh"
  BY DEF Fresh
<1>5. MemoryTypeOK' /\ ProfileLocked'
  BY <1>1, <1>2, <1>3, <1>4 DEF MemoryTypeOK, ProfileLocked
<1>6. TakenOnce'
  BY <1>1, <1>2, <1>3, <1>4 DEF TakenOnce, Given, MemoryTypeOK
<1>7. QED
  BY <1>5, <1>6 DEF MemoryInv

LEMMA ExtractStep == ASSUME MemoryInv, Extract PROVE MemoryInv'
<1>1. MemoryTypeOK /\ ProfileLocked /\ TakenOnce
  BY DEF MemoryInv
<1>2. worker.pc = "extract" /\ UNCHANGED <<rows, cache, persona, user, confirmed, broken>>
  BY SMTT(40) DEF Extract, Distilling
<1>3. PICK rules \in BOOLEAN, main \in OfMain(Spoken(worker.taken)) :
        LET spoken == Spoken(worker.taken)
            every == {r[1] : r \in worker.taken}
            given == IF rules \/ spoken = {} THEN every ELSE main
        IN  /\ worker' = [worker EXCEPT !.pc = "cache", !.rules = rules, !.facts = given]
            /\ extracted' = [f \in Facts |->
                 IF f \in given \cap spoken THEN extracted[f] + 1 ELSE extracted[f]]
  BY DEF Extract
<1>4. worker'.pc = "cache" /\ worker'.taken = worker.taken /\ Thread(worker')
  BY <1>1, <1>3 DEF MemoryTypeOK, Thread
<1>5. \A f \in Facts : extracted'[f] # extracted[f] => <<f, "said">> \in worker.taken
  <2>1. \A f \in Facts : extracted'[f] # extracted[f] => f \in Spoken(worker.taken)
    BY <1>3
  <2>2. \A f \in Spoken(worker.taken) : <<f, "said">> \in worker.taken
    BY <1>1 DEF Spoken, MemoryTypeOK
  <2>3. QED
    BY <2>1, <2>2
<1>6. extracted' \in [Facts -> Nat] /\ \A f \in Facts : extracted'[f] \in {extracted[f], extracted[f] + 1}
  BY <1>1, <1>3 DEF MemoryTypeOK
<1>7. MemoryTypeOK' /\ ProfileLocked'
  BY <1>1, <1>2, <1>4, <1>6 DEF MemoryTypeOK, ProfileLocked
<1>8. TakenOnce'
  <2> SUFFICES ASSUME NEW f \in Facts
               PROVE  /\ <<f, "said">> \in worker.taken => rows[f]["said"] # "none"
                      /\ ~ broken =>
                           /\ extracted'[f] \in {0, 1}
                           /\ extracted'[f] = 1 =>
                                /\ rows[f]["said"] # "none"
                                /\ rows[f]["said"] = "fresh" => <<f, "said">> \in worker.taken
    BY <1>2, <1>4 DEF TakenOnce, Given
  <2>1. CASE extracted'[f] = extracted[f]
    BY <1>1, <1>2, <2>1 DEF TakenOnce, Given
  <2>2. CASE extracted'[f] # extracted[f]
    BY <1>1, <1>2, <1>5, <1>6, <2>2 DEF TakenOnce
  <2>3. QED
    BY <2>1, <2>2
<1>9. QED
  BY <1>7, <1>8 DEF MemoryInv

\* The rest of a distillation: what was taken is marked in the end.
LEMMA DistillStep ==
  ASSUME MemoryInv, SaveCache \/ Store \/ MarkCache \/ Mark \/ ReadPersona
  PROVE  MemoryInv'
<1>1. MemoryTypeOK /\ ProfileLocked /\ TakenOnce
  BY DEF MemoryInv
<1>2. UNCHANGED <<persona, user, extracted, confirmed, broken>>
  BY DEF SaveCache, Store, MarkCache, Mark, ReadPersona, ReadUnlocked, memoryHistory
<1>3. /\ Thread(worker') /\ worker'.taken = worker.taken
      /\ \/ worker.pc \in Given \ {"mark"} /\ worker'.pc \in Given
         \/ worker.pc = "mark" /\ worker'.pc = "persona"
         \/ worker.pc = "persona" /\ worker'.pc = "write" /\ user.pc # "write" /\ worker'.read = persona
  <2>1. CASE SaveCache \/ MarkCache \/ Mark
    BY <1>1, <2>1, SMTT(40) DEF SaveCache, MarkCache, Mark, GoTo, Distilling, Given, MemoryTypeOK, Thread
  <2>2. CASE Store
    <3>1. PICK done \in BOOLEAN : worker' = [worker EXCEPT !.pc = "status", !.done = done]
      BY <2>2, Zenon DEF Store
    <3>2. QED
      BY <1>1, <2>2, <3>1 DEF Store, Distilling, Given, MemoryTypeOK, Thread
  <2>3. CASE ReadPersona
    BY <1>1, <2>3 DEF ReadPersona, ReadUnlocked, Distilling, MemoryTypeOK, Thread
  <2>4. QED
    BY <2>1, <2>2, <2>3
<1>4. /\ rows' \in [Facts -> [Kinds -> Status]]
      /\ \A f \in Facts : \/ rows'[f]["said"] = rows[f]["said"] /\ worker.pc # "mark"
                          \/ /\ worker.pc = "mark"
                             /\ rows'[f]["said"] = IF <<f, "said">> \in worker.taken THEN "distilled"
                                                   ELSE rows[f]["said"]
  <2>1. CASE SaveCache \/ MarkCache \/ ReadPersona
    BY <1>1, <2>1 DEF SaveCache, MarkCache, ReadPersona, ReadUnlocked, Distilling, MemoryTypeOK
  <2>2. CASE Store
    <3>1. PICK some : rows' = Stored(some)
      BY <2>2, ZenonT(60) DEF Store
    <3>2. worker.pc = "store"
      BY <2>2 DEF Store, Distilling
    <3>3. QED
      BY <1>1, <3>1, <3>2, SMTT(40) DEF Stored, MemoryTypeOK, Status, Kinds
  <2>3. CASE Mark
    BY <1>1, <2>3 DEF Mark, Distilling, MemoryTypeOK, Status, Kinds
  <2>4. QED
    BY <2>1, <2>2, <2>3
<1>5. MemoryTypeOK'
  BY <1>1, <1>2, <1>3, <1>4 DEF MemoryTypeOK, Given
<1>6. ProfileLocked'
  BY <1>1, <1>2, <1>3 DEF ProfileLocked, Given
<1>7. TakenOnce'
  <2> SUFFICES ASSUME NEW f \in Facts
               PROVE  /\ <<f, "said">> \in worker.taken => rows'[f]["said"] # "none"
                      /\ ~ broken =>
                           /\ extracted[f] \in {0, 1}
                           /\ extracted[f] = 1 =>
                                /\ rows'[f]["said"] # "none"
                                /\ rows'[f]["said"] = "fresh" =>
                                     worker'.pc \in Given /\ <<f, "said">> \in worker.taken
    BY <1>2, <1>3 DEF TakenOnce, Given
  <2>1. CASE worker.pc = "mark"
    BY <1>1, <1>3, <1>4, <2>1 DEF TakenOnce, Given
  <2>2. CASE worker.pc # "mark"
    BY <1>1, <1>3, <1>4, <2>2 DEF TakenOnce, Given
  <2>3. QED
    BY <2>1, <2>2
<1>8. QED
  BY <1>5, <1>6, <1>7 DEF MemoryInv

LEMMA WriteStep == ASSUME MemoryInv, WritePersona PROVE MemoryInv'
<1>1. MemoryTypeOK /\ ProfileLocked /\ TakenOnce
  BY DEF MemoryInv
<1>2. worker.pc = "write" /\ worker' = AtRest /\ UNCHANGED <<rows, cache, user, extracted, confirmed, broken>>
  BY DEF WritePersona, Distilling, memoryHistory
<1>3. Profile(persona') /\ persona'.manual = persona.manual
  <2>1. CASE persona' = persona
    BY <1>1, <2>1 DEF MemoryTypeOK
  <2>2. CASE persona' # persona
    <3>1. PICK auto, pending : persona' = [manual |-> worker.read.manual, auto |-> auto, pending |-> pending]
      BY <2>2 DEF WritePersona
    <3>2. worker.read = persona
      BY <1>1, <1>2 DEF ProfileLocked
    <3>3. QED
      BY <3>1, <3>2 DEF Profile
  <2>3. QED
    BY <2>1, <2>2
<1>4. worker'.pc = "idle" /\ worker'.taken = {} /\ Thread(worker')
  BY <1>2 DEF AtRest, Thread
<1>5. MemoryTypeOK'
  BY <1>1, <1>2, <1>3, <1>4 DEF MemoryTypeOK
<1>6. ProfileLocked'
  BY <1>1, <1>2, <1>3, <1>4 DEF ProfileLocked
<1>7. TakenOnce'
  BY <1>1, <1>2, <1>4 DEF TakenOnce, Given
<1>8. QED
  BY <1>5, <1>6, <1>7 DEF MemoryInv

LEMMA UserStep == ASSUME MemoryInv, List \/ Choose \/ Confirm PROVE MemoryInv'
<1>1. MemoryTypeOK /\ ProfileLocked /\ TakenOnce
  BY DEF MemoryInv
<1>2. UNCHANGED <<rows, worker, extracted, broken>>
  BY DEF List, Choose, Confirm, memoryHistory
<1>3. TakenOnce'
  BY <1>1, <1>2 DEF TakenOnce
<1>4. CASE List \/ Choose
  <2>1. UNCHANGED <<persona, confirmed>>
    BY <1>4 DEF List, Choose, memoryHistory
  <2>2. Command(user') /\ (user'.pc = "write" => worker.pc # "write" /\ user'.read = persona)
    <3>1. CASE List
      BY <3>1 DEF List, NoCommand, Command
    <3>2. CASE Choose
      <4>1. worker.pc # "write"
        BY <3>2 DEF Choose, Distilling
      <4>2. PICK i : user' = NoCommand \/ user' = [user EXCEPT !.pc = "write", !.at = i, !.read = persona]
        BY <3>2 DEF Choose
      <4>3. CASE user' = NoCommand
        BY <4>3 DEF NoCommand, Command
      <4>4. CASE user' = [user EXCEPT !.pc = "write", !.at = i, !.read = persona]
        <5>1. user = [pc |-> user.pc, list |-> user.list, at |-> user.at, read |-> user.read]
          BY <1>1 DEF MemoryTypeOK, Command
        <5>2. user' = [pc |-> "write", list |-> user.list, at |-> i, read |-> persona]
          BY <4>4, <5>1
        <5>3. QED
          BY <4>1, <5>2 DEF Command
      <4>5. QED
        BY <4>2, <4>3, <4>4
    <3>3. QED
      BY <1>4, <3>1, <3>2
  <2>3. MemoryTypeOK' /\ ProfileLocked'
    BY <1>1, <1>2, <2>1, <2>2 DEF MemoryTypeOK, ProfileLocked
  <2>4. QED
    BY <1>3, <2>3 DEF MemoryInv
<1>5. CASE Confirm
  <2>1. user.pc = "write" /\ user.read = persona /\ Profile(persona) /\ worker.pc # "write"
    BY <1>1, <1>5 DEF Confirm, ProfileLocked, MemoryTypeOK
  <2>2. PICK f, pending : /\ persona' = [user.read EXCEPT !.manual = user.read.manual \cup {f}, !.pending = pending]
                          /\ confirmed' = confirmed \cup {f}
    BY <1>5 DEF Confirm
  <2>3. Profile(persona') /\ persona'.manual = persona.manual \cup {f}
    BY <2>1, <2>2 DEF Profile
  <2>4. user' = NoCommand
    BY <1>5 DEF Confirm
  <2>5. Command(user') /\ user'.pc = "idle"
    BY <2>4 DEF NoCommand, Command
  <2>6. MemoryTypeOK'
    BY <1>1, <1>2, <2>3, <2>5 DEF MemoryTypeOK
  <2>7. ProfileLocked'
    BY <1>1, <1>2, <2>1, <2>2, <2>3, <2>5 DEF ProfileLocked
  <2>8. QED
    BY <1>3, <2>6, <2>7 DEF MemoryInv
<1>6. QED
  BY <1>4, <1>5

LEMMA BreakStep == ASSUME MemoryInv, GiveUp \/ Stop PROVE MemoryInv'
<1>1. MemoryTypeOK /\ ProfileLocked /\ TakenOnce
  BY DEF MemoryInv
<1>2. /\ broken' = TRUE /\ worker' = AtRest /\ user' \in {user, NoCommand}
      /\ UNCHANGED <<rows, cache, persona, extracted, confirmed>>
  BY DEF GiveUp, Stop
<1>3. worker'.pc = "idle" /\ worker'.taken = {} /\ Thread(worker')
  BY <1>2 DEF AtRest, Thread
<1>4. Command(user') /\ (user'.pc = "write" => user' = user)
  BY <1>1, <1>2 DEF MemoryTypeOK, Command, NoCommand
<1>5. MemoryTypeOK'
  BY <1>1, <1>2, <1>3, <1>4 DEF MemoryTypeOK
<1>6. ProfileLocked'
  BY <1>1, <1>2, <1>3, <1>4 DEF ProfileLocked
<1>7. TakenOnce'
  BY <1>2, <1>3 DEF TakenOnce
<1>8. QED
  BY <1>5, <1>6, <1>7 DEF MemoryInv

LEMMA MemoryInvariant == MemorySpec => []MemoryInv
<1>1. MemoryInit => MemoryInv
  BY MemoryInitInv
<1>2. MemoryInv /\ [MemoryNext]_memoryVars => MemoryInv'
  <2> SUFFICES ASSUME MemoryInv, [MemoryNext]_memoryVars PROVE MemoryInv'
    OBVIOUS
  <2>1. CASE UNCHANGED memoryVars
    BY <2>1 DEF memoryVars, MemoryInv, MemoryTypeOK, ProfileLocked, TakenOnce
  <2>2. CASE MemoryNext
    BY <2>2, MessagesStep, TakeStep, ExtractStep, DistillStep, WriteStep, UserStep, BreakStep DEF MemoryNext
  <2>3. QED
    BY <2>1, <2>2
<1>3. QED
  BY <1>1, <1>2, PTL DEF MemorySpec

\* For any messages: what the user has confirmed is not lost to a distillation
\* that was under way, and no message is given to the model twice, unless the
\* server stopped or a write failed before it was marked (memory_engine).
THEOREM MemoryIsKept == MemorySpec => []MemoryKept
<1>1. MemoryInv => MemoryKept
  <2> SUFFICES ASSUME MemoryInv PROVE MemoryKept
    OBVIOUS
  <2>1. \A f \in Facts : ~ broken => extracted[f] \in {0, 1}
    BY DEF MemoryInv, TakenOnce
  <2>2. QED
    BY <2>1 DEF MemoryInv, ProfileLocked, MemoryKept
<1>2. QED
  BY <1>1, MemoryInvariant, PTL

-------------------------------------------------------------------------------
(* The ledger of an execution: ExecutionLedger, for any calls of tools, any    *)
(* stream of events and any writes that fail.                                 *)
Numbered == [seq : Nat, event : Events]
LedgerTypeOK ==
  /\ recorder \in {"new", "idle", "flush", "record", "over", "raised", "given up", "dead"}
  /\ following \in {"idle", "record", "over", "raised"}
  /\ happened \in Seq(Events) /\ deltas \in Seq(Numbered) /\ events \in Seq(Numbered)
  /\ execution \in [status : {"none", "running", "failed", "max_steps", "succeeded"}, steps : Nat, tokens : Nat]
  /\ calls \in [Calls -> [called : BOOLEAN, returned : BOOLEAN]]
  /\ failures \in Nat

\* An event that happened is in the ledger, kept back, on its way, or lost; and
\* these follow each other in the order in which they happened.
OnItsWay == recorder = "record" \/ (recorder = "flush" /\ following = "record")
Counts(written) ==
  \A i \in 1 .. Len(written) :
    /\ written[i].seq + 1 <= Len(happened) - (IF OnItsWay THEN 1 ELSE 0)
    /\ written[i].event = happened[written[i].seq + 1]
Rising(written) == \A i, j \in 1 .. Len(written) : i < j => written[i].seq < written[j].seq
NumberedInOrder ==
  /\ recorder = "new" => happened = <<>> /\ deltas = <<>> /\ events = <<>> /\ execution = NoExecution
  /\ Counts(events) /\ Counts(deltas) /\ Rising(events) /\ Rising(deltas)
  /\ \A i \in 1 .. Len(events), j \in 1 .. Len(deltas) : events[i].seq < deltas[j].seq
  /\ \A j \in 1 .. Len(deltas) : deltas[j].event.type = "TEXT"
  /\ OnItsWay => Len(happened) > 0
  /\ recorder = "record" => deltas = <<>>
Totalled ==
  /\ execution.tokens = Cardinality(CountedOf("USAGE"))
  /\ CountedOf("STEP_START") = {} => execution.steps = 0
  /\ \A i \in CountedOf("STEP_START") :
       (\A j \in CountedOf("STEP_START") : j <= i) => execution.steps = Cardinality(Steps(events[i]))
  /\ \A c \in Calls :
       calls[c].returned = \E i \in 1 .. Len(events) : events[i].event = Event("TOOL_RESULT", c)
Judged ==
  /\ \A i \in Terminals \cap Counted : execution.status = Terminal[events[i].event.type]
  /\ execution.status = "none" => events = <<>>
  /\ execution.status = "running" => Terminals = {}
  /\ execution.status \notin {"none", "running"} /\ recorder # "dead" => Terminals # {}
NoneMissing ==
  failures = 0 /\ recorder \notin {"new", "given up", "dead"} =>
    /\ execution.status # "none"
    /\ Len(events) + Len(deltas) + (IF OnItsWay THEN 1 ELSE 0) = Len(happened)
    /\ recorder \in {"over", "raised"} => deltas = <<>>

LedgerInv == LedgerTypeOK /\ NumberedInOrder /\ Totalled /\ Judged /\ NoneMissing

\* What is known of the elements of a sequence and of a longer one.
LEMMA OfSequence ==
  ASSUME NEW S, NEW sq \in Seq(S)
  PROVE  Len(sq) \in Nat /\ \A k \in 1 .. Len(sq) : sq[k] \in S
<1>1. \A k \in 1 .. Len(sq) : sq[k] \in S
  BY ElementOfSeq
<1>2. QED
  BY <1>1, LenProperties

LEMMA OfAppend ==
  ASSUME NEW S, NEW sq \in Seq(S), NEW x \in S, NEW longer, longer = Append(sq, x)
  PROVE  /\ longer \in Seq(S) /\ Len(longer) = Len(sq) + 1 /\ Len(sq) \in Nat
         /\ longer[Len(sq) + 1] = x
         /\ \A k \in 1 .. Len(sq) : longer[k] = sq[k]
         /\ \A k \in 1 .. Len(longer) : k \in 1 .. Len(sq) \/ k = Len(sq) + 1
<1>1. Len(sq) \in Nat
  BY OfSequence
<1>2. longer \in Seq(S) /\ Len(longer) = Len(sq) + 1
  BY AppendProperties
<1>3. longer[Len(sq) + 1] = x /\ \A k \in 1 .. Len(sq) : longer[k] = sq[k]
  BY AppendProperties
<1>4. \A k \in 1 .. Len(longer) : k \in 1 .. Len(sq) \/ k = Len(sq) + 1
  BY <1>1, <1>2
<1>5. QED
  BY <1>1, <1>2, <1>3, <1>4


LEMMA EventShape ==
  /\ \A e \in Events :
       /\ e.type \in {"TEXT", "STEP_START", "USAGE", "ERROR", "MAX_STEPS", "DONE", "TOOL_CALL", "TOOL_RESULT"}
       /\ e.type \in {"TOOL_CALL", "TOOL_RESULT"} => e.call \in Calls /\ e = Event(e.type, e.call)
  /\ DOMAIN Terminal = {"ERROR", "MAX_STEPS", "DONE"}
  /\ \A t \in DOMAIN Terminal : Terminal[t] \in {"failed", "max_steps", "succeeded"}
<1>1. \A e \in Events :
        /\ e.type \in {"TEXT", "STEP_START", "USAGE", "ERROR", "MAX_STEPS", "DONE", "TOOL_CALL", "TOOL_RESULT"}
        /\ e.type \in {"TOOL_CALL", "TOOL_RESULT"} => e.call \in Calls /\ e = Event(e.type, e.call)
  BY DEF Events, Event
<1>2. DOMAIN Terminal = {"ERROR", "MAX_STEPS", "DONE"}
  BY DEF Terminal
<1>3. \A t \in DOMAIN Terminal : Terminal[t] \in {"failed", "max_steps", "succeeded"}
  BY DEF Terminal
<1>4. QED
  BY <1>1, <1>2, <1>3

LEMMA LedgerInitInv == ASSUME LedgerInit PROVE LedgerInv
<1> USE DEF LedgerInit, NoExecution
<1>1. LedgerTypeOK
  BY DEF LedgerTypeOK
<1>2. NumberedInOrder
  BY DEF NumberedInOrder, Counts, Rising, OnItsWay
<1>3. Terminals = {} /\ Counted = {} /\ \A t : CountedOf(t) = {}
  BY DEF Terminals, Counted, CountedOf
<1>4. Totalled
  <2>1. execution.tokens = Cardinality(CountedOf("USAGE")) /\ execution.steps = 0
    BY <1>3, FS_EmptySet
  <2>2. ~ \E i \in 1 .. Len(events) : TRUE
    OBVIOUS
  <2>3. \A c \in Calls : calls[c].returned = FALSE
    OBVIOUS
  <2>4. \A c \in Calls :
          calls[c].returned = \E i \in 1 .. Len(events) : events[i].event = Event("TOOL_RESULT", c)
    BY <2>2, <2>3, Zenon
  <2>5. QED
    BY <1>3, <2>1, <2>4 DEF Totalled
<1>5. Judged /\ NoneMissing
  BY <1>3 DEF Judged, NoneMissing
<1>6. QED
  BY <1>1, <1>2, <1>4, <1>5 DEF LedgerInv

\* Nothing but what is written changes what the totals are computed from.
LEMMA TotalsKept ==
  ASSUME Totalled, UNCHANGED <<events, calls>>,
         execution'.tokens = execution.tokens, execution'.steps = execution.steps,
         \A i \in 1 .. Len(events) : Steps(events[i])' = Steps(events[i])
  PROVE  Totalled'
<1>1. Counted' = Counted /\ Terminals' = Terminals
  BY DEF Counted, Terminals
<1>2. \A t : CountedOf(t)' = CountedOf(t)
  BY <1>1 DEF CountedOf
<1>3. \A i \in CountedOf("STEP_START") : Steps(events[i])' = Steps(events[i])
  BY DEF CountedOf, Counted
<1>4. QED
  BY <1>2, <1>3 DEF Totalled

LEMMA JudgedKept ==
  ASSUME Judged, events' = events, execution'.status = execution.status,
         recorder = "dead" => recorder' = "dead"
  PROVE  Judged'
<1>1. Counted' = Counted /\ Terminals' = Terminals
  BY DEF Counted, Terminals
<1>2. QED
  BY <1>1 DEF Judged

LEMMA StartStep == ASSUME LedgerInv, StartExecution PROVE LedgerInv'
<1>1. /\ recorder = "new" /\ recorder' = "idle" /\ UNCHANGED <<happened, deltas, events, calls, following>>
      /\ happened = <<>> /\ deltas = <<>> /\ events = <<>> /\ execution = NoExecution
  BY DEF StartExecution, LedgerInv, NumberedInOrder
<1>2. /\ execution' = [status |-> execution'.status, steps |-> 0, tokens |-> 0]
      /\ \/ execution'.status = "running" /\ failures' = failures
         \/ execution'.status = "none" /\ failures' = failures + 1
  BY <1>1 DEF StartExecution, NoExecution, Works, MayFail
<1>3. LedgerTypeOK'
  BY <1>1, <1>2 DEF LedgerInv, LedgerTypeOK
<1>4. NumberedInOrder'
  BY <1>1 DEF NumberedInOrder, Counts, Rising, OnItsWay
<1>5. Totalled'
  BY <1>1, <1>2, TotalsKept DEF LedgerInv, NoExecution
<1>6. Terminals' = {} /\ Judged'
  BY <1>1, <1>2 DEF Judged, Terminals
<1>7. NoneMissing'
  BY <1>1, <1>2 DEF NoneMissing, OnItsWay, LedgerInv, LedgerTypeOK
<1>8. QED
  BY <1>3, <1>4, <1>5, <1>6, <1>7 DEF LedgerInv

LEMMA LedgerElements ==
  ASSUME LedgerTypeOK
  PROVE  /\ Len(happened) \in Nat /\ Len(events) \in Nat /\ Len(deltas) \in Nat
         /\ \A k \in 1 .. Len(happened) : happened[k] \in Events
         /\ \A k \in 1 .. Len(events) : /\ events[k] \in Numbered /\ events[k].seq \in Nat
                                        /\ events[k].event \in Events
         /\ \A k \in 1 .. Len(deltas) : /\ deltas[k] \in Numbered /\ deltas[k].seq \in Nat
                                        /\ deltas[k].event \in Events
<1>1. happened \in Seq(Events) /\ events \in Seq(Numbered) /\ deltas \in Seq(Numbered)
  BY DEF LedgerTypeOK
<1>2. Len(happened) \in Nat /\ \A k \in 1 .. Len(happened) : happened[k] \in Events
  BY <1>1, OfSequence
<1>3. Len(events) \in Nat /\ \A k \in 1 .. Len(events) : events[k] \in Numbered
  BY <1>1, OfSequence
<1>4. Len(deltas) \in Nat /\ \A k \in 1 .. Len(deltas) : deltas[k] \in Numbered
  BY <1>1, OfSequence
<1>5. \A n \in Numbered : n.seq \in Nat /\ n.event \in Events
  BY DEF Numbered
<1>6. QED
  BY <1>2, <1>3, <1>4, <1>5

LEMMA HappenStep == ASSUME LedgerInv, Happen PROVE LedgerInv'
<1>1. LedgerTypeOK /\ NumberedInOrder /\ Totalled /\ Judged /\ NoneMissing
  BY DEF LedgerInv
<1>2. PICK e \in Events :
        /\ happened' = Append(happened, e)
        /\ \/ /\ e.type = "TEXT" /\ deltas' = Append(deltas, [seq |-> Len(happened), event |-> e])
              /\ recorder' \in {"idle", "flush"} /\ following' = "idle"
           \/ recorder' = "flush" /\ following' = "record" /\ deltas' = deltas
  BY DEF Happen
<1>3. recorder = "idle" /\ UNCHANGED <<events, execution, calls, failures>>
  BY DEF Happen
<1>4. /\ happened' \in Seq(Events) /\ Len(happened') = Len(happened) + 1 /\ Len(happened) \in Nat
      /\ happened'[Len(happened) + 1] = e
      /\ \A i \in 1 .. Len(happened) : happened'[i] = happened[i]
  <2>1. happened \in Seq(Events)
    BY <1>1 DEF LedgerTypeOK
  <2>2. QED
    BY <1>2, <2>1, OfAppend
<1>5. /\ \A i \in 1 .. Len(events) : events[i].seq \in Nat /\ events[i].seq + 1 \in 1 .. Len(happened)
                                     /\ events[i].event = happened[events[i].seq + 1]
      /\ \A i \in 1 .. Len(deltas) : deltas[i].seq \in Nat /\ deltas[i].seq + 1 \in 1 .. Len(happened)
                                     /\ deltas[i].event = happened[deltas[i].seq + 1]
  <2>1. /\ \A i \in 1 .. Len(events) : events[i].seq \in Nat
        /\ \A i \in 1 .. Len(deltas) : deltas[i].seq \in Nat
    BY <1>1, LedgerElements
  <2>2. ~ OnItsWay /\ Counts(events) /\ Counts(deltas)
    BY <1>1, <1>3 DEF NumberedInOrder, OnItsWay
  <2>3. \A i \in 1 .. Len(events) : events[i].seq + 1 <= Len(happened) /\ events[i].event = happened[events[i].seq + 1]
    BY <1>4, <2>2, <2>1 DEF Counts
  <2>4. \A i \in 1 .. Len(deltas) : deltas[i].seq + 1 <= Len(happened) /\ deltas[i].event = happened[deltas[i].seq + 1]
    BY <1>4, <2>2, <2>1 DEF Counts
  <2>5. \A k \in Nat : k + 1 <= Len(happened) => k + 1 \in 1 .. Len(happened)
    BY <1>4
  <2>6. ASSUME NEW i \in 1 .. Len(events)
        PROVE  events[i].seq \in Nat /\ events[i].seq + 1 \in 1 .. Len(happened)
               /\ events[i].event = happened[events[i].seq + 1]
    BY <2>1, <2>3, <2>5
  <2>7. ASSUME NEW i \in 1 .. Len(deltas)
        PROVE  deltas[i].seq \in Nat /\ deltas[i].seq + 1 \in 1 .. Len(happened)
               /\ deltas[i].event = happened[deltas[i].seq + 1]
    BY <2>1, <2>4, <2>5
  <2>8. QED
    BY <2>6, <2>7
<1>6. Totalled'
  <2>1. \A i \in 1 .. Len(events) : Steps(events[i])' = Steps(events[i])
    <3> SUFFICES ASSUME NEW i \in 1 .. Len(events) PROVE Steps(events[i])' = Steps(events[i])
      OBVIOUS
    <3>1. events'[i] = events[i] /\ events[i].seq + 1 \in 1 .. Len(happened) /\ events[i].seq \in Nat
      BY <1>3, <1>5
    <3>2. \A k \in 1 .. events[i].seq + 1 : k \in 1 .. Len(happened) /\ happened'[k] = happened[k]
      BY <1>4, <3>1
    <3>3. QED
      BY <3>1, <3>2 DEF Steps
  <2>2. QED
    BY <1>1, <1>3, <2>1, TotalsKept
<1>7. Judged'
  BY <1>1, <1>3, JudgedKept
<1>8. CASE recorder' = "flush" /\ following' = "record" /\ deltas' = deltas
  <2>1. LedgerTypeOK'
    BY <1>1, <1>3, <1>4, <1>8 DEF LedgerTypeOK
  <2>2. Counts(events)' /\ Counts(deltas)'
    <3>1. OnItsWay'
      BY <1>8 DEF OnItsWay
    <3>2. /\ \A i \in 1 .. Len(events) : events[i].seq + 1 <= Len(happened') - 1
                                         /\ events[i].event = happened'[events[i].seq + 1]
          /\ \A i \in 1 .. Len(deltas) : deltas[i].seq + 1 <= Len(happened') - 1
                                         /\ deltas[i].event = happened'[deltas[i].seq + 1]
      <4>1. Len(happened') - 1 = Len(happened)
        BY <1>4
      <4>2. ASSUME NEW q \in 1 .. Len(happened) PROVE q <= Len(happened') - 1 /\ happened'[q] = happened[q]
        BY <1>4, <4>1
      <4>3. QED
        BY <1>5, <4>2
    <3>3. QED
      BY <1>3, <1>8, <3>1, <3>2 DEF Counts
  <2>3. NumberedInOrder'
    <3>1. recorder' = "flush" /\ Len(happened') > 0
      BY <1>4, <1>8
    <3>2. QED
      BY <1>1, <1>3, <1>8, <2>2, <3>1 DEF NumberedInOrder, Rising
  <2>4. NoneMissing'
    <3>1. /\ ~ OnItsWay /\ OnItsWay' /\ recorder' = "flush" /\ Len(events) \in Nat /\ Len(deltas) \in Nat
          /\ events' = events /\ deltas' = deltas /\ execution' = execution /\ failures' = failures
      BY <1>1, <1>3, <1>8, LedgerElements DEF OnItsWay
    <3>2. failures = 0 => execution.status # "none" /\ Len(events) + Len(deltas) + 0 = Len(happened)
      BY <1>1, <1>3, <3>1 DEF NoneMissing
    <3>3. failures = 0 => Len(events) + Len(deltas) + 1 = Len(happened')
      BY <1>4, <3>1, <3>2
    <3>4. QED
      BY <3>1, <3>2, <3>3 DEF NoneMissing
  <2>5. QED
    BY <1>6, <1>7, <2>1, <2>3, <2>4 DEF LedgerInv
<1>9. CASE /\ e.type = "TEXT" /\ deltas' = Append(deltas, [seq |-> Len(happened), event |-> e])
           /\ recorder' \in {"idle", "flush"} /\ following' = "idle"
  <2> DEFINE n == [seq |-> Len(happened), event |-> e]
  <2>1. n \in Numbered /\ n.seq = Len(happened) /\ n.event = e
    BY <1>4 DEF Numbered
  <2> HIDE DEF n
  <2>2. /\ deltas' \in Seq(Numbered) /\ Len(deltas') = Len(deltas) + 1 /\ Len(deltas) \in Nat
        /\ deltas'[Len(deltas) + 1] = n
        /\ \A i \in 1 .. Len(deltas) : deltas'[i] = deltas[i]
        /\ \A i \in 1 .. Len(deltas') : i \in 1 .. Len(deltas) \/ i = Len(deltas) + 1
    <3>1. deltas' = Append(deltas, n)
      BY <1>9 DEF n
    <3>2. deltas \in Seq(Numbered)
      BY <1>1 DEF LedgerTypeOK
    <3>3. QED
      BY <2>1, <3>1, <3>2, OfAppend
  <2>3. LedgerTypeOK'
    BY <1>1, <1>3, <1>4, <1>9, <2>2 DEF LedgerTypeOK
  <2>4. Counts(events)'
    <3>1. ~ OnItsWay'
      BY <1>9 DEF OnItsWay
    <3>2. \A i \in 1 .. Len(events) : events[i].seq + 1 <= Len(happened') /\ events[i].event = happened'[events[i].seq + 1]
      BY <1>4, <1>5
    <3>3. QED
      BY <1>3, <1>4, <3>1, <3>2 DEF Counts
  <2>5. Counts(deltas)'
    <3>1. ~ OnItsWay'
      BY <1>9 DEF OnItsWay
    <3>2. \A i \in 1 .. Len(deltas) :
            deltas'[i].seq + 1 <= Len(happened') /\ deltas'[i].event = happened'[deltas'[i].seq + 1]
      BY <1>4, <1>5, <2>2
    <3>3. n.seq + 1 <= Len(happened') /\ n.event = happened'[n.seq + 1]
      BY <1>4, <2>1
    <3>5. \A i \in 1 .. Len(deltas') :
            deltas'[i].seq + 1 <= Len(happened') /\ deltas'[i].event = happened'[deltas'[i].seq + 1]
      BY <2>2, <3>2, <3>3
    <3>6. QED
      BY <1>4, <3>1, <3>5 DEF Counts
  <2>6. Rising(deltas)'
    <3>1. \A i \in 1 .. Len(deltas) : deltas'[i].seq < n.seq
      BY <1>4, <1>5, <2>1, <2>2
    <3>2. \A i, j \in 1 .. Len(deltas) : i < j => deltas'[i].seq < deltas'[j].seq
      BY <1>1, <2>2 DEF NumberedInOrder, Rising
    <3>3. \A i, j \in 1 .. Len(deltas) + 1 : i < j => i \in 1 .. Len(deltas) /\ (j \in 1 .. Len(deltas) \/ j = Len(deltas) + 1)
      BY <2>2
    <3>4. \A i, j \in 1 .. Len(deltas) + 1 : i < j => deltas'[i].seq < deltas'[j].seq
      BY <2>2, <3>1, <3>2, <3>3
    <3>5. QED
      BY <2>2, <3>4 DEF Rising
  <2>7. /\ \A i \in 1 .. Len(events), j \in 1 .. Len(deltas') : events[i].seq < deltas'[j].seq
        /\ \A j \in 1 .. Len(deltas') : deltas'[j].event.type = "TEXT"
    <3>1. \A i \in 1 .. Len(events) : events[i].seq < n.seq
      BY <1>4, <1>5, <2>1
    <3>2. QED
      BY <1>1, <1>9, <2>1, <2>2, <3>1 DEF NumberedInOrder
  <2>8. NumberedInOrder'
    <3>1. ~ OnItsWay' /\ recorder' # "new" /\ recorder' # "record"
      BY <1>9 DEF OnItsWay
    <3>2. Rising(events)' /\ events' = events
      BY <1>1, <1>3 DEF NumberedInOrder, Rising
    <3>3. QED
      BY <2>4, <2>5, <2>6, <2>7, <3>1, <3>2 DEF NumberedInOrder
  <2>9. NoneMissing'
    <3>1. /\ ~ OnItsWay /\ ~ OnItsWay' /\ recorder' \in {"idle", "flush"} /\ Len(events) \in Nat
          /\ events' = events /\ execution' = execution /\ failures' = failures
      BY <1>1, <1>3, <1>9, LedgerElements DEF OnItsWay
    <3>2. failures = 0 => execution.status # "none" /\ Len(events) + Len(deltas) + 0 = Len(happened)
      BY <1>1, <1>3, <3>1 DEF NoneMissing
    <3>3. failures = 0 => Len(events) + Len(deltas') + 0 = Len(happened')
      <4>1. ASSUME NEW a \in Nat, NEW b \in Nat, NEW h \in Nat, a + b + 0 = h
            PROVE  a + (b + 1) + 0 = h + 1
        BY <4>1
      <4>2. Len(happened) \in Nat /\ Len(happened') = Len(happened) + 1 /\ Len(deltas) \in Nat /\ Len(deltas') = Len(deltas) + 1
        BY <1>4, <2>2
      <4>3. QED
        BY <3>1, <3>2, <4>1, <4>2
    <3>4. QED
      BY <3>1, <3>2, <3>3 DEF NoneMissing
  <2>10. QED
    BY <1>6, <1>7, <2>3, <2>8, <2>9 DEF LedgerInv
<1>10. QED
  BY <1>2, <1>8, <1>9

\* The events before what is written stay what they were; after a terminal
\* event nothing counts any more.
LEMMA EventsGrow ==
  ASSUME LedgerTypeOK, NEW written \in Seq(Numbered), events' = events \o written
  PROVE  /\ events' \in Seq(Numbered) /\ Len(events') = Len(events) + Len(written)
         /\ Len(events) \in Nat /\ Len(written) \in Nat
         /\ \A i \in 1 .. Len(events) : events'[i] = events[i]
         /\ \A i \in 1 .. Len(written) : events'[Len(events) + i] = written[i]
         /\ \A i \in 1 .. Len(events') : \/ i \in 1 .. Len(events)
                                         \/ \E j \in 1 .. Len(written) : i = Len(events) + j
         /\ 1 .. Len(events) \subseteq 1 .. Len(events')
<1>1. events \in Seq(Numbered)
  BY DEF LedgerTypeOK
<1>2. Len(events) \in Nat /\ Len(written) \in Nat
  BY <1>1, OfSequence
<1>3. /\ events' \in Seq(Numbered) /\ Len(events') = Len(events) + Len(written)
      /\ \A k \in 1 .. Len(events) + Len(written) :
           events'[k] = IF k <= Len(events) THEN events[k] ELSE written[k - Len(events)]
  BY <1>1, ConcatProperties
<1>4. \A i \in 1 .. Len(events) : events'[i] = events[i]
  BY <1>2, <1>3
<1>5. ASSUME NEW j \in 1 .. Len(written) PROVE events'[Len(events) + j] = written[j]
  <2>1. Len(events) + j \in 1 .. Len(events) + Len(written) /\ ~ Len(events) + j <= Len(events)
        /\ (Len(events) + j) - Len(events) = j
    BY <1>2
  <2>2. QED
    BY <1>3, <2>1
<1>6. ASSUME NEW i \in 1 .. Len(events'), i \notin 1 .. Len(events)
      PROVE  \E j \in 1 .. Len(written) : i = Len(events) + j
  <2>1. i - Len(events) \in 1 .. Len(written) /\ i = Len(events) + (i - Len(events))
    BY <1>2, <1>3, <1>6
  <2>2. QED
    BY <2>1
<1>7. 1 .. Len(events) \subseteq 1 .. Len(events')
  BY <1>2, <1>3
<1>8. QED
  BY <1>2, <1>3, <1>4, <1>5, <1>6, <1>7

LEMMA NothingMoreCounts ==
  ASSUME LedgerTypeOK, NEW written \in Seq(Numbered), events' = events \o written, Terminals # {}
  PROVE  /\ CountedOf("USAGE")' = CountedOf("USAGE")
         /\ CountedOf("STEP_START")' = CountedOf("STEP_START")
         /\ Terminals' \cap Counted' = Terminals \cap Counted
         /\ Terminals' # {}
<1>1. /\ Len(events') = Len(events) + Len(written) /\ Len(events) \in Nat /\ Len(written) \in Nat
      /\ \A i \in 1 .. Len(events) : events'[i] = events[i]
      /\ \A i \in 1 .. Len(events') : \/ i \in 1 .. Len(events)
                                      \/ \E j \in 1 .. Len(written) : i = Len(events) + j
      /\ 1 .. Len(events) \subseteq 1 .. Len(events')
  BY EventsGrow
<1>2. \A i \in 1 .. Len(events) : i \in Terminals' <=> i \in Terminals
  BY <1>1 DEF Terminals
<1>3. Terminals \subseteq 1 .. Len(events) /\ Terminals' \subseteq 1 .. Len(events')
  BY DEF Terminals
<1>4. PICK t0 \in Terminals : TRUE
  OBVIOUS
<1>5. t0 \in 1 .. Len(events) /\ t0 \in Terminals'
  BY <1>2, <1>3
<1>6. \A i \in 1 .. Len(events') : i \in 1 .. Len(events) \/ t0 < i
  BY <1>1, <1>5
<1>7. ASSUME NEW i, i \in Counted' PROVE i \in Counted
  <2>1. i \in 1 .. Len(events') /\ \A j \in Terminals' : i <= j
    BY <1>7 DEF Counted
  <2>2. i \in 1 .. Len(events)
    BY <1>5, <1>6, <2>1
  <2>3. \A j \in Terminals : i <= j
    BY <1>2, <1>3, <2>1
  <2>4. QED
    BY <2>2, <2>3 DEF Counted
<1>8. ASSUME NEW i, i \in Counted PROVE i \in Counted'
  <2>1. i \in 1 .. Len(events) /\ \A j \in Terminals : i <= j
    BY <1>8 DEF Counted
  <2>2. ASSUME NEW j \in Terminals' PROVE i <= j
    <3>1. CASE j \in 1 .. Len(events)
      BY <1>2, <2>1, <3>1
    <3>2. CASE j \notin 1 .. Len(events)
      BY <1>1, <1>3, <2>1, <3>2
    <3>3. QED
      BY <3>1, <3>2
  <2>3. QED
    BY <1>1, <2>1, <2>2 DEF Counted
<1>9. Counted' = Counted /\ Counted \subseteq 1 .. Len(events)
  BY <1>7, <1>8 DEF Counted
<1>10. CountedOf("USAGE")' = CountedOf("USAGE") /\ CountedOf("STEP_START")' = CountedOf("STEP_START")
  BY <1>1, <1>9 DEF CountedOf
<1>11. QED
  BY <1>2, <1>5, <1>9, <1>10

\* Deltas that are written change neither the totals nor the verdict.
LEMMA TextWritten ==
  ASSUME LedgerTypeOK, Totalled, Judged, execution.status # "none",
         NEW written \in Seq(Numbered), events' = events \o written,
         \A j \in 1 .. Len(written) : written[j].event.type = "TEXT",
         UNCHANGED <<happened, execution, calls>>, recorder = "dead" => recorder' = "dead"
  PROVE  Totalled' /\ Judged'
<1>1. /\ Len(events') = Len(events) + Len(written) /\ Len(events) \in Nat /\ Len(written) \in Nat
      /\ \A i \in 1 .. Len(events) : events'[i] = events[i]
      /\ \A i \in 1 .. Len(written) : events'[Len(events) + i] = written[i]
      /\ \A i \in 1 .. Len(events') : \/ i \in 1 .. Len(events)
                                      \/ \E j \in 1 .. Len(written) : i = Len(events) + j
      /\ 1 .. Len(events) \subseteq 1 .. Len(events')
  BY EventsGrow
<1>2. \A i \in 1 .. Len(events') : i \in 1 .. Len(events) \/ events'[i].event.type = "TEXT"
  BY <1>1
<1>3. "TEXT" \notin DOMAIN Terminal
  BY DEF Terminal
<1>4. Terminals' = Terminals
  BY <1>1, <1>2, <1>3 DEF Terminals
<1>5. \A i \in 1 .. Len(events) : i \in Counted' <=> i \in Counted
  BY <1>1, <1>4 DEF Counted
<1>6. CountedOf("USAGE")' = CountedOf("USAGE")
  BY <1>1, <1>2, <1>5 DEF CountedOf, Counted
<1>7. CountedOf("STEP_START")' = CountedOf("STEP_START")
  BY <1>1, <1>2, <1>5 DEF CountedOf, Counted
<1>8. Terminals' \cap Counted' = Terminals \cap Counted
  BY <1>4, <1>5 DEF Terminals
<1>9. Judged'
  <2>1. \A i \in Terminals \cap Counted : events'[i] = events[i]
    BY <1>1 DEF Terminals
  <2>2. QED
    BY <1>4, <1>8, <2>1 DEF Judged
<1>10. \A i \in CountedOf("STEP_START") : events'[i] = events[i]
  BY <1>1 DEF CountedOf, Counted
<1>11. \A c \in Calls : (\E i \in 1 .. Len(events') : events'[i].event = Event("TOOL_RESULT", c))
                        <=> \E i \in 1 .. Len(events) : events[i].event = Event("TOOL_RESULT", c)
  <2> SUFFICES ASSUME NEW c \in Calls
               PROVE  (\E i \in 1 .. Len(events') : events'[i].event = Event("TOOL_RESULT", c))
                      <=> \E i \in 1 .. Len(events) : events[i].event = Event("TOOL_RESULT", c)
    OBVIOUS
  <2>1. Event("TOOL_RESULT", c).type = "TOOL_RESULT"
    BY DEF Event
  <2>2. ASSUME NEW i \in 1 .. Len(events'), events'[i].event = Event("TOOL_RESULT", c)
        PROVE  i \in 1 .. Len(events) /\ events[i].event = Event("TOOL_RESULT", c)
    BY <1>1, <1>2, <2>1, <2>2
  <2>3. ASSUME NEW i \in 1 .. Len(events), events[i].event = Event("TOOL_RESULT", c)
        PROVE  i \in 1 .. Len(events') /\ events'[i].event = Event("TOOL_RESULT", c)
    BY <1>1, <2>3
  <2>4. QED
    BY <2>2, <2>3
<1>12. Totalled'
  <2>1. \A i \in CountedOf("STEP_START") : Cardinality(Steps(events[i]))' = Cardinality(Steps(events[i]))
    BY <1>10 DEF Steps
  <2>2. \A c \in Calls :
          calls'[c].returned = \E i \in 1 .. Len(events') : events'[i].event = Event("TOOL_RESULT", c)
    BY <1>11, Zenon DEF Totalled
  <2>3. QED
    BY <1>6, <1>7, <2>1, <2>2 DEF Totalled
<1>13. QED
  BY <1>9, <1>12

\* A flush writes the deltas or forgets them.
LEMMA FlushTurn ==
  ASSUME LedgerInv, Flush
  PROVE  /\ recorder = "flush" /\ recorder' = following /\ following' = "idle" /\ deltas' = <<>> /\ happened' = happened
         /\ recorder' \in {"idle", "record", "over", "raised"} /\ OnItsWay' = OnItsWay
         /\ OnItsWay <=> recorder' = "record"
         /\ execution' = execution /\ calls' = calls /\ failures' \in Nat
         /\ \/ /\ events' = events /\ (failures' # 0 \/ deltas = <<>> \/ execution.status = "none")
               /\ failures' = 0 => failures = 0
            \/ events' = events \o deltas /\ execution.status # "none" /\ failures' = failures
<1>1. LedgerTypeOK
  BY DEF LedgerInv
<1>2. recorder = "flush" /\ recorder' = following /\ following' = "idle" /\ deltas' = <<>> /\ happened' = happened
  BY DEF Flush
<1>3. recorder' \in {"idle", "record", "over", "raised"}
  BY <1>1, <1>2 DEF LedgerTypeOK
<1>4. (OnItsWay <=> recorder' = "record") /\ (OnItsWay' <=> recorder' = "record")
  BY <1>2, <1>3 DEF OnItsWay
<1>5. OnItsWay' = OnItsWay
  BY <1>4, Zenon DEF OnItsWay
<1>6. failures \in Nat
  BY <1>1 DEF LedgerTypeOK
<1>7. \/ deltas = <<>> /\ UNCHANGED <<events, execution, calls, failures>>
      \/ Written(deltas, execution, calls)
  BY DEF Flush
<1>8. CASE deltas = <<>> /\ UNCHANGED <<events, execution, calls, failures>>
  BY <1>2, <1>3, <1>4, <1>5, <1>6, <1>8
<1>9. CASE Written(deltas, execution, calls)
  <2>1. CASE execution.status # "none" /\ Works /\ events' = events \o deltas /\ execution' = execution /\ calls' = calls
    BY <1>2, <1>3, <1>4, <1>5, <1>6, <2>1 DEF Works
  <2>2. CASE ((execution.status = "none" /\ Works) \/ MayFail) /\ UNCHANGED <<events, execution, calls>>
    <3>1. failures' \in Nat /\ (failures' # 0 \/ execution.status = "none") /\ (failures' = 0 => failures = 0)
      BY <1>6, <2>2 DEF Works, MayFail
    <3>2. QED
      BY <1>2, <1>3, <1>4, <1>5, <2>2, <3>1
  <2>3. QED
    BY <1>9, <2>1, <2>2 DEF Written
<1>10. QED
  BY <1>7, <1>8, <1>9

LEMMA FlushStep == ASSUME LedgerInv, Flush PROVE LedgerInv'
<1>1. LedgerTypeOK /\ NumberedInOrder /\ Totalled /\ Judged /\ NoneMissing
  BY DEF LedgerInv
<1>2. /\ recorder = "flush" /\ recorder' = following /\ following' = "idle" /\ deltas' = <<>> /\ happened' = happened
      /\ recorder' \in {"idle", "record", "over", "raised"} /\ OnItsWay' = OnItsWay
      /\ OnItsWay <=> recorder' = "record"
      /\ execution' = execution /\ calls' = calls /\ failures' \in Nat
  BY FlushTurn
<1>3. Len(deltas') = 0 /\ 1 .. Len(deltas') = {} /\ deltas' \in Seq(Numbered)
  BY <1>2, EmptySeq
<1>4. OnItsWay' => Len(happened') > 0
  BY <1>1, <1>2 DEF NumberedInOrder
<1>5. CASE events' = events /\ (failures' # 0 \/ deltas = <<>> \/ execution.status = "none") /\ (failures' = 0 => failures = 0)
  <2>1. LedgerTypeOK'
    BY <1>1, <1>2, <1>3, <1>5 DEF LedgerTypeOK
  <2>2. NumberedInOrder'
    <3>1. Counts(events)' /\ Rising(events)'
      BY <1>1, <1>2, <1>5 DEF NumberedInOrder, Counts, Rising
    <3>2. Counts(deltas)' /\ Rising(deltas)'
      BY <1>3 DEF Counts, Rising
    <3>3. QED
      BY <1>2, <1>3, <1>4, <3>1, <3>2 DEF NumberedInOrder
  <2>3. Totalled'
    <3>1. \A i \in 1 .. Len(events) : Steps(events[i])' = Steps(events[i])
      BY <1>2, <1>5 DEF Steps
    <3>2. QED
      BY <1>1, <1>2, <1>5, <3>1, TotalsKept
  <2>4. Judged'
    BY <1>1, <1>2, <1>5, JudgedKept
  <2>5. NoneMissing'
    <3>1. Len(events) \in Nat /\ Len(deltas) \in Nat
      BY <1>1, LedgerElements
    <3>2. ASSUME failures' = 0
          PROVE  /\ execution.status # "none" /\ deltas = <<>>
                 /\ Len(events) + Len(deltas) + (IF OnItsWay THEN 1 ELSE 0) = Len(happened)
      BY <1>1, <1>2, <1>5, <3>2 DEF NoneMissing
    <3>3. failures' = 0 => Len(events') + Len(deltas') + (IF OnItsWay' THEN 1 ELSE 0) = Len(happened')
      <4>1. ASSUME failures' = 0, OnItsWay PROVE Len(events') + Len(deltas') + 1 = Len(happened')
        BY <1>2, <1>3, <1>5, <3>1, <3>2, <4>1
      <4>2. ASSUME failures' = 0, ~ OnItsWay PROVE Len(events') + Len(deltas') + 0 = Len(happened')
        BY <1>2, <1>3, <1>5, <3>1, <3>2, <4>2
      <4>3. QED
        BY <1>2, <4>1, <4>2
    <3>4. failures' = 0 => execution'.status # "none"
      BY <1>2, <3>2
    <3>5. QED
      BY <1>2, <3>3, <3>4 DEF NoneMissing
  <2>6. QED
    BY <2>1, <2>2, <2>3, <2>4, <2>5 DEF LedgerInv
<1>6. CASE events' = events \o deltas /\ execution.status # "none" /\ failures' = failures
  <2>1. /\ deltas \in Seq(Numbered)
        /\ \A j \in 1 .. Len(deltas) : deltas[j].event.type = "TEXT"
    BY <1>1 DEF LedgerTypeOK, NumberedInOrder
  <2>2. /\ events' \in Seq(Numbered) /\ Len(events') = Len(events) + Len(deltas)
        /\ Len(events) \in Nat /\ Len(deltas) \in Nat
        /\ \A i \in 1 .. Len(events) : events'[i] = events[i]
        /\ \A i \in 1 .. Len(deltas) : events'[Len(events) + i] = deltas[i]
        /\ \A i \in 1 .. Len(events') : \/ i \in 1 .. Len(events)
                                        \/ \E j \in 1 .. Len(deltas) : i = Len(events) + j
    BY <1>1, <1>6, <2>1, EventsGrow
  <2>3. LedgerTypeOK'
    BY <1>1, <1>2, <1>3, <2>2 DEF LedgerTypeOK
  <2>4. NumberedInOrder'
    <3>1. Counts(events)'
      <4>1. Counts(events) /\ Counts(deltas)
        BY <1>1 DEF NumberedInOrder
      <4>2. ASSUME NEW i \in 1 .. Len(events)
            PROVE  /\ events'[i].seq + 1 <= Len(happened) - (IF OnItsWay THEN 1 ELSE 0)
                   /\ events'[i].event = happened[events'[i].seq + 1]
        BY <2>2, <4>1 DEF Counts
      <4>3. ASSUME NEW j \in 1 .. Len(deltas)
            PROVE  /\ events'[Len(events) + j].seq + 1 <= Len(happened) - (IF OnItsWay THEN 1 ELSE 0)
                   /\ events'[Len(events) + j].event = happened[events'[Len(events) + j].seq + 1]
        BY <2>2, <4>1 DEF Counts
      <4>4. \A i \in 1 .. Len(events') : /\ events'[i].seq + 1 <= Len(happened) - (IF OnItsWay THEN 1 ELSE 0)
                                         /\ events'[i].event = happened[events'[i].seq + 1]
        BY <2>2, <4>2, <4>3, ZenonT(60)
      <4>5. QED
        BY <1>2, <4>4 DEF Counts
    <3>2. Rising(events)'
      <4>1. Rising(events) /\ Rising(deltas) /\ \A i \in 1 .. Len(events), j \in 1 .. Len(deltas) : events[i].seq < deltas[j].seq
        BY <1>1 DEF NumberedInOrder
      <4>2. SUFFICES ASSUME NEW i \in 1 .. Len(events'), NEW j \in 1 .. Len(events'), i < j
                     PROVE  events'[i].seq < events'[j].seq
        BY DEF Rising
      <4>3. CASE j \in 1 .. Len(events)
        <5>1. i \in 1 .. Len(events)
          BY <2>2, <4>2, <4>3
        <5>2. QED
          BY <2>2, <4>1, <4>2, <4>3, <5>1 DEF Rising
      <4>4. CASE \E k \in 1 .. Len(deltas) : j = Len(events) + k
        <5>1. PICK k \in 1 .. Len(deltas) : j = Len(events) + k
          BY <4>4
        <5>2. CASE i \in 1 .. Len(events)
          BY <2>2, <4>1, <5>1, <5>2
        <5>3. CASE \E m \in 1 .. Len(deltas) : i = Len(events) + m
          <6>1. PICK m \in 1 .. Len(deltas) : i = Len(events) + m
            BY <5>3
          <6>2. m < k
            BY <2>2, <4>2, <5>1, <6>1
          <6>3. QED
            BY <2>2, <4>1, <5>1, <6>1, <6>2 DEF Rising
        <5>4. QED
          BY <2>2, <5>2, <5>3
      <4>5. QED
        BY <2>2, <4>3, <4>4
    <3>3. Counts(deltas)' /\ Rising(deltas)'
      BY <1>3 DEF Counts, Rising
    <3>4. QED
      BY <1>2, <1>3, <1>4, <3>1, <3>2, <3>3 DEF NumberedInOrder
  <2>5. Totalled' /\ Judged'
    BY <1>1, <1>2, <1>6, <2>1, TextWritten
  <2>6. NoneMissing'
    <3>1. ASSUME failures' = 0
          PROVE  Len(events) + Len(deltas) + (IF OnItsWay THEN 1 ELSE 0) = Len(happened)
      BY <1>1, <1>2, <1>6, <3>1 DEF NoneMissing
    <3>2. failures' = 0 => Len(events') + Len(deltas') + (IF OnItsWay' THEN 1 ELSE 0) = Len(happened')
      <4>1. ASSUME failures' = 0, OnItsWay PROVE Len(events') + Len(deltas') + 1 = Len(happened')
        BY <1>2, <1>3, <2>2, <3>1, <4>1
      <4>2. ASSUME failures' = 0, ~ OnItsWay PROVE Len(events') + Len(deltas') + 0 = Len(happened')
        BY <1>2, <1>3, <2>2, <3>1, <4>2
      <4>3. QED
        BY <1>2, <4>1, <4>2
    <3>3. execution'.status # "none"
      BY <1>2, <1>6
    <3>4. QED
      BY <1>2, <3>2, <3>3 DEF NoneMissing
  <2>7. QED
    BY <2>3, <2>4, <2>5, <2>6 DEF LedgerInv
<1>7. \/ /\ events' = events /\ (failures' # 0 \/ deltas = <<>> \/ execution.status = "none")
         /\ failures' = 0 => failures = 0
      \/ events' = events \o deltas /\ execution.status # "none" /\ failures' = failures
  BY FlushTurn
<1>8. QED
  BY <1>5, <1>6, <1>7

\* What an event does to the row and to the index of calls.
LEMMA FiniteSteps ==
  ASSUME NEW n, n.seq \in Nat
  PROVE  IsFiniteSet(Steps(n)) /\ Cardinality(Steps(n)) \in Nat
<1>1. Steps(n) \in SUBSET (1 .. n.seq + 1) /\ 1 \in Int /\ n.seq + 1 \in Int
  BY DEF Steps
<1>2. IsFiniteSet(1 .. n.seq + 1)
  BY <1>1, FS_Interval
<1>3. IsFiniteSet(Steps(n))
  BY <1>1, <1>2, FS_Subset
<1>4. QED
  BY <1>3, FS_CardinalityType

LEMMA ChangedRow ==
  ASSUME LedgerTypeOK, NEW n \in Numbered, execution.status = "running", NEW r, r = Projected(execution, n)
  PROVE  /\ r \in [status : {"none", "running", "failed", "max_steps", "succeeded"}, steps : Nat, tokens : Nat]
         /\ r.status = IF n.event.type \in DOMAIN Terminal THEN Terminal[n.event.type] ELSE "running"
         /\ r.tokens = IF n.event.type = "USAGE" THEN execution.tokens + 1 ELSE execution.tokens
         /\ r.steps = IF n.event.type = "STEP_START" THEN Cardinality(Steps(n)) ELSE execution.steps
<1> DEFINE Executions == [status : {"none", "running", "failed", "max_steps", "succeeded"}, steps : Nat, tokens : Nat]
<1>1. execution \in Executions /\ n.seq \in Nat /\ n.event \in Events
  BY DEF LedgerTypeOK, Numbered
<1>2. r = Changed(execution, n)
  BY DEF Projected
<1>3. DOMAIN Terminal = {"ERROR", "MAX_STEPS", "DONE"}
      /\ \A t \in DOMAIN Terminal : Terminal[t] \in {"failed", "max_steps", "succeeded"}
  BY EventShape
<1>4. CASE n.event.type \in DOMAIN Terminal
  <2>1. n.event.type # "USAGE" /\ n.event.type # "STEP_START"
    BY <1>3, <1>4
  <2>2. r = [execution EXCEPT !.status = Terminal[n.event.type]]
    BY <1>2, <1>4, <2>1 DEF Changed
  <2>3. QED
    BY <1>1, <1>3, <1>4, <2>1, <2>2
<1>5. CASE n.event.type = "STEP_START"
  <2>1. n.event.type \notin DOMAIN Terminal /\ n.event.type # "USAGE"
    BY <1>3, <1>5
  <2>2. r = [execution EXCEPT !.steps = Cardinality(Steps(n))]
    BY <1>2, <1>5, <2>1 DEF Changed
  <2>3. Cardinality(Steps(n)) \in Nat
    BY <1>1, FiniteSteps
  <2>4. QED
    BY <1>1, <1>5, <2>1, <2>2, <2>3
<1>6. CASE n.event.type = "USAGE"
  <2>1. n.event.type \notin DOMAIN Terminal /\ n.event.type # "STEP_START"
    BY <1>3, <1>6
  <2>2. r = [execution EXCEPT !.tokens = execution.tokens + 1]
    BY <1>2, <1>6, <2>1 DEF Changed
  <2>3. QED
    BY <1>1, <1>6, <2>1, <2>2
<1>7. CASE n.event.type \notin DOMAIN Terminal /\ n.event.type # "STEP_START" /\ n.event.type # "USAGE"
  <2>1. r = execution
    BY <1>2, <1>7 DEF Changed
  <2>2. QED
    BY <1>1, <1>7, <2>1
<1>8. QED
  BY <1>4, <1>5, <1>6, <1>7

LEMMA IndexedCalls ==
  ASSUME LedgerTypeOK, NEW e \in Events, NEW cs, cs = Indexed(calls, e)
  PROVE  /\ cs \in [Calls -> [called : BOOLEAN, returned : BOOLEAN]]
         /\ \A c \in Calls : cs[c].returned <=> calls[c].returned \/ e = Event("TOOL_RESULT", c)
<1>1. calls \in [Calls -> [called : BOOLEAN, returned : BOOLEAN]]
  BY DEF LedgerTypeOK
<1>2. e.type \in {"TOOL_CALL", "TOOL_RESULT"} => e.call \in Calls /\ e = Event(e.type, e.call)
  BY EventShape
<1>3. \A c \in Calls : Event("TOOL_RESULT", c).type = "TOOL_RESULT" /\ Event("TOOL_RESULT", c).call = c
  BY DEF Event
<1>4. CASE e.type = "TOOL_CALL"
  <2>1. cs = [calls EXCEPT ![e.call].called = TRUE]
    BY <1>4 DEF Indexed
  <2>2. e.call \in Calls /\ \A c \in Calls : e # Event("TOOL_RESULT", c)
    BY <1>2, <1>3, <1>4
  <2>3. QED
    BY <1>1, <2>1, <2>2, ZenonT(60)
<1>5. CASE e.type = "TOOL_RESULT"
  <2>1. cs = [calls EXCEPT ![e.call].returned = TRUE]
    BY <1>5 DEF Indexed
  <2>2. e.call \in Calls /\ \A c \in Calls : e = Event("TOOL_RESULT", c) <=> c = e.call
    BY <1>2, <1>3, <1>5
  <2>3. cs \in [Calls -> [called : BOOLEAN, returned : BOOLEAN]]
    BY <1>1, <2>1, <2>2
  <2>4. \A c \in Calls : cs[c].returned <=> calls[c].returned \/ c = e.call
    BY <1>1, <2>1, <2>2
  <2>5. QED
    BY <2>2, <2>3, <2>4
<1>6. CASE e.type \notin {"TOOL_CALL", "TOOL_RESULT"}
  <2>1. cs = calls
    BY <1>6 DEF Indexed
  <2>2. QED
    BY <1>1, <1>3, <1>6, <2>1
<1>7. QED
  BY <1>4, <1>5, <1>6

\* An event that is written while the execution runs: the totals follow it.
LEMMA LastCounts ==
  ASSUME LedgerTypeOK, Totalled, Judged, execution.status = "running",
         NEW n \in Numbered, events' = events \o <<n>>, happened' = happened,
         execution' = Projected(execution, n), calls' = Indexed(calls, n.event)
  PROVE  Totalled' /\ Judged'
<1>0. PICK last \in Nat : last = Len(events) + 1
  <2>1. Len(events) \in Nat
    BY LedgerElements
  <2>2. QED
    BY <2>1
<1>1. <<n>> \in Seq(Numbered) /\ Len(<<n>>) = 1 /\ <<n>>[1] = n
  OBVIOUS
<1>2. /\ Len(events') = Len(events) + Len(<<n>>) /\ Len(events) \in Nat
      /\ \A i \in 1 .. Len(events) : events'[i] = events[i]
      /\ \A i \in 1 .. Len(<<n>>) : events'[Len(events) + i] = <<n>>[i]
  BY <1>1, EventsGrow
<1>3. /\ Len(events') = last /\ Len(events) \in Nat /\ last \in Nat /\ last = Len(events) + 1
      /\ \A i \in 1 .. Len(events) : events'[i] = events[i]
      /\ events'[last] = n
  BY <1>0, <1>1, <1>2
<1>4. 1 .. last = (1 .. Len(events)) \cup {last} /\ last \notin 1 .. Len(events)
      /\ \A i \in 1 .. Len(events) : i < last
  BY <1>3
<1>5. Terminals = {}
  BY DEF Judged
<1>6. Counted = 1 .. Len(events)
  BY <1>5 DEF Counted
<1>7. Terminals' = {i \in 1 .. last : events'[i].event.type \in DOMAIN Terminal}
  BY <1>3 DEF Terminals
<1>8. Terminals' = IF n.event.type \in DOMAIN Terminal THEN {last} ELSE {}
  <2>1. \A i \in 1 .. Len(events) : events[i].event.type \notin DOMAIN Terminal
    BY <1>5 DEF Terminals
  <2>2. QED
    BY <1>3, <1>4, <1>7, <2>1
<1>9. Counted' = 1 .. last
  <2>1. \A i \in 1 .. last : i <= last
    BY <1>3
  <2>2. \A i \in 1 .. last, j \in Terminals' : i <= j
    BY <1>8, <2>1
  <2>3. QED
    BY <1>3, <2>2 DEF Counted
<1>10. CountedOf("USAGE")' = CountedOf("USAGE") \cup (IF n.event.type = "USAGE" THEN {last} ELSE {})
  BY <1>3, <1>4, <1>6, <1>9 DEF CountedOf
<1>11. CountedOf("STEP_START")' = CountedOf("STEP_START") \cup (IF n.event.type = "STEP_START" THEN {last} ELSE {})
  BY <1>3, <1>4, <1>6, <1>9 DEF CountedOf
<1>12. /\ execution'.status = IF n.event.type \in DOMAIN Terminal THEN Terminal[n.event.type] ELSE "running"
       /\ execution'.tokens = IF n.event.type = "USAGE" THEN execution.tokens + 1 ELSE execution.tokens
       /\ execution'.steps = IF n.event.type = "STEP_START" THEN Cardinality(Steps(n)) ELSE execution.steps
  BY ChangedRow
<1>13. CountedOf("USAGE") \subseteq 1 .. Len(events) /\ CountedOf("STEP_START") \subseteq 1 .. Len(events)
  BY <1>6 DEF CountedOf
<1>14. execution'.tokens = Cardinality(CountedOf("USAGE")')
  <2>1. IsFiniteSet(CountedOf("USAGE"))
    <3>1. 1 \in Int /\ Len(events) \in Int
      BY <1>3
    <3>2. IsFiniteSet(1 .. Len(events)) /\ CountedOf("USAGE") \in SUBSET (1 .. Len(events))
      BY <1>13, <3>1, FS_Interval
    <3>3. QED
      BY <3>2, FS_Subset
  <2>2. last \notin CountedOf("USAGE")
    BY <1>4, <1>13
  <2>3. Cardinality(CountedOf("USAGE") \cup {last}) = Cardinality(CountedOf("USAGE")) + 1
    BY <2>1, <2>2, FS_AddElement
  <2>4. execution.tokens = Cardinality(CountedOf("USAGE"))
    BY DEF Totalled
  <2>5. CASE n.event.type = "USAGE"
    BY <1>10, <1>12, <2>3, <2>4, <2>5
  <2>6. CASE n.event.type # "USAGE"
    BY <1>10, <1>12, <2>4, <2>6
  <2>7. QED
    BY <2>5, <2>6
<1>15. \A i \in 1 .. Len(events) : Steps(events[i])' = Steps(events[i])
  BY <1>3 DEF Steps
<1>16. Steps(events[last])' = Steps(n)
  BY <1>3 DEF Steps
<1>17. /\ CountedOf("STEP_START")' = {} => execution'.steps = 0
       /\ \A i \in CountedOf("STEP_START")' :
            (\A j \in CountedOf("STEP_START")' : j <= i) => execution'.steps = Cardinality(Steps(events[i]))'
  <2>1. CASE n.event.type = "STEP_START"
    <3>1. execution'.steps = Cardinality(Steps(n)) /\ last \in CountedOf("STEP_START")'
      BY <1>11, <1>12, <2>1
    <3>2. \A i \in CountedOf("STEP_START")' : last <= i => i = last
      BY <1>3, <1>4, <1>11, <1>13, <2>1
    <3>3. QED
      BY <1>16, <3>1, <3>2
  <2>2. CASE n.event.type # "STEP_START"
    <3>1. execution'.steps = execution.steps /\ CountedOf("STEP_START")' = CountedOf("STEP_START")
      BY <1>11, <1>12, <2>2
    <3>2. QED
      BY <1>13, <1>15, <3>1 DEF Totalled
  <2>3. QED
    BY <2>1, <2>2
<1>18. \A c \in Calls :
         calls'[c].returned = \E i \in 1 .. last : events'[i].event = Event("TOOL_RESULT", c)
  <2> SUFFICES ASSUME NEW c \in Calls
               PROVE  calls'[c].returned = \E i \in 1 .. last : events'[i].event = Event("TOOL_RESULT", c)
    OBVIOUS
  <2>1. n.event \in Events
    BY DEF Numbered
  <2>2. /\ calls' \in [Calls -> [called : BOOLEAN, returned : BOOLEAN]]
        /\ calls'[c].returned <=> calls[c].returned \/ n.event = Event("TOOL_RESULT", c)
    BY <2>1, IndexedCalls
  <2>3. calls[c].returned = \E i \in 1 .. Len(events) : events[i].event = Event("TOOL_RESULT", c)
    BY Zenon DEF Totalled
  <2>4. (\E i \in 1 .. last : events'[i].event = Event("TOOL_RESULT", c))
        <=> (\E i \in 1 .. Len(events) : events[i].event = Event("TOOL_RESULT", c)) \/ n.event = Event("TOOL_RESULT", c)
    BY <1>3, <1>4
  <2>5. calls'[c].returned \in BOOLEAN
    BY <2>2
  <2>6. calls'[c].returned <=> \E i \in 1 .. last : events'[i].event = Event("TOOL_RESULT", c)
    BY <2>2, <2>3, <2>4, Zenon
  <2>7. QED
    BY <2>5, <2>6, Zenon
<1>19. Totalled'
  BY <1>3, <1>14, <1>17, <1>18 DEF Totalled
<1>20. Judged'
  <2>1. CASE n.event.type \in DOMAIN Terminal
    <3>1. Terminals' = {last} /\ execution'.status = Terminal[n.event.type]
      BY <1>8, <1>12, <2>1
    <3>2. execution'.status \in {"failed", "max_steps", "succeeded"}
      BY <2>1, <3>1, EventShape
    <3>3. QED
      BY <1>3, <3>1, <3>2 DEF Judged
  <2>2. CASE n.event.type \notin DOMAIN Terminal
    <3>1. Terminals' = {} /\ execution'.status = "running"
      BY <1>8, <1>12, <2>2
    <3>2. QED
      BY <3>1 DEF Judged
  <2>3. QED
    BY <2>1, <2>2
<1>21. QED
  BY <1>19, <1>20

\* An event that is written after the verdict changes neither it nor the totals.
LEMMA LateCounts ==
  ASSUME LedgerTypeOK, Totalled, Judged, execution.status \notin {"none", "running"}, recorder # "dead",
         NEW n \in Numbered, events' = events \o <<n>>, happened' = happened,
         execution' = Projected(execution, n), calls' = Indexed(calls, n.event)
  PROVE  Totalled' /\ Judged'
<1>1. <<n>> \in Seq(Numbered) /\ Len(<<n>>) = 1 /\ <<n>>[1] = n
  OBVIOUS
<1>2. /\ Len(events') = Len(events) + Len(<<n>>) /\ Len(events) \in Nat
      /\ \A i \in 1 .. Len(events) : events'[i] = events[i]
      /\ \A i \in 1 .. Len(<<n>>) : events'[Len(events) + i] = <<n>>[i]
  BY <1>1, EventsGrow
<1>3. /\ Len(events') = Len(events) + 1
      /\ 1 .. Len(events) + 1 = (1 .. Len(events)) \cup {Len(events) + 1}
      /\ \A i \in 1 .. Len(events) : events'[i] = events[i]
      /\ events'[Len(events) + 1] = n
  BY <1>1, <1>2
<1>4. Terminals # {}
  BY DEF Judged
<1>5. /\ CountedOf("USAGE")' = CountedOf("USAGE")
      /\ CountedOf("STEP_START")' = CountedOf("STEP_START")
      /\ Terminals' \cap Counted' = Terminals \cap Counted
      /\ Terminals' # {}
  BY <1>1, <1>4, NothingMoreCounts
<1>6. execution' = execution
  BY DEF Projected
<1>7. CountedOf("STEP_START") \subseteq 1 .. Len(events) /\ Terminals \cap Counted \subseteq 1 .. Len(events)
  BY DEF CountedOf, Counted
<1>8. \A i \in 1 .. Len(events) : Steps(events[i])' = Steps(events[i])
  BY <1>3 DEF Steps
<1>9. \A c \in Calls :
         calls'[c].returned = \E i \in 1 .. Len(events') : events'[i].event = Event("TOOL_RESULT", c)
  <2> SUFFICES ASSUME NEW c \in Calls
               PROVE  calls'[c].returned = \E i \in 1 .. Len(events') : events'[i].event = Event("TOOL_RESULT", c)
    OBVIOUS
  <2>1. n.event \in Events
    BY DEF Numbered
  <2>2. /\ calls' \in [Calls -> [called : BOOLEAN, returned : BOOLEAN]]
        /\ calls'[c].returned <=> calls[c].returned \/ n.event = Event("TOOL_RESULT", c)
    BY <2>1, IndexedCalls
  <2>3. calls[c].returned = \E i \in 1 .. Len(events) : events[i].event = Event("TOOL_RESULT", c)
    BY Zenon DEF Totalled
  <2>4. (\E i \in 1 .. Len(events') : events'[i].event = Event("TOOL_RESULT", c))
        <=> (\E i \in 1 .. Len(events) : events[i].event = Event("TOOL_RESULT", c)) \/ n.event = Event("TOOL_RESULT", c)
    BY <1>3
  <2>5. calls'[c].returned \in BOOLEAN
    BY <2>2
  <2>6. calls'[c].returned <=> \E i \in 1 .. Len(events') : events'[i].event = Event("TOOL_RESULT", c)
    BY <2>2, <2>3, <2>4, Zenon
  <2>7. QED
    BY <2>5, <2>6, Zenon
<1>10. /\ CountedOf("STEP_START")' = {} => execution'.steps = 0
       /\ \A i \in CountedOf("STEP_START")' :
            (\A j \in CountedOf("STEP_START")' : j <= i) => execution'.steps = Cardinality(Steps(events[i]))'
       /\ execution'.tokens = Cardinality(CountedOf("USAGE")')
  BY <1>5, <1>6, <1>7, <1>8 DEF Totalled
<1>11. Totalled'
  BY <1>9, <1>10 DEF Totalled
<1>12. Judged'
  BY <1>3, <1>5, <1>6, <1>7 DEF Judged
<1>13. QED
  BY <1>11, <1>12

LEMMA RecordTurn ==
  ASSUME LedgerInv, RecordEvent
  PROVE  \E n \in Numbered :
           /\ n.seq + 1 = Len(happened) /\ n.event = happened[n.seq + 1] /\ Len(happened) \in Nat
           /\ recorder = "record" /\ recorder' = "idle" /\ UNCHANGED <<happened, deltas, following>>
           /\ deltas = <<>> /\ failures' \in Nat
           /\ \/ /\ events' = events \o <<n>> /\ execution' = Projected(execution, n)
                 /\ calls' = Indexed(calls, n.event) /\ execution.status # "none" /\ failures' = failures
              \/ /\ UNCHANGED <<events, execution, calls>>
                 /\ (failures' # 0 \/ execution.status = "none")
                 /\ failures' = 0 => failures = 0
<1>1. LedgerTypeOK /\ NumberedInOrder
  BY DEF LedgerInv
<1>2. recorder = "record" /\ recorder' = "idle" /\ UNCHANGED <<happened, deltas, following>>
  BY DEF RecordEvent
<1>3. deltas = <<>> /\ Len(happened) > 0
  BY <1>1, <1>2 DEF NumberedInOrder, OnItsWay
<1>4. Len(happened) \in Nat /\ \A k \in 1 .. Len(happened) : happened[k] \in Events
  BY <1>1, LedgerElements
<1>5. Len(happened) - 1 \in Nat /\ Len(happened) \in 1 .. Len(happened) /\ (Len(happened) - 1) + 1 = Len(happened)
  BY <1>3, <1>4
<1>6. failures \in Nat
  BY <1>1 DEF LedgerTypeOK
<1> DEFINE n == [seq |-> Len(happened) - 1, event |-> happened[Len(happened)]]
<1>7. n \in Numbered /\ n.seq = Len(happened) - 1 /\ n.event = happened[Len(happened)]
  BY <1>4, <1>5 DEF Numbered
<1>8. Written(<<n>>, Projected(execution, n), Indexed(calls, n.event))
  BY DEF RecordEvent
<1> HIDE DEF n
<1>9. \/ /\ events' = events \o <<n>> /\ execution' = Projected(execution, n)
         /\ calls' = Indexed(calls, n.event) /\ execution.status # "none" /\ failures' = failures
      \/ /\ UNCHANGED <<events, execution, calls>>
         /\ ((execution.status = "none" /\ failures' = failures) \/ failures' = failures + 1)
  BY <1>8 DEF Written, Works, MayFail
<1>10. /\ failures' \in Nat
       /\ \/ /\ events' = events \o <<n>> /\ execution' = Projected(execution, n)
             /\ calls' = Indexed(calls, n.event) /\ execution.status # "none" /\ failures' = failures
          \/ /\ UNCHANGED <<events, execution, calls>>
             /\ (failures' # 0 \/ execution.status = "none")
             /\ failures' = 0 => failures = 0
  BY <1>6, <1>9
<1>11. n.seq + 1 = Len(happened) /\ n.event = happened[n.seq + 1]
  BY <1>5, <1>7
<1>12. QED
  BY <1>2, <1>3, <1>4, <1>7, <1>10, <1>11

LEMMA RecordStep == ASSUME LedgerInv, RecordEvent PROVE LedgerInv'
<1>1. LedgerTypeOK /\ NumberedInOrder /\ Totalled /\ Judged /\ NoneMissing
  BY DEF LedgerInv
<1>2. PICK n \in Numbered :
        /\ n.seq + 1 = Len(happened) /\ n.event = happened[n.seq + 1] /\ Len(happened) \in Nat
        /\ recorder = "record" /\ recorder' = "idle" /\ UNCHANGED <<happened, deltas, following>>
        /\ deltas = <<>> /\ failures' \in Nat
        /\ \/ /\ events' = events \o <<n>> /\ execution' = Projected(execution, n)
              /\ calls' = Indexed(calls, n.event) /\ execution.status # "none" /\ failures' = failures
           \/ /\ UNCHANGED <<events, execution, calls>>
              /\ (failures' # 0 \/ execution.status = "none")
              /\ failures' = 0 => failures = 0
  BY RecordTurn
<1>3. /\ OnItsWay /\ ~ OnItsWay' /\ Len(deltas) = 0 /\ 1 .. Len(deltas) = {} /\ n.seq \in Nat
      /\ deltas' = deltas /\ happened' = happened
  BY <1>2 DEF OnItsWay, Numbered
<1>4. /\ Counts(events) /\ Rising(events)
      /\ \A i \in 1 .. Len(events) : /\ events[i].seq \in Nat /\ events[i].seq + 1 <= Len(happened) - 1
                                     /\ events[i].event = happened[events[i].seq + 1]
  <2>1. Counts(events) /\ Rising(events) /\ \A i \in 1 .. Len(events) : events[i].seq \in Nat
    BY <1>1, LedgerElements DEF NumberedInOrder
  <2>2. QED
    BY <1>3, <2>1 DEF Counts
<1>5. Counts(deltas)' /\ Rising(deltas)'
  BY <1>3 DEF Counts, Rising
<1>6. CASE /\ UNCHANGED <<events, execution, calls>>
           /\ (failures' # 0 \/ execution.status = "none")
           /\ failures' = 0 => failures = 0
  <2>1. LedgerTypeOK'
    BY <1>1, <1>2, <1>6 DEF LedgerTypeOK
  <2>2. NumberedInOrder'
    <3>1. \A i \in 1 .. Len(events) : /\ events[i].seq + 1 <= Len(happened)
                                      /\ events[i].event = happened[events[i].seq + 1]
      BY <1>2, <1>4
    <3>2. Counts(events)'
      BY <1>2, <1>3, <1>6, <3>1 DEF Counts
    <3>3. Rising(events)'
      BY <1>4, <1>6 DEF Rising
    <3>4. QED
      BY <1>2, <1>3, <1>5, <3>2, <3>3 DEF NumberedInOrder
  <2>3. Totalled'
    <3>1. \A i \in 1 .. Len(events) : Steps(events[i])' = Steps(events[i])
      BY <1>3, <1>6 DEF Steps
    <3>2. QED
      BY <1>1, <1>6, <3>1, TotalsKept
  <2>4. Judged'
    BY <1>1, <1>2, <1>6, JudgedKept
  <2>5. NoneMissing'
    BY <1>1, <1>2, <1>6 DEF NoneMissing
  <2>6. QED
    BY <2>1, <2>2, <2>3, <2>4, <2>5 DEF LedgerInv
<1>7. CASE /\ events' = events \o <<n>> /\ execution' = Projected(execution, n)
           /\ calls' = Indexed(calls, n.event) /\ execution.status # "none" /\ failures' = failures
  <2>1. <<n>> \in Seq(Numbered) /\ Len(<<n>>) = 1 /\ <<n>>[1] = n
    OBVIOUS
  <2>2. /\ events' \in Seq(Numbered) /\ Len(events') = Len(events) + Len(<<n>>) /\ Len(events) \in Nat
        /\ \A i \in 1 .. Len(events) : events'[i] = events[i]
        /\ \A i \in 1 .. Len(<<n>>) : events'[Len(events) + i] = <<n>>[i]
    BY <1>1, <1>7, <2>1, EventsGrow
  <2>3. Len(events') = Len(events) + 1 /\ events'[Len(events) + 1] = n
    BY <2>1, <2>2
  <2>4. \A i \in 1 .. Len(events) + 1 : i \in 1 .. Len(events) \/ i = Len(events) + 1
    BY <2>2
  <2>5. execution.status \in {"running", "failed", "max_steps", "succeeded"}
    BY <1>1, <1>7 DEF LedgerTypeOK
  <2>6. LedgerTypeOK'
    <3>1. calls' \in [Calls -> [called : BOOLEAN, returned : BOOLEAN]]
      <4>1. n.event \in Events
        BY DEF Numbered
      <4>2. QED
        BY <1>1, <1>7, <4>1, IndexedCalls
    <3>2. execution' \in [status : {"none", "running", "failed", "max_steps", "succeeded"}, steps : Nat, tokens : Nat]
      <4>1. CASE execution.status = "running"
        BY <1>1, <1>7, <4>1, ChangedRow
      <4>2. CASE execution.status # "running"
        BY <1>1, <1>7, <4>2 DEF Projected, LedgerTypeOK
      <4>3. QED
        BY <4>1, <4>2
    <3>3. QED
      BY <1>1, <1>2, <2>2, <3>1, <3>2 DEF LedgerTypeOK
  <2>7. NumberedInOrder'
    <3>1. \A i \in 1 .. Len(events) : /\ events'[i].seq + 1 <= Len(happened) - 0
                                      /\ events'[i].event = happened[events'[i].seq + 1]
      BY <1>2, <1>4, <2>2
    <3>2. n.seq + 1 <= Len(happened) - 0 /\ n.event = happened[n.seq + 1]
      BY <1>2
    <3>3. \A i \in 1 .. Len(events') : /\ events'[i].seq + 1 <= Len(happened) - 0
                                       /\ events'[i].event = happened[events'[i].seq + 1]
      BY <2>3, <2>4, <3>1, <3>2
    <3>4. Counts(events)'
      BY <1>3, <3>3 DEF Counts
    <3>5. \A i \in 1 .. Len(events) : events'[i].seq < n.seq
      BY <1>2, <1>3, <1>4, <2>2, SMTT(40)
    <3>6. \A i, j \in 1 .. Len(events) : i < j => events'[i].seq < events'[j].seq
      BY <1>4, <2>2 DEF Rising
    <3>7. \A i, j \in 1 .. Len(events) + 1 : i < j => i \in 1 .. Len(events)
      BY <2>2
    <3>8. \A i, j \in 1 .. Len(events) + 1 : i < j => events'[i].seq < events'[j].seq
      BY <2>3, <2>4, <3>5, <3>6, <3>7
    <3>9. Rising(events)'
      BY <2>3, <3>8 DEF Rising
    <3>10. QED
      BY <1>2, <1>3, <1>5, <3>4, <3>9 DEF NumberedInOrder
  <2>8. Totalled' /\ Judged'
    <3>1. recorder # "dead"
      BY <1>2
    <3>2. CASE execution.status = "running"
      BY <1>1, <1>3, <1>7, <3>2, LastCounts
    <3>3. CASE execution.status \notin {"none", "running"}
      BY <1>1, <1>3, <1>7, <3>1, <3>3, LateCounts
    <3>4. QED
      BY <1>7, <3>2, <3>3
  <2>9. NoneMissing'
    <3>1. ASSUME failures' = 0
          PROVE  Len(events') + Len(deltas') + (IF OnItsWay' THEN 1 ELSE 0) = Len(happened')
      <4>1. Len(events) + Len(deltas) + 1 = Len(happened)
        BY <1>1, <1>2, <1>3, <1>7, <3>1 DEF NoneMissing
      <4>2. Len(events') + 0 + 0 = Len(happened)
        BY <1>3, <2>2, <2>3, <4>1
      <4>3. QED
        BY <1>3, <4>2
    <3>2. execution'.status # "none"
      <4>1. CASE execution.status = "running"
        <5>1. execution'.status = IF n.event.type \in DOMAIN Terminal THEN Terminal[n.event.type] ELSE "running"
          BY <1>1, <1>7, <4>1, ChangedRow
        <5>2. QED
          BY <5>1, EventShape
      <4>2. CASE execution.status # "running"
        BY <1>7, <4>2 DEF Projected
      <4>3. QED
        BY <4>1, <4>2
    <3>3. QED
      BY <1>2, <3>1, <3>2 DEF NoneMissing
  <2>10. QED
    BY <2>6, <2>7, <2>8, <2>9 DEF LedgerInv
<1>8. QED
  BY <1>2, <1>6, <1>7

\* The steps that write no event.
LEMMA EndStep == ASSUME LedgerInv, End \/ GiveUpStream \/ Finish \/ RecorderStops PROVE LedgerInv'
<1>1. LedgerTypeOK /\ NumberedInOrder /\ Totalled /\ Judged /\ NoneMissing
  BY DEF LedgerInv
<1>2. /\ happened' = happened /\ deltas' = deltas /\ events' = events /\ calls' = calls
      /\ execution'.tokens = execution.tokens /\ execution'.steps = execution.steps
      /\ execution' \in [status : {"none", "running", "failed", "max_steps", "succeeded"}, steps : Nat, tokens : Nat]
      /\ failures' \in Nat
      /\ following' \in {"idle", "record", "over", "raised"}
      /\ recorder # "new" /\ recorder' \in {"flush", "given up", "dead"}
      /\ recorder' = "flush" => recorder = "idle" /\ following' # "record" /\ failures' = failures
      /\ recorder' # "dead" => recorder # "dead" /\ execution' = execution
      /\ execution'.status = "none" <=> execution.status = "none"
      /\ execution'.status = "running" => execution.status = "running"
      /\ execution.status # "running" => execution' = execution
  <2>1. execution \in [status : {"none", "running", "failed", "max_steps", "succeeded"}, steps : Nat, tokens : Nat]
        /\ failures \in Nat /\ following \in {"idle", "record", "over", "raised"}
    BY <1>1 DEF LedgerTypeOK
  <2>2. CASE End
    BY <2>1, <2>2 DEF End
  <2>3. CASE GiveUpStream
    BY <2>1, <2>3 DEF GiveUpStream
  <2>4. CASE RecorderStops
    BY <2>1, <2>4 DEF RecorderStops
  <2>5. CASE Finish
    <3>1. /\ recorder \in {"over", "raised", "given up"} /\ recorder' = "dead" /\ failures' \in Nat
          /\ UNCHANGED <<happened, deltas, events, calls, following>>
          /\ \/ execution' = execution
             \/ /\ execution.status = "running"
                /\ \E v \in {"succeeded", "failed"} : execution' = [execution EXCEPT !.status = v]
      <4> DEFINE verdict == IF recorder = "over" THEN "succeeded" ELSE "failed"
      <4>1. verdict \in {"succeeded", "failed"}
        OBVIOUS
      <4>2. /\ recorder \in {"over", "raised", "given up"} /\ recorder' = "dead"
            /\ UNCHANGED <<happened, deltas, events, calls, following>>
            /\ (failures' = failures + 1 \/ failures' = failures)
        BY <2>5 DEF Finish, MayFail, Works
      <4>3. \/ execution' = execution
            \/ execution.status = "running" /\ execution' = [execution EXCEPT !.status = verdict]
        BY <2>5 DEF Finish
      <4> HIDE DEF verdict
      <4>4. failures' \in Nat
        <5>1. failures \in Nat /\ (failures' = failures + 1 \/ failures' = failures)
          BY <2>1, <4>2
        <5>2. QED
          BY <5>1
      <4>5. \/ execution' = execution
            \/ /\ execution.status = "running"
               /\ \E v \in {"succeeded", "failed"} : execution' = [execution EXCEPT !.status = v]
        BY <4>1, <4>3, Zenon
      <4>6. QED
        BY <4>2, <4>4, <4>5
    <3>2. CASE execution' = execution
      BY <2>1, <3>1, <3>2
    <3>3. CASE /\ execution.status = "running"
               /\ \E v \in {"succeeded", "failed"} : execution' = [execution EXCEPT !.status = v]
      <4>1. PICK v \in {"succeeded", "failed"} : execution' = [execution EXCEPT !.status = v]
        BY <3>3
      <4>2. /\ execution' \in [status : {"none", "running", "failed", "max_steps", "succeeded"}, steps : Nat, tokens : Nat]
            /\ execution'.tokens = execution.tokens /\ execution'.steps = execution.steps /\ execution'.status = v
        BY <2>1, <4>1
      <4>3. QED
        BY <2>1, <3>1, <3>3, <4>2
    <3>4. QED
      BY <3>1, <3>2, <3>3
  <2>6. QED
    BY <2>2, <2>3, <2>4, <2>5
<1>3. LedgerTypeOK'
  BY <1>1, <1>2 DEF LedgerTypeOK
<1>4. ~ OnItsWay'
  BY <1>2 DEF OnItsWay
<1>5. NumberedInOrder'
  <2>1. \A i \in 1 .. Len(events) : events[i].seq + 1 <= Len(happened) - 0 /\ events[i].event = happened[events[i].seq + 1]
    <3>1. Counts(events) /\ Len(happened) \in Nat /\ \A i \in 1 .. Len(events) : events[i].seq \in Nat
      BY <1>1, LedgerElements DEF NumberedInOrder
    <3>2. QED
      BY <3>1 DEF Counts
  <2>2. \A i \in 1 .. Len(deltas) : deltas[i].seq + 1 <= Len(happened) - 0 /\ deltas[i].event = happened[deltas[i].seq + 1]
    <3>1. Counts(deltas) /\ Len(happened) \in Nat /\ \A i \in 1 .. Len(deltas) : deltas[i].seq \in Nat
      BY <1>1, LedgerElements DEF NumberedInOrder
    <3>2. QED
      BY <3>1 DEF Counts
  <2>3. Counts(events)' /\ Counts(deltas)'
    BY <1>2, <1>4, <2>1, <2>2 DEF Counts
  <2>4. Rising(events)' /\ Rising(deltas)'
    BY <1>1, <1>2 DEF NumberedInOrder, Rising
  <2>5. QED
    BY <1>1, <1>2, <1>4, <2>3, <2>4 DEF NumberedInOrder
<1>6. Totalled'
  <2>1. \A i \in 1 .. Len(events) : Steps(events[i])' = Steps(events[i])
    BY <1>2 DEF Steps
  <2>2. QED
    BY <1>1, <1>2, <2>1, TotalsKept
<1>7. Judged'
  <2>1. Counted' = Counted /\ Terminals' = Terminals
    BY <1>2 DEF Counted, Terminals
  <2>2. execution.status = "running" => Terminals = {}
    BY <1>1 DEF Judged
  <2>3. CASE execution.status = "running"
    BY <1>1, <1>2, <2>1, <2>2, <2>3 DEF Judged
  <2>4. CASE execution.status # "running"
    BY <1>1, <1>2, <2>1, <2>4 DEF Judged
  <2>5. QED
    BY <2>3, <2>4
<1>8. NoneMissing'
  <2>1. CASE recorder' # "flush"
    BY <1>2, <2>1 DEF NoneMissing
  <2>2. CASE recorder' = "flush"
    <3>1. ~ OnItsWay /\ recorder = "idle" /\ failures' = failures /\ execution' = execution
      BY <1>2, <2>2 DEF OnItsWay
    <3>2. failures' = 0 => execution.status # "none" /\ Len(events) + Len(deltas) + 0 = Len(happened)
      BY <1>1, <3>1 DEF NoneMissing
    <3>3. QED
      BY <1>2, <1>4, <2>2, <3>1, <3>2 DEF NoneMissing
  <2>3. QED
    BY <2>1, <2>2
<1>9. QED
  BY <1>3, <1>5, <1>6, <1>7, <1>8 DEF LedgerInv

LEMMA LedgerStep == ASSUME LedgerInv, [LedgerNext]_ledgerVars PROVE LedgerInv'
<1>1. CASE LedgerNext
  BY <1>1, StartStep, HappenStep, FlushStep, RecordStep, EndStep DEF LedgerNext
<1>2. CASE UNCHANGED ledgerVars
  <2> USE <1>2 DEF ledgerVars
  <2>1. LedgerTypeOK' <=> LedgerTypeOK
    BY DEF LedgerTypeOK
  <2>2. OnItsWay' <=> OnItsWay
    BY DEF OnItsWay
  <2>3. NumberedInOrder' <=> NumberedInOrder
    BY DEF NumberedInOrder, Counts, Rising, OnItsWay
  <2>4. Terminals' = Terminals /\ Counted' = Counted
    BY DEF Terminals, Counted
  <2>5. LedgerInv => Totalled'
    <3>1. \A i \in 1 .. Len(events) : Steps(events[i])' = Steps(events[i])
      BY DEF Steps
    <3>2. QED
      BY <3>1, TotalsKept DEF LedgerInv
  <2>6. Judged' <=> Judged
    BY <2>4 DEF Judged
  <2>7. NoneMissing' <=> NoneMissing
    BY DEF NoneMissing, OnItsWay
  <2>8. QED
    BY <2>1, <2>3, <2>5, <2>6, <2>7 DEF LedgerInv
<1>3. QED
  BY <1>1, <1>2

LEMMA LedgerInvariant == LedgerSpec => []LedgerInv
<1>1. LedgerInit => LedgerInv
  BY LedgerInitInv
<1>2. LedgerInv /\ [LedgerNext]_ledgerVars => LedgerInv'
  BY LedgerStep
<1>3. QED
  BY <1>1, <1>2, PTL DEF LedgerSpec

\* What the ledger says of an execution is what happened, whatever happens,
\* whichever writes fail and wherever the process ends: its events are those of
\* the stream, in their order, and the totals and the verdict follow from them.
THEOREM LedgerTellsTheTruth == LedgerSpec => []LedgerTrue
<1>1. LedgerInv => LedgerTrue
  <2> SUFFICES ASSUME LedgerInv PROVE LedgerTrue
    OBVIOUS
  <2>1. LedgerTypeOK /\ NumberedInOrder /\ Totalled /\ Judged /\ NoneMissing
    BY DEF LedgerInv
  <2>2. \A i \in 1 .. Len(events) : events[i].event = happened[events[i].seq + 1]
    BY <2>1 DEF NumberedInOrder, Counts
  <2>3. \A i \in 2 .. Len(events) : events[i - 1].seq < events[i].seq
    <3>1. Rising(events) /\ Len(events) \in Nat
      BY <2>1, LedgerElements DEF NumberedInOrder
    <3>2. \A i \in 2 .. Len(events) : i - 1 \in 1 .. Len(events) /\ i \in 1 .. Len(events) /\ i - 1 < i
      BY <3>1
    <3>3. QED
      BY <3>1, <3>2 DEF Rising
  <2>4. failures = 0 /\ recorder \in {"over", "raised"} => Len(events) = Len(happened)
    <3>1. Len(events) \in Nat /\ Len(happened) \in Nat
      BY <2>1, LedgerElements
    <3>2. ASSUME failures = 0, recorder \in {"over", "raised"}
          PROVE  Len(events) + Len(deltas) + 0 = Len(happened) /\ Len(deltas) = 0
      <4>1. ~ OnItsWay
        BY <3>2 DEF OnItsWay
      <4>2. deltas = <<>> /\ Len(events) + Len(deltas) + 0 = Len(happened)
        BY <2>1, <3>2, <4>1 DEF NoneMissing
      <4>3. QED
        BY <4>2
    <3>3. QED
      BY <3>1, <3>2
  <2>5. QED
    BY <2>1, <2>2, <2>3, <2>4, Zenon DEF LedgerTrue, Totalled, Judged
<1>2. QED
  BY <1>1, LedgerInvariant, PTL
-------------------------------------------------------------------------------
(* PluginLifecycle, for any plug-ins, whatever they need and register.       *)

\* The types of a start.
PluginTypeOK ==
  /\ manifest \in Manifests
  /\ phase \in {"new", "load", "register", "rollback", "loaded", "serving", "failed", "stopping", "down"}
  /\ plugin \in Plugins \cup {NoPlugin} /\ at \in Nat /\ loaded \in Seq(Plugins) /\ remaining \in Nat
  /\ resources \in Seq([plugin : Plugins \cup {NoPlugin}, call : Nat])
  /\ jobs \subseteq Plugins
  /\ recorded \subseteq Cleanups
  /\ released \in [Cleanups -> Nat]

\* Plug-ins come after what they need; a rollback has them in the reverse order.
InTheirOrder ==
  /\ \A k, m \in 1 .. Len(loaded) : loaded[k] = loaded[m] => k = m
  /\ \A k, m \in 1 .. Len(loaded) : loaded[k] \in manifest[loaded[m]].needs => k < m
  /\ \A k \in 1 .. Len(loaded) : manifest[loaded[k]].needs \subseteq ToSet(loaded)
  /\ phase \in {"register", "rollback"} => plugin \in Plugins /\ at <= Len(CallsOf(plugin))
  /\ phase = "new" => recorded = {} /\ loaded = <<>>
  /\ phase \in {"new", "load"} => plugin = NoPlugin
  /\ phase = "register" => plugin \notin ToSet(loaded) /\ manifest[plugin].needs \subseteq ToSet(loaded)
  /\ phase = "rollback" =>
       /\ remaining <= Len(loaded)
       /\ \/ remaining = Len(loaded) /\ plugin \notin ToSet(loaded) /\ manifest[plugin].needs \subseteq ToSet(loaded)
          \/ remaining < Len(loaded) /\ plugin = loaded[remaining + 1]

\* What was registered, and what of it a rollback has not come to.
Entered(c) == c[1] \in ToSet(loaded) \/ (c[1] = plugin /\ c[2] <= at)
Remains(c) == (\E k \in 1 .. remaining : c[1] = loaded[k]) \/ (c[1] = plugin /\ c[2] <= at)
Recorded ==
  /\ phase \in {"load", "register"} => \A c \in Cleanups : c \in recorded <=> Entered(c)
  /\ phase = "rollback" => \A c \in Cleanups : Entered(c) => c \in recorded
  /\ phase = "rollback" => \A c \in recorded : released[c] = 0 <=> Remains(c)

\* What was registered is a resource until it is released, once.
Kept ==
  /\ \A c \in Cleanups : released[c] \in {0, 1}
  /\ \A c \in Cleanups : c \notin recorded => released[c] = 0
  /\ \A c \in recorded : released[c] = 0 => \E a \in 1 .. Len(resources) : resources[a] = Call(c[1], c[2])
  /\ \A a \in 1 .. Len(resources) : resources[a].call # 0 =>
       /\ <<resources[a].plugin, resources[a].call>> \in recorded
       /\ released[<<resources[a].plugin, resources[a].call>>] = 0
  /\ \A a, b \in 1 .. Len(resources) : resources[a] = resources[b] /\ resources[a].call # 0 => a = b

\* A resource comes after those of the plug-ins its own needs.
ResourcesInOrder ==
  \A a, b \in 1 .. Len(resources) :
    a < b /\ resources[a].call # 0 /\ resources[b].call # 0 =>
      resources[b].plugin \notin manifest[resources[a].plugin].needs
NeedsAfter ==
  \A c, d \in recorded : released[c] = 1 /\ c[1] \in manifest[d[1]].needs => released[d] = 1

\* The host's own resources are the first, hence released last, when nothing is under way.
CoreLast ==
  /\ resources # <<>> => resources[1] = Core
  /\ phase \notin {"stopping", "down"} => resources # <<>>
  /\ resources = <<>> => handlers = {} /\ jobs = {}
  /\ phase = "down" => resources = <<>>
\* No cleanup is called but by a rollback or a shutdown, and then no job is under way.
JobsFirst ==
  /\ jobs # {} => phase \in {"serving", "stopping"} /\ \A c \in Cleanups : released[c] = 0
  /\ phase \in {"new", "load", "register", "loaded", "serving"} => \A c \in Cleanups : released[c] = 0

PluginInv ==
  PluginTypeOK /\ InTheirOrder /\ Recorded /\ Kept /\ ResourcesInOrder /\ NeedsAfter /\ CoreLast /\ JobsFirst

\* What the types say of cleanups, and of the sequences.
LEMMA CleanupShape ==
  ASSUME PluginTypeOK
  PROVE  /\ \A p \in Plugins : p \in Nat /\ p # NoPlugin /\ CallsOf(p) \in Seq(STRING) /\ Len(CallsOf(p)) \in Nat
         /\ \A c \in Cleanups : /\ c[1] \in Plugins /\ c[2] \in 1 .. Len(CallsOf(c[1])) /\ c = <<c[1], c[2]>>
                                /\ c[2] \in Nat /\ c[2] > 0
         /\ \A p \in Plugins, i \in Nat :
              i \in 1 .. Len(CallsOf(p)) /\ CallsOf(p)[i] = "cleanup" <=> <<p, i>> \in Cleanups
<1>1. ASSUME NEW p \in Plugins
      PROVE  p \in Nat /\ p # NoPlugin /\ CallsOf(p) \in Seq(STRING) /\ Len(CallsOf(p)) \in Nat
             /\ DOMAIN CallsOf(p) = 1 .. Len(CallsOf(p))
  <2>1. manifest \in Manifests /\ p \in DOMAIN manifest
    BY DEF PluginTypeOK, Plugins
  <2>2. p \in Nat /\ p # NoPlugin /\ CallsOf(p) \in Seq(STRING)
    BY <2>1, ManifestAssumption DEF CallsOf
  <2>3. QED
    BY <2>2, LenProperties
<1>2. \A c \in Cleanups : \E p \in Plugins : \E i \in DOMAIN CallsOf(p) : CallsOf(p)[i] = "cleanup" /\ c = <<p, i>>
  BY DEF Cleanups
<1>3. \A p \in Plugins : \A i \in DOMAIN CallsOf(p) : CallsOf(p)[i] = "cleanup" => <<p, i>> \in Cleanups
  BY DEF Cleanups
<1>4. ASSUME NEW c \in Cleanups
      PROVE  /\ c[1] \in Plugins /\ c[2] \in 1 .. Len(CallsOf(c[1])) /\ c = <<c[1], c[2]>>
             /\ c[2] \in Nat /\ c[2] > 0
  <2>1. PICK p \in Plugins : \E i \in DOMAIN CallsOf(p) : CallsOf(p)[i] = "cleanup" /\ c = <<p, i>>
    BY <1>2
  <2>2. PICK i \in DOMAIN CallsOf(p) : CallsOf(p)[i] = "cleanup" /\ c = <<p, i>>
    BY <2>1
  <2>3. c[1] = p /\ c[2] = i /\ i \in 1 .. Len(CallsOf(p)) /\ Len(CallsOf(p)) \in Nat
    BY <1>1, <2>2
  <2>4. QED
    BY <2>2, <2>3
<1>5. ASSUME NEW p \in Plugins, NEW i \in Nat
      PROVE  i \in 1 .. Len(CallsOf(p)) /\ CallsOf(p)[i] = "cleanup" <=> <<p, i>> \in Cleanups
  <2>1. ASSUME i \in 1 .. Len(CallsOf(p)), CallsOf(p)[i] = "cleanup" PROVE <<p, i>> \in Cleanups
    BY <1>1, <1>3, <2>1
  <2>2. ASSUME <<p, i>> \in Cleanups PROVE i \in 1 .. Len(CallsOf(p)) /\ CallsOf(p)[i] = "cleanup"
    <3>1. PICK q \in Plugins : \E j \in DOMAIN CallsOf(q) : CallsOf(q)[j] = "cleanup" /\ <<p, i>> = <<q, j>>
      BY <1>2, <2>2
    <3>2. PICK j \in DOMAIN CallsOf(q) : CallsOf(q)[j] = "cleanup" /\ <<p, i>> = <<q, j>>
      BY <3>1
    <3>3. p = q /\ i = j
      BY <3>2
    <3>4. QED
      BY <1>1, <3>2, <3>3
  <2>3. QED
    BY <2>1, <2>2
<1>6. QED
  BY <1>1, <1>4, <1>5

LEMMA LoadedShape ==
  ASSUME PluginTypeOK
  PROVE  /\ Len(loaded) \in Nat /\ \A k \in 1 .. Len(loaded) : loaded[k] \in Plugins
         /\ ToSet(loaded) = {loaded[k] : k \in 1 .. Len(loaded)}
         /\ Len(resources) \in Nat
         /\ \A a \in 1 .. Len(resources) : resources[a] \in [plugin : Plugins \cup {NoPlugin}, call : Nat]
<1>1. loaded \in Seq(Plugins) /\ resources \in Seq([plugin : Plugins \cup {NoPlugin}, call : Nat])
  BY DEF PluginTypeOK
<1>2. DOMAIN loaded = 1 .. Len(loaded)
  BY <1>1, LenProperties
<1>3. ToSet(loaded) = {loaded[k] : k \in 1 .. Len(loaded)}
  BY <1>2 DEF ToSet
<1>4. Len(loaded) \in Nat /\ \A k \in 1 .. Len(loaded) : loaded[k] \in Plugins
  BY <1>1, OfSequence
<1>5. Len(resources) \in Nat /\ \A a \in 1 .. Len(resources) : resources[a] \in [plugin : Plugins \cup {NoPlugin}, call : Nat]
  BY <1>1, OfSequence
<1>6. QED
  BY <1>3, <1>4, <1>5

LEMMA SameManifest ==
  ASSUME manifest' = manifest
  PROVE  Plugins' = Plugins /\ Cleanups' = Cleanups /\ \A p : CallsOf(p)' = CallsOf(p)
BY DEF Plugins, Cleanups, CallsOf

LEMMA PluginInitInv == ASSUME PluginInit PROVE PluginInv
<1>1. /\ manifest \in Manifests /\ phase = "new" /\ plugin = NoPlugin /\ at = 0 /\ loaded = <<>> /\ remaining = 0
      /\ resources = <<Core>> /\ handlers = {} /\ jobs = {} /\ released = [c \in Cleanups |-> 0] /\ recorded = {}
  BY DEF PluginInit
<1>2. Len(resources) = 1 /\ 1 .. Len(resources) = {1} /\ resources[1] = Core /\ Core.call = 0 /\ resources # <<>>
      /\ 1 .. Len(loaded) = {} /\ Core \in [plugin : Plugins \cup {NoPlugin}, call : Nat]
  BY <1>1 DEF Core, Handlers
<1>3. PluginTypeOK
  <2>1. resources \in Seq([plugin : Plugins \cup {NoPlugin}, call : Nat])
    BY <1>1, <1>2
  <2>2. released \in [Cleanups -> Nat]
    BY <1>1
  <2>3. QED
    BY <1>1, <2>1, <2>2 DEF PluginTypeOK
<1>4. \A c \in Cleanups : released[c] = 0
  BY <1>1
<1>5. InTheirOrder
  BY <1>1, <1>2 DEF InTheirOrder
<1>6. Recorded
  BY <1>1 DEF Recorded
<1>7. Kept
  BY <1>1, <1>2, <1>4 DEF Kept
<1>8. ResourcesInOrder /\ NeedsAfter
  BY <1>1, <1>2 DEF ResourcesInOrder, NeedsAfter
<1>9. CoreLast
  BY <1>1, <1>2 DEF CoreLast
<1>10. JobsFirst
  BY <1>1, <1>4 DEF JobsFirst
<1>11. QED
  BY <1>3, <1>5, <1>6, <1>7, <1>8, <1>9, <1>10 DEF PluginInv

\* A sequence without one of its elements.
Around(i, k) == IF k < i THEN k ELSE k + 1
LEMMA TakenOut ==
  ASSUME NEW S, NEW sq \in Seq(S), NEW i \in 1 .. Len(sq)
  PROVE  \A rest : rest = SubSeq(sq, 1, i - 1) \o SubSeq(sq, i + 1, Len(sq)) =>
           /\ rest \in Seq(S) /\ Len(rest) = Len(sq) - 1 /\ Len(sq) \in Nat
           /\ \A k \in 1 .. Len(rest) : rest[k] = sq[Around(i, k)]
<1>1. Len(sq) \in Nat /\ i \in Nat /\ 1 <= i /\ i <= Len(sq)
  BY OfSequence
<1>2. PICK head : head = SubSeq(sq, 1, i - 1)
  OBVIOUS
<1>3. PICK tail : tail = SubSeq(sq, i + 1, Len(sq))
  OBVIOUS
<1>4. \A k \in 1 .. Len(sq) : sq[k] \in S
  BY OfSequence
<1>5. head \in Seq(S) /\ Len(head) = i - 1 /\ \A k \in 1 .. i - 1 : head[k] = sq[k]
  <2>1. \A k \in 1 .. i - 1 : sq[k] \in S
    BY <1>1, <1>4
  <2>2. /\ head \in Seq(S) /\ Len(head) = IF 1 <= i - 1 THEN (i - 1) - 1 + 1 ELSE 0
        /\ \A k \in 1 .. (i - 1) - 1 + 1 : head[k] = sq[1 + k - 1]
    BY <1>1, <1>2, <2>1, SubSeqProperties
  <2>3. Len(head) = i - 1 /\ (i - 1) - 1 + 1 = i - 1
    BY <1>1, <2>2
  <2>4. \A k \in 1 .. i - 1 : 1 + k - 1 = k
    BY <1>1
  <2>5. QED
    BY <2>2, <2>3, <2>4
<1>6. tail \in Seq(S) /\ Len(tail) = Len(sq) - i /\ \A k \in 1 .. Len(sq) - i : tail[k] = sq[i + k]
  <2>1. \A k \in i + 1 .. Len(sq) : sq[k] \in S
    BY <1>1, <1>4
  <2>2. /\ tail \in Seq(S) /\ Len(tail) = IF i + 1 <= Len(sq) THEN Len(sq) - (i + 1) + 1 ELSE 0
        /\ \A k \in 1 .. Len(sq) - (i + 1) + 1 : tail[k] = sq[(i + 1) + k - 1]
    BY <1>1, <1>3, <2>1, SubSeqProperties
  <2>3. Len(tail) = Len(sq) - i /\ Len(sq) - (i + 1) + 1 = Len(sq) - i
    BY <1>1, <2>2
  <2>4. \A k \in 1 .. Len(sq) - i : (i + 1) + k - 1 = i + k
    BY <1>1
  <2>5. QED
    BY <2>2, <2>3, <2>4
<1>7. PICK joined : joined = head \o tail
  OBVIOUS
<1>8. /\ joined \in Seq(S) /\ Len(joined) = Len(head) + Len(tail)
      /\ \A k \in 1 .. Len(head) + Len(tail) : joined[k] = IF k <= Len(head) THEN head[k] ELSE tail[k - Len(head)]
  <2>1. head \in Seq(S) /\ tail \in Seq(S)
    BY <1>5, <1>6
  <2>2. QED
    BY <1>7, <2>1, ConcatProperties
<1>9. Len(joined) = Len(sq) - 1
  BY <1>1, <1>5, <1>6, <1>8
<1>10. ASSUME NEW k \in 1 .. Len(joined) PROVE joined[k] = sq[IF k < i THEN k ELSE k + 1]
  <2>1. joined[k] = IF k <= i - 1 THEN head[k] ELSE tail[k - (i - 1)]
    BY <1>5, <1>6, <1>8
  <2>2. CASE k < i
    <3>1. k \in 1 .. i - 1
      BY <1>1, <1>9, <2>2
    <3>2. QED
      BY <1>1, <1>5, <2>1, <2>2, <3>1
  <2>3. CASE ~(k < i)
    <3>1. k - (i - 1) \in 1 .. Len(sq) - i /\ i + (k - (i - 1)) = k + 1 /\ ~(k <= i - 1)
      BY <1>1, <1>9, <2>3
    <3>2. tail[k - (i - 1)] = sq[k + 1]
      BY <1>6, <3>1
    <3>3. QED
      BY <2>1, <2>3, <3>1, <3>2
  <2>4. QED
    BY <2>2, <2>3
<1>11. joined = SubSeq(sq, 1, i - 1) \o SubSeq(sq, i + 1, Len(sq))
  BY <1>2, <1>3, <1>7, Zenon
<1>12. QED
  BY <1>1, <1>8, <1>9, <1>10, <1>11, Zenon DEF Around

LEMMA PluginTypes ==
  ASSUME PluginTypeOK, InTheirOrder, PluginNext
  PROVE  PluginTypeOK' /\ manifest' = manifest
<1>1. manifest' = manifest
  BY DEF PluginNext, Validate, EnterPlugin, AllLoaded, RegisterCall, RegisterRaises, CommitPlugin, Undo, UndoBefore,
         RolledBack, Serve, JobBegins, JobEnds, Shutdown, Release, Down
<1>2. Plugins' = Plugins /\ Cleanups' = Cleanups
  BY <1>1, SameManifest
<1>3. /\ manifest \in Manifests
      /\ phase \in {"new", "load", "register", "rollback", "loaded", "serving", "failed", "stopping", "down"}
      /\ plugin \in Plugins \cup {NoPlugin} /\ at \in Nat /\ loaded \in Seq(Plugins) /\ remaining \in Nat
      /\ resources \in Seq([plugin : Plugins \cup {NoPlugin}, call : Nat])
      /\ jobs \subseteq Plugins /\ recorded \subseteq Cleanups /\ released \in [Cleanups -> Nat]
  BY DEF PluginTypeOK
<1>4. phase' \in {"new", "load", "register", "rollback", "loaded", "serving", "failed", "stopping", "down"}
  BY <1>3 DEF PluginNext, Validate, EnterPlugin, AllLoaded, RegisterCall, RegisterRaises, CommitPlugin, Undo, UndoBefore,
         RolledBack, Serve, JobBegins, JobEnds, Shutdown, Release, Down
<1>5. plugin' \in Plugins \cup {NoPlugin} /\ at' \in Nat /\ remaining' \in Nat
  <2>1. CASE UndoBefore
    <3>1. phase = "rollback" /\ remaining > 0 /\ plugin' = loaded[remaining] /\ at' = Len(CallsOf(loaded[remaining]))
          /\ remaining' = remaining - 1
      BY <2>1 DEF UndoBefore
    <3>2. remaining <= Len(loaded)
      BY <3>1 DEF InTheirOrder
    <3>3. loaded[remaining] \in Plugins
      BY <1>3, <3>1, <3>2, LoadedShape
    <3>4. Len(CallsOf(loaded[remaining])) \in Nat
      BY <3>3, CleanupShape
    <3>5. QED
      BY <1>3, <3>1, <3>3, <3>4
  <2>2. CASE RegisterRaises
    BY <1>3, <2>2, LoadedShape DEF RegisterRaises
  <2>3. CASE Undo \/ RegisterCall
    BY <1>3, <2>3 DEF Undo, RegisterCall
  <2>4. CASE ~UndoBefore /\ ~RegisterRaises /\ ~Undo /\ ~RegisterCall
    BY <1>3, <2>4 DEF PluginNext, Validate, EnterPlugin, AllLoaded, CommitPlugin,
         RolledBack, Serve, JobBegins, JobEnds, Shutdown, Release, Down
  <2>5. QED
    BY <2>1, <2>2, <2>3, <2>4
<1>6. loaded' \in Seq(Plugins)
  <2>1. CASE CommitPlugin
    <3>1. plugin \in Plugins /\ loaded' = Append(loaded, plugin)
      BY <2>1 DEF CommitPlugin, InTheirOrder
    <3>2. QED
      BY <1>3, <3>1, OfAppend
  <2>2. CASE RolledBack
    BY <2>2 DEF RolledBack
  <2>3. CASE ~CommitPlugin /\ ~RolledBack
    <3>1. loaded' = loaded
      BY <2>3 DEF PluginNext, Validate, EnterPlugin, AllLoaded, RegisterCall, RegisterRaises, Undo, UndoBefore,
           Serve, JobBegins, JobEnds, Shutdown, Release, Down
    <3>2. QED
      BY <1>3, <3>1
  <2>4. QED
    BY <2>1, <2>2, <2>3
<1>7. resources' \in Seq([plugin : Plugins \cup {NoPlugin}, call : Nat])
  <2> DEFINE Resource == [plugin : Plugins \cup {NoPlugin}, call : Nat]
  <2>1. CASE CommitPlugin
    <3>1. Handlers(plugin) \in Resource /\ resources' = Append(resources, Handlers(plugin))
      BY <1>3, <2>1 DEF CommitPlugin, Handlers
    <3> HIDE DEF Resource
    <3>2. resources' \in Seq(Resource)
      BY <1>3, <3>1, OfAppend DEF Resource
    <3>3. QED
      BY <3>2 DEF Resource
  <2>2. CASE RegisterCall
    <3>1. Call(plugin, at + 1) \in Resource
      BY <1>3 DEF Call
    <3>2. resources' = Append(resources, Call(plugin, at + 1)) \/ resources' = resources
      BY <2>2 DEF RegisterCall
    <3> HIDE DEF Resource
    <3>3. resources' \in Seq(Resource)
      BY <1>3, <3>1, <3>2, OfAppend, ZenonT(60) DEF Resource
    <3>4. QED
      BY <3>3 DEF Resource
  <2>3. CASE Undo
    <3>1. CASE resources' = resources
      BY <1>3, <3>1
    <3>2. CASE ~(resources' = resources)
      <4>1. PICK i \in DOMAIN resources : resources' = RemoveAt(resources, i)
        BY <2>3, <3>2 DEF Undo
      <4>2. i \in 1 .. Len(resources)
        BY <1>3, LenProperties
      <4>3. resources' = SubSeq(resources, 1, i - 1) \o SubSeq(resources, i + 1, Len(resources))
        BY <4>1 DEF RemoveAt
      <4>4. QED
        BY <1>3, <4>2, <4>3, TakenOut
    <3>3. QED
      BY <3>1, <3>2
  <2>4. CASE Release
    <3>1. resources' = SubSeq(resources, 1, Len(resources) - 1)
      BY <2>4 DEF Release, Front
    <3>2. resources \in Seq(Resource)
      BY <1>3
    <3> HIDE DEF Resource
    <3>3. Len(resources) \in Nat /\ \A m \in 1 .. Len(resources) : resources[m] \in Resource
      BY <3>2, OfSequence
    <3>4. \A m \in 1 .. Len(resources) - 1 : resources[m] \in Resource
      BY <3>3
    <3>5. resources' \in Seq(Resource)
      BY <3>1, <3>3, <3>4, SubSeqProperties
    <3>6. QED
      BY <3>5 DEF Resource
  <2>5. CASE ~CommitPlugin /\ ~RegisterCall /\ ~Undo /\ ~Release
    BY <1>3, <2>5 DEF PluginNext, Validate, EnterPlugin, AllLoaded, RegisterRaises, UndoBefore,
         RolledBack, Serve, JobBegins, JobEnds, Shutdown, Down
  <2>6. QED
    BY <2>1, <2>2, <2>3, <2>4, <2>5
<1>8. jobs' \subseteq Plugins
  BY <1>3 DEF PluginNext, Validate, EnterPlugin, AllLoaded, RegisterCall, RegisterRaises, CommitPlugin, Undo, UndoBefore,
         RolledBack, Serve, JobBegins, JobEnds, Shutdown, Release, Down
<1>9. recorded' \subseteq Cleanups
  <2>1. CASE RegisterCall
    <3>1. CASE recorded' = recorded
      BY <1>3, <3>1
    <3>2. CASE ~(recorded' = recorded)
      <4>1. /\ CallsOf(plugin)[at + 1] = "cleanup" /\ recorded' = recorded \cup {<<plugin, at + 1>>}
            /\ phase = "register" /\ at < Len(CallsOf(plugin))
        BY <2>1, <3>2 DEF RegisterCall
      <4>2. plugin \in Plugins /\ at + 1 \in Nat /\ at + 1 \in 1 .. Len(CallsOf(plugin))
        <5>1. plugin \in Plugins
          BY <4>1 DEF InTheirOrder
        <5>2. QED
          BY <1>3, <4>1, <5>1, CleanupShape
      <4>3. <<plugin, at + 1>> \in Cleanups
        BY <4>1, <4>2, CleanupShape
      <4>4. QED
        BY <1>3, <4>1, <4>3
    <3>3. QED
      BY <3>1, <3>2
  <2>2. CASE ~RegisterCall
    BY <1>3, <2>2 DEF PluginNext, Validate, EnterPlugin, AllLoaded, RegisterRaises, CommitPlugin, Undo, UndoBefore,
         RolledBack, Serve, JobBegins, JobEnds, Shutdown, Release, Down
  <2>3. QED
    BY <2>1, <2>2
<1>10. released' \in [Cleanups -> Nat]
  <2>1. ASSUME NEW c, released' = [released EXCEPT ![c] = @ + 1] PROVE released' \in [Cleanups -> Nat]
    <3>1. CASE c \in Cleanups
      <4>1. released[c] + 1 \in Nat
        BY <1>3, <3>1
      <4>2. QED
        BY <1>3, <2>1, <4>1
    <3>2. CASE c \notin Cleanups
      BY <1>3, <2>1, <3>2
    <3>3. QED
      BY <3>1, <3>2
  <2>2. CASE Undo
    BY <1>3, <2>1, <2>2 DEF Undo
  <2>3. CASE Release
    BY <1>3, <2>1, <2>3 DEF Release, Gives
  <2>4. CASE ~Undo /\ ~Release
    BY <1>3, <2>4 DEF PluginNext, Validate, EnterPlugin, AllLoaded, RegisterCall, RegisterRaises, CommitPlugin, UndoBefore,
         RolledBack, Serve, JobBegins, JobEnds, Shutdown, Down
  <2>5. QED
    BY <2>2, <2>3, <2>4
<1>11. QED
  BY <1>1, <1>2, <1>3, <1>4, <1>5, <1>6, <1>7, <1>8, <1>9, <1>10 DEF PluginTypeOK

\* Of what was registered: nothing changes, a resource is added, or one given back.
Custody == Kept /\ ResourcesInOrder /\ NeedsAfter
LEMMA GivenAsBefore ==
  ASSUME PluginTypeOK, Custody, manifest' = manifest,
         resources' = resources, recorded' = recorded, released' = released
  PROVE  Custody'
<1>1. Cleanups' = Cleanups
  BY SameManifest
<1>2. Kept'
  BY <1>1 DEF Custody, Kept, Call
<1>3. ResourcesInOrder' /\ NeedsAfter'
  BY DEF Custody, ResourcesInOrder, NeedsAfter
<1>4. QED
  BY <1>2, <1>3 DEF Custody

LEMMA GivenHandlers ==
  ASSUME PluginTypeOK, Custody, manifest' = manifest, NEW p \in Plugins,
         resources' = Append(resources, Handlers(p)), recorded' = recorded, released' = released
  PROVE  Custody'
<1>1. Cleanups' = Cleanups
  BY SameManifest
<1>2. Handlers(p) \in [plugin : Plugins \cup {NoPlugin}, call : Nat] /\ Handlers(p).call = 0
  BY DEF Handlers
<1>3. resources \in Seq([plugin : Plugins \cup {NoPlugin}, call : Nat])
  BY DEF PluginTypeOK
<1>4. /\ Len(resources') = Len(resources) + 1 /\ Len(resources) \in Nat
      /\ resources'[Len(resources) + 1] = Handlers(p)
      /\ \A k \in 1 .. Len(resources) : resources'[k] = resources[k]
      /\ \A k \in 1 .. Len(resources') : k \in 1 .. Len(resources) \/ k = Len(resources) + 1
  BY <1>2, <1>3, OfAppend
<1>5. \A a \in 1 .. Len(resources') : resources'[a].call # 0 =>
        a \in 1 .. Len(resources) /\ resources'[a] = resources[a]
  BY <1>2, <1>4
<1>6. \A a \in 1 .. Len(resources) : a \in 1 .. Len(resources') /\ resources'[a] = resources[a]
  BY <1>4
<1>7. Kept'
  <2>1. /\ \A c \in Cleanups : released[c] \in {0, 1}
        /\ \A c \in Cleanups : c \notin recorded => released[c] = 0
    BY DEF Custody, Kept
  <2>2. \A c \in recorded : released[c] = 0 => \E a \in 1 .. Len(resources') : resources'[a] = Call(c[1], c[2])
    BY <1>6 DEF Custody, Kept
  <2>3. \A a \in 1 .. Len(resources') : resources'[a].call # 0 =>
          /\ <<resources'[a].plugin, resources'[a].call>> \in recorded
          /\ released[<<resources'[a].plugin, resources'[a].call>>] = 0
    BY <1>5 DEF Custody, Kept
  <2>4. \A a, b \in 1 .. Len(resources') : resources'[a] = resources'[b] /\ resources'[a].call # 0 => a = b
    BY <1>5 DEF Custody, Kept
  <2>5. QED
    BY <1>1, <2>1, <2>2, <2>3, <2>4 DEF Kept, Call
<1>8. ResourcesInOrder'
  BY <1>5 DEF Custody, ResourcesInOrder
<1>9. NeedsAfter'
  BY DEF Custody, NeedsAfter
<1>10. QED
  BY <1>7, <1>8, <1>9 DEF Custody

LEMMA GivenCleanup ==
  ASSUME PluginTypeOK, Custody, manifest' = manifest, NEW c \in Cleanups, c \notin recorded,
         \A d \in recorded : c[1] \notin manifest[d[1]].needs,
         \A d \in Cleanups : released[d] = 0,
         resources' = Append(resources, Call(c[1], c[2])), recorded' = recorded \cup {c}, released' = released
  PROVE  Custody'
<1>1. Cleanups' = Cleanups
  BY SameManifest
<1>2. c[1] \in Plugins /\ c[2] \in Nat /\ c[2] # 0 /\ c = <<c[1], c[2]>>
  BY CleanupShape
<1>3. PICK new : new = Call(c[1], c[2])
  OBVIOUS
<1>4. new \in [plugin : Plugins \cup {NoPlugin}, call : Nat] /\ new.plugin = c[1] /\ new.call = c[2]
  BY <1>2, <1>3 DEF Call
<1>5. resources \in Seq([plugin : Plugins \cup {NoPlugin}, call : Nat]) /\ recorded \subseteq Cleanups
  BY DEF PluginTypeOK
<1>6. resources' = Append(resources, new)
  BY <1>3
<1>7. /\ Len(resources') = Len(resources) + 1 /\ Len(resources) \in Nat
      /\ resources'[Len(resources) + 1] = new
      /\ \A k \in 1 .. Len(resources) : resources'[k] = resources[k]
      /\ \A k \in 1 .. Len(resources') : k \in 1 .. Len(resources) \/ k = Len(resources) + 1
  BY <1>4, <1>5, <1>6, OfAppend
<1>8. \A a \in 1 .. Len(resources) : a \in 1 .. Len(resources') /\ resources'[a] = resources[a]
  BY <1>7
<1>9. Len(resources) + 1 \in 1 .. Len(resources')
  BY <1>7
<1>10. \A a \in 1 .. Len(resources) : resources[a].call # 0 =>
         <<resources[a].plugin, resources[a].call>> \in recorded /\ resources[a] # new
  <2>1. \A a \in 1 .. Len(resources) : resources[a].call # 0 =>
          <<resources[a].plugin, resources[a].call>> \in recorded
    BY DEF Custody, Kept
  <2>2. \A a \in 1 .. Len(resources) : resources[a] = new => <<resources[a].plugin, resources[a].call>> = c
    BY <1>2, <1>4
  <2>3. QED
    BY <2>1, <2>2
<1>11. Kept'
  <2>1. /\ \A d \in Cleanups : released[d] \in {0, 1}
        /\ \A d \in Cleanups : d \notin recorded' => released[d] = 0
    BY DEF Custody, Kept
  <2>2. \A d \in recorded' : released[d] = 0 => \E a \in 1 .. Len(resources') : resources'[a] = Call(d[1], d[2])
    <3>1. ASSUME NEW d \in recorded, released[d] = 0
          PROVE  \E a \in 1 .. Len(resources') : resources'[a] = Call(d[1], d[2])
      BY <1>8, <3>1 DEF Custody, Kept
    <3>2. \E a \in 1 .. Len(resources') : resources'[a] = Call(c[1], c[2])
      BY <1>3, <1>7, <1>9
    <3>3. QED
      BY <3>1, <3>2
  <2>3. \A a \in 1 .. Len(resources') : resources'[a].call # 0 =>
          /\ <<resources'[a].plugin, resources'[a].call>> \in recorded'
          /\ released[<<resources'[a].plugin, resources'[a].call>>] = 0
    <3>1. ASSUME NEW a \in 1 .. Len(resources), resources'[a].call # 0
          PROVE  <<resources'[a].plugin, resources'[a].call>> \in recorded'
      BY <1>7, <1>10, <3>1
    <3>2. <<resources'[Len(resources) + 1].plugin, resources'[Len(resources) + 1].call>> = c
      BY <1>2, <1>4, <1>7
    <3>3. \A a \in 1 .. Len(resources') : resources'[a].call # 0 => <<resources'[a].plugin, resources'[a].call>> \in recorded'
      BY <1>7, <3>1, <3>2
    <3>4. recorded' \subseteq Cleanups
      BY <1>5
    <3>5. QED
      BY <3>3, <3>4
  <2>4. \A a, b \in 1 .. Len(resources') : resources'[a] = resources'[b] /\ resources'[a].call # 0 => a = b
    <3>1. \A a, b \in 1 .. Len(resources) : resources'[a] = resources'[b] /\ resources'[a].call # 0 => a = b
      BY <1>7 DEF Custody, Kept
    <3>2. \A a \in 1 .. Len(resources) : resources'[a].call # 0 => resources'[a] # new
      BY <1>7, <1>10
    <3>3. QED
      BY <1>7, <3>1, <3>2
  <2>5. QED
    BY <1>1, <2>1, <2>2, <2>3, <2>4 DEF Kept, Call
<1>12. ResourcesInOrder'
  <2>1. ASSUME NEW a \in 1 .. Len(resources'), NEW b \in 1 .. Len(resources'), a < b,
               resources'[a].call # 0, resources'[b].call # 0
        PROVE  resources'[b].plugin \notin manifest[resources'[a].plugin].needs
    <3>1. a \in 1 .. Len(resources)
      BY <1>7, <2>1
    <3>2. CASE b \in 1 .. Len(resources)
      BY <1>7, <2>1, <3>1, <3>2 DEF Custody, ResourcesInOrder
    <3>3. CASE b = Len(resources) + 1
      <4>1. PICK d \in recorded : d = <<resources[a].plugin, resources[a].call>>
        BY <1>7, <1>10, <2>1, <3>1
      <4>2. d[1] = resources'[a].plugin /\ resources'[b].plugin = c[1]
        BY <1>4, <1>7, <3>1, <3>3, <4>1
      <4>3. QED
        BY <4>1, <4>2
    <3>4. QED
      BY <1>7, <3>2, <3>3
  <2>2. QED
    BY <2>1 DEF ResourcesInOrder
<1>13. NeedsAfter'
  <2>1. \A d \in recorded' : released'[d] = 0
    BY <1>5
  <2>2. QED
    BY <2>1 DEF NeedsAfter
<1>14. QED
  BY <1>11, <1>12, <1>13 DEF Custody

\* A resource is given back, of a plug-in that nothing needs any more.
LEMMA GivenBack ==
  ASSUME PluginTypeOK, Custody, manifest' = manifest, NEW i \in 1 .. Len(resources),
         Len(resources') = Len(resources) - 1, Len(resources) \in Nat,
         \A k \in 1 .. Len(resources') : resources'[k] = resources[Around(i, k)],
         recorded' = recorded,
         NEW c, c = <<resources[i].plugin, resources[i].call>>,
         IF resources[i].call = 0 THEN released' = released
         ELSE /\ released' = [released EXCEPT ![c] = @ + 1]
              /\ \A d \in recorded : d # c /\ c[1] \in manifest[d[1]].needs => released[d] = 1
  PROVE  Custody'
<1>1. Cleanups' = Cleanups
  BY SameManifest
<1>0. \A k \in 1 .. Len(resources') : resources'[k] = resources[IF k < i THEN k ELSE k + 1]
  BY DEF Around
<1>2. i \in Nat /\ 1 <= i /\ i <= Len(resources)
  OBVIOUS
<1>3. resources \in Seq([plugin : Plugins \cup {NoPlugin}, call : Nat]) /\ recorded \subseteq Cleanups
      /\ released \in [Cleanups -> Nat]
  BY DEF PluginTypeOK
<1>4. \A k \in 1 .. Len(resources') : \E m \in 1 .. Len(resources) :
        m # i /\ resources'[k] = resources[m] /\ m = IF k < i THEN k ELSE k + 1
  <2>1. ASSUME NEW k \in 1 .. Len(resources')
        PROVE  LET m == IF k < i THEN k ELSE k + 1 IN m \in 1 .. Len(resources) /\ m # i
    BY <1>2
  <2>2. QED
    BY <1>0, <2>1
<1>5. \A m \in 1 .. Len(resources) : m # i => \E k \in 1 .. Len(resources') : resources'[k] = resources[m]
  <2>1. ASSUME NEW m \in 1 .. Len(resources), m < i
        PROVE  \E k \in 1 .. Len(resources') : resources'[k] = resources[m]
    <3>1. m \in 1 .. Len(resources')
      BY <1>2, <2>1
    <3>2. resources'[m] = resources[m]
      BY <1>0, <2>1, <3>1
    <3>3. QED
      BY <3>1, <3>2
  <2>2. ASSUME NEW m \in 1 .. Len(resources), m > i
        PROVE  \E k \in 1 .. Len(resources') : resources'[k] = resources[m]
    <3>1. m - 1 \in 1 .. Len(resources') /\ ~(m - 1 < i) /\ (m - 1) + 1 = m
      BY <1>2, <2>2
    <3>2. resources'[m - 1] = resources[m]
      BY <1>0, <3>1
    <3>3. QED
      BY <3>1, <3>2
  <2>3. \A m \in 1 .. Len(resources) : m # i => m < i \/ m > i
    BY <1>2
  <2>4. QED
    BY <2>1, <2>2, <2>3
<1>6. ASSUME NEW a \in 1 .. Len(resources'), NEW b \in 1 .. Len(resources'), a < b
      PROVE  \E m, o \in 1 .. Len(resources) : m < o /\ resources'[a] = resources[m] /\ resources'[b] = resources[o]
  <2>1. PICK m \in 1 .. Len(resources) : resources'[a] = resources[m] /\ m = IF a < i THEN a ELSE a + 1
    BY <1>4
  <2>2. PICK o \in 1 .. Len(resources) : resources'[b] = resources[o] /\ o = IF b < i THEN b ELSE b + 1
    BY <1>4
  <2>3. m < o
    BY <1>2, <1>6, <2>1, <2>2
  <2>4. QED
    BY <2>1, <2>2, <2>3
<1>7. /\ \A d \in Cleanups : released[d] \in {0, 1}
      /\ \A d \in Cleanups : d \notin recorded => released[d] = 0
      /\ \A d \in recorded : released[d] = 0 => \E m \in 1 .. Len(resources) : resources[m] = Call(d[1], d[2])
      /\ \A m \in 1 .. Len(resources) : resources[m].call # 0 =>
           /\ <<resources[m].plugin, resources[m].call>> \in recorded
           /\ released[<<resources[m].plugin, resources[m].call>>] = 0
      /\ \A m, o \in 1 .. Len(resources) : resources[m] = resources[o] /\ resources[m].call # 0 => m = o
  BY DEF Custody, Kept
\* What is given back is called once; of the others nothing changes.
<1>8. /\ \A d \in recorded : released'[d] = 0 => released[d] = 0 /\ resources[i] # Call(d[1], d[2])
      /\ \A m \in 1 .. Len(resources) : m # i /\ resources[m].call # 0 =>
           released'[<<resources[m].plugin, resources[m].call>>] = 0
      /\ \A d \in Cleanups : released'[d] \in {0, 1} /\ (d \notin recorded => released'[d] = 0)
      /\ \A e, d \in recorded : released'[e] = 1 /\ e[1] \in manifest[d[1]].needs => released'[d] = 1
  <2>1. CASE resources[i].call = 0
    <3>1. \A d \in recorded : resources[i] # Call(d[1], d[2])
      <4>1. \A d \in recorded : d[2] # 0 /\ Call(d[1], d[2]).call = d[2]
        BY <1>3, CleanupShape DEF Call
      <4>2. QED
        BY <2>1, <4>1
    <3>2. \A e, d \in recorded : released[e] = 1 /\ e[1] \in manifest[d[1]].needs => released[d] = 1
      BY DEF Custody, NeedsAfter
    <3>3. released' = released
      BY <2>1
    <3>4. QED
      BY <1>7, <3>1, <3>2, <3>3
  <2>2. CASE resources[i].call # 0
    <3>1. c \in recorded /\ c \in Cleanups /\ released[c] = 0
      BY <1>3, <1>7, <2>2
    <3>2. \A d \in Cleanups : released'[d] = IF d = c THEN 1 ELSE released[d]
      <4>1. released' = [released EXCEPT ![c] = @ + 1]
        BY <2>2
      <4>2. QED
        BY <1>3, <3>1, <4>1
    <3>3. \A d \in recorded : d # c => resources[i] # Call(d[1], d[2])
      <4>1. \A d \in recorded : d = <<d[1], d[2]>>
        BY <1>3, CleanupShape
      <4>2. \A d \in recorded : resources[i] = Call(d[1], d[2]) => c = <<d[1], d[2]>>
        BY DEF Call
      <4>3. QED
        BY <4>1, <4>2
    <3>4. \A m \in 1 .. Len(resources) : m # i /\ resources[m].call # 0 => <<resources[m].plugin, resources[m].call>> # c
      <4>1. \A m \in 1 .. Len(resources) : resources[m] \in [plugin : Plugins \cup {NoPlugin}, call : Nat]
        BY LoadedShape
      <4>2. \A m \in 1 .. Len(resources) : <<resources[m].plugin, resources[m].call>> = c =>
              resources[m].plugin = resources[i].plugin /\ resources[m].call = resources[i].call
        OBVIOUS
      <4>3. \A m \in 1 .. Len(resources) : <<resources[m].plugin, resources[m].call>> = c => resources[m] = resources[i]
        BY <4>1, <4>2
      <4>4. QED
        BY <1>7, <4>3
    <3>5. \A d \in recorded : released'[d] = 0 => released[d] = 0 /\ resources[i] # Call(d[1], d[2])
      BY <1>3, <3>2, <3>3
    <3>6. \A m \in 1 .. Len(resources) : m # i /\ resources[m].call # 0 =>
            released'[<<resources[m].plugin, resources[m].call>>] = 0
      BY <1>3, <1>7, <3>2, <3>4
    <3>7. \A d \in Cleanups : released'[d] \in {0, 1} /\ (d \notin recorded => released'[d] = 0)
      BY <1>7, <3>1, <3>2
    <3>8. ASSUME NEW e \in recorded, NEW d \in recorded, released'[e] = 1, e[1] \in manifest[d[1]].needs
          PROVE  released'[d] = 1
      <4>1. e \in Cleanups /\ d \in Cleanups
        BY <1>3
      <4>2. CASE d = c
        BY <3>2, <4>1, <4>2
      <4>3. CASE d # c /\ e = c
        <5>1. released[d] = 1
          BY <2>2, <3>8, <4>3
        <5>2. QED
          BY <3>2, <4>1, <4>3, <5>1
      <4>4. CASE d # c /\ e # c
        <5>1. released[e] = 1
          BY <3>2, <3>8, <4>1, <4>4
        <5>2. released[d] = 1
          BY <3>8, <5>1 DEF Custody, NeedsAfter
        <5>3. QED
          BY <3>2, <4>1, <4>4, <5>2
      <4>5. QED
        BY <4>2, <4>3, <4>4
    <3>9. QED
      BY <3>5, <3>6, <3>7, <3>8
  <2>3. QED
    BY <2>1, <2>2
<1>9. Kept'
  <2>1. ASSUME NEW d \in recorded, released'[d] = 0
        PROVE  \E a \in 1 .. Len(resources') : resources'[a] = Call(d[1], d[2])
    <3>1. PICK m \in 1 .. Len(resources) : resources[m] = Call(d[1], d[2])
      BY <1>7, <1>8, <2>1
    <3>2. m # i
      BY <1>8, <2>1, <3>1
    <3>3. QED
      BY <1>5, <3>1, <3>2
  <2>2. ASSUME NEW a \in 1 .. Len(resources'), resources'[a].call # 0
        PROVE  /\ <<resources'[a].plugin, resources'[a].call>> \in recorded
               /\ released'[<<resources'[a].plugin, resources'[a].call>>] = 0
    <3>1. PICK m \in 1 .. Len(resources) : m # i /\ resources'[a] = resources[m]
      BY <1>4
    <3>2. QED
      BY <1>7, <1>8, <2>2, <3>1
  <2>3. ASSUME NEW a \in 1 .. Len(resources'), NEW b \in 1 .. Len(resources'),
               resources'[a] = resources'[b], resources'[a].call # 0
        PROVE  a = b
    <3>1. ASSUME NEW e \in 1 .. Len(resources'), NEW f \in 1 .. Len(resources'), e < f,
                 resources'[e] = resources'[f], resources'[e].call # 0
          PROVE  FALSE
      <4>1. PICK m \in 1 .. Len(resources) : \E o \in 1 .. Len(resources) :
              m < o /\ resources'[e] = resources[m] /\ resources'[f] = resources[o]
        BY <1>6, <3>1
      <4>2. PICK o \in 1 .. Len(resources) : m < o /\ resources'[e] = resources[m] /\ resources'[f] = resources[o]
        BY <4>1
      <4>3. m = o
        <5>1. resources[m] = resources[o] /\ resources[m].call # 0
          BY <3>1, <4>2, Zenon
        <5>2. QED
          BY <1>7, <5>1, Zenon
      <4>4. QED
        BY <4>2, <4>3
    <3>2. ~(a < b) /\ ~(b < a)
      BY <2>3, <3>1
    <3>3. QED
      BY <3>2
  <2>4. QED
    BY <1>1, <1>8, <2>1, <2>2, <2>3 DEF Kept, Call
<1>10. ResourcesInOrder'
  <2>1. ASSUME NEW a \in 1 .. Len(resources'), NEW b \in 1 .. Len(resources'), a < b,
               resources'[a].call # 0, resources'[b].call # 0
        PROVE  resources'[b].plugin \notin manifest[resources'[a].plugin].needs
    <3>1. PICK m \in 1 .. Len(resources) : \E o \in 1 .. Len(resources) :
            m < o /\ resources'[a] = resources[m] /\ resources'[b] = resources[o]
      BY <1>6, <2>1
    <3>2. PICK o \in 1 .. Len(resources) : m < o /\ resources'[a] = resources[m] /\ resources'[b] = resources[o]
      BY <3>1
    <3>3. QED
      BY <2>1, <3>2 DEF Custody, ResourcesInOrder
  <2>2. QED
    BY <2>1 DEF ResourcesInOrder
<1>11. NeedsAfter'
  BY <1>8 DEF NeedsAfter
<1>12. QED
  BY <1>9, <1>10, <1>11 DEF Custody

\* Nothing that is still there when a plug-in is given back needs it.
LEMMA NoneNeedsIt ==
  ASSUME PluginTypeOK, InTheirOrder, Recorded, phase = "rollback",
         NEW d \in recorded, plugin \in manifest[d[1]].needs
  PROVE  released[d] # 0
<1>1. SUFFICES ASSUME released[d] = 0 PROVE FALSE
  OBVIOUS
<1>2. Remains(d)
  BY <1>1 DEF Recorded
<1>3. Len(loaded) \in Nat /\ ToSet(loaded) = {loaded[k] : k \in 1 .. Len(loaded)} /\ remaining \in Nat
  BY LoadedShape DEF PluginTypeOK
<1>4. /\ remaining <= Len(loaded)
      /\ \/ remaining = Len(loaded) /\ plugin \notin ToSet(loaded) /\ manifest[plugin].needs \subseteq ToSet(loaded)
         \/ remaining < Len(loaded) /\ plugin = loaded[remaining + 1]
  BY DEF InTheirOrder
<1>5. /\ \A k, m \in 1 .. Len(loaded) : loaded[k] \in manifest[loaded[m]].needs => k < m
      /\ \A k \in 1 .. Len(loaded) : manifest[loaded[k]].needs \subseteq ToSet(loaded)
  BY DEF InTheirOrder
<1>6. CASE plugin \notin ToSet(loaded) /\ manifest[plugin].needs \subseteq ToSet(loaded)
  <2>1. CASE d[1] = plugin
    BY <1>6, <2>1
  <2>2. CASE d[1] # plugin
    <3>1. PICK k \in 1 .. remaining : d[1] = loaded[k]
      BY <1>2, <2>2 DEF Remains
    <3>2. k \in 1 .. Len(loaded)
      BY <1>3, <1>4
    <3>3. QED
      BY <1>5, <1>6, <3>1, <3>2
  <2>3. QED
    BY <2>1, <2>2
<1>7. CASE remaining < Len(loaded) /\ plugin = loaded[remaining + 1]
  <2>1. remaining + 1 \in 1 .. Len(loaded)
    BY <1>3, <1>7
  <2>2. CASE d[1] = plugin
    <3>1. remaining + 1 < remaining + 1
      BY <1>5, <1>7, <2>1, <2>2
    <3>2. QED
      BY <1>3, <3>1
  <2>3. CASE d[1] # plugin
    <3>1. PICK k \in 1 .. remaining : d[1] = loaded[k]
      BY <1>2, <2>3 DEF Remains
    <3>2. k \in 1 .. Len(loaded)
      BY <1>3, <1>4
    <3>3. remaining + 1 < k
      BY <1>5, <1>7, <2>1, <3>1, <3>2
    <3>4. QED
      BY <1>3, <3>1, <3>3
  <2>4. QED
    BY <2>2, <2>3
<1>8. QED
  BY <1>4, <1>6, <1>7

\* Every step keeps what was registered in the resources, in order, until it is given back.
LEMMA GivenStep ==
  ASSUME PluginInv, PluginNext, manifest' = manifest
  PROVE  Custody'
<1>1. /\ PluginTypeOK /\ InTheirOrder /\ Recorded /\ Custody /\ JobsFirst
      /\ Kept /\ ResourcesInOrder /\ NeedsAfter
  BY DEF PluginInv, Custody
<1>2. recorded \subseteq Cleanups /\ at \in Nat
      /\ resources \in Seq([plugin : Plugins \cup {NoPlugin}, call : Nat])
  BY <1>1 DEF PluginTypeOK
<1>3. CASE RegisterCall
  <2>1. /\ phase = "register" /\ at < Len(CallsOf(plugin)) /\ released' = released
        /\ \/ CallsOf(plugin)[at + 1] = "cleanup" /\ resources' = Append(resources, Call(plugin, at + 1))
              /\ recorded' = recorded \cup {<<plugin, at + 1>>}
           \/ resources' = resources /\ recorded' = recorded
    BY <1>3 DEF RegisterCall
  <2>2. CASE resources' = resources /\ recorded' = recorded
    BY <1>1, <2>1, <2>2, GivenAsBefore
  <2>3. CASE CallsOf(plugin)[at + 1] = "cleanup" /\ resources' = Append(resources, Call(plugin, at + 1))
             /\ recorded' = recorded \cup {<<plugin, at + 1>>}
    <3>1. plugin \in Plugins /\ plugin \notin ToSet(loaded) /\ manifest[plugin].needs \subseteq ToSet(loaded)
      BY <1>1, <2>1 DEF InTheirOrder
    <3>2. at + 1 \in 1 .. Len(CallsOf(plugin)) /\ at + 1 \in Nat
      BY <1>1, <1>2, <2>1, <3>1, CleanupShape
    <3>3. PICK c \in Cleanups : c = <<plugin, at + 1>>
      BY <1>1, <2>3, <3>1, <3>2, CleanupShape
    <3>4. \A d \in recorded : Entered(d)
      BY <1>1, <1>2, <2>1 DEF Recorded
    <3>5. ~Entered(c)
      BY <1>2, <3>1, <3>3 DEF Entered
    <3>6. \A d \in recorded : c[1] \notin manifest[d[1]].needs
      <4>1. ASSUME NEW d \in recorded PROVE manifest[d[1]].needs \subseteq ToSet(loaded)
        <5>1. CASE d[1] = plugin
          BY <3>1, <5>1
        <5>2. CASE d[1] \in ToSet(loaded)
          <6>1. PICK k \in 1 .. Len(loaded) : d[1] = loaded[k]
            BY <1>1, <5>2, LoadedShape
          <6>2. QED
            BY <1>1, <6>1 DEF InTheirOrder
        <5>3. QED
          BY <3>4, <5>1, <5>2 DEF Entered
      <4>2. QED
        BY <3>1, <3>3, <4>1
    <3>7. \A d \in Cleanups : released[d] = 0
      BY <1>1, <2>1 DEF JobsFirst
    <3>8. resources' = Append(resources, Call(c[1], c[2])) /\ recorded' = recorded \cup {c} /\ c \notin recorded
      BY <2>3, <3>3, <3>4, <3>5
    <3>9. QED
      BY <1>1, <2>1, <3>6, <3>7, <3>8, GivenCleanup
  <2>4. QED
    BY <2>1, <2>2, <2>3
<1>4. CASE CommitPlugin
  <2>1. plugin \in Plugins /\ resources' = Append(resources, Handlers(plugin)) /\ recorded' = recorded /\ released' = released
    BY <1>1, <1>4 DEF CommitPlugin, InTheirOrder
  <2>2. QED
    BY <1>1, <2>1, GivenHandlers
<1>5. CASE Undo
  <2>1. CASE resources' = resources /\ released' = released
    BY <1>1, <1>5, <2>1, GivenAsBefore DEF Undo
  <2>2. CASE ~(resources' = resources /\ released' = released)
    <3>1. PICK i \in DOMAIN resources : resources[i] = Call(plugin, at) /\ resources' = RemoveAt(resources, i)
      BY <1>5, <2>2 DEF Undo
    <3>2. phase = "rollback" /\ at > 0 /\ released' = [released EXCEPT ![<<plugin, at>>] = @ + 1] /\ recorded' = recorded
      BY <1>5, <2>2 DEF Undo
    <3>3. i \in 1 .. Len(resources)
      BY <1>2, LenProperties
    <3>4. resources' = SubSeq(resources, 1, i - 1) \o SubSeq(resources, i + 1, Len(resources))
      BY <3>1 DEF RemoveAt
    <3>5. Len(resources') = Len(resources) - 1 /\ Len(resources) \in Nat
          /\ \A k \in 1 .. Len(resources') : resources'[k] = resources[Around(i, k)]
      <4>1. PICK S : S = [plugin : Plugins \cup {NoPlugin}, call : Nat]
        OBVIOUS
      <4>2. resources \in Seq(S)
        BY <1>2, <4>1
      <4>3. \A rest : rest = SubSeq(resources, 1, i - 1) \o SubSeq(resources, i + 1, Len(resources)) =>
              /\ rest \in Seq(S) /\ Len(rest) = Len(resources) - 1 /\ Len(resources) \in Nat
              /\ \A k \in 1 .. Len(rest) : rest[k] = resources[Around(i, k)]
        BY <3>3, <4>2, TakenOut, ZenonT(60)
      <4>4. QED
        BY <3>4, <4>3, Zenon
    <3>6. resources[i].plugin = plugin /\ resources[i].call = at /\ resources[i].call # 0
      BY <1>2, <3>1, <3>2 DEF Call
    <3>7. PICK c : c = <<resources[i].plugin, resources[i].call>>
      OBVIOUS
    <3>8. \A d \in recorded : d # c /\ c[1] \in manifest[d[1]].needs => released[d] = 1
      <4>1. ASSUME NEW d \in recorded, c[1] \in manifest[d[1]].needs PROVE released[d] = 1
        <5>1. plugin \in manifest[d[1]].needs
          BY <3>6, <3>7, <4>1
        <5>2. released[d] \in {0, 1}
          BY <1>1, <1>2 DEF Kept
        <5>3. released[d] # 0
          BY <1>1, <3>2, <5>1, NoneNeedsIt
        <5>4. QED
          BY <5>2, <5>3
      <4>2. QED
        BY <4>1
    <3>9. IF resources[i].call = 0 THEN released' = released
          ELSE /\ released' = [released EXCEPT ![c] = @ + 1]
               /\ \A d \in recorded : d # c /\ c[1] \in manifest[d[1]].needs => released[d] = 1
      BY <3>2, <3>6, <3>7, <3>8
    <3>10. QED
      BY <1>1, <3>2, <3>3, <3>5, <3>7, <3>9, GivenBack, ZenonT(60)
  <2>3. QED
    BY <2>1, <2>2
<1>6. CASE Release
  <2>1. /\ resources # <<>> /\ Gives(Last(resources)) /\ recorded' = recorded
        /\ resources' = SubSeq(resources, 1, Len(resources) - 1)
    BY <1>6 DEF Release, Front
  <2>2. Len(resources) \in Nat /\ Len(resources) # 0 /\ Len(resources) \in 1 .. Len(resources)
    <3>1. Len(resources) \in Nat /\ Len(resources) # 0
      BY <1>2, <2>1, LenProperties, EmptySeq
    <3>2. QED
      BY <3>1
  <2>3. PICK i \in 1 .. Len(resources) : i = Len(resources)
    BY <2>2
  <2>4. Len(resources') = Len(resources) - 1
        /\ \A k \in 1 .. Len(resources') : resources'[k] = resources[Around(i, k)]
    <3>1. \A k \in 1 .. Len(resources) - 1 : resources[k] \in [plugin : Plugins \cup {NoPlugin}, call : Nat]
      BY <1>1, <2>2, LoadedShape
    <3>2. /\ Len(resources') = IF 1 <= Len(resources) - 1 THEN (Len(resources) - 1) - 1 + 1 ELSE 0
          /\ \A k \in 1 .. (Len(resources) - 1) - 1 + 1 : resources'[k] = resources[1 + k - 1]
      BY <2>1, <2>2, <3>1, SubSeqProperties
    <3>3. Len(resources') = Len(resources) - 1 /\ (Len(resources) - 1) - 1 + 1 = Len(resources) - 1
      <4>1. PICK n \in Nat : n = Len(resources) /\ n # 0
        BY <2>2
      <4>2. (IF 1 <= n - 1 THEN (n - 1) - 1 + 1 ELSE 0) = n - 1 /\ (n - 1) - 1 + 1 = n - 1
        BY <4>1
      <4>3. QED
        BY <3>2, <4>1, <4>2, Zenon
    <3>4. \A k \in 1 .. Len(resources) - 1 : 1 + k - 1 = k /\ k < i
      BY <2>2, <2>3
    <3>5. QED
      BY <3>2, <3>3, <3>4 DEF Around
  <2>5. PICK c : c = <<resources[i].plugin, resources[i].call>>
    OBVIOUS
  <2>6. \A d \in recorded : d # c /\ c[1] \in manifest[d[1]].needs /\ resources[i].call # 0 => released[d] = 1
    <3>1. ASSUME NEW d \in recorded, d # c, c[1] \in manifest[d[1]].needs, resources[i].call # 0, released[d] # 1
          PROVE  FALSE
      <4>1. d \in Cleanups /\ d = <<d[1], d[2]>> /\ d[2] # 0 /\ released[d] \in {0, 1}
        BY <1>1, <1>2, CleanupShape DEF Kept
      <4>2. PICK a \in 1 .. Len(resources) : resources[a] = Call(d[1], d[2])
        BY <1>1, <3>1, <4>1 DEF Kept
      <4>3. resources[a].plugin = d[1] /\ resources[a].call = d[2]
        BY <4>2 DEF Call
      <4>4. a # i
        BY <2>5, <3>1, <4>1, <4>3
      <4>5. a < i
        BY <2>2, <2>3, <4>4
      <4>6. resources[i].plugin \notin manifest[resources[a].plugin].needs
        BY <1>1, <3>1, <4>1, <4>3, <4>5 DEF ResourcesInOrder
      <4>7. QED
        BY <2>5, <3>1, <4>3, <4>6
    <3>2. QED
      BY <3>1
  <2>7. IF resources[i].call = 0 THEN released' = released
        ELSE /\ released' = [released EXCEPT ![c] = @ + 1]
             /\ \A d \in recorded : d # c /\ c[1] \in manifest[d[1]].needs => released[d] = 1
    <3>1. Last(resources) = resources[i]
      BY <2>3 DEF Last
    <3>2. released' = IF resources[i].call = 0 THEN released ELSE [released EXCEPT ![c] = @ + 1]
      BY <2>1, <2>5, <3>1 DEF Gives
    <3>3. QED
      BY <2>6, <3>2
  <2>8. QED
    BY <1>1, <2>1, <2>2, <2>4, <2>5, <2>7, GivenBack
<1>7. CASE ~RegisterCall /\ ~CommitPlugin /\ ~Undo /\ ~Release
  <2>1. resources' = resources /\ recorded' = recorded /\ released' = released
    BY <1>7 DEF PluginNext, Validate, EnterPlugin, AllLoaded, RegisterRaises, UndoBefore,
         RolledBack, Serve, JobBegins, JobEnds, Shutdown, Down
  <2>2. QED
    BY <1>1, <2>1, GivenAsBefore
<1>8. QED
  BY <1>3, <1>4, <1>5, <1>6, <1>7

\* Every step keeps the order of loading.
LEMMA OrderStep ==
  ASSUME PluginInv, PluginNext, manifest' = manifest
  PROVE  InTheirOrder'
<1>1. PluginTypeOK /\ InTheirOrder /\ Recorded
  BY DEF PluginInv
<1>2. Plugins' = Plugins /\ (\A p : CallsOf(p)' = CallsOf(p))
  BY SameManifest
<1>3. /\ Len(loaded) \in Nat /\ (\A k \in 1 .. Len(loaded) : loaded[k] \in Plugins)
      /\ ToSet(loaded) = {loaded[k] : k \in 1 .. Len(loaded)} /\ loaded \in Seq(Plugins)
      /\ remaining \in Nat /\ at \in Nat
  BY <1>1, LoadedShape DEF PluginTypeOK
<1>4. /\ \A k, m \in 1 .. Len(loaded) : loaded[k] = loaded[m] => k = m
      /\ \A k, m \in 1 .. Len(loaded) : loaded[k] \in manifest[loaded[m]].needs => k < m
      /\ \A k \in 1 .. Len(loaded) : manifest[loaded[k]].needs \subseteq ToSet(loaded)
      /\ phase \in {"register", "rollback"} => plugin \in Plugins /\ at <= Len(CallsOf(plugin))
      /\ phase = "new" => recorded = {} /\ loaded = <<>>
      /\ phase \in {"new", "load"} => plugin = NoPlugin
      /\ phase = "register" => plugin \notin ToSet(loaded) /\ manifest[plugin].needs \subseteq ToSet(loaded)
      /\ phase = "rollback" =>
           /\ remaining <= Len(loaded)
           /\ \/ remaining = Len(loaded) /\ plugin \notin ToSet(loaded) /\ manifest[plugin].needs \subseteq ToSet(loaded)
              \/ remaining < Len(loaded) /\ plugin = loaded[remaining + 1]
  BY <1>1 DEF InTheirOrder
<1>5. CASE CommitPlugin
  <2>1. /\ phase = "register" /\ loaded' = Append(loaded, plugin) /\ plugin' = NoPlugin /\ phase' = "load"
    BY <1>5 DEF CommitPlugin
  <2>2. /\ plugin \in Plugins /\ plugin \notin ToSet(loaded) /\ manifest[plugin].needs \subseteq ToSet(loaded)
    BY <1>4, <2>1
  <2>3. /\ Len(loaded') = Len(loaded) + 1 /\ loaded'[Len(loaded) + 1] = plugin /\ loaded' \in Seq(Plugins)
        /\ \A k \in 1 .. Len(loaded) : loaded'[k] = loaded[k]
        /\ \A k \in 1 .. Len(loaded') : k \in 1 .. Len(loaded) \/ k = Len(loaded) + 1
    BY <1>3, <2>1, <2>2, OfAppend
  <2>4. \A k \in 1 .. Len(loaded) : loaded[k] # plugin /\ loaded[k] \in ToSet(loaded)
    BY <1>3, <2>2
  <2>5. \A k, m \in 1 .. Len(loaded') : loaded'[k] = loaded'[m] => k = m
    BY <1>4, <2>3, <2>4
  <2>6. ASSUME NEW k \in 1 .. Len(loaded'), NEW m \in 1 .. Len(loaded'), loaded'[k] \in manifest[loaded'[m]].needs
        PROVE  k < m
    <3>1. k \in 1 .. Len(loaded)
      <4>1. SUFFICES ASSUME k = Len(loaded) + 1 PROVE FALSE
        BY <2>3
      <4>2. plugin \in manifest[loaded'[m]].needs
        BY <2>3, <2>6, <4>1
      <4>3. CASE m = Len(loaded) + 1
        BY <2>2, <2>3, <4>2, <4>3
      <4>4. CASE m \in 1 .. Len(loaded)
        BY <1>4, <2>2, <2>3, <4>2, <4>4
      <4>5. QED
        BY <2>3, <4>3, <4>4
    <3>2. CASE m = Len(loaded) + 1
      BY <1>3, <3>1, <3>2
    <3>3. CASE m \in 1 .. Len(loaded)
      BY <1>4, <2>3, <2>6, <3>1, <3>3
    <3>4. QED
      BY <2>3, <3>2, <3>3
  <2>7. ToSet(loaded) \subseteq ToSet(loaded')
    <3>1. DOMAIN loaded' = 1 .. Len(loaded')
      BY <2>3, LenProperties
    <3>2. \A k \in 1 .. Len(loaded) : k \in 1 .. Len(loaded')
      BY <1>3, <2>3
    <3>3. \A k \in 1 .. Len(loaded') : loaded'[k] \in ToSet(loaded')
      BY <3>1 DEF ToSet
    <3>4. QED
      BY <1>3, <2>3, <3>2, <3>3
  <2>8. \A k \in 1 .. Len(loaded') : manifest[loaded'[k]].needs \subseteq ToSet(loaded)
    BY <1>4, <2>2, <2>3
  <2>9. \A k \in 1 .. Len(loaded') : manifest[loaded'[k]].needs \subseteq ToSet(loaded')
    BY <2>7, <2>8
  <2>10. QED
    BY <1>2, <2>1, <2>5, <2>6, <2>9 DEF InTheirOrder
<1>6. CASE UndoBefore
  <2>1. /\ phase = "rollback" /\ remaining > 0 /\ plugin' = loaded[remaining] /\ at' = Len(CallsOf(loaded[remaining]))
        /\ remaining' = remaining - 1 /\ phase' = phase /\ loaded' = loaded
    BY <1>6 DEF UndoBefore
  <2>2. remaining \in 1 .. Len(loaded)
    BY <1>3, <1>4, <2>1
  <2>3. plugin' \in Plugins /\ at' <= Len(CallsOf(plugin'))
    <3>1. loaded[remaining] \in Plugins
      BY <1>3, <2>2
    <3>2. Len(CallsOf(loaded[remaining])) \in Nat
      BY <1>1, <3>1, CleanupShape
    <3>3. QED
      BY <2>1, <3>1, <3>2
  <2>4. remaining' < Len(loaded) /\ remaining' <= Len(loaded) /\ remaining' + 1 = remaining
    BY <1>3, <2>1, <2>2
  <2>5. (at <= Len(CallsOf(plugin)))'
    BY <1>2, <2>3 DEF CallsOf
  <2>6. QED
    BY <1>2, <1>4, <2>1, <2>3, <2>4, <2>5 DEF InTheirOrder
<1>7. CASE Undo
  <2>1. phase' = phase /\ plugin' = plugin /\ loaded' = loaded /\ remaining' = remaining /\ at' = at - 1 /\ phase = "rollback"
    BY <1>7 DEF Undo
  <2>2. at' <= Len(CallsOf(plugin))
    <3>1. Len(CallsOf(plugin)) \in Nat
      BY <1>1, <1>4, <2>1, CleanupShape
    <3>2. QED
      BY <1>3, <1>4, <2>1, <3>1
  <2>3. CallsOf(plugin)' = CallsOf(plugin)
    BY <2>1 DEF CallsOf
  <2>4. QED
    BY <1>2, <1>4, <2>1, <2>2, <2>3 DEF InTheirOrder
<1>8. CASE RegisterCall
  <2>1. phase' = phase /\ plugin' = plugin /\ loaded' = loaded /\ remaining' = remaining /\ at' = at + 1 /\ phase = "register"
        /\ at < Len(CallsOf(plugin))
    BY <1>8 DEF RegisterCall
  <2>2. at' <= Len(CallsOf(plugin))
    <3>1. Len(CallsOf(plugin)) \in Nat
      BY <1>1, <1>4, <2>1, CleanupShape
    <3>2. QED
      BY <1>3, <2>1, <3>1
  <2>3. CallsOf(plugin)' = CallsOf(plugin)
    BY <2>1 DEF CallsOf
  <2>4. QED
    BY <1>2, <1>4, <2>1, <2>2, <2>3 DEF InTheirOrder
<1>9. CASE RolledBack
  <2>1. phase' = "failed" /\ loaded' = <<>> /\ Len(loaded') = 0
    BY <1>9 DEF RolledBack
  <2>2. 1 .. Len(loaded') = {}
    BY <2>1
  <2>3. QED
    BY <2>1, <2>2 DEF InTheirOrder
<1>10. CASE RegisterRaises
  <2>1. phase = "register" /\ phase' = "rollback" /\ remaining' = Len(loaded) /\ plugin' = plugin /\ at' = at /\ loaded' = loaded
    BY <1>10 DEF RegisterRaises
  <2>2. remaining' <= Len(loaded)
    BY <1>3, <2>1
  <2>3. CallsOf(plugin)' = CallsOf(plugin)
    BY <2>1 DEF CallsOf
  <2>4. QED
    BY <1>2, <1>4, <2>1, <2>2, <2>3 DEF InTheirOrder
<1>11. CASE EnterPlugin
  <2>1. phase = "load" /\ phase' = "register" /\ at' = 0 /\ loaded' = loaded
    BY <1>11 DEF EnterPlugin
  <2>2. PICK p \in Plugins : Ready(p) /\ plugin' = p
    BY <1>11 DEF EnterPlugin
  <2>3. p \notin ToSet(loaded) /\ manifest[p].needs \subseteq ToSet(loaded)
    BY <2>2 DEF Ready
  <2>4. (at <= Len(CallsOf(plugin)))'
    <3>1. Len(CallsOf(p)) \in Nat /\ CallsOf(plugin)' = CallsOf(p)
      BY <1>1, <2>2, CleanupShape DEF CallsOf
    <3>2. QED
      BY <2>1, <3>1
  <2>5. QED
    BY <1>2, <1>4, <2>1, <2>2, <2>3, <2>4 DEF InTheirOrder
<1>12. CASE Validate \/ AllLoaded \/ Serve \/ Shutdown \/ Down
  <2>1. phase' \notin {"new", "register", "rollback"} /\ loaded' = loaded /\ plugin' = plugin
        /\ (phase' = "load" => phase = "new")
    BY <1>12 DEF Validate, AllLoaded, Serve, Shutdown, Down
  <2>2. QED
    BY <1>4, <2>1 DEF InTheirOrder
<1>13. CASE Release \/ (\E p \in Plugins : JobBegins(p) \/ JobEnds(p))
  <2>1. phase' = phase /\ loaded' = loaded /\ plugin' = plugin /\ at' = at /\ remaining' = remaining /\ recorded' = recorded
    BY <1>13 DEF Release, JobBegins, JobEnds
  <2>2. CallsOf(plugin)' = CallsOf(plugin)
    BY <2>1 DEF CallsOf
  <2>3. QED
    BY <1>2, <1>4, <2>1, <2>2 DEF InTheirOrder
<1>14. QED
  BY <1>5, <1>6, <1>7, <1>8, <1>9, <1>10, <1>11, <1>12, <1>13 DEF PluginNext

\* Every step leaves the host's resources for the end.
LEMMA CoreStep ==
  ASSUME PluginInv, PluginNext, manifest' = manifest
  PROVE  CoreLast'
<1>1. /\ PluginTypeOK /\ InTheirOrder /\ CoreLast
      /\ resources \in Seq([plugin : Plugins \cup {NoPlugin}, call : Nat])
      /\ at \in Nat
  BY DEF PluginInv, PluginTypeOK
<1>2. /\ resources # <<>> => resources[1] = Core
      /\ phase \notin {"stopping", "down"} => resources # <<>>
      /\ resources = <<>> => handlers = {} /\ jobs = {}
      /\ phase = "down" => resources = <<>>
  BY <1>1 DEF CoreLast
<1>3. Core' = Core
  BY DEF Core, Handlers
<1>4. Len(resources) \in Nat /\ (resources # <<>> => Len(resources) # 0)
  BY <1>1, LenProperties, EmptySeq
<1>5. ASSUME NEW r \in [plugin : Plugins \cup {NoPlugin}, call : Nat], resources # <<>>, resources' = Append(resources, r)
      PROVE  resources'[1] = Core /\ resources' # <<>>
  <2>1. Len(resources') = Len(resources) + 1 /\ \A k \in 1 .. Len(resources) : resources'[k] = resources[k]
    BY <1>1, <1>5, OfAppend
  <2>2. 1 \in 1 .. Len(resources) /\ Len(resources') # 0
    BY <1>4, <1>5, <2>1
  <2>3. QED
    BY <1>2, <1>5, <2>1, <2>2
<1>6. CASE RegisterCall
  <2>1. phase = "register" /\ phase' = phase /\ (resources' = resources \/ resources' = Append(resources, Call(plugin, at + 1)))
    BY <1>6 DEF RegisterCall
  <2>2. Call(plugin, at + 1) \in [plugin : Plugins \cup {NoPlugin}, call : Nat]
    BY <1>1 DEF PluginTypeOK, Call
  <2>3. resources' # <<>> /\ resources'[1] = Core
    BY <1>2, <1>5, <2>1, <2>2
  <2>4. QED
    BY <1>3, <2>1, <2>3 DEF CoreLast
<1>7. CASE CommitPlugin
  <2>1. phase = "register" /\ phase' = "load" /\ resources' = Append(resources, Handlers(plugin))
    BY <1>7 DEF CommitPlugin
  <2>2. Handlers(plugin) \in [plugin : Plugins \cup {NoPlugin}, call : Nat]
    BY <1>1 DEF PluginTypeOK, Handlers
  <2>3. resources' # <<>> /\ resources'[1] = Core
    BY <1>2, <1>5, <2>1, <2>2
  <2>4. QED
    BY <1>3, <2>1, <2>3 DEF CoreLast
<1>8. CASE Undo
  <2>1. phase = "rollback" /\ phase' = phase
    BY <1>8 DEF Undo
  <2>2. CASE resources' = resources
    BY <1>2, <1>3, <2>1, <2>2 DEF CoreLast
  <2>3. CASE ~(resources' = resources)
    <3>1. PICK i \in DOMAIN resources : resources[i] = Call(plugin, at) /\ resources' = RemoveAt(resources, i)
      BY <1>8, <2>3 DEF Undo
    <3>2. at > 0
      BY <1>8 DEF Undo
    <3>3. i \in 1 .. Len(resources)
      BY <1>1, LenProperties
    <3>4. resources' = SubSeq(resources, 1, i - 1) \o SubSeq(resources, i + 1, Len(resources))
      BY <3>1 DEF RemoveAt
    <3>5. PICK S : S = [plugin : Plugins \cup {NoPlugin}, call : Nat]
      OBVIOUS
    <3>6. resources \in Seq(S)
      BY <1>1, <3>5
    <3>7. \A rest : rest = SubSeq(resources, 1, i - 1) \o SubSeq(resources, i + 1, Len(resources)) =>
            /\ rest \in Seq(S) /\ Len(rest) = Len(resources) - 1 /\ Len(resources) \in Nat
            /\ \A k \in 1 .. Len(rest) : rest[k] = resources[Around(i, k)]
      BY <3>3, <3>6, TakenOut, ZenonT(60)
    <3>8. Len(resources') = Len(resources) - 1 /\ \A k \in 1 .. Len(resources') : resources'[k] = resources[Around(i, k)]
      BY <3>4, <3>7, Zenon
    <3>9. resources # <<>> /\ resources[1] = Core
      BY <1>2, <2>1
    <3>10. i # 1
      <4>1. Core.call = 0 /\ Call(plugin, at).call = at
        BY DEF Core, Handlers, Call
      <4>2. QED
        BY <1>1, <3>1, <3>2, <3>9, <4>1
    <3>11. 1 \in 1 .. Len(resources') /\ 1 < i
      BY <1>4, <3>3, <3>8, <3>10
    <3>12. resources'[1] = resources[1]
      BY <3>8, <3>11 DEF Around
    <3>13. resources' # <<>>
      BY <3>11
    <3>14. QED
      BY <1>3, <2>1, <3>9, <3>12, <3>13 DEF CoreLast
  <2>4. QED
    BY <2>2, <2>3
<1>9. CASE Release
  <2>1. /\ phase = "stopping" /\ phase' = phase /\ resources # <<>> /\ Gives(Last(resources))
        /\ resources' = SubSeq(resources, 1, Len(resources) - 1)
    BY <1>9 DEF Release, Front
  <2>2. PICK n \in Nat : n = Len(resources) /\ n # 0
    BY <1>4, <2>1
  <2>3. \A k \in 1 .. n - 1 : resources[k] \in [plugin : Plugins \cup {NoPlugin}, call : Nat]
    BY <1>1, <2>2, LoadedShape
  <2>4. CASE n = 1
    <3>1. Last(resources) = Core
      BY <1>2, <2>1, <2>2, <2>4 DEF Last
    <3>2. handlers' = {} /\ jobs' = {}
      BY <1>9, <2>1, <3>1 DEF Gives, Release
    <3>3. resources' = <<>>
      BY <2>1, <2>2, <2>4, SubSeqEmpty
    <3>4. QED
      BY <2>1, <3>2, <3>3 DEF CoreLast
  <2>5. CASE n # 1
    <3>1. resources' = SubSeq(resources, 1, n - 1)
      BY <2>1, <2>2
    <3>2. Len(resources') = (IF 1 <= n - 1 THEN (n - 1) - 1 + 1 ELSE 0)
          /\ \A k \in 1 .. (n - 1) - 1 + 1 : resources'[k] = resources[1 + k - 1]
      BY <2>3, <3>1, SubSeqProperties
    <3>3. (IF 1 <= n - 1 THEN (n - 1) - 1 + 1 ELSE 0) # 0 /\ 1 \in 1 .. (n - 1) - 1 + 1 /\ 1 + 1 - 1 = 1
      BY <2>2, <2>5
    <3>4. resources'[1] = resources[1] /\ Len(resources') # 0
      BY <3>2, <3>3, SMTT(40)
    <3>5. resources' # <<>>
      BY <3>4
    <3>6. QED
      BY <1>2, <1>3, <2>1, <3>4, <3>5 DEF CoreLast
  <2>6. QED
    BY <2>4, <2>5
<1>10. CASE Down
  BY <1>2, <1>3, <1>10 DEF Down, CoreLast
<1>11. CASE ~RegisterCall /\ ~CommitPlugin /\ ~Undo /\ ~Release /\ ~Down
  <2>1. resources' = resources /\ (resources = <<>> => jobs' = {}) /\ (phase' \notin {"stopping", "down"} => phase \notin {"stopping", "down"})
        /\ (phase' = "down" => phase = "down") /\ handlers' = handlers
    BY <1>2, <1>11 DEF PluginNext, Validate, EnterPlugin, AllLoaded, RegisterRaises, UndoBefore,
         RolledBack, Serve, JobBegins, JobEnds, Shutdown
  <2>2. QED
    BY <1>2, <1>3, <2>1 DEF CoreLast
<1>12. QED
  BY <1>6, <1>7, <1>8, <1>9, <1>10, <1>11

\* No step calls a cleanup beside a job.
LEMMA JobsStep ==
  ASSUME PluginInv, PluginNext, manifest' = manifest
  PROVE  JobsFirst'
<1>1. JobsFirst /\ PluginTypeOK
  BY DEF PluginInv
<1>2. Cleanups' = Cleanups
  BY SameManifest
<1>3. /\ jobs # {} => phase \in {"serving", "stopping"} /\ \A c \in Cleanups : released[c] = 0
      /\ phase \in {"new", "load", "register", "loaded", "serving"} => \A c \in Cleanups : released[c] = 0
  BY <1>1 DEF JobsFirst
<1>4. CASE Undo
  <2>1. phase = "rollback" /\ phase' = phase /\ jobs' = jobs
    BY <1>4 DEF Undo
  <2>2. QED
    BY <1>3, <2>1 DEF JobsFirst
<1>5. CASE Release
  <2>1. phase = "stopping" /\ phase' = phase /\ jobs' = {}
    BY <1>5 DEF Release
  <2>2. QED
    BY <2>1 DEF JobsFirst
<1>6. CASE \E p \in Plugins : JobBegins(p)
  <2>1. phase = "serving" /\ phase' = phase /\ released' = released
    BY <1>6 DEF JobBegins
  <2>2. QED
    BY <1>2, <1>3, <2>1 DEF JobsFirst
<1>7. CASE \E p \in Plugins : JobEnds(p)
  <2>1. phase' = phase /\ released' = released /\ (jobs' # {} => jobs # {})
    BY <1>7 DEF JobEnds
  <2>2. QED
    BY <1>2, <1>3, <2>1 DEF JobsFirst
<1>8. CASE Validate \/ EnterPlugin \/ AllLoaded \/ RegisterCall \/ RegisterRaises \/ CommitPlugin
           \/ UndoBefore \/ RolledBack \/ Serve \/ Shutdown \/ Down
  <2>1. /\ released' = released /\ jobs' = jobs
        /\ phase' \in {"new", "load", "register", "loaded", "serving"} =>
             phase \in {"new", "load", "register", "loaded", "serving"}
        /\ phase \in {"serving", "stopping"} => phase' \in {"serving", "stopping", "down"}
        /\ phase' = "down" => resources = <<>>
    BY <1>8 DEF Validate, EnterPlugin, AllLoaded, RegisterCall, RegisterRaises, CommitPlugin,
         UndoBefore, RolledBack, Serve, Shutdown, Down
  <2>2. resources = <<>> => jobs = {}
    BY DEF PluginInv, CoreLast
  <2>3. QED
    BY <1>2, <1>3, <2>1, <2>2 DEF JobsFirst
<1>9. QED
  BY <1>4, <1>5, <1>6, <1>7, <1>8 DEF PluginNext

\* Every step keeps the account of what a rollback has not come to.
LEMMA RecordedStep ==
  ASSUME PluginInv, PluginNext, manifest' = manifest
  PROVE  Recorded'
<1>1. PluginTypeOK /\ InTheirOrder /\ Recorded /\ JobsFirst /\ Kept
  BY DEF PluginInv
<1>2. Cleanups' = Cleanups /\ recorded \subseteq Cleanups /\ at \in Nat /\ remaining \in Nat
      /\ plugin \in Plugins \cup {NoPlugin} /\ released \in [Cleanups -> Nat]
  BY <1>1, SameManifest DEF PluginTypeOK
<1>3. /\ Len(loaded) \in Nat /\ ToSet(loaded) = {loaded[k] : k \in 1 .. Len(loaded)}
      /\ \A k \in 1 .. Len(loaded) : loaded[k] \in Plugins
  BY <1>1, LoadedShape
<1>4. \A c \in Cleanups : c[1] \in Plugins /\ c[1] # NoPlugin /\ c[2] \in Nat /\ c[2] > 0 /\ c = <<c[1], c[2]>>
                          /\ c[2] <= Len(CallsOf(c[1]))
  <2>1. \A c \in Cleanups : c[1] \in Plugins /\ c[2] \in 1 .. Len(CallsOf(c[1])) /\ c[2] \in Nat /\ c[2] > 0 /\ c = <<c[1], c[2]>>
    BY <1>1, CleanupShape
  <2>2. \A p \in Plugins : p # NoPlugin /\ Len(CallsOf(p)) \in Nat
    BY <1>1, CleanupShape
  <2>3. QED
    BY <2>1, <2>2
<1>5. CASE RegisterCall
  <2>1. /\ phase = "register" /\ phase' = phase /\ plugin' = plugin /\ at' = at + 1 /\ loaded' = loaded /\ released' = released
        /\ at < Len(CallsOf(plugin))
        /\ \/ CallsOf(plugin)[at + 1] = "cleanup" /\ recorded' = recorded \cup {<<plugin, at + 1>>}
           \/ CallsOf(plugin)[at + 1] # "cleanup" /\ recorded' = recorded
    BY <1>5 DEF RegisterCall
  <2>2. plugin \in Plugins
    BY <1>1, <2>1 DEF InTheirOrder
  <2>3. <<plugin, at + 1>> \in Cleanups <=> CallsOf(plugin)[at + 1] = "cleanup"
    <3>1. at + 1 \in 1 .. Len(CallsOf(plugin)) /\ at + 1 \in Nat
      BY <1>1, <1>2, <2>1, <2>2, CleanupShape
    <3>2. QED
      BY <1>1, <2>2, <3>1, CleanupShape
  <2>4. ASSUME NEW c \in Cleanups PROVE c \in recorded' <=> Entered(c)'
    <3>1. c \in recorded <=> c[1] \in ToSet(loaded) \/ (c[1] = plugin /\ c[2] <= at)
      BY <1>1, <2>1 DEF Recorded, Entered
    <3>2. CASE c = <<plugin, at + 1>>
      <4>1. c \in recorded'
        BY <2>1, <2>3, <2>4, <3>2
      <4>2. c[1] = plugin' /\ c[2] <= at'
        BY <1>2, <2>1, <3>2
      <4>3. QED
        BY <4>1, <4>2 DEF Entered
    <3>3. CASE c # <<plugin, at + 1>>
      <4>1. c \in recorded' <=> c \in recorded
        BY <2>1, <3>3
      <4>2. c[1] = plugin => (c[2] <= at <=> c[2] <= at + 1)
        <5>1. c[1] = plugin => c[2] # at + 1
          BY <1>4, <3>3
        <5>2. QED
          BY <1>2, <1>4, <5>1
      <4>3. QED
        BY <2>1, <3>1, <4>1, <4>2 DEF Entered
    <3>4. QED
      BY <3>2, <3>3
  <2>5. QED
    BY <1>2, <2>1, <2>4 DEF Recorded
<1>6. CASE RegisterRaises
  <2>1. phase = "register" /\ phase' = "rollback" /\ remaining' = Len(loaded) /\ plugin' = plugin /\ at' = at
        /\ loaded' = loaded /\ recorded' = recorded /\ released' = released
    BY <1>6 DEF RegisterRaises
  <2>2. \A c \in Cleanups : c \in recorded <=> Entered(c)
    BY <1>1, <2>1 DEF Recorded
  <2>3. \A c : Entered(c)' <=> Entered(c)
    BY <2>1 DEF Entered
  <2>4. \A c : Remains(c)' <=> Entered(c)
    BY <1>3, <2>1 DEF Remains, Entered
  <2>5. \A c \in recorded : released'[c] = 0
    BY <1>1, <1>2, <2>1 DEF JobsFirst
  <2>6. QED
    BY <1>2, <2>1, <2>2, <2>3, <2>4, <2>5 DEF Recorded
<1>7. CASE CommitPlugin
  <2>1. /\ phase = "register" /\ at = Len(CallsOf(plugin)) /\ loaded' = Append(loaded, plugin)
        /\ plugin' = NoPlugin /\ phase' = "load" /\ recorded' = recorded
    BY <1>7 DEF CommitPlugin
  <2>2. plugin \in Plugins
    BY <1>1, <2>1 DEF InTheirOrder
  <2>3. ToSet(loaded') = ToSet(loaded) \cup {plugin}
    <3>1. loaded \in Seq(Plugins)
      BY <1>1 DEF PluginTypeOK
    <3>2. /\ Len(loaded') = Len(loaded) + 1 /\ loaded'[Len(loaded) + 1] = plugin /\ loaded' \in Seq(Plugins)
          /\ \A k \in 1 .. Len(loaded) : loaded'[k] = loaded[k]
          /\ \A k \in 1 .. Len(loaded') : k \in 1 .. Len(loaded) \/ k = Len(loaded) + 1
      BY <2>1, <2>2, <3>1, OfAppend
    <3>3. DOMAIN loaded' = 1 .. Len(loaded')
      BY <3>2, LenProperties
    <3>4. ToSet(loaded') = {loaded'[k] : k \in 1 .. Len(loaded')}
      BY <3>3 DEF ToSet
    <3>5. \A k \in 1 .. Len(loaded) : k \in 1 .. Len(loaded')
      BY <1>3, <3>2
    <3>6. Len(loaded) + 1 \in 1 .. Len(loaded')
      BY <1>3, <3>2
    <3>7. QED
      BY <1>3, <3>2, <3>4, <3>5, <3>6
  <2>4. \A c \in Cleanups : Entered(c)' <=> Entered(c)
    <3>1. \A c \in Cleanups : c[1] = plugin => c[2] <= at
      BY <1>4, <2>1
    <3>2. QED
      BY <1>4, <2>1, <2>3, <3>1 DEF Entered
  <2>5. \A c \in Cleanups : c \in recorded <=> Entered(c)
    BY <1>1, <2>1 DEF Recorded
  <2>6. QED
    BY <1>2, <2>1, <2>4, <2>5 DEF Recorded
<1>8. CASE EnterPlugin
  <2>1. phase = "load" /\ phase' = "register" /\ at' = 0 /\ loaded' = loaded /\ recorded' = recorded
    BY <1>8 DEF EnterPlugin
  <2>2. plugin = NoPlugin
    BY <1>1, <2>1 DEF InTheirOrder
  <2>3. \A c \in Cleanups : Entered(c)' <=> Entered(c)
    <3>1. \A c \in Cleanups : ~(c[2] <= 0)
      BY <1>4
    <3>2. QED
      BY <1>4, <2>1, <2>2, <3>1 DEF Entered
  <2>4. \A c \in Cleanups : c \in recorded <=> Entered(c)
    BY <1>1, <2>1 DEF Recorded
  <2>5. QED
    BY <1>2, <2>1, <2>3, <2>4 DEF Recorded
<1>9. CASE Validate
  <2>1. phase = "new" /\ phase' \in {"load", "failed"} /\ plugin' = plugin /\ loaded' = loaded /\ recorded' = recorded
    BY <1>9 DEF Validate
  <2>2. recorded = {} /\ loaded = <<>> /\ plugin = NoPlugin
    BY <1>1, <2>1 DEF InTheirOrder
  <2>3. \A c \in Cleanups : ~Entered(c)'
    <3>1. ToSet(loaded) = {}
      BY <2>2 DEF ToSet
    <3>2. QED
      BY <1>4, <2>1, <2>2, <3>1 DEF Entered
  <2>4. QED
    BY <1>2, <2>1, <2>2, <2>3 DEF Recorded
<1>10. CASE UndoBefore
  <2>1. /\ phase = "rollback" /\ at = 0 /\ remaining > 0 /\ phase' = phase
        /\ plugin' = loaded[remaining] /\ at' = Len(CallsOf(loaded[remaining])) /\ remaining' = remaining - 1
        /\ loaded' = loaded /\ recorded' = recorded /\ released' = released
    BY <1>10 DEF UndoBefore
  <2>2. remaining \in 1 .. Len(loaded) /\ loaded[remaining] \in ToSet(loaded)
    <3>1. remaining <= Len(loaded)
      BY <1>1, <2>1 DEF InTheirOrder
    <3>2. remaining \in 1 .. Len(loaded)
      BY <1>2, <1>3, <2>1, <3>1
    <3>3. QED
      BY <1>3, <3>2
  <2>3. \A c \in Cleanups : Entered(c)' => Entered(c)
    BY <2>1, <2>2 DEF Entered
  <2>4. ASSUME NEW c \in Cleanups PROVE Remains(c)' <=> Remains(c)
    <3>1. Remains(c) <=> \E k \in 1 .. remaining : c[1] = loaded[k]
      <4>1. ~(c[2] <= at)
        BY <1>4, <2>1
      <4>2. QED
        BY <4>1 DEF Remains
    <3>2. Remains(c)' <=> (\E k \in 1 .. remaining - 1 : c[1] = loaded[k]) \/ c[1] = loaded[remaining]
      <4>1. c[1] = loaded[remaining] => c[2] <= Len(CallsOf(loaded[remaining]))
        BY <1>4
      <4>2. QED
        BY <2>1, <4>1 DEF Remains
    <3>3. \A k : k \in 1 .. remaining <=> k \in 1 .. remaining - 1 \/ k = remaining
      BY <1>2, <2>1
    <3>4. QED
      BY <3>1, <3>2, <3>3
  <2>5. QED
    BY <1>1, <1>2, <2>1, <2>3, <2>4 DEF Recorded
<1>11. CASE Undo
  <2>1. /\ phase = "rollback" /\ at > 0 /\ phase' = phase /\ plugin' = plugin /\ at' = at - 1 /\ remaining' = remaining
        /\ loaded' = loaded /\ recorded' = recorded
        /\ \/ CallsOf(plugin)[at] = "cleanup" /\ released' = [released EXCEPT ![<<plugin, at>>] = @ + 1]
           \/ CallsOf(plugin)[at] # "cleanup" /\ released' = released
    BY <1>11 DEF Undo
  <2>2. /\ plugin \in Plugins /\ at <= Len(CallsOf(plugin)) /\ remaining <= Len(loaded)
        /\ \/ plugin \notin ToSet(loaded)
           \/ remaining < Len(loaded) /\ plugin = loaded[remaining + 1]
    BY <1>1, <2>1 DEF InTheirOrder
  <2>3. <<plugin, at>> \in Cleanups <=> CallsOf(plugin)[at] = "cleanup"
    <3>1. at \in 1 .. Len(CallsOf(plugin))
      BY <1>1, <1>2, <2>1, <2>2, CleanupShape
    <3>2. QED
      BY <1>1, <1>2, <2>2, <3>1, CleanupShape
  <2>4. \A c \in Cleanups : Entered(c)' => Entered(c)
    <3>1. \A c \in Cleanups : c[2] <= at - 1 => c[2] <= at
      BY <1>2, <1>4
    <3>2. QED
      BY <2>1, <3>1 DEF Entered
  <2>5. \A k \in 1 .. remaining : loaded[k] # plugin
    <3>1. \A k \in 1 .. remaining : k \in 1 .. Len(loaded) /\ k # remaining + 1
      BY <1>2, <1>3, <2>2
    <3>2. CASE plugin \notin ToSet(loaded)
      BY <1>3, <3>1, <3>2
    <3>3. CASE remaining < Len(loaded) /\ plugin = loaded[remaining + 1]
      <4>1. remaining + 1 \in 1 .. Len(loaded)
        BY <1>2, <1>3, <3>3
      <4>2. \A k \in 1 .. Len(loaded) : loaded[k] = loaded[remaining + 1] => k = remaining + 1
        BY <1>1, <4>1 DEF InTheirOrder
      <4>3. QED
        BY <3>1, <3>3, <4>2
    <3>4. QED
      BY <2>2, <3>2, <3>3
  <2>6. ASSUME NEW c \in recorded PROVE released'[c] = 0 <=> Remains(c)'
    <3>1. released[c] = 0 <=> (\E k \in 1 .. remaining : c[1] = loaded[k]) \/ (c[1] = plugin /\ c[2] <= at)
      BY <1>1, <2>1 DEF Recorded, Remains
    <3>2. Remains(c)' <=> (\E k \in 1 .. remaining : c[1] = loaded[k]) \/ (c[1] = plugin /\ c[2] <= at - 1)
      BY <2>1 DEF Remains
    <3>3. c \in Cleanups
      BY <1>2
    <3>4. CASE c = <<plugin, at>>
      <4>1. c[1] = plugin /\ c[2] = at /\ ~(at <= at - 1)
        BY <1>2, <3>4
      <4>2. ~Remains(c)'
        BY <2>5, <3>2, <4>1
      <4>3. released'[c] = released[c] + 1
        BY <1>2, <2>1, <2>3, <3>3, <3>4
      <4>4. released'[c] # 0
        BY <1>2, <3>3, <4>3
      <4>5. QED
        BY <4>2, <4>4
    <3>5. CASE c # <<plugin, at>>
      <4>1. released'[c] = released[c]
        BY <1>2, <2>1, <3>3, <3>5
      <4>2. c[1] = plugin => (c[2] <= at - 1 <=> c[2] <= at)
        <5>1. c[1] = plugin => c[2] # at
          BY <1>4, <3>3, <3>5
        <5>2. QED
          BY <1>2, <1>4, <3>3, <5>1
      <4>3. QED
        BY <3>1, <3>2, <4>1, <4>2
    <3>6. QED
      BY <3>4, <3>5
  <2>7. QED
    BY <1>1, <1>2, <2>1, <2>4, <2>6 DEF Recorded
<1>12. CASE AllLoaded \/ RolledBack \/ Serve \/ Shutdown \/ Down
  <2>1. phase' \notin {"load", "register", "rollback"}
    BY <1>12 DEF AllLoaded, RolledBack, Serve, Shutdown, Down
  <2>2. QED
    BY <2>1 DEF Recorded
<1>13. CASE Release
  <2>1. phase' = "stopping"
    BY <1>13 DEF Release
  <2>2. QED
    BY <2>1 DEF Recorded
<1>14. CASE \E p \in Plugins : JobBegins(p) \/ JobEnds(p)
  <2>1. /\ phase' = phase /\ plugin' = plugin /\ at' = at /\ remaining' = remaining
        /\ loaded' = loaded /\ recorded' = recorded /\ released' = released
    BY <1>14 DEF JobBegins, JobEnds
  <2>2. QED
    BY <1>1, <1>2, <2>1 DEF Recorded, Entered, Remains
<1>15. QED
  BY <1>5, <1>6, <1>7, <1>8, <1>9, <1>10, <1>11, <1>12, <1>13, <1>14 DEF PluginNext

LEMMA PluginInvariant == PluginSpec => []PluginInv
<1>1. PluginInit => PluginInv
  BY PluginInitInv
<1>2. PluginInv /\ [PluginNext]_pluginVars => PluginInv'
  <2>1. ASSUME PluginInv, PluginNext PROVE PluginInv'
    <3>1. PluginTypeOK /\ InTheirOrder
      BY <2>1 DEF PluginInv
    <3>2. PluginTypeOK' /\ manifest' = manifest
      BY <2>1, <3>1, PluginTypes
    <3>3. InTheirOrder' /\ Recorded' /\ Custody' /\ CoreLast' /\ JobsFirst'
      BY <2>1, <3>2, OrderStep, RecordedStep, GivenStep, CoreStep, JobsStep
    <3>4. QED
      BY <3>2, <3>3 DEF PluginInv, Custody
  <2>2. ASSUME PluginInv, UNCHANGED pluginVars PROVE PluginInv'
    <3>1. manifest' = manifest /\ phase' = phase /\ plugin' = plugin /\ at' = at /\ loaded' = loaded /\ remaining' = remaining
          /\ resources' = resources /\ handlers' = handlers /\ jobs' = jobs /\ recorded' = recorded /\ released' = released
      BY <2>2 DEF pluginVars
    <3>2. Plugins' = Plugins /\ Cleanups' = Cleanups /\ CallsOf(plugin)' = CallsOf(plugin) /\ Core' = Core
      BY <3>1 DEF Plugins, Cleanups, CallsOf, Core, Handlers
    <3>3. PluginTypeOK' /\ InTheirOrder' /\ CoreLast' /\ JobsFirst'
      BY <2>2, <3>1, <3>2 DEF PluginInv, PluginTypeOK, InTheirOrder, CoreLast, JobsFirst
    <3>4. Recorded'
      BY <2>2, <3>1, <3>2 DEF PluginInv, Recorded, Entered, Remains
    <3>5. Custody'
      BY <2>2, <3>1, GivenAsBefore DEF PluginInv, Custody
    <3>6. QED
      BY <3>3, <3>4, <3>5 DEF PluginInv, Custody
  <2>3. QED
    BY <2>1, <2>2
<1>3. QED
  BY <1>1, <1>2, PTL DEF PluginSpec

\* Whatever plug-ins there are and whenever the start fails or is interrupted: every
\* cleanup is called once and only once, and nothing before what depends on it.
THEOREM PluginsGiveBack == PluginSpec => []ReleasedInOrder
<1>1. PluginInv => ReleasedInOrder
  <2>1. SUFFICES ASSUME PluginInv PROVE ReleasedInOrder
    OBVIOUS
  <2>2. /\ \A c \in Cleanups : released[c] \in {0, 1}
        /\ \A c \in recorded : released[c] = 0 => \E a \in 1 .. Len(resources) : resources[a] = Call(c[1], c[2])
        /\ recorded \subseteq Cleanups
    BY <2>1 DEF PluginInv, Kept, PluginTypeOK
  <2>3. \A c \in Cleanups : released[c] <= 1
    BY <2>2
  <2>4. ASSUME phase = "down" PROVE handlers = {} /\ \A c \in recorded : released[c] = 1
    <3>1. resources = <<>> /\ handlers = {}
      BY <2>1, <2>4 DEF PluginInv, CoreLast
    <3>2. 1 .. Len(resources) = {}
      BY <3>1
    <3>3. QED
      BY <2>2, <3>1, <3>2
  <2>5. \A c, d \in recorded : released[c] = 1 /\ c[1] \in manifest[d[1]].needs => released[d] = 1
    BY <2>1 DEF PluginInv, NeedsAfter
  <2>6. \A c \in recorded : released[c] = 1 => c[1] \notin jobs
    BY <2>1, <2>2 DEF PluginInv, JobsFirst
  <2>7. QED
    BY <2>3, <2>4, <2>5, <2>6 DEF ReleasedInOrder
<1>2. QED
  BY <1>1, PluginInvariant, PTL
===============================================================================
