-------------------------- MODULE WorkerHubProofs --------------------------
(***************************************************************************)
(* Proofs about WorkerHub, for any daemons, phones and leases, whatever    *)
(* requests are lost and however often daemons and the server restart.     *)
(***************************************************************************)
EXTENDS WorkerHub, FiniteSetTheorems, TLAPS

LEMMA TypeInit == ASSUME WorkerHubAssumption, Init PROVE TypeOK
<1> USE DEF WorkerHubAssumption, Init
<1>1. joined \subseteq Workers /\ fresh \subseteq Workers /\ online \subseteq Workers
      /\ flagged \subseteq Leases /\ done \subseteq Leases /\ stopped \subseteq Workers
      /\ closed \in BOOLEAN
  OBVIOUS
<1>2. turn \in [Leases -> Nat] /\ runs \in [Leases -> Nat] /\ stales \in 0 .. MaxStale
      /\ crashes \in 0 .. MaxCrash
  OBVIOUS
<1>3. QED
  BY <1>1, <1>2 DEF TypeOK

LEMMA Turn == ASSUME WorkerHubAssumption PROVE NextTurn \in Nat
<1>1. IsFiniteSet({l \in Leases : caller[l] # "idle"})
  BY FS_Subset DEF WorkerHubAssumption
<1>2. QED
  BY <1>1, FS_CardinalityType DEF NextTurn

LEMMA DispatcherTyped ==
  ASSUME WorkerHubAssumption, TypeOK,
         \/ Dispatcher
         \/ \E S \in Batches : CancelBatch(S)
         \/ Close
  PROVE  TypeOK'
<1> USE WorkerHubAssumption
        DEF WorkerHubAssumption, TypeOK, table, leases, handler, dispatch, daemon, history
<1>1. ASSUME NEW l \in Leases, Dispatch(l) PROVE TypeOK'
  BY <1>1, Turn DEF Dispatch
<1>2. ASSUME NEW l \in Leases, Return(l) PROVE TypeOK'
  BY <1>2 DEF Return
<1>3. ASSUME NEW l \in Leases, Expire(l) PROVE TypeOK'
  BY <1>3 DEF Expire
<1>4. ASSUME NEW l \in Leases, GiveUp(l) PROVE TypeOK'
  BY <1>4 DEF GiveUp, CancelIn, Without
<1>5. ASSUME NEW S \in Batches, CancelBatch(S) PROVE TypeOK'
  BY <1>5 DEF CancelBatch, CancelIn, Without
<1>6. ASSUME Close PROVE TypeOK'
  BY <1>6 DEF Close, Without
<1>7. QED
  BY <1>1, <1>2, <1>3, <1>4, <1>5, <1>6 DEF Dispatcher

LEMMA SignalsTyped ==
  ASSUME WorkerHubAssumption, TypeOK, NEW w \in Workers, Signals(w)
  PROVE  TypeOK'
<1> USE WorkerHubAssumption
        DEF WorkerHubAssumption, TypeOK, table, leases, handler, dispatch, daemon, history
<1>1. ASSUME NEW on \in BOOLEAN, Join(w, on) PROVE TypeOK'
  BY <1>1 DEF Join, Handshake
<1>2. ASSUME NEW on \in BOOLEAN, Beat(w, on) PROVE TypeOK'
  BY <1>2 DEF Beat
<1>3. ASSUME NEW on \in BOOLEAN, BeatJoin(w, on) PROVE TypeOK'
  BY <1>3 DEF BeatJoin, Handshake
<1>4. ASSUME JoinHeard(w) PROVE TypeOK'
  BY <1>4 DEF JoinHeard, Hear
<1>5. ASSUME JoinFails(w) PROVE TypeOK'
  BY <1>5 DEF JoinFails
<1>6. ASSUME BeatDrops(w) PROVE TypeOK'
  BY <1>6 DEF BeatDrops
<1>7. ASSUME BeatJoinHeard(w) PROVE TypeOK'
  BY <1>7 DEF BeatJoinHeard, Hear
<1>8. ASSUME BeatJoinFails(w) PROVE TypeOK'
  BY <1>8 DEF BeatJoinFails
<1>9. ASSUME Late(w) PROVE TypeOK'
  BY <1>9 DEF Late
<1>10. QED
  BY <1>1, <1>2, <1>3, <1>4, <1>5, <1>6, <1>7, <1>8, <1>9, SMTT(40) DEF Signals

LEMMA TasksTyped ==
  ASSUME WorkerHubAssumption, TypeOK, NEW w \in Workers, Tasks(w)
  PROVE  TypeOK'
<1> USE WorkerHubAssumption
        DEF WorkerHubAssumption, TypeOK, table, leases, handler, dispatch, daemon, history
<1>1. ASSUME Poll(w) PROVE TypeOK'
  BY <1>1 DEF Poll
<1>2. ASSUME PollDrops(w) PROVE TypeOK'
  BY <1>2 DEF PollDrops
<1>3. ASSUME PollEmpty(w) PROVE TypeOK'
  BY <1>3 DEF PollEmpty
<1>4. ASSUME Abandon(w) PROVE TypeOK'
  BY <1>4 DEF Abandon
<1>5. ASSUME ZombieEnds(w) PROVE TypeOK'
  BY <1>5 DEF ZombieEnds
<1>6. ASSUME WorkDone(w) PROVE TypeOK'
  BY <1>6 DEF WorkDone
<1>7. ASSUME WorkFails(w) PROVE TypeOK'
  BY <1>7 DEF WorkFails
<1>8. ASSUME Submit(w) PROVE TypeOK'
  BY <1>8 DEF Submit, Accept
<1>9. ASSUME NEW l \in Leases, Receive(w, l) PROVE TypeOK'
  BY <1>9 DEF Receive, HandOut, Without
<1>10. ASSUME NEW l \in Leases, HandOutUnheard(w, l) PROVE TypeOK'
  BY <1>10 DEF HandOutUnheard, HandOut, Without
<1>11. QED
  BY <1>1, <1>2, <1>3, <1>4, <1>5, <1>6, <1>7, <1>8, <1>9, <1>10 DEF Tasks

LEMMA CrashTyped ==
  ASSUME WorkerHubAssumption, TypeOK, Restart \/ \E w \in Workers : Crash(w)
  PROVE  TypeOK'
<1> USE WorkerHubAssumption
        DEF WorkerHubAssumption, TypeOK, table, leases, handler, dispatch, daemon, history
<1>1. ASSUME NEW w \in Workers, Crash(w) PROVE TypeOK'
  BY <1>1 DEF Crash
<1>2. ASSUME Restart PROVE TypeOK'
  <2>1. turn' \in [Leases -> Nat] /\ crashes' \in 0 .. MaxCrash
    BY <1>2 DEF Restart, Without
  <2>2. /\ caller' \in [Leases -> {"idle", "waiting", "expired", "answered"}]
        /\ answer' \in [Leases -> {"none", "worker", "queue", "timed_out", "closed", "gone"}]
        /\ holder' \in [Leases -> Workers \cup {None}]
    BY <1>2 DEF Restart
  <2>3. /\ session' \in [Workers -> {"none", "current", "old"}]
        /\ main' \in [Workers -> {"join", "joining", "poll", "refused", "wait", "work", "submit"}]
        /\ beat' \in [Workers -> {"sleep", "refused", "join", "joining"}]
        /\ owner' \in [Workers -> {"none", "main", "beat"}]
    BY <1>2 DEF Restart
  <2>4. /\ poll' \in [Workers -> {"none", "on", "off"}]
        /\ zombie' \in [Workers -> {"none", "on", "off"}]
        /\ UNCHANGED <<flagged, receipt, done, current, held, stopped, runs, stales>>
        /\ joined' = {} /\ fresh' = {} /\ online' = {} /\ closed' = FALSE
    BY <1>2 DEF Restart
  <2>5. \A w \in Workers :
          /\ poll'[w] # "none" <=> main'[w] = "wait"
          /\ main[w] = "work" <=> main'[w] = "work"
          /\ main[w] = "submit" <=> main'[w] = "submit"
    BY <1>2 DEF Restart
  <2>6. QED
    BY <2>1, <2>2, <2>3, <2>4, <2>5
<1>3. QED
  BY <1>1, <1>2

LEMMA TypeStep == ASSUME WorkerHubAssumption, TypeOK, [Next]_vars PROVE TypeOK'
<1>1. CASE Next
  BY <1>1, DispatcherTyped, SignalsTyped, TasksTyped, CrashTyped DEF Next
<1>2. CASE UNCHANGED vars
  BY <1>2 DEF TypeOK, vars, table, leases, handler, dispatch, daemon, history
<1>3. QED
  BY <1>1, <1>2

\* The registers of the daemons agree with the place of their main threads, and
\* the tables of the hub are of their types.
THEOREM TypeCorrect == ASSUME WorkerHubAssumption PROVE Spec => []TypeOK
<1>1. Init => TypeOK
  BY TypeInit
<1>2. TypeOK /\ [Next]_vars => TypeOK'
  BY TypeStep
<1>3. QED
  BY <1>1, <1>2, PTL DEF Spec
-----------------------------------------------------------------------------
(* The books of the hub.                                                   *)

\* What the hub, its dispatchers and the phones know of one lease agrees.
Entry(l) ==
  /\ caller[l] = "idle" =>
       turn[l] = 0 /\ holder[l] = None /\ l \notin done /\ runs[l] = 0
       /\ receipt[l] = "none" /\ answer[l] = "none"
  /\ turn[l] > 0 =>
       holder[l] = None /\ l \notin done /\ runs[l] = 0 /\ receipt[l] = "none"
       /\ caller[l] \in {"waiting", "expired"}
  /\ holder[l] # None => l \notin done /\ receipt[l] = "none"
  /\ caller[l] \in {"waiting", "expired"} /\ l \notin done => turn[l] > 0 \/ holder[l] # None
  /\ runs[l] \in {0, 1}
  /\ receipt[l] = "queue" => runs[l] = 0
  /\ receipt[l] = "worker" => runs[l] = 1
  /\ receipt[l] # "none" => l \in done
  /\ answer[l] \in {"queue", "worker"} => receipt[l] = answer[l]

\* What a daemon has in its hands has been executed.
Hands == \A w \in Workers : held[w] # None => runs[held[w]] = 1

Books == TypeOK /\ (\A l \in Leases : Entry(l)) /\ Hands

LEMMA BooksInit == ASSUME WorkerHubAssumption, Init PROVE Books
<1>1. \A l \in Leases : Entry(l)
  BY DEF WorkerHubAssumption, Init, Entry
<1>2. Hands
  BY DEF Init, Hands
<1>3. QED
  BY <1>1, <1>2, TypeInit DEF Books

\* Steps the books do not see.
LEMMA BooksQuiet ==
  ASSUME Books, TypeOK', UNCHANGED <<turn, holder, receipt, done, caller, answer, runs>>,
         \A w \in Workers : held'[w] \in {held[w], None}
  PROVE  Books'
<1>1. \A l \in Leases : Entry(l)'
  BY DEF Books, Entry
<1>2. Hands'
  BY DEF Books, Hands, TypeOK
<1>3. QED
  BY <1>1, <1>2 DEF Books

\* Leases of S leave the queue for good.
LEMMA BooksCancel ==
  ASSUME WorkerHubAssumption, Books, TypeOK', NEW S \in SUBSET Leases, CancelIn(S),
         UNCHANGED <<runs, held>>,
         \A l \in Leases : \/ caller'[l] = caller[l] /\ answer'[l] = answer[l]
                          \/ /\ l \in S /\ caller[l] = "expired"
                             /\ caller'[l] = "answered" /\ answer'[l] = "timed_out"
  PROVE  Books'
<1> USE DEF Books
<1>1. ASSUME NEW l \in Leases PROVE Entry(l)'
  <2>1. Entry(l)
    OBVIOUS
  <2>2. CASE l \in S /\ turn[l] > 0
    <3>1. turn'[l] = 0 /\ receipt'[l] = "queue" /\ l \in done' /\ holder'[l] = holder[l]
      BY <2>2 DEF CancelIn, Without, Queued, TypeOK
    <3>2. QED
      BY <2>1, <2>2, <3>1 DEF Entry, TypeOK
  <2>3. CASE ~(l \in S /\ turn[l] > 0)
    <3>1. turn'[l] = turn[l] /\ receipt'[l] = receipt[l] /\ (l \in done' <=> l \in done)
          /\ holder'[l] = holder[l]
      BY <2>3 DEF CancelIn, Without, Queued, TypeOK
    <3>2. QED
      BY <2>1, <2>3, <3>1 DEF Entry, TypeOK
  <2>4. QED
    BY <2>2, <2>3
<1>2. Hands'
  BY DEF Hands, TypeOK
<1>3. QED
  BY <1>1, <1>2

\* A lease leaves the queue for a worker; runs counts it when the daemon hears.
LEMMA BooksHandOut ==
  ASSUME WorkerHubAssumption, Books, TypeOK', NEW w \in Workers, NEW l \in Leases, HandOut(w, l),
         UNCHANGED <<caller, answer>>,
         \/ UNCHANGED <<runs, held>>
         \/ runs' = [runs EXCEPT ![l] = @ + 1] /\ held' = [held EXCEPT ![w] = l]
  PROVE  Books'
<1> USE DEF Books
<1>1. turn[l] > 0 /\ runs[l] = 0 /\ l \notin done /\ receipt[l] = "none"
      /\ caller[l] \in {"waiting", "expired"}
  BY DEF HandOut, FirstFor, Queued, Entry
<1>2. ASSUME NEW k \in Leases PROVE Entry(k)'
  <2>1. CASE k = l
    <3>1. turn'[k] = 0 /\ holder'[k] = w /\ runs'[k] \in {0, 1}
      BY <1>1, <2>1 DEF HandOut, Without, TypeOK
    <3>2. QED
      BY <1>1, <2>1, <3>1 DEF HandOut, Entry, TypeOK, WorkerHubAssumption
  <2>2. CASE k # l
    <3>1. turn'[k] = turn[k] /\ holder'[k] = holder[k] /\ runs'[k] = runs[k]
      BY <2>2 DEF HandOut, Without, TypeOK
    <3>2. QED
      BY <2>2, <3>1 DEF HandOut, Entry, TypeOK
  <2>3. QED
    BY <2>1, <2>2
<1>3. ASSUME NEW v \in Workers, held'[v] # None PROVE runs'[held'[v]] = 1
  <2>1. CASE UNCHANGED <<runs, held>>
    BY <1>3, <2>1 DEF Hands
  <2>2. CASE runs' = [runs EXCEPT ![l] = @ + 1] /\ held' = [held EXCEPT ![w] = l]
    <3>1. CASE v = w
      BY <1>1, <2>2, <3>1 DEF TypeOK
    <3>2. CASE v # w
      <4>1. held'[v] = held[v] /\ runs[held[v]] = 1 /\ held[v] \in Leases
        BY <1>3, <2>2, <3>2 DEF Hands, TypeOK
      <4>2. held[v] # l
        BY <1>1, <4>1
      <4>3. QED
        BY <2>2, <4>1, <4>2 DEF TypeOK
    <3>3. QED
      BY <3>1, <3>2
  <2>3. QED
    BY <2>1, <2>2
<1>4. QED
  BY <1>2, <1>3 DEF Hands

LEMMA BooksDispatcher ==
  ASSUME WorkerHubAssumption, Books, TypeOK', Dispatcher \/ (\E S \in Batches : CancelBatch(S))
  PROVE  Books'
<1> USE DEF Books, dispatch, daemon, history
<1>1. ASSUME NEW l \in Leases, Dispatch(l) PROVE Books'
  <2>1. Cardinality({k \in Leases : caller[k] # "idle"}) \in Nat
    BY FS_Subset, FS_CardinalityType DEF WorkerHubAssumption
  <2>2. turn'[l] > 0 /\ caller'[l] = "waiting" /\ Entry(l)
    BY <1>1, <2>1 DEF Dispatch, NextTurn, TypeOK
  <2>3. \A k \in Leases \ {l} : turn'[k] = turn[k] /\ caller'[k] = caller[k]
    BY <1>1 DEF Dispatch, TypeOK
  <2>4. UNCHANGED <<holder, done, receipt, runs, answer, held>>
    BY <1>1 DEF Dispatch
  <2>5. Entry(l)'
    BY <1>1, <2>2, <2>4 DEF Dispatch, Entry
  <2>6. \A k \in Leases \ {l} : Entry(k)'
    BY <2>3, <2>4 DEF Entry
  <2>7. QED
    BY <2>4, <2>5, <2>6 DEF Hands
<1>2. ASSUME NEW l \in Leases, Return(l) PROVE Books'
  <2>1. UNCHANGED <<turn, holder, done, receipt, runs, held>>
    BY <1>2 DEF Return, leases
  <2>2. /\ caller'[l] = "answered" /\ answer'[l] \in {receipt[l], "closed"}
        /\ \A k \in Leases \ {l} : caller'[k] = caller[k] /\ answer'[k] = answer[k]
    BY <1>2 DEF Return, TypeOK
  <2>3. l \in done /\ caller[l] = "waiting"
    BY <1>2 DEF Return
  <2>4. \A k \in Leases : Entry(k)'
    BY <2>1, <2>2, <2>3 DEF Entry
  <2>5. QED
    BY <2>1, <2>4 DEF Hands
<1>3. ASSUME NEW l \in Leases, Expire(l) PROVE Books'
  <2>1. UNCHANGED <<turn, holder, done, receipt, runs, held, answer>>
    BY <1>3 DEF Expire, leases
  <2>2. /\ caller[l] = "waiting" /\ caller'[l] = "expired"
        /\ \A k \in Leases \ {l} : caller'[k] = caller[k]
    BY <1>3 DEF Expire, TypeOK
  <2>3. \A k \in Leases : Entry(k)'
    BY <2>1, <2>2 DEF Entry
  <2>4. QED
    BY <2>1, <2>3 DEF Hands
<1>4. ASSUME NEW l \in Leases, GiveUp(l) PROVE Books'
  <2>1. \A k \in Leases : \/ caller'[k] = caller[k] /\ answer'[k] = answer[k]
                          \/ /\ k \in {l} /\ caller[k] = "expired"
                             /\ caller'[k] = "answered" /\ answer'[k] = "timed_out"
    BY <1>4 DEF GiveUp, TypeOK
  <2>2. CancelIn({l}) /\ UNCHANGED <<runs, held>>
    BY <1>4 DEF GiveUp
  <2>3. QED
    BY <2>1, <2>2, BooksCancel
<1>5. ASSUME NEW S \in Batches, CancelBatch(S) PROVE Books'
  <2>1. S \in SUBSET Leases /\ CancelIn(S) /\ UNCHANGED <<runs, held, caller, answer>>
    BY <1>5 DEF CancelBatch, WorkerHubAssumption
  <2>2. QED
    BY <2>1, BooksCancel
<1>6. QED
  BY <1>1, <1>2, <1>3, <1>4, <1>5 DEF Dispatcher

\* The hub closes or is gone: every lease is out of the queue and no worker
\* holds one; those still waited for are done, or nobody waits for them.
LEMMA BooksDown == ASSUME WorkerHubAssumption, Books, TypeOK', Close \/ Restart PROVE Books'
<1> USE DEF Books, dispatch, daemon, history
<1>1. CASE Close
  <2>1. /\ \A l \in Leases : turn'[l] = 0 /\ holder'[l] = None
        /\ \A l \in Leases : l \in done' <=> l \in done \/ turn[l] > 0 \/ holder[l] # None
        /\ UNCHANGED <<receipt, caller, answer, runs, held>>
    BY <1>1 DEF Close, Without, Queued
  <2>2. \A l \in Leases : Entry(l)'
    BY <2>1 DEF Entry
  <2>3. QED
    BY <2>1, <2>2 DEF Hands
<1>2. CASE Restart
  <2>1. /\ \A l \in Leases : turn'[l] = 0 /\ holder'[l] = None
        /\ \A l \in Leases : caller'[l] = IF caller[l] = "idle" THEN "idle" ELSE "answered"
        /\ \A l \in Leases : answer'[l] = IF caller[l] \in {"waiting", "expired"} THEN "gone" ELSE answer[l]
        /\ UNCHANGED <<receipt, done, runs, held>>
    BY <1>2 DEF Restart, Without
  <2>2. \A l \in Leases : Entry(l)'
    BY <2>1 DEF Entry
  <2>3. QED
    BY <2>1, <2>2 DEF Hands
<1>3. QED
  BY <1>1, <1>2

\* The hub takes the receipt of the worker that holds the lease and has run it.
LEMMA BooksSettle ==
  ASSUME WorkerHubAssumption, Books, TypeOK', NEW w \in Workers, NEW l \in Leases,
         holder[l] = w, runs[l] = 1, Accept(w, l), UNCHANGED <<caller, answer, runs>>,
         \A v \in Workers : held'[v] \in {held[v], None}
  PROVE  Books'
<1>1. /\ holder[l] # None /\ holder'[l] = None /\ receipt'[l] = "worker"
      /\ l \in done' /\ turn'[l] = turn[l]
  BY DEF Accept, Books, TypeOK, WorkerHubAssumption
<1>2. ASSUME NEW k \in Leases, k # l
      PROVE  /\ holder'[k] = holder[k] /\ receipt'[k] = receipt[k] /\ turn'[k] = turn[k]
             /\ k \in done' <=> k \in done
  BY <1>2 DEF Accept, Books, TypeOK
<1>3. Entry(l)'
  BY <1>1 DEF Books, Entry
<1>4. ASSUME NEW k \in Leases, k # l PROVE Entry(k)'
  BY <1>2, <1>4 DEF Books, Entry
<1>5. Hands'
  BY DEF Books, Hands, TypeOK
<1>6. QED
  BY <1>3, <1>4, <1>5 DEF Books

LEMMA BooksTasks ==
  ASSUME WorkerHubAssumption, Books, TypeOK', NEW w \in Workers, Tasks(w)
  PROVE  Books'
<1> USE DEF table, leases, handler, dispatch, daemon, history
<1>1. CASE Poll(w) \/ PollDrops(w) \/ PollEmpty(w) \/ Abandon(w) \/ ZombieEnds(w)
  BY <1>1, BooksQuiet DEF Poll, PollDrops, PollEmpty, Abandon, ZombieEnds
<1>2. CASE WorkDone(w)
  BY <1>2, BooksQuiet DEF WorkDone
<1>3. CASE WorkFails(w)
  <2>1. held' = [held EXCEPT ![w] = None]
    BY <1>3 DEF WorkFails
  <2>2. QED
    BY <1>3, <2>1, BooksQuiet DEF WorkFails, Books, TypeOK
<1>4. CASE Submit(w)
  <2> HIDE DEF leases
  <2>1. held' = [held EXCEPT ![w] = None] /\ UNCHANGED <<caller, answer, runs>>
    BY <1>4 DEF Submit
  <2>2. \A v \in Workers : held'[v] \in {held[v], None}
    BY <2>1 DEF Books, TypeOK
  <2>3. CASE UNCHANGED leases
    BY <2>1, <2>2, <2>3, BooksQuiet DEF leases
  <2>4. CASE holder[held[w]] = w /\ Accept(w, held[w])
    <3>1. held[w] \in Leases /\ runs[held[w]] = 1
      BY <1>4 DEF Submit, Books, Hands, TypeOK
    <3>2. QED
      BY <2>1, <2>2, <2>4, <3>1, BooksSettle
  <2>5. UNCHANGED leases \/ (holder[held[w]] = w /\ Accept(w, held[w]))
    BY <1>4 DEF Submit
  <2>6. QED
    BY <2>3, <2>4, <2>5
<1>5. ASSUME NEW l \in Leases, Receive(w, l) PROVE Books'
  <2>1. /\ HandOut(w, l) /\ UNCHANGED <<caller, answer>>
        /\ runs' = [runs EXCEPT ![l] = @ + 1] /\ held' = [held EXCEPT ![w] = l]
    BY <1>5 DEF Receive
  <2>2. QED
    BY <2>1, BooksHandOut
<1>6. ASSUME NEW l \in Leases, HandOutUnheard(w, l) PROVE Books'
  <2>1. HandOut(w, l) /\ UNCHANGED <<caller, answer, runs, held>>
    BY <1>6 DEF HandOutUnheard
  <2>2. QED
    BY <2>1, BooksHandOut
<1>7. QED
  BY <1>1, <1>2, <1>3, <1>4, <1>5, <1>6 DEF Tasks

LEMMA BooksSignals ==
  ASSUME WorkerHubAssumption, Books, TypeOK', NEW w \in Workers, Signals(w) \/ Crash(w)
  PROVE  Books'
<1> USE DEF table, leases, handler, dispatch, daemon, history
<1>1. CASE Crash(w)
  <2>1. held' = [held EXCEPT ![w] = None]
    BY <1>1 DEF Crash
  <2>2. QED
    BY <1>1, <2>1, BooksQuiet DEF Crash, Books, TypeOK
<1>2. CASE Signals(w)
  <2>1. UNCHANGED <<turn, holder, receipt, done, caller, answer, runs, held>>
    BY <1>2 DEF Signals, Join, Beat, BeatJoin, JoinHeard, JoinFails, BeatDrops, BeatJoinHeard,
                BeatJoinFails, Late
  <2>2. QED
    BY <2>1, BooksQuiet
<1>3. QED
  BY <1>1, <1>2

LEMMA BooksStep == ASSUME WorkerHubAssumption, Books, [Next]_vars PROVE Books'
<1>1. TypeOK'
  BY TypeStep DEF Books
<1>2. CASE Next
  BY <1>1, <1>2, BooksDispatcher, BooksDown, BooksTasks, BooksSignals DEF Next
<1>3. CASE UNCHANGED vars
  BY <1>1, <1>3, BooksQuiet DEF vars, table, leases, handler, dispatch, daemon, history
<1>4. QED
  BY <1>2, <1>3

THEOREM BooksAgree == ASSUME WorkerHubAssumption PROVE Spec => []Books
<1>1. Init => Books
  BY BooksInit
<1>2. Books /\ [Next]_vars => Books'
  BY BooksStep
<1>3. QED
  BY <1>1, <1>2, PTL DEF Spec

\* A task is executed at most once.
THEOREM Once == ASSUME WorkerHubAssumption PROVE Spec => []ExecutedOnce
<1>1. Books => ExecutedOnce
  BY DEF Books, Entry, ExecutedOnce
<1>2. QED
  BY <1>1, BooksAgree, PTL

\* Dispatchers are told what happened on the phone.
THEOREM Truth == ASSUME WorkerHubAssumption PROVE Spec => []AnswerIsTrue
<1>1. Books => AnswerIsTrue
  BY DEF Books, Entry, AnswerIsTrue
<1>2. QED
  BY <1>1, BooksAgree, PTL

\* No lease somebody waits for falls between the queue and the workers.
THEOREM NoneLost == ASSUME WorkerHubAssumption PROVE Spec => []NoLostLease
<1>1. Books => NoLostLease
  BY DEF Books, Entry, NoLostLease, Queued
<1>2. QED
  BY <1>1, BooksAgree, PTL
-----------------------------------------------------------------------------
(* The order of the queue.                                                 *)

Arrived == {l \in Leases : caller[l] # "idle"}

\* Turns are given in the order of arrival, so no two leases have the same.
Turns ==
  /\ \A l \in Leases : turn[l] <= Cardinality(Arrived)
  /\ \A k, l \in Leases : turn[l] > 0 /\ turn[k] = turn[l] => k = l

LEMMA ArrivedFinite ==
  ASSUME WorkerHubAssumption PROVE IsFiniteSet(Arrived) /\ Cardinality(Arrived) \in Nat
BY FS_Subset, FS_CardinalityType DEF WorkerHubAssumption, Arrived

LEMMA TurnsInit == ASSUME WorkerHubAssumption, Init PROVE Turns
<1>1. \A l \in Leases : turn[l] = 0
  BY DEF Init
<1>2. Cardinality(Arrived) \in Nat
  BY ArrivedFinite
<1>3. QED
  BY <1>1, <1>2 DEF Turns

\* Leases only leave the queue.
LEMMA TurnsKept ==
  ASSUME WorkerHubAssumption, Turns, TypeOK,
         \A l \in Leases : turn'[l] \in {turn[l], 0},
         \A l \in Leases : caller'[l] = "idle" <=> caller[l] = "idle"
  PROVE  Turns'
<1>1. Arrived' = Arrived
  BY DEF Arrived
<1>2. \A l \in Leases : turn[l] \in Nat
  BY DEF TypeOK
<1>3. Cardinality(Arrived) \in Nat
  BY ArrivedFinite
<1>4. Cardinality(Arrived)' = Cardinality(Arrived)
  BY <1>1
<1>5. \A l \in Leases : turn'[l] <= Cardinality(Arrived)
  BY <1>2, <1>3 DEF Turns
<1>6. \A k, l \in Leases : turn'[l] > 0 /\ turn'[k] = turn'[l] => k = l
  BY <1>2 DEF Turns
<1>7. QED
  BY <1>4, <1>5, <1>6 DEF Turns

LEMMA TurnsDispatch ==
  ASSUME WorkerHubAssumption, Turns, TypeOK, NEW l \in Leases, Dispatch(l)
  PROVE  Turns'
<1> DEFINE N == Cardinality(Arrived)
<1>1. N \in Nat /\ IsFiniteSet(Arrived)
  BY ArrivedFinite
<1>2. Arrived' = Arrived \cup {l} /\ l \notin Arrived
  BY DEF Arrived, Dispatch, TypeOK
<1>3. Cardinality(Arrived)' = N + 1
  BY <1>1, <1>2, FS_AddElement
<1>4. turn'[l] = 1 + N /\ \A k \in Leases \ {l} : turn'[k] = turn[k]
  BY DEF Dispatch, NextTurn, Arrived, TypeOK
<1>5. \A k \in Leases : turn[k] \in Nat /\ turn[k] <= N
  BY DEF Turns, TypeOK
<1> HIDE DEF N
<1>6. \A k \in Leases : turn'[k] <= N + 1
  BY <1>1, <1>4, <1>5
<1>7. ASSUME NEW j \in Leases, NEW k \in Leases, turn'[k] > 0, turn'[j] = turn'[k] PROVE j = k
  <2>1. CASE j # l /\ k # l
    BY <1>4, <1>7, <2>1 DEF Turns
  <2>2. CASE j = l /\ k # l
    BY <1>1, <1>4, <1>5, <1>7, <2>2
  <2>3. CASE j # l /\ k = l
    BY <1>1, <1>4, <1>5, <1>7, <2>3
  <2>4. QED
    BY <2>1, <2>2, <2>3
<1>8. QED
  BY <1>3, <1>6, <1>7 DEF Turns

LEMMA TurnsStep == ASSUME WorkerHubAssumption, Books, Turns, [Next]_vars PROVE Turns'
<1> USE DEF table, leases, handler, dispatch, daemon, history
<1>1. TypeOK
  BY DEF Books
<1>2. ASSUME NEW l \in Leases, Dispatch(l) PROVE Turns'
  BY <1>1, <1>2, TurnsDispatch
<1>3. ASSUME NEW l \in Leases, Return(l) \/ Expire(l) \/ GiveUp(l) PROVE Turns'
  <2>1. /\ \A k \in Leases : turn'[k] \in {turn[k], 0}
        /\ \A k \in Leases : caller'[k] = "idle" <=> caller[k] = "idle"
    BY <1>1, <1>3 DEF Return, Expire, GiveUp, CancelIn, Without, TypeOK
  <2>2. QED
    BY <1>1, <2>1, TurnsKept
<1>4. ASSUME (\E S \in Batches : CancelBatch(S)) \/ Close \/ Restart PROVE Turns'
  <2>1. /\ \A k \in Leases : turn'[k] \in {turn[k], 0}
        /\ \A k \in Leases : caller'[k] = "idle" <=> caller[k] = "idle"
    BY <1>1, <1>4 DEF CancelBatch, CancelIn, Close, Restart, Without, TypeOK
  <2>2. QED
    BY <1>1, <2>1, TurnsKept
<1>5. ASSUME NEW w \in Workers, Tasks(w) PROVE Turns'
  <2>1. /\ \A k \in Leases : turn'[k] \in {turn[k], 0}
        /\ UNCHANGED caller
    BY <1>1, <1>5 DEF Tasks, Poll, PollDrops, PollEmpty, Abandon, ZombieEnds, WorkDone, WorkFails,
                      Submit, Accept, Receive, HandOutUnheard, HandOut, Without, TypeOK
  <2>2. QED
    BY <1>1, <2>1, TurnsKept
<1>6. ASSUME NEW w \in Workers, Signals(w) \/ Crash(w) PROVE Turns'
  <2>1. UNCHANGED <<turn, caller>>
    BY <1>6 DEF Signals, Crash, Join, Beat, BeatJoin, JoinHeard, JoinFails, BeatDrops,
                BeatJoinHeard, BeatJoinFails, Late
  <2>2. QED
    BY <1>1, <2>1, TurnsKept
<1>7. CASE UNCHANGED vars
  BY <1>1, <1>7, TurnsKept DEF vars
<1> HIDE DEF table, leases, handler, dispatch, daemon, history
<1>8. QED
  BY <1>2, <1>3, <1>4, <1>5, <1>6, <1>7 DEF Next, Dispatcher

\* A lease in the queue is nowhere else, and no other lease has its turn.
THEOREM Apart == ASSUME WorkerHubAssumption PROVE Spec => []QueueApart
<1>1. Init => Turns
  BY TurnsInit
<1>2. Books /\ Turns /\ [Next]_vars => Turns'
  BY TurnsStep
<1>3. Books /\ Turns => QueueApart
  BY DEF Books, Entry, Turns, QueueApart, Queued
<1>4. QED
  BY <1>1, <1>2, <1>3, BooksAgree, PTL DEF Spec

-----------------------------------------------------------------------------
(* The hub implements the contract of leases.                              *)

\* What the contract sees of a step depends on these variables only.
LEMMA SameContract ==
  ASSUME UNCHANGED <<turn, holder, receipt, caller>>
  PROVE  UNCHANGED C!contract
BY DEF C!contract, Place, Caller, Queued

LEMMA Refines_Dispatch ==
  ASSUME WorkerHubAssumption, Books, Books', NEW l \in Leases, Dispatch(l)
  PROVE  C!Offer(l)
<1>1. caller[l] = "idle" /\ caller'[l] = "waiting" /\ turn'[l] > 0
  <2>1. Cardinality({k \in Leases : caller[k] # "idle"}) \in Nat
    BY FS_Subset, FS_CardinalityType DEF WorkerHubAssumption
  <2>2. QED
    BY <2>1 DEF Dispatch, NextTurn, Books, TypeOK
<1>2. \A k \in Leases \ {l} : turn'[k] = turn[k] /\ caller'[k] = caller[k]
  BY DEF Dispatch, Books, TypeOK
<1>3. UNCHANGED <<holder, receipt>>
  BY DEF Dispatch
<1>4. Place' = [Place EXCEPT ![l] = "queued"]
  BY <1>1, <1>2, <1>3 DEF Place, Queued
<1>5. Caller' = [Caller EXCEPT ![l] = "waiting"]
  BY <1>1, <1>2 DEF Caller
<1>6. QED
  BY <1>1, <1>4, <1>5 DEF C!Offer, Place, Caller

LEMMA Refines_Return ==
  ASSUME WorkerHubAssumption, Books, NEW l \in Leases, Return(l)
  PROVE  C!Answered(l)
<1>1. caller[l] = "waiting" /\ caller'[l] = "answered" /\ ~Queued(l)
  BY DEF Return, Books, Entry, TypeOK, Queued
<1>2. \A k \in Leases \ {l} : caller'[k] = caller[k]
  BY DEF Return, Books, TypeOK
<1>3. UNCHANGED <<turn, holder, receipt>>
  BY DEF Return, leases
<1>4. Place' = Place /\ Place[l] # "queued"
  BY <1>1, <1>2, <1>3 DEF Place, Queued, Books, TypeOK, WorkerHubAssumption
<1>5. Caller' = [Caller EXCEPT ![l] = "answered"]
  BY <1>1, <1>2 DEF Caller
<1>6. [Place EXCEPT ![l] = IF @ = "queued" THEN "ended" ELSE @] = Place
  BY <1>4 DEF Place
<1>7. QED
  BY <1>1, <1>4, <1>5, <1>6 DEF C!Answered, Caller

LEMMA Refines_Expire ==
  ASSUME Books, NEW l \in Leases, Expire(l)
  PROVE  UNCHANGED C!contract
<1>1. caller[l] = "waiting" /\ caller'[l] = "expired"
  BY DEF Expire, Books, TypeOK
<1>2. \A k \in Leases \ {l} : caller'[k] = caller[k]
  BY DEF Expire, Books, TypeOK
<1>3. UNCHANGED <<turn, holder, receipt>>
  BY DEF Expire, leases
<1>4. Place' = Place
  BY <1>1, <1>2, <1>3 DEF Place, Queued
<1>5. Caller' = Caller
  BY <1>1, <1>2 DEF Caller
<1>6. QED
  BY <1>4, <1>5 DEF C!contract

\* Leases taken out of the queue are ended, the others stay where they are.
LEMMA CancelPlaces ==
  ASSUME Books, NEW S \in SUBSET Leases, CancelIn(S),
         \A k \in Leases : caller'[k] = "idle" <=> caller[k] = "idle"
  PROVE  /\ \A k \in Leases : k \in S /\ Queued(k) => Place[k] = "queued" /\ Place'[k] = "ended"
         /\ \A k \in Leases : ~(k \in S /\ Queued(k)) => Place'[k] = Place[k]
<1>1. ASSUME NEW k \in Leases, k \in S, Queued(k)
      PROVE  Place[k] = "queued" /\ Place'[k] = "ended"
  <2>1. caller[k] # "idle" /\ holder[k] = None
    BY <1>1 DEF Books, Entry, Queued
  <2>2. turn'[k] = 0 /\ receipt'[k] = "queue" /\ holder'[k] = None
    BY <1>1, <2>1 DEF CancelIn, Without
  <2>3. QED
    BY <1>1, <2>1, <2>2 DEF Place, Queued
<1>2. ASSUME NEW k \in Leases, ~(k \in S /\ Queued(k)) PROVE Place'[k] = Place[k]
  <2>1. turn[k] \in Nat
    BY DEF Books, TypeOK
  <2>2. (Queued(k) <=> turn'[k] > 0) /\ receipt'[k] = receipt[k] /\ holder'[k] = holder[k]
    BY <1>2, <2>1 DEF CancelIn, Without, Queued
  <2>3. QED
    BY <2>2 DEF Place, Queued
<1>3. QED
  BY <1>1, <1>2

LEMMA Refines_GiveUp ==
  ASSUME WorkerHubAssumption, Books, NEW l \in Leases, GiveUp(l)
  PROVE  C!Answered(l)
<1>1. caller[l] = "expired" /\ caller'[l] = "answered" /\ CancelIn({l})
  BY DEF GiveUp, Books, TypeOK
<1>2. \A k \in Leases \ {l} : caller'[k] = caller[k]
  BY DEF GiveUp, Books, TypeOK
<1>3. /\ \A k \in Leases : k = l /\ Queued(k) => Place[k] = "queued" /\ Place'[k] = "ended"
      /\ \A k \in Leases : ~(k = l /\ Queued(k)) => Place'[k] = Place[k]
  BY <1>1, <1>2, CancelPlaces
<1>4. ~Queued(l) => Place[l] # "queued"
  BY DEF Place, Books, TypeOK, WorkerHubAssumption
<1>5. Place' = [Place EXCEPT ![l] = IF @ = "queued" THEN "ended" ELSE @]
  <2>1. DOMAIN Place = Leases /\ DOMAIN Place' = Leases
    BY DEF Place
  <2>2. ASSUME NEW k \in Leases
        PROVE  Place'[k] = IF k = l /\ Place[k] = "queued" THEN "ended" ELSE Place[k]
    BY <1>3, <1>4
  <2>3. QED
    BY <2>1, <2>2, ZenonT(60) DEF Place
<1>6. Caller' = [Caller EXCEPT ![l] = "answered"]
  BY <1>1, <1>2 DEF Caller
<1>7. QED
  BY <1>1, <1>5, <1>6 DEF C!Answered, Caller

LEMMA Refines_Cancel ==
  ASSUME WorkerHubAssumption, Books, NEW S \in Batches, CancelBatch(S)
  PROVE  C!Withdraw
<1> DEFINE T == {k \in S : Queued(k)}
<1>1. S \in SUBSET Leases /\ CancelIn(S) /\ UNCHANGED caller
  BY DEF CancelBatch, dispatch, WorkerHubAssumption
<1>2. /\ \A k \in Leases : k \in T => Place[k] = "queued" /\ Place'[k] = "ended"
      /\ \A k \in Leases : k \notin T => Place'[k] = Place[k]
  BY <1>1, CancelPlaces
<1>3. T \in SUBSET {k \in Leases : Place[k] = "queued"}
  BY <1>1, <1>2
<1>4. Place' = [k \in Leases |-> IF k \in T THEN "ended" ELSE Place[k]]
  BY <1>2 DEF Place
<1>5. Caller' = Caller
  BY <1>1 DEF Caller
<1>6. QED
  BY <1>3, <1>4, <1>5 DEF C!Withdraw

LEMMA Refines_Down ==
  ASSUME WorkerHubAssumption, Books, Close \/ Restart
  PROVE  C!GoDown
<1>1. /\ \A k \in Leases : ~(turn'[k] > 0) /\ holder'[k] = None
      /\ \A k \in Leases : caller'[k] = "idle" <=> caller[k] = "idle"
      /\ UNCHANGED receipt
  BY DEF Close, Restart, Without, dispatch
<1>2. ASSUME NEW k \in Leases
      PROVE  Place'[k] = IF Place[k] \in {"none", "reported"} THEN Place[k] ELSE "ended"
  <2>1. CASE caller[k] = "idle"
    BY <1>1, <2>1 DEF Place
  <2>2. CASE caller[k] # "idle" /\ (Queued(k) \/ holder[k] # None)
    <3>1. receipt[k] = "none"
      BY <2>2 DEF Books, Entry, Queued
    <3>2. Place'[k] = "ended"
      BY <1>1, <2>2, <3>1 DEF Place, Queued
    <3>3. Place[k] \notin {"none", "reported"}
      BY <2>2 DEF Place, Books, TypeOK, WorkerHubAssumption
    <3>4. QED
      BY <3>2, <3>3
  <2>3. CASE caller[k] # "idle" /\ ~Queued(k) /\ holder[k] = None
    BY <1>1, <2>3 DEF Place, Queued
  <2>4. QED
    BY <2>1, <2>2, <2>3
<1>3. Place' = [k \in Leases |-> IF Place[k] \in {"none", "reported"} THEN Place[k] ELSE "ended"]
  BY <1>2 DEF Place
<1>4. CASE Close
  BY <1>3, <1>4 DEF C!GoDown, Close, dispatch, Caller
<1>5. CASE Restart
  <2>1. Caller' = [k \in Leases |-> IF Caller[k] = "waiting" THEN "answered" ELSE Caller[k]]
    BY <1>5 DEF Restart, Caller, Books, TypeOK
  <2>2. QED
    BY <1>3, <2>1 DEF C!GoDown
<1>6. QED
  BY <1>4, <1>5

LEMMA Refines_HandOut ==
  ASSUME WorkerHubAssumption, Books, NEW w \in Workers, NEW l \in Leases, HandOut(w, l),
         UNCHANGED caller
  PROVE  C!Give(l, w)
<1>1. Queued(l) /\ caller[l] # "idle" /\ w # None
  BY DEF HandOut, FirstFor, Books, Entry, Queued, WorkerHubAssumption
<1>2. turn'[l] = 0 /\ holder'[l] = w /\ UNCHANGED receipt
  BY DEF HandOut, Without, Books, TypeOK
<1>3. \A k \in Leases \ {l} : turn'[k] = turn[k] /\ holder'[k] = holder[k]
  BY DEF HandOut, Without, Books, TypeOK
<1>4. Place' = [Place EXCEPT ![l] = w]
  <2>1. Place'[l] = w
    BY <1>1, <1>2 DEF Place, Queued
  <2>2. \A k \in Leases \ {l} : Place'[k] = Place[k]
    BY <1>2, <1>3 DEF Place, Queued
  <2>3. Place = [k \in Leases |-> Place[k]] /\ Place' = [k \in Leases |-> Place'[k]]
    BY DEF Place
  <2>4. QED
    BY <2>1, <2>2, <2>3, Zenon
<1>5. Place[l] = "queued" /\ Caller' = Caller
  BY <1>1 DEF Place, Caller
<1>6. QED
  BY <1>4, <1>5 DEF C!Give

LEMMA Refines_Settle ==
  ASSUME WorkerHubAssumption, Books, NEW w \in Workers, NEW l \in Leases,
         holder[l] = w, Accept(w, l), UNCHANGED caller
  PROVE  C!Settle(l)
<1>1. ~Queued(l) /\ caller[l] # "idle" /\ w # None
  BY DEF Books, Entry, Queued, TypeOK, WorkerHubAssumption
<1>2. holder'[l] = None /\ receipt'[l] = "worker" /\ UNCHANGED turn
  BY DEF Accept, Books, TypeOK
<1>3. \A k \in Leases \ {l} : holder'[k] = holder[k] /\ receipt'[k] = receipt[k]
  BY DEF Accept, Books, TypeOK
<1>4. Place' = [Place EXCEPT ![l] = "reported"]
  BY <1>1, <1>2, <1>3 DEF Place, Queued
<1>5. Place[l] \in Workers /\ Caller' = Caller
  BY <1>1 DEF Place, Caller
<1>6. QED
  BY <1>4, <1>5 DEF C!Settle

LEMMA Refines_Tasks ==
  ASSUME WorkerHubAssumption, Books, NEW w \in Workers, Tasks(w)
  PROVE  [C!ContractNext]_(C!contract)
<1>1. CASE Poll(w) \/ PollDrops(w) \/ PollEmpty(w) \/ Abandon(w) \/ ZombieEnds(w)
           \/ WorkDone(w) \/ WorkFails(w)
  <2>1. UNCHANGED <<turn, holder, receipt, caller>>
    BY <1>1 DEF Poll, PollDrops, PollEmpty, Abandon, ZombieEnds, WorkDone, WorkFails, leases, dispatch
  <2>2. QED
    BY <2>1, SameContract
<1>2. ASSUME NEW l \in Leases, Receive(w, l) \/ HandOutUnheard(w, l)
      PROVE  [C!ContractNext]_(C!contract)
  <2>1. HandOut(w, l) /\ UNCHANGED caller
    BY <1>2 DEF Receive, HandOutUnheard, dispatch
  <2>2. QED
    BY <2>1, Refines_HandOut DEF C!ContractNext
<1>3. CASE Submit(w)
  <2>1. held[w] \in Leases /\ UNCHANGED caller
    BY <1>3 DEF Submit, dispatch, Books, TypeOK
  <2>2. CASE UNCHANGED leases
    BY <2>1, <2>2, SameContract DEF leases
  <2>3. CASE holder[held[w]] = w /\ Accept(w, held[w])
    BY <2>1, <2>3, Refines_Settle DEF C!ContractNext
  <2>4. UNCHANGED leases \/ (holder[held[w]] = w /\ Accept(w, held[w]))
    BY <1>3 DEF Submit
  <2>5. QED
    BY <2>2, <2>3, <2>4
<1>4. QED
  BY <1>1, <1>2, <1>3 DEF Tasks

LEMMA Refines_Signals ==
  ASSUME NEW w \in Workers, Signals(w) \/ Crash(w)
  PROVE  UNCHANGED C!contract
<1>1. UNCHANGED <<turn, holder, receipt, caller>>
  BY DEF Signals, Crash, Join, Beat, BeatJoin, JoinHeard, JoinFails, BeatDrops, BeatJoinHeard,
         BeatJoinFails, Late, leases, dispatch
<1>2. QED
  BY <1>1, SameContract

LEMMA Refines_Step ==
  ASSUME WorkerHubAssumption, Books, Books', [Next]_vars
  PROVE  [C!ContractNext]_(C!contract)
<1>1. CASE Dispatcher
  BY <1>1, Refines_Dispatch, Refines_Return, Refines_Expire, Refines_GiveUp
     DEF Dispatcher, C!ContractNext
<1>2. CASE (\E S \in Batches : CancelBatch(S)) \/ Close \/ Restart
  BY <1>2, Refines_Cancel, Refines_Down DEF C!ContractNext
<1>3. CASE \E w \in Workers : Signals(w) \/ Tasks(w) \/ Crash(w)
  BY <1>3, Refines_Signals, Refines_Tasks
<1>4. CASE UNCHANGED vars
  BY <1>4, SameContract DEF vars, leases, dispatch
<1>5. QED
  BY <1>1, <1>2, <1>3, <1>4 DEF Next

LEMMA Refines_Init == ASSUME Init PROVE C!ContractInit
BY DEF Init, C!ContractInit, Place, Caller

\* The hub with its daemons and dispatchers implements the contract of leases.
THEOREM Implements == ASSUME WorkerHubAssumption PROVE Spec => Contract
<1>1. Init => C!ContractInit
  BY Refines_Init
<1>2. Books /\ Books' /\ [Next]_vars => [C!ContractNext]_(C!contract)
  BY Refines_Step
<1>3. QED
  BY <1>1, <1>2, BooksAgree, PTL DEF Spec, Contract, C!ContractSpec
=============================================================================
