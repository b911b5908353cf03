----------------------------- MODULE WorkerHub -----------------------------
(***************************************************************************)
(* The hub that hands tasks to the phone workers, src/lite_agent/features/ *)
(* phone_app/worker_hub.py, together with the daemon that runs beside each *)
(* phone, src/lite_agent/integrations/phone_app/worker/run_worker.py.      *)
(*                                                                         *)
(* A dispatcher (an executor thread of the server) queues a lease and      *)
(* waits for it.  The main thread of a daemon polls, executes, and submits *)
(* a receipt; its heartbeat thread reports the phone, hears which leases   *)
(* are cancelled, and shakes hands again when its session is refused.      *)
(* A step is one critical section of the hub (_lock) with the daemon's     *)
(* reading of the answer, or one step of the daemon alone; where the two   *)
(* threads of a daemon share the session, request and answer are two       *)
(* steps.  A daemon has one phone; of a session only matters whether it is *)
(* the one the hub knows.                                                  *)
(***************************************************************************)
EXTENDS Naturals, FiniteSets

CONSTANTS
  Workers, Leases, Devices,
  None,          \* no lease, no worker
  PhoneOf,       \* the phone of each daemon
  TargetOf,      \* the phone of each lease
  Batches,       \* the sets of leases cancel_lease_by_batch may find
  Lossy,         \* requests that may be lost, or their answers
  MaxStale,      \* bound: times the hub finds a daemon's heartbeats too late
  MaxCrash       \* bound: crashes of daemons and restarts of the server, in all

ASSUME WorkerHubAssumption ==
  /\ PhoneOf \in [Workers -> Devices] /\ TargetOf \in [Leases -> Devices]
  /\ Batches \subseteq SUBSET Leases /\ IsFiniteSet(Leases)
  /\ Lossy \subseteq {"handshake", "poll", "receipt"}
  /\ MaxStale \in Nat /\ MaxCrash \in Nat
  /\ None \notin Workers /\ None \notin Leases
  /\ Workers \cap {"none", "queued", "reported", "ended"} = {}

VARIABLES
  joined, fresh, online,               \* hub: _workers, the age of the heartbeat, the phone
  owner,                               \* hub: the thread of the daemon that asked for its session
  turn,                                \* hub: _pending_leases, the place of a lease by its arrival,
                                       \*   0 for a lease that is not among them
  holder, flagged, receipt,            \* hub: _active_leases, cancelled, receipt
  done, closed,                        \* hub: done_event, _closed
  poll, zombie,                        \* hub: poll handlers with and without a listener
  caller, answer,                      \* dispatchers
  session, main, beat, current, held, stopped,   \* daemons
  runs, stales, crashes                \* history

table   == <<joined, fresh, online, owner>>
leases  == <<turn, holder, flagged, receipt, done>>
handler == <<poll, zombie>>
dispatch == <<caller, answer>>
daemon  == <<session, main, beat, current, held, stopped>>
history == <<runs, stales, crashes>>
vars    == <<table, leases, closed, handler, dispatch, daemon, history>>

Queued(l) == turn[l] > 0

TypeOK ==
  /\ joined \subseteq Workers /\ fresh \subseteq Workers /\ online \subseteq Workers
  /\ owner \in [Workers -> {"none", "main", "beat"}]
  /\ turn \in [Leases -> Nat]
  /\ holder \in [Leases -> Workers \cup {None}]
  /\ flagged \subseteq Leases /\ done \subseteq Leases
  /\ receipt \in [Leases -> {"none", "worker", "queue"}]
  /\ closed \in BOOLEAN
  /\ poll \in [Workers -> {"none", "on", "off"}] /\ zombie \in [Workers -> {"none", "on", "off"}]
  /\ caller \in [Leases -> {"idle", "waiting", "expired", "answered"}]
  /\ answer \in [Leases -> {"none", "worker", "queue", "timed_out", "closed", "gone"}]
  /\ session \in [Workers -> {"none", "current", "old"}]
  /\ main \in [Workers -> {"join", "joining", "poll", "refused", "wait", "work", "submit"}]
  /\ beat \in [Workers -> {"sleep", "refused", "join", "joining"}]
  /\ current \in [Workers -> Leases \cup {None}] /\ held \in [Workers -> Leases \cup {None}]
  /\ \A w \in Workers :
       /\ poll[w] # "none" <=> main[w] = "wait"
       /\ current[w] # None <=> main[w] = "work"
       /\ held[w] # None <=> main[w] \in {"work", "submit"}
       /\ current[w] # None => held[w] = current[w]
  /\ stopped \subseteq Workers
  /\ runs \in [Leases -> Nat]
  /\ stales \in 0 .. MaxStale /\ crashes \in 0 .. MaxCrash

Init ==
  /\ joined = {} /\ fresh = {} /\ online = {} /\ owner = [w \in Workers |-> "none"]
  /\ turn = [l \in Leases |-> 0] /\ holder = [l \in Leases |-> None]
  /\ flagged = {} /\ done = {} /\ receipt = [l \in Leases |-> "none"]
  /\ closed = FALSE
  /\ poll = [w \in Workers |-> "none"] /\ zombie = [w \in Workers |-> "none"]
  /\ caller = [l \in Leases |-> "idle"] /\ answer = [l \in Leases |-> "none"]
  /\ session = [w \in Workers |-> "none"]
  /\ main = [w \in Workers |-> "join"] /\ beat = [w \in Workers |-> "sleep"]
  /\ current = [w \in Workers |-> None] /\ held = [w \in Workers |-> None]
  /\ stopped = {}
  /\ runs = [l \in Leases |-> 0] /\ stales = 0 /\ crashes = 0

-----------------------------------------------------------------------------
(* Dispatchers: dispatch_task_sync and the cancellations.                  *)

\* Leases arrive one after the other, a dispatcher each.
NextTurn == 1 + Cardinality({l \in Leases : caller[l] # "idle"})

\* has_online_worker_for_device, then the lease joins the queue.
Dispatch(l) ==
  /\ caller[l] = "idle"
  /\ \E w \in joined \cap fresh \cap online : PhoneOf[w] = TargetOf[l]
  /\ turn' = [turn EXCEPT ![l] = NextTurn]
  /\ caller' = [caller EXCEPT ![l] = "waiting"]
  /\ UNCHANGED <<table, holder, flagged, receipt, done, closed, handler, answer, daemon, history>>

\* done_event.wait returns with a receipt; a lease ended without one was
\* ended by close.
Return(l) ==
  /\ caller[l] = "waiting" /\ l \in done
  /\ caller' = [caller EXCEPT ![l] = "answered"]
  /\ answer' = [answer EXCEPT ![l] = IF receipt[l] = "none" THEN "closed" ELSE receipt[l]]
  /\ UNCHANGED <<table, leases, closed, handler, daemon, history>>

\* done_event.wait runs into its timeout ...
Expire(l) ==
  /\ caller[l] = "waiting" /\ l \notin done
  /\ caller' = [caller EXCEPT ![l] = "expired"]
  /\ UNCHANGED <<table, leases, closed, handler, answer, daemon, history>>

Without(S) == [l \in Leases |-> IF l \in S THEN 0 ELSE turn[l]]

\* Variant: the queue is left alone, leases are only flagged.
FlagIn(S) ==
  /\ flagged' = flagged \cup {l \in S : Queued(l) \/ holder[l] # None}
  /\ UNCHANGED <<turn, receipt, done, holder>>

\* The leases of S are taken out of the queue with a receipt of their own;
\* those a worker holds are flagged and stay.
CancelIn(S) ==
  LET waiting == {l \in S : Queued(l)}
      active == {l \in S : holder[l] # None}
  IN  /\ turn' = Without(S)
      /\ flagged' = flagged \cup waiting \cup active
      /\ receipt' = [l \in Leases |-> IF l \in waiting THEN "queue" ELSE receipt[l]]
      /\ done' = done \cup waiting
      /\ UNCHANGED holder

\* ... and cancel_lease follows: the answer is timed_out even if the lease
\* has ended in between.
GiveUp(l) ==
  /\ caller[l] = "expired"
  /\ caller' = [caller EXCEPT ![l] = "answered"]
  /\ answer' = [answer EXCEPT ![l] = "timed_out"]
  /\ CancelIn({l})
  /\ UNCHANGED <<table, closed, handler, daemon, history>>

\* cancel_lease_by_batch.
CancelBatch(S) ==
  /\ CancelIn(S)
  /\ UNCHANGED <<table, closed, handler, dispatch, daemon, history>>

\* close: every lease ends without a receipt.
Close ==
  /\ ~closed /\ closed' = TRUE
  /\ LET open == {l \in Leases : Queued(l) \/ holder[l] # None}
     IN flagged' = flagged \cup open /\ done' = done \cup open
  /\ turn' = Without(Leases) /\ holder' = [l \in Leases |-> None]
  /\ UNCHANGED <<table, receipt, handler, dispatch, daemon, history>>

-----------------------------------------------------------------------------
(* Handshake and heartbeat.                                                *)

\* _verify_session_locked for the session the daemon sends.
Valid(w) == w \in joined /\ session[w] = "current" /\ w \in fresh

\* The handshake of thread t of the daemon, the phone in state on: the hub
\* replaces the session at once, the daemon hears of it later.
Handshake(w, t, on) ==
  /\ ~closed
  /\ joined' = joined \cup {w} /\ fresh' = fresh \cup {w}
  /\ online' = IF on THEN online \cup {w} ELSE online \ {w}
  /\ owner' = [owner EXCEPT ![w] = t]
  /\ session' = [session EXCEPT ![w] = IF @ = "current" THEN "old" ELSE @]

\* The answer to the handshake of thread t: the new session, unless the other
\* thread has shaken hands in between.
Hear(w, t) ==
  session' = [session EXCEPT ![w] = IF owner[w] = t THEN "current" ELSE "old"]

\* The main thread shakes hands: at the start again and again until it is
\* heard, later once, after which it polls whatever came of it.
Join(w, on) ==
  /\ main[w] = "join"
  /\ Handshake(w, "main", on)
  /\ main' = [main EXCEPT ![w] = "joining"]
  /\ UNCHANGED <<leases, closed, handler, dispatch, beat, current, held, stopped, history>>

JoinHeard(w) ==
  /\ main[w] = "joining"
  /\ Hear(w, "main")
  /\ main' = [main EXCEPT ![w] = "poll"]
  /\ UNCHANGED <<table, leases, closed, handler, dispatch, beat, current, held, stopped, history>>

\* No answer: the hub is closed, or request or answer were lost.
JoinFails(w) ==
  /\ main[w] \in {"join", "joining"}
  /\ "handshake" \in Lossy \/ (closed /\ main[w] = "join")
  /\ main' = [main EXCEPT ![w] = "poll"]
  /\ UNCHANGED <<table, leases, closed, handler, dispatch, session, beat, current, held, stopped, history>>

\* What the hub answers to a heartbeat with a valid session.
Cancelled(w) == {l \in flagged : holder[l] = w}

\* Variant: the answer to the heartbeat is not read.
BeatDeaf(w, on) ==
  /\ beat[w] = "sleep" /\ session[w] # "none"
  /\ IF Valid(w)
     THEN /\ online' = IF on THEN online \cup {w} ELSE online \ {w}
          /\ UNCHANGED beat
     ELSE /\ beat' = [beat EXCEPT ![w] = "refused"]
          /\ UNCHANGED online
  /\ UNCHANGED <<joined, fresh, owner, leases, closed, handler, dispatch, session, main, current,
                 held, stopped, history>>

\* A heartbeat: the phone is reported; if the lease in work is among the
\* cancelled ones its event is set.  Without a session nothing is sent.
Beat(w, on) ==
  /\ beat[w] = "sleep" /\ session[w] # "none"
  /\ IF Valid(w)
     THEN /\ online' = IF on THEN online \cup {w} ELSE online \ {w}
          /\ stopped' = IF current[w] \in Cancelled(w) THEN stopped \cup {w} ELSE stopped
          /\ UNCHANGED beat
     ELSE /\ beat' = [beat EXCEPT ![w] = "refused"]
          /\ UNCHANGED <<online, stopped>>
  /\ UNCHANGED <<joined, fresh, owner, leases, closed, handler, dispatch, session, main, current,
                 held, history>>

\* Refused: the session, whichever it is by now, is dropped, and the
\* heartbeat thread shakes hands, once.
BeatDrops(w) ==
  /\ beat[w] = "refused"
  /\ session' = [session EXCEPT ![w] = "none"]
  /\ beat' = [beat EXCEPT ![w] = "join"]
  /\ UNCHANGED <<table, leases, closed, handler, dispatch, main, current, held, stopped, history>>

BeatJoin(w, on) ==
  /\ beat[w] = "join"
  /\ Handshake(w, "beat", on)
  /\ beat' = [beat EXCEPT ![w] = "joining"]
  /\ UNCHANGED <<leases, closed, handler, dispatch, main, current, held, stopped, history>>

BeatJoinHeard(w) ==
  /\ beat[w] = "joining"
  /\ Hear(w, "beat")
  /\ beat' = [beat EXCEPT ![w] = "sleep"]
  /\ UNCHANGED <<table, leases, closed, handler, dispatch, main, current, held, stopped, history>>

BeatJoinFails(w) ==
  /\ beat[w] \in {"join", "joining"}
  /\ "handshake" \in Lossy \/ (closed /\ beat[w] = "join")
  /\ beat' = [beat EXCEPT ![w] = "sleep"]
  /\ UNCHANGED <<table, leases, closed, handler, dispatch, session, main, current, held, stopped, history>>

\* More than heartbeat_timeout since the last heartbeat.
Late(w) ==
  /\ w \in fresh /\ stales < MaxStale
  /\ fresh' = fresh \ {w} /\ stales' = stales + 1
  /\ UNCHANGED <<joined, online, owner, leases, closed, handler, dispatch, daemon, runs, crashes>>

-----------------------------------------------------------------------------
(* The main thread of the daemon, and poll_task.                           *)

\* poll_task begins: the session is checked and the state of the phone read.
Poll(w) ==
  /\ main[w] = "poll"
  /\ IF Valid(w)
     THEN /\ poll' = [poll EXCEPT ![w] = IF w \in online THEN "on" ELSE "off"]
          /\ main' = [main EXCEPT ![w] = "wait"]
     ELSE /\ main' = [main EXCEPT ![w] = "refused"]
          /\ UNCHANGED poll
  /\ UNCHANGED <<table, leases, closed, zombie, dispatch, session, beat, current, held, stopped, history>>

\* Refused: the main thread drops the session, whichever it is by now.
PollDrops(w) ==
  /\ main[w] = "refused"
  /\ session' = [session EXCEPT ![w] = "none"]
  /\ main' = [main EXCEPT ![w] = "join"]
  /\ UNCHANGED <<table, leases, closed, handler, dispatch, beat, current, held, stopped, history>>

\* The first lease in the queue for the phone of the daemon.
FirstFor(w, l) ==
  /\ Queued(l) /\ TargetOf[l] = PhoneOf[w]
  /\ \A k \in Leases : Queued(k) /\ TargetOf[k] = PhoneOf[w] => turn[l] <= turn[k]

\* Variant: the lease stays in the queue until its receipt comes.
HandOutKept(w, l) ==
  /\ ~closed /\ FirstFor(w, l)
  /\ holder' = [holder EXCEPT ![l] = w]
  /\ UNCHANGED <<turn, flagged, receipt, done>>

\* The lease moves from the queue to the table of held leases.
HandOut(w, l) ==
  /\ ~closed /\ FirstFor(w, l)
  /\ turn' = Without({l})
  /\ holder' = [holder EXCEPT ![l] = w]
  /\ UNCHANGED <<flagged, receipt, done>>

\* A poll is answered with a lease; execution begins with a fresh event.
Receive(w, l) ==
  /\ main[w] = "wait" /\ poll[w] = "on"
  /\ HandOut(w, l)
  /\ poll' = [poll EXCEPT ![w] = "none"]
  /\ main' = [main EXCEPT ![w] = "work"]
  /\ current' = [current EXCEPT ![w] = l]
  /\ held' = [held EXCEPT ![w] = l]
  /\ stopped' = stopped \ {w}
  /\ runs' = [runs EXCEPT ![l] = @ + 1]
  /\ UNCHANGED <<table, closed, zombie, dispatch, session, beat, stales, crashes>>

\* The daemon gives the request up, the handler at the hub goes on without
\* a listener (bound: one such handler per daemon).
Abandon(w) ==
  /\ "poll" \in Lossy /\ main[w] = "wait" /\ zombie[w] = "none"
  /\ zombie' = [zombie EXCEPT ![w] = poll[w]]
  /\ poll' = [poll EXCEPT ![w] = "none"]
  /\ main' = [main EXCEPT ![w] = "poll"]
  /\ UNCHANGED <<table, leases, closed, dispatch, session, beat, current, held, stopped, history>>

\* It may still take a lease, which then nobody executes.
HandOutUnheard(w, l) ==
  /\ zombie[w] = "on"
  /\ HandOut(w, l)
  /\ zombie' = [zombie EXCEPT ![w] = "none"]
  /\ UNCHANGED <<table, closed, poll, dispatch, daemon, history>>

\* The deadline of a poll passes (or the hub is closed): no task.
PollEmpty(w) ==
  /\ main[w] = "wait"
  /\ poll' = [poll EXCEPT ![w] = "none"]
  /\ main' = [main EXCEPT ![w] = "poll"]
  /\ UNCHANGED <<table, leases, closed, zombie, dispatch, session, beat, current, held, stopped, history>>

ZombieEnds(w) ==
  /\ zombie[w] # "none"
  /\ zombie' = [zombie EXCEPT ![w] = "none"]
  /\ UNCHANGED <<table, leases, closed, poll, dispatch, daemon, history>>

\* execute_task returns: the lease is no longer the current one.
WorkDone(w) ==
  /\ main[w] = "work"
  /\ main' = [main EXCEPT ![w] = "submit"]
  /\ current' = [current EXCEPT ![w] = None]
  /\ stopped' = stopped \ {w}
  /\ UNCHANGED <<table, leases, closed, handler, dispatch, session, beat, held, history>>

\* execute_task raises (the phone is not ready): there is no receipt.
WorkFails(w) ==
  /\ main[w] = "work"
  /\ main' = [main EXCEPT ![w] = "poll"]
  /\ current' = [current EXCEPT ![w] = None] /\ held' = [held EXCEPT ![w] = None]
  /\ stopped' = stopped \ {w}
  /\ UNCHANGED <<table, leases, closed, handler, dispatch, session, beat, history>>

\* Variant: the receipt is stored and the dispatcher not woken.
AcceptSilently(w, l) ==
  /\ holder' = [holder EXCEPT ![l] = None]
  /\ receipt' = [receipt EXCEPT ![l] = "worker"]
  /\ UNCHANGED <<turn, flagged, done>>

\* submit_receipt at the hub.
Accept(w, l) ==
  /\ holder' = [holder EXCEPT ![l] = None]
  /\ receipt' = [receipt EXCEPT ![l] = "worker"]
  /\ done' = done \cup {l}
  /\ UNCHANGED <<turn, flagged>>

\* The receipt is sent once, with the session of that moment; whatever the
\* answer is, the daemon goes on polling.
Submit(w) ==
  /\ main[w] = "submit"
  /\ \/ Valid(w) /\ holder[held[w]] = w /\ Accept(w, held[w])
     \/ ~(Valid(w) /\ holder[held[w]] = w) /\ UNCHANGED leases
     \/ "receipt" \in Lossy /\ UNCHANGED leases
  /\ main' = [main EXCEPT ![w] = "poll"]
  /\ held' = [held EXCEPT ![w] = None]
  /\ UNCHANGED <<table, closed, handler, dispatch, session, beat, current, stopped, history>>

-----------------------------------------------------------------------------
(* Crashes.                                                                *)

\* A daemon is started again.
Crash(w) ==
  /\ crashes < MaxCrash /\ crashes' = crashes + 1
  /\ session' = [session EXCEPT ![w] = "none"] /\ owner' = [owner EXCEPT ![w] = "none"]
  /\ main' = [main EXCEPT ![w] = "join"] /\ beat' = [beat EXCEPT ![w] = "sleep"]
  /\ current' = [current EXCEPT ![w] = None] /\ held' = [held EXCEPT ![w] = None]
  /\ stopped' = stopped \ {w}
  /\ zombie' = [zombie EXCEPT ![w] = IF poll[w] # "none" THEN poll[w] ELSE @]
  /\ poll' = [poll EXCEPT ![w] = "none"]
  /\ UNCHANGED <<joined, fresh, online, leases, closed, dispatch, runs, stales>>

\* The server is started again: sessions, leases and dispatchers are gone,
\* the daemons keep their sessions and what they execute.
Restart ==
  /\ crashes < MaxCrash /\ crashes' = crashes + 1
  /\ joined' = {} /\ fresh' = {} /\ online' = {} /\ owner' = [w \in Workers |-> "none"]
  /\ turn' = Without(Leases) /\ holder' = [l \in Leases |-> None]
  /\ closed' = FALSE
  /\ poll' = [w \in Workers |-> "none"] /\ zombie' = [w \in Workers |-> "none"]
  /\ main' = [w \in Workers |-> IF main[w] \in {"wait", "joining"} THEN "poll" ELSE main[w]]
  /\ beat' = [w \in Workers |-> IF beat[w] = "joining" THEN "sleep" ELSE beat[w]]
  /\ caller' = [l \in Leases |-> IF caller[l] = "idle" THEN "idle" ELSE "answered"]
  /\ answer' = [l \in Leases |-> IF caller[l] \in {"waiting", "expired"} THEN "gone" ELSE answer[l]]
  /\ session' = [w \in Workers |-> IF session[w] = "current" THEN "old" ELSE session[w]]
  /\ UNCHANGED <<flagged, receipt, done, current, held, stopped, runs, stales>>

-----------------------------------------------------------------------------
Dispatcher == \E l \in Leases : Dispatch(l) \/ Return(l) \/ Expire(l) \/ GiveUp(l)
Signals(w) == \/ \E on \in BOOLEAN : Join(w, on) \/ Beat(w, on) \/ BeatJoin(w, on)
              \/ JoinHeard(w) \/ JoinFails(w) \/ BeatDrops(w) \/ BeatJoinHeard(w) \/ BeatJoinFails(w)
              \/ Late(w)
Tasks(w) == \/ Poll(w) \/ PollDrops(w) \/ PollEmpty(w) \/ Abandon(w) \/ ZombieEnds(w)
            \/ WorkDone(w) \/ WorkFails(w) \/ Submit(w)
            \/ \E l \in Leases : Receive(w, l) \/ HandOutUnheard(w, l)

Next ==
  \/ Dispatcher
  \/ \E S \in Batches : CancelBatch(S)
  \/ Close \/ Restart
  \/ \E w \in Workers : Signals(w) \/ Tasks(w) \/ Crash(w)

Spec == Init /\ [][Next]_vars

\* The heartbeat thread of a daemon keeps running, and the driver of the phone
\* stops when it is told to.  A task nobody stops may take as long as it likes.
Heartbeats(w) ==
  /\ WF_vars(\E on \in BOOLEAN : Beat(w, on))
  /\ WF_vars(BeatDrops(w))
  /\ WF_vars(\E on \in BOOLEAN : BeatJoin(w, on))
  /\ WF_vars(BeatJoinHeard(w) \/ BeatJoinFails(w))
Stops(w) ==
  /\ WF_vars(w \in stopped /\ (WorkDone(w) \/ WorkFails(w)))
  /\ WF_vars(Submit(w))
FairSpec == Spec /\ \A w \in Workers : Heartbeats(w) /\ Stops(w)

-----------------------------------------------------------------------------
(* What holds.                                                             *)

\* Whatever is lost, retried, cancelled or restarted: a task is executed at
\* most once (the lease leaves the queue in the critical section that hands it
\* to a worker).
ExecutedOnce == \A l \in Leases : runs[l] <= 1

\* What the dispatcher is told agrees with what happened on the phone: a task
\* reported as cancelled in the queue was never executed and will not be, and
\* a receipt comes from an execution.
AnswerIsTrue ==
  \A l \in Leases :
    /\ answer[l] = "queue" => runs[l] = 0
    /\ answer[l] = "worker" => runs[l] = 1

\* A lease somebody waits for is in the queue or with a worker until it is
\* ended: none falls between the queue and the table of held leases.
NoLostLease ==
  \A l \in Leases : caller[l] \in {"waiting", "expired"} /\ l \notin done =>
    Queued(l) \/ holder[l] # None

\* A lease in the queue is nowhere else: no worker holds it or has executed it,
\* it has not ended, its dispatcher still waits for it and no other has its turn.
QueueApart ==
  \A l \in Leases : Queued(l) =>
    /\ holder[l] = None /\ runs[l] = 0
    /\ l \notin done /\ caller[l] \in {"waiting", "expired"}
    /\ \A k \in Leases : turn[k] = turn[l] => k = l

Place == [l \in Leases |->
  IF caller[l] = "idle" THEN "none"
  ELSE IF Queued(l) THEN "queued"
  ELSE IF holder[l] # None THEN holder[l]
  ELSE IF receipt[l] = "worker" THEN "reported" ELSE "ended"]
Caller == [l \in Leases |-> IF caller[l] = "expired" THEN "waiting" ELSE caller[l]]

\* The hub keeps the contract of leases: handed out once, never after they are
\* withdrawn, never left in the queue once their dispatcher has its answer.
C == INSTANCE LeaseContract WITH place <- Place, caller <- Caller
Contract == C!ContractSpec

\* A cancelled lease that a worker executes is heard of by the worker: its
\* event is set, unless it is done with the lease first.  Re-handshakes of both
\* threads, refused sessions and restarts of the server do not get in the way;
\* handshakes that are lost do, so the runs leave them out of Lossy.
StopHeard ==
  \A l \in Leases, w \in Workers :
    (l \in flagged /\ holder[l] = w /\ current[w] = l)
      ~> (w \in stopped \/ current[w] # l \/ holder[l] # w)

-----------------------------------------------------------------------------
(* What the comments say and the code does not do.                         *)

\* "Kept among the active leases until the heartbeat delivers the stop and the
\* receipt is reported" (cancel_lease): a cancelled lease leaves its worker in
\* the end.  It does not when execute_task raises.
CancelConfirmed ==
  \A l \in Leases, w \in Workers :
    (l \in flagged /\ holder[l] = w) ~> (holder[l] # w)
=============================================================================
