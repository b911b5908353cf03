---------------------------- MODULE ExecutionLedger ----------------------------
(***************************************************************************)
(* One execution in the ledger (core/execution_ledger.py) and the recorder   *)
(* that writes its events while they are consumed (runtime_recorder.py).     *)
(*                                                                          *)
(* The recorder numbers the events, keeps deltas of text back and writes    *)
(* them in batches, every other event at once.  A transaction inserts the   *)
(* event and projects it onto the row of the execution and the index of     *)
(* tool calls.  Any write may fail, which stops nobody; the stream may      *)
(* raise, be given up by its consumer, or end with the process.  Any events *)
(* may come: which ones do is the matter of AgentTurn.                      *)
(***************************************************************************)
EXTENDS Naturals, Sequences, FiniteSets

CONSTANTS Calls,       \* ids of tool calls
          MaxEvents,   \* bound: events of the stream
          MaxFailures  \* bound: writes that fail

VARIABLES recorder,  \* new, idle, flush, record, over, dead
          happened,  \* the events of the stream; the number of the next is its length
          deltas,    \* events kept back
          events,    \* runtime_events
          execution, \* executions
          calls,     \* tool_invocations
          following, \* what follows the flush
          failures

ASSUME LedgerAssumption == MaxEvents \in Nat /\ MaxFailures \in Nat

ledgerVars == <<recorder, happened, deltas, events, execution, calls, following, failures>>

Event(type, call) == [type |-> type, call |-> call]
NoCall == "none"
Events == {Event(t, NoCall) : t \in {"TEXT", "STEP_START", "USAGE", "ERROR", "MAX_STEPS", "DONE"}}
            \cup {Event(t, c) : t \in {"TOOL_CALL", "TOOL_RESULT"}, c \in Calls}
Terminal == [ERROR |-> "failed", MAX_STEPS |-> "max_steps", DONE |-> "succeeded"]
NoExecution == [status |-> "none", steps |-> 0, tokens |-> 0]

LedgerInit ==
  /\ recorder = "new"
  /\ happened = <<>> /\ deltas = <<>> /\ events = <<>>
  /\ execution = NoExecution
  /\ calls = [c \in Calls |-> [called |-> FALSE, returned |-> FALSE]]
  /\ following = "idle"
  /\ failures = 0

MayFail == failures < MaxFailures /\ failures' = failures + 1
Works == failures' = failures

StartExecution ==
  /\ recorder = "new" /\ recorder' = "idle"
  /\ \/ Works /\ execution' = [NoExecution EXCEPT !.status = "running"]
     \/ MayFail /\ execution' = execution
  /\ UNCHANGED <<happened, deltas, events, calls, following>>

(* _project_in_txn, for one event: only a running execution changes.         *)
Steps(n) == {i \in 1 .. n.seq + 1 : happened[i].type = "STEP_START"}
Changed(r, n) ==
  CASE n.event.type \in DOMAIN Terminal -> [r EXCEPT !.status = Terminal[n.event.type]]
    [] n.event.type = "STEP_START" -> [r EXCEPT !.steps = Cardinality(Steps(n))]
    [] n.event.type = "USAGE" -> [r EXCEPT !.tokens = r.tokens + 1]
    [] OTHER -> r
ProjectedLate(r, n) == IF r.status = "none" THEN r ELSE Changed(r, n)
Projected(r, n) == IF r.status # "running" THEN r ELSE Changed(r, n)
Indexed(cs, e) ==
  CASE e.type = "TOOL_CALL" -> [cs EXCEPT ![e.call].called = TRUE]
    [] e.type = "TOOL_RESULT" -> [cs EXCEPT ![e.call].returned = TRUE]
    [] OTHER -> cs

(* record_batch, record_and_project: events and what follows from them, or   *)
(* nothing; an event without its execution breaks the foreign key.          *)
Written(new, projected, indexed) ==
  \/ /\ execution.status # "none" /\ Works
     /\ events' = events \o new /\ execution' = projected /\ calls' = indexed
  \/ /\ (execution.status = "none" /\ Works) \/ MayFail
     /\ UNCHANGED <<events, execution, calls>>

(* record: a delta is kept back, and may be due to be written with the rest; *)
(* before any other event the deltas are written.                           *)
Happen ==
  /\ recorder = "idle" /\ Len(happened) < MaxEvents
  /\ \E e \in Events :
       /\ happened' = Append(happened, e)
       /\ IF e.type = "TEXT"
          THEN /\ deltas' = Append(deltas, [seq |-> Len(happened), event |-> e])
               /\ recorder' \in {"idle", "flush"} /\ following' = "idle"
          ELSE recorder' = "flush" /\ following' = "record" /\ UNCHANGED deltas
  /\ UNCHANGED <<events, execution, calls, failures>>

(* flush: deltas are projected onto nothing; what cannot be written is forgotten. *)
Flush ==
  /\ recorder = "flush" /\ recorder' = following /\ following' = "idle"
  /\ deltas' = <<>>
  /\ IF deltas = <<>> THEN UNCHANGED <<events, execution, calls, failures>>
     ELSE Written(deltas, execution, calls)
  /\ UNCHANGED happened
RecordEvent ==
  /\ recorder = "record" /\ recorder' = "idle"
  /\ LET n == [seq |-> Len(happened) - 1, event |-> happened[Len(happened)]]
     IN  Written(<<n>>, Projected(execution, n), Indexed(calls, n.event))
  /\ UNCHANGED <<happened, deltas, following>>

(* The stream ends, or raises; its consumer gives it up, and the generator   *)
(* is closed without a flush.                                               *)
End ==
  /\ recorder = "idle" /\ recorder' = "flush" /\ following' \in {"over", "raised"}
  /\ UNCHANGED <<happened, deltas, events, execution, calls, failures>>
GiveUpStream ==
  /\ recorder = "idle" /\ recorder' = "given up"
  /\ UNCHANGED <<happened, deltas, events, execution, calls, following, failures>>

(* finish: the status is read, and written where it still is running.        *)
Finish ==
  /\ recorder \in {"over", "raised", "given up"} /\ recorder' = "dead"
  /\ \/ MayFail /\ execution' = execution
     \/ /\ Works
        /\ execution' = IF execution.status # "running" THEN execution
                  ELSE [execution EXCEPT !.status = IF recorder = "over" THEN "succeeded" ELSE "failed"]
  /\ UNCHANGED <<happened, deltas, events, calls, following>>

RecorderStops ==
  /\ recorder \notin {"new", "dead"} /\ recorder' = "dead"
  /\ UNCHANGED <<happened, deltas, events, execution, calls, following, failures>>

LedgerNext == StartExecution \/ Happen \/ Flush \/ RecordEvent \/ End \/ GiveUpStream \/ Finish \/ RecorderStops
LedgerSpec == LedgerInit /\ [][LedgerNext]_ledgerVars

-------------------------------------------------------------------------------
(* The events that count: those up to and including the first terminal one.  *)
Terminals == {i \in 1 .. Len(events) : events[i].event.type \in DOMAIN Terminal}
Counted == {i \in 1 .. Len(events) : \A j \in Terminals : i <= j}
CountedOf(type) == {i \in Counted : events[i].event.type = type}

(* What the ledger says of an execution is what happened: its events are     *)
(* those of the stream, in their order, with a gap only where a write       *)
(* failed; and the totals and the verdict follow from the events that are    *)
(* there, up to and including the first terminal one.                       *)
LedgerTrue ==
  /\ \A i \in 1 .. Len(events) : events[i].event = happened[events[i].seq + 1]
  /\ \A i \in 2 .. Len(events) : events[i - 1].seq < events[i].seq
  /\ execution.tokens = Cardinality(CountedOf("USAGE"))
  /\ CountedOf("STEP_START") = {} => execution.steps = 0
  /\ \A i \in CountedOf("STEP_START") :
       (\A j \in CountedOf("STEP_START") : j <= i) => execution.steps = Cardinality(Steps(events[i]))
  /\ \A i \in Terminals \cap Counted : execution.status = Terminal[events[i].event.type]
  /\ \A c \in Calls :
       calls[c].returned = \E i \in 1 .. Len(events) : events[i].event = Event("TOOL_RESULT", c)
  /\ failures = 0 /\ recorder \in {"over", "raised"} => Len(events) = Len(happened)
===============================================================================
