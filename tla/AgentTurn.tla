------------------------------- MODULE AgentTurn -------------------------------
(***************************************************************************)
(* A turn of a conversation: agent.py (_stream_ai_loop) consumes the events *)
(* of core/agent_runtime.py (run), which core/runtime_recorder.py writes to *)
(* core/execution_ledger.py on their way; session.py keeps the messages and *)
(* gives the history of the next turn.                                      *)
(*                                                                          *)
(* One session, whose lock makes its turns follow each other.  An event is  *)
(* recorded first and handled by the agent afterwards; at a yield to the    *)
(* client the generators are suspended, and may be closed there (Leave).    *)
(* A message is a record: its kind and the ids of the tool calls it asks    *)
(* for or answers.  A message without tool calls keeps neither.             *)
(***************************************************************************)
EXTENDS StepBudget, FiniteSets, SequencesExt

CONSTANTS Calls,        \* calls of tools as the model spells them (name and arguments)
          Key,            \* function: the canonical form of a call
          Query,          \* canonical calls of read-only tools
          Reuse,          \* canonical calls of tools that give their receipt again
          Threshold,      \* LoopDetector.threshold
          Retries,        \* max_retries of the runtime
          Batch,          \* bound: tool calls in an answer of the model
          MaxHistory,     \* max_history of the session manager
          MaxTalk,        \* compact_messages: plain messages kept (6)
          RecentRounds,   \* policy.recent_tool_rounds
          MaxTurns,       \* bound: turns of the session
          Settings        \* instances: see `setting`

ASSUME TurnAssumption ==
  /\ Calls # {} /\ Query \subseteq {Key[c] : c \in Calls} /\ Reuse \subseteq {Key[c] : c \in Calls}
  /\ Query \cap Reuse = {}
  /\ {Threshold, Batch, MaxHistory, RecentRounds, MaxTurns} \subseteq Nat \ {0}
  /\ {Retries, MaxTalk} \subseteq Nat
  /\ Settings \subseteq [adaptive : BOOLEAN, turns : 1 .. MaxTurns, batch : 1 .. Batch,
                          calls : SUBSET Calls, limit : Nat]

VARIABLES messages,   \* Session.messages, in memory and in the database
          usage,      \* Session.token_usage
          setting,    \* policy.enabled, daily_token_limit (in calls of the model),
                      \* and what users and model do at most
          no,         \* number of turns so far
          ledger,     \* executions.status of each turn
          told,       \* what the client of each turn was told in the end
          sent,       \* the messages last given to the model
          turn        \* the turn in progress: local state of the generators

vars == <<messages, usage, setting, no, ledger, told, sent, turn>>

-------------------------------------------------------------------------------
(* Messages.                                                                *)

Text(kind) == [kind |-> kind, ids |-> << >>]
Asks(ids) == [kind |-> "calls", ids |-> ids]
Answers(id) == [kind |-> "tool", ids |-> <<id>>]
Ids == (1 .. MaxTurns) \X (1 .. HardSteps) \X (1 .. Batch)
Kinds == {"user", "reply", "calls", "tool"}
Messages == [kind : Kinds, ids : UNION {[1 .. k -> Ids] : k \in 0 .. Batch}]

(* The messages of s at the places I, in their order. *)
Picked(s, I) ==
  [k \in 1 .. Cardinality(I) |-> s[CHOOSE i \in I : Cardinality({j \in I : j < i}) = k - 1]]

(* _group_messages_to_blocks: a result belongs to the message that asked    *)
(* for it, everything else stands alone; a block is named by its first      *)
(* message.                                                                 *)
Block(s, i) ==
  LET asked == {j \in 1 .. i - 1 : s[i].kind = "tool" /\ s[j].kind = "calls"
                                     /\ s[i].ids[1] \in ToSet(s[j].ids)}
  IN  IF asked = {} THEN i ELSE CHOOSE j \in asked : TRUE

(* The newest blocks: always the last one, and no more messages than        *)
(* max_history; the budget of bytes may cut anywhere before.                *)
Windows(s) ==
  LET from(b) == {i \in 1 .. Len(s) : Block(s, i) >= b}
      starts == {Block(s, i) : i \in 1 .. Len(s)}
  IN  {from(b) : b \in {b \in starts : from(b) = {i \in from(b) : Block(s, i) = b}
                                         \/ Cardinality(from(b)) <= MaxHistory}}

SanitizedNot(h) == h
(* get_history: a message whose calls are not followed by a result loses them. *)
Sanitized(h) ==
  [i \in DOMAIN h |->
     IF h[i].kind = "calls" /\ (i = Len(h) \/ h[i + 1].kind # "tool")
     THEN Text("reply") ELSE h[i]]

(* _validate_messages: a result that nobody is waiting for is dropped.      *)
Validated(h) ==
  LET waited(i) == \E j \in 1 .. i - 1 :
                     /\ h[j].kind = "calls" /\ h[i].ids[1] \in ToSet(h[j].ids)
                     /\ \A k \in j + 1 .. i - 1 : h[k] # h[i]
  IN  Picked(h, {i \in DOMAIN h : h[i].kind = "tool" => waited(i)})

Histories(s) == {Validated(Sanitized(Picked(s, w))) : w \in Windows(s)}

(* compact_messages: the last plain messages of the history, the board of   *)
(* evidence, and the last rounds of tools of this turn as a whole.          *)
LastOf(s, k) == SubSeq(s, Greatest(1, Len(s) - k + 1), Len(s))
Compacted(work, base) ==
  LET talk == Picked(work, {i \in 1 .. base : work[i].kind \in {"user", "reply"}})
      now == SubSeq(work, base + 1, Len(work))
      asked == {i \in DOMAIN now : now[i].kind = "calls"}
      recent == {i \in asked : Cardinality({j \in asked : j >= i}) = Least(RecentRounds, Cardinality(asked))}
      kept == IF asked = {} THEN LastOf(now, 4)
              ELSE SubSeq(now, CHOOSE i \in recent : TRUE, Len(now))
  IN  LastOf(talk, MaxTalk) \o <<Text("user")>> \o kept

-------------------------------------------------------------------------------
(* LoopDetector: `seen` are the last 2 * Threshold calls, this one included. *)

Looping(seen) ==
  LET n == Len(seen)
      streak == n >= Threshold /\ \A i \in n - Threshold + 1 .. n : seen[i] = seen[n]
      cycle == n = 2 * Threshold /\ \A i \in 3 .. n : seen[i] = seen[i - 2]
  IN  streak \/ cycle

-------------------------------------------------------------------------------

NoTurn == [pc |-> "idle", step |-> 0, ctl |-> Controller(FALSE), work |-> << >>, base |-> 0,
           calls |-> << >>, at |-> 1, final |-> FALSE, cut |-> FALSE, recovered |-> FALSE,
           attempt |-> 0, seen |-> << >>, known |-> {}, receipts |-> {},
           ran |-> << >>, budget |-> 0, stale |-> FALSE]

Init ==
  /\ messages = << >> /\ usage = 0 /\ no = 0
  /\ setting \in Settings
  /\ ledger = [n \in 1 .. MaxTurns |-> "none"]
  /\ told = [n \in 1 .. MaxTurns |-> "nothing"]
  /\ sent = << >>
  /\ turn = NoTurn

At(pc) == turn.pc = pc
Store(m) == messages' = Append(messages, m)
(* A status that is final stays (_project_in_txn, finish).                  *)
RecordOver(status) == ledger' = [ledger EXCEPT ![no] = status]
Record(status) == ledger' = [ledger EXCEPT ![no] = IF @ = "running" THEN status ELSE @]

(* A message comes and is stored.                                           *)
Begin ==
  /\ At("idle") /\ no < setting.turns
  /\ no' = no + 1
  /\ Store(Text("user"))
  /\ turn' = [NoTurn EXCEPT !.pc = "asked", !.ctl = Controller(setting.adaptive), !.budget = usage]
  /\ UNCHANGED <<usage, setting, ledger, told, sent>>

(* The limit is reached already: nothing is recorded, the client is told.   *)
Refuse ==
  /\ At("asked") /\ turn.budget >= setting.limit
  /\ Store(Text("reply"))
  /\ told' = [told EXCEPT ![no] = "error"]
  /\ turn' = NoTurn
  /\ UNCHANGED <<usage, setting, no, ledger, sent>>

Prepare ==
  /\ At("asked") /\ turn.budget < setting.limit
  /\ \E h \in Histories(messages) :
       turn' = [turn EXCEPT !.pc = "plan", !.work = h, !.base = Len(h)]
  /\ ledger' = [ledger EXCEPT ![no] = "running"]
  /\ UNCHANGED <<messages, usage, setting, no, told, sent>>

MaxStepsLate ==
  /\ At("plan") /\ turn.step > HardSteps
  /\ Record("failed")
  /\ turn' = [turn EXCEPT !.pc = "failing", !.final = FALSE]
  /\ UNCHANGED <<messages, usage, setting, no, told, sent>>

(* The head of the loop: the steps are used up, or the controller decides   *)
(* and the model is called with the full or the compacted messages.         *)
MaxSteps ==
  /\ At("plan") /\ turn.step >= HardSteps
  /\ Record("failed")
  /\ turn' = [turn EXCEPT !.pc = "failing", !.final = FALSE]
  /\ UNCHANGED <<messages, usage, setting, no, told, sent>>

Plan ==
  /\ At("plan") /\ turn.step < HardSteps
  /\ LET d == Decide(turn.ctl, turn.step + 1)
         (* the instruction is given once, with the decision *)
         instructed == d.action = "replan" \/ (d.action = "finalize" /\ ~ turn.ctl.finalizing)
         work == IF instructed THEN Append(turn.work, Text("user")) ELSE turn.work
     IN  /\ turn' = [turn EXCEPT !.pc = "call", !.ctl = d.ctl, !.work = work, !.attempt = 0,
                                 !.final = d.action = "finalize"]
         /\ \/ sent' = work
            \/ d.ctl.enabled /\ sent' = Compacted(work, turn.base)
  /\ UNCHANGED <<messages, usage, setting, no, ledger, told>>

(* The call fails before any output, for a reason that may pass.            *)
Retry ==
  /\ At("call") /\ turn.attempt < Retries
  /\ turn' = [turn EXCEPT !.attempt = @ + 1]
  /\ UNCHANGED <<messages, usage, setting, no, ledger, told, sent>>

CallFails ==
  /\ At("call")
  /\ Record("failed")
  /\ turn' = [turn EXCEPT !.pc = "failing"]
  /\ UNCHANGED <<messages, usage, setting, no, told, sent>>

(* The model has answered; its usage is logged, as reported or estimated.   *)
(* The agent reads the total from the session object it got at the start.   *)
Answer ==
  /\ At("call")
  /\ usage' = usage + 1
  /\ \E n \in 0 .. setting.batch, cut \in BOOLEAN :
       \E calls \in [1 .. n -> setting.calls] :
         turn' = [turn EXCEPT !.pc = "answered", !.calls = calls, !.cut = cut /\ n = 0,
                              !.budget = IF turn.stale THEN @ ELSE usage + 1]
  /\ UNCHANGED <<messages, setting, no, ledger, told, sent>>

(* STEP_END finds the limit reached: the tools asked for are not run.       *)
OverLimit ==
  /\ At("answered") /\ turn.budget >= setting.limit
  /\ Record("failed")
  /\ turn' = [turn EXCEPT !.pc = "failing"]
  /\ UNCHANGED <<messages, usage, setting, no, told, sent>>

InLimit == At("answered") /\ turn.budget < setting.limit
CanRecover == turn.cut /\ ~ turn.recovered /\ turn.step + 1 < HardSteps

(* The answer was cut off: once in a turn it may be continued.              *)
Continue ==
  /\ InLimit /\ turn.calls = << >> /\ CanRecover
  /\ \E more \in {<< >>, <<Text("reply"), Text("user")>>} :
       turn' = [turn EXCEPT !.pc = "plan", !.step = @ + 1, !.recovered = TRUE,
                            !.work = @ \o more]
  /\ UNCHANGED <<messages, usage, setting, no, ledger, told, sent>>

(* The final answer, recorded before the agent handles it.                  *)
Conclude ==
  /\ InLimit
  /\ \/ turn.calls = << >> /\ ~ CanRecover
     \/ turn.calls # << >> /\ turn.final
  /\ Record("succeeded")
  /\ turn' = [turn EXCEPT !.pc = "reply"]
  /\ UNCHANGED <<messages, usage, setting, no, told, sent>>

IdsOf(calls) == [i \in DOMAIN calls |-> <<no, turn.step + 1, i>>]

(* TOOL_CALLS_READY: what the model asked for is stored before it is done.  *)
Announce ==
  /\ InLimit /\ turn.calls # << >> /\ ~ turn.final
  /\ Store(Asks(IdsOf(turn.calls)))
  /\ turn' = [turn EXCEPT !.pc = "tool", !.at = 1, !.work = Append(@, Asks(IdsOf(turn.calls)))]
  /\ UNCHANGED <<usage, setting, no, ledger, told, sent>>

Call == turn.calls[turn.at]
Reused == Key[Call] \in Reuse /\ Key[Call] \in turn.receipts
Cached == Key[Call] \in Query /\ Key[Call] \in turn.known
Seen == IF Reused THEN turn.seen ELSE LastOf(Append(turn.seen, Call), 2 * Threshold)

DeadLoop ==
  /\ At("tool") /\ ~ Reused /\ Looping(Seen)
  /\ Record("failed")
  /\ turn' = [turn EXCEPT !.pc = "failing", !.seen = Seen]
  /\ UNCHANGED <<messages, usage, setting, no, told, sent>>

(* The result is stored and its worth noted; then comes the next call, or   *)
(* the next step.                                                           *)
Proceed(t, gain) ==
  LET answer == Answers(<<no, turn.step + 1, turn.at>>)
      last == turn.at = Len(turn.calls)
  IN  /\ Store(answer)
      /\ turn' = [t EXCEPT
            !.ctl = Recorded(@, turn.step + 1, gain),
            !.work = Append(@, answer), !.seen = Seen,
            !.at = IF last THEN 1 ELSE @ + 1,
            !.calls = IF last THEN << >> ELSE @,
            !.step = IF last THEN @ + 1 ELSE @,
            !.pc = IF last THEN "plan" ELSE "tool"]

(* A receipt given again may read differently once; a query answered from   *)
(* the cache is a duplicate.                                                *)
GiveAgain ==
  /\ At("tool")
  /\ \/ Reused /\ \E gain \in Gains : Proceed(turn, gain)
     \/ /\ ~ Reused /\ Cached /\ ~ Looping(Seen)
        /\ Proceed([turn EXCEPT !.ran = Append(@, [call |-> Call, ok |-> TRUE, run |-> FALSE])], "low")
  /\ UNCHANGED <<usage, setting, no, ledger, told, sent>>

ExecuteOk ==
  /\ At("tool") /\ ~ Reused /\ ~ Cached /\ ~ Looping(Seen)
  /\ \E ok \in BOOLEAN, gain \in Gains :
       Proceed([turn EXCEPT
                  !.ran = Append(@, [call |-> Call, ok |-> ok, run |-> TRUE]),
                  !.receipts = IF ok THEN @ \cup ({Key[Call]} \cap Reuse) ELSE @,
                  !.known = IF ok THEN @ \cup ({Key[Call]} \cap Query) ELSE @], gain)
  /\ UNCHANGED <<usage, setting, no, ledger, told, sent>>

(* While a tool runs for longer than a session may be idle, cleanup_expired *)
(* takes the session out of the cache and the turn keeps an old object.     *)
Execute ==
  /\ At("tool") /\ ~ Reused /\ ~ Cached /\ ~ Looping(Seen)
  /\ \E ok \in BOOLEAN, late \in BOOLEAN :
       \E gain \in IF ok THEN Gains ELSE {"low"} :
         Proceed([turn EXCEPT
                    !.ran = Append(@, [call |-> Call, ok |-> ok, run |-> TRUE]),
                    !.receipts = @ \cup ({Key[Call]} \cap Reuse),
                    !.known = IF ok THEN @ \cup ({Key[Call]} \cap Query) ELSE @,
                    !.stale = @ \/ late], gain)
  /\ UNCHANGED <<usage, setting, no, ledger, told, sent>>

(* The reason of the end is stored and told.  The runtime's DONE follows,   *)
(* and is recorded too when the client still reads.                         *)
Fail ==
  /\ At("failing")
  /\ Store(Text("reply"))
  /\ told' = [told EXCEPT ![no] = "error"]
  /\ Record("succeeded") \/ UNCHANGED ledger
  /\ turn' = NoTurn
  /\ UNCHANGED <<usage, setting, no, sent>>

Reply ==
  /\ At("reply")
  /\ Store(Text("reply"))
  /\ told' = [told EXCEPT ![no] = "reply"]
  /\ turn' = NoTurn
  /\ UNCHANGED <<usage, setting, no, ledger, sent>>

(* The client leaves and the generators are closed at a yield, or the       *)
(* process stops: what is stored stays as it is, the ledger says running.   *)
Abandon ==
  /\ ~ At("idle")
  /\ turn' = NoTurn
  /\ UNCHANGED <<messages, usage, setting, no, ledger, told, sent>>

Step == \/ Refuse \/ Prepare \/ MaxSteps \/ Plan \/ Retry \/ CallFails \/ Answer
        \/ OverLimit \/ Continue \/ Conclude \/ Announce \/ DeadLoop \/ GiveAgain
        \/ Execute \/ Fail \/ Reply

Next == Begin \/ Step \/ Abandon

Spec == Init /\ [][Next]_vars
(* A model call has a timeout and a tool is assumed to return.              *)
FairSpec == Spec /\ WF_vars(Step)

-------------------------------------------------------------------------------
(* What the turn must guarantee.                                            *)

Pcs == {"idle", "asked", "plan", "call", "answered", "tool", "failing", "reply"}
Ran == [call : Calls, ok : BOOLEAN, run : BOOLEAN]

(* Every variable keeps its shape through turns of _stream_ai_loop; the     *)
(* call in work is one of those the model asked for.                        *)
TypeOK ==
  /\ messages \in Seq(Messages) /\ sent \in Seq(Messages)
  /\ usage \in Nat /\ no \in 0 .. MaxTurns /\ setting \in Settings
  /\ ledger \in [1 .. MaxTurns -> {"none", "running", "succeeded", "failed"}]
  /\ told \in [1 .. MaxTurns -> {"nothing", "reply", "error"}]
  /\ turn \in [pc : Pcs, step : 0 .. HardSteps, ctl : Controllers, work : Seq(Messages),
               base : Nat, calls : Seq(Calls), at : 1 .. Batch, final : BOOLEAN,
               cut : BOOLEAN, recovered : BOOLEAN, attempt : 0 .. Retries,
               seen : Seq(Calls), known : SUBSET Query, receipts : SUBSET Reuse,
               ran : Seq(Ran), budget : Nat, stale : BOOLEAN]
  /\ At("tool") => turn.at \in DOMAIN turn.calls

(* The client, the ledger and the session tell the same story: a reply is   *)
(* given only for an execution that succeeded, an error only for one that   *)
(* failed or never began, and what was told is the last message stored.     *)
VerdictAgrees ==
  /\ \A n \in 1 .. MaxTurns :
       /\ told[n] = "reply" => ledger[n] = "succeeded"
       /\ told[n] = "error" => ledger[n] \in {"failed", "none"}
  /\ At("idle") /\ no > 0 /\ told[no] # "nothing" => messages[Len(messages)] = Text("reply")

(* The model is never given a result whose call it cannot see, or a call    *)
(* without any result: whatever turn was abandoned before, wherever the     *)
(* window or the compaction cuts (get_history, compact_messages).           *)
NoOrphans ==
  \A i \in DOMAIN sent :
    /\ sent[i].kind = "tool" =>
         \E j \in 1 .. i - 1 : /\ sent[j].kind = "calls" /\ sent[i].ids[1] \in ToSet(sent[j].ids)
                               /\ \A k \in j + 1 .. i - 1 : sent[k].kind = "tool" /\ sent[k] # sent[i]
    /\ sent[i].kind = "calls" =>
         /\ i < Len(sent) /\ sent[i + 1].kind = "tool"
         /\ sent[i + 1].ids[1] \in ToSet(sent[i].ids)

(* Every call the model is shown has been answered (agent.py, handle: a     *)
(* call apart from its result makes the API refuse the messages).           *)
HistoryAnswered ==
  \A i \in DOMAIN sent :
    sent[i].kind = "calls" =>
      \A k \in DOMAIN sent[i].ids :
        i + k <= Len(sent) /\ sent[i + k] = Answers(sent[i].ids[k])

(* In one turn, however the model spells and orders its calls: a tool that  *)
(* gives its receipt again runs once, and a query is not run again once it  *)
(* has succeeded.  Among the calls that are run or answered from the cache  *)
(* none comes Threshold times in a row, and no two take turns as often.     *)
ToolsOnce ==
  LET r == turn.ran
  IN  /\ \A i, j \in DOMAIN r :
           i < j /\ r[i].run /\ r[j].run /\ Key[r[i].call] = Key[r[j].call] =>
             Key[r[j].call] \notin Reuse /\ ~ (Key[r[j].call] \in Query /\ r[i].ok)
      /\ \A i \in 1 .. Len(r) - Threshold + 1 :
           \E j \in i .. i + Threshold - 1 : r[j].call # r[i].call
      /\ \A i \in 1 .. Len(r) - 2 * Threshold + 1 :
           \E j \in i + 2 .. i + 2 * Threshold - 1 : r[j].call # r[j - 2].call

(* A turn ends: the loop is bounded by its steps, its retries and its one   *)
(* continuation.                                                            *)
TurnEnds == \A n \in 1 .. MaxTurns : (no = n) ~> (no > n \/ At("idle"))

===============================================================================
