---------------------------- MODULE AgentTurnProofs ----------------------------
(***************************************************************************)
(* Proofs about AgentTurn for any tools, settings and number of turns: what *)
(* the client is told agrees with the ledger and the session; the caches of *)
(* results together with the detector of loops keep a turn from repeating   *)
(* its tools; and the model is never given a call apart from its results.   *)
(* The first two leave open what the model is given (the windows of the     *)
(* history, the compaction); the last part is about nothing else.           *)
(***************************************************************************)
EXTENDS AgentTurn, FiniteSetTheorems, WellFoundedInduction, TLAPS

\* A turn has its fields; those that only decide what the model is given, or
\* how much it is asked, may hold anything.
IsTurn(t) ==
  t \in [pc : Pcs, step : Nat, ctl : {t.ctl}, work : {t.work}, base : {t.base},
         calls : Seq(Calls), at : Nat, final : {t.final}, cut : {t.cut},
         recovered : {t.recovered}, attempt : {t.attempt}, seen : Seq(Calls),
         known : {t.known}, receipts : {t.receipts}, ran : Seq(Ran),
         budget : {t.budget}, stale : {t.stale}]

Message == [kind : Kinds, ids : Seq(Nat \X Nat \X Nat)]

Shape ==
  /\ messages \in Seq(Message)
  /\ no \in 0 .. MaxTurns /\ setting \in Settings
  /\ ledger \in [1 .. MaxTurns -> {"none", "running", "succeeded", "failed"}]
  /\ told \in [1 .. MaxTurns -> {"nothing", "reply", "error"}]
  /\ IsTurn(turn)
  /\ turn.pc # "idle" => no # 0
  /\ turn.pc = "tool" => turn.at \in DOMAIN turn.calls

\* What the ledger says of the turn in progress, by the place it has reached.
Working == {"plan", "call", "answered", "tool"}
Entry(pc) == CASE pc = "asked" -> "none"
                   [] pc \in Working -> "running"
                   [] pc = "failing" -> "failed"
                   [] pc = "reply" -> "succeeded"
Tale ==
  /\ \A n \in 1 .. MaxTurns : n > no => ledger[n] = "none" /\ told[n] = "nothing"
  /\ turn.pc # "idle" => told[no] = "nothing" /\ ledger[no] = Entry(turn.pc)
  /\ VerdictAgrees

\* The calls the detector has seen are the newest of those that were run or
\* answered from the cache; the caches hold what must not be run again.
Newest(seen, r) ==
  /\ Len(seen) = Least(2 * Threshold, Len(r))
  /\ \A k \in 0 .. Len(seen) - 1 : seen[Len(seen) - k] = r[Len(r) - k].call
Cachings(t) ==
  \A i \in DOMAIN t.ran :
    LET key == Key[t.ran[i].call]
    IN  t.ran[i].run => /\ key \in Reuse => key \in t.receipts
                        /\ key \in Query /\ t.ran[i].ok => key \in t.known
Unrepeated(r) ==
  \A i, j \in DOMAIN r :
    i < j /\ r[i].run /\ r[j].run /\ Key[r[i].call] = Key[r[j].call] =>
      Key[r[j].call] \notin Reuse /\ ~ (Key[r[j].call] \in Query /\ r[i].ok)
Unlooped(r) ==
  /\ \A i \in 1 .. Len(r) - Threshold + 1 :
       \E j \in i .. i + Threshold - 1 : r[j].call # r[i].call
  /\ \A i \in 1 .. Len(r) - 2 * Threshold + 1 :
       \E j \in i + 2 .. i + 2 * Threshold - 1 : r[j].call # r[j - 2].call
Logged ==
  /\ Cachings(turn) /\ Unrepeated(turn.ran) /\ Unlooped(turn.ran)
  /\ turn.pc \in {"asked"} \cup Working => Newest(turn.seen, turn.ran)

-------------------------------------------------------------------------------
(* A turn keeps its fields.                                                 *)

LEMMA NoTurnIsTurn ==
  IsTurn(NoTurn) /\ NoTurn.pc = "idle" /\ NoTurn.ran = << >> /\ NoTurn.seen = << >>
BY DEF IsTurn, NoTurn, Pcs

LEMMA InitShape == ASSUME TurnAssumption, Init PROVE Shape
<1>1. 0 \in 0 .. MaxTurns
  BY DEF TurnAssumption
<1>2. QED
  BY <1>1, NoTurnIsTurn DEF Init, Shape

LEMMA StoreShape ==
  ASSUME messages \in Seq(Message), NEW m \in Message, Store(m)
  PROVE  messages' \in Seq(Message) /\ Len(messages') = Len(messages) + 1
                                    /\ messages'[Len(messages')] = m
BY DEF Store

LEMMA TextIsMessage == \A kind \in Kinds : Text(kind) \in Message
BY DEF Text, Message

LEMMA RecordShape ==
  ASSUME Shape, NEW status \in {"none", "running", "succeeded", "failed"}, Record(status),
         no # 0
  PROVE  /\ ledger' \in [1 .. MaxTurns -> {"none", "running", "succeeded", "failed"}]
         /\ \A n \in 1 .. MaxTurns : n # no => ledger'[n] = ledger[n]
         /\ ledger'[no] = IF ledger[no] = "running" THEN status ELSE ledger[no]
BY DEF Shape, Record

(* What a step of the runtime that neither begins nor ends the turn leaves. *)
LEMMA ProceedShape ==
  ASSUME Shape, NEW t, IsTurn(t), t.pc = "tool", t.calls = turn.calls, t.at = turn.at,
         t.step = turn.step, turn.pc = "tool", NEW gain, Proceed(t, gain),
         Seen \in Seq(Calls)
  PROVE  /\ IsTurn(turn') /\ messages' \in Seq(Message)
         /\ turn'.pc \in {"plan", "tool"} /\ (turn'.pc = "tool" => turn'.at \in DOMAIN turn'.calls)
         /\ turn'.ran = t.ran /\ turn'.seen = Seen
         /\ turn'.known = t.known /\ turn'.receipts = t.receipts
<1> DEFINE last == turn.at = Len(turn.calls)
           answer == Answers(<<no, turn.step + 1, turn.at>>)
<1>1. /\ no \in Nat /\ turn.step \in Nat /\ turn.at \in Nat /\ turn.calls \in Seq(Calls)
      /\ turn.at \in 1 .. Len(turn.calls) /\ messages \in Seq(Message)
  BY DEF Shape, IsTurn
<1>2. answer \in Message
  <2>1. <<<<no, turn.step + 1, turn.at>>>> \in Seq(Nat \X Nat \X Nat)
    BY <1>1
  <2>2. QED
    BY <2>1 DEF Answers, Message, Kinds
<1>3. messages' \in Seq(Message)
  <2>1. Store(answer)
    BY DEF Proceed
  <2>2. QED
    BY <1>1, <1>2, <2>1, StoreShape
<1>4. turn' = [t EXCEPT
                 !.ctl = Recorded(@, turn.step + 1, gain),
                 !.work = Append(@, answer), !.seen = Seen,
                 !.at = IF last THEN 1 ELSE @ + 1,
                 !.calls = IF last THEN << >> ELSE @,
                 !.step = IF last THEN @ + 1 ELSE @,
                 !.pc = IF last THEN "plan" ELSE "tool"]
  BY DEF Proceed
<1>5. /\ turn'.pc = (IF last THEN "plan" ELSE "tool")
      /\ turn'.at = (IF last THEN 1 ELSE t.at + 1)
      /\ turn'.calls = (IF last THEN << >> ELSE t.calls)
      /\ turn'.step = (IF last THEN t.step + 1 ELSE t.step)
      /\ turn'.ran = t.ran /\ turn'.seen = Seen
      /\ turn'.known = t.known /\ turn'.receipts = t.receipts
  BY <1>4 DEF IsTurn
<1>6. IsTurn(turn')
  <2> DEFINE ctl == Recorded(t.ctl, turn.step + 1, gain)
             work == Append(t.work, answer)
             at == IF last THEN 1 ELSE t.at + 1
             calls == IF last THEN << >> ELSE t.calls
             step == IF last THEN t.step + 1 ELSE t.step
             pc == IF last THEN "plan" ELSE "tool"
  <2>1. turn' = [t EXCEPT !.ctl = ctl, !.work = work, !.seen = Seen, !.at = at,
                          !.calls = calls, !.step = step, !.pc = pc]
    BY <1>4 DEF IsTurn
  <2>2. at \in Nat /\ calls \in Seq(Calls) /\ step \in Nat /\ pc \in Pcs
    BY DEF IsTurn, Pcs
  <2>3. QED
    <3> HIDE DEF ctl, work, last, answer, at, calls, step, pc
    <3>1. QED
      BY <2>1, <2>2, ZenonT(60) DEF IsTurn
<1>7. turn'.pc = "tool" => turn'.at \in DOMAIN turn'.calls
  BY <1>1, <1>5
<1>8. QED
  BY <1>3, <1>5, <1>6, <1>7
LEMMA LastOfFacts ==
  ASSUME NEW S, NEW s \in Seq(S), NEW k \in Nat \ {0}
  PROVE  /\ LastOf(s, k) \in Seq(S) /\ Len(LastOf(s, k)) = Least(k, Len(s))
         /\ \A i \in 0 .. Len(LastOf(s, k)) - 1 : LastOf(s, k)[Len(LastOf(s, k)) - i] = s[Len(s) - i]
<1> DEFINE first == Greatest(1, Len(s) - k + 1)
<1>1. first \in 1 .. Len(s) + 1 /\ Len(s) - first + 1 = Least(k, Len(s))
  <2>1. Len(s) \in Nat /\ k \in Nat /\ k # 0
    OBVIOUS
  <2>2. \A n \in Nat : /\ Greatest(1, n - k + 1) \in 1 .. n + 1
                       /\ n - Greatest(1, n - k + 1) + 1 = Least(k, n)
    BY <2>1 DEF Greatest, Least
  <2>3. QED
    BY <2>1, <2>2
<1>2. LastOf(s, k) = SubSeq(s, first, Len(s))
  BY DEF LastOf
<1>3. /\ SubSeq(s, first, Len(s)) \in Seq(S) /\ Len(SubSeq(s, first, Len(s))) = Len(s) - first + 1
      /\ \A i \in 1 .. Len(s) - first + 1 : SubSeq(s, first, Len(s))[i] = s[first + i - 1]
  <2> HIDE DEF first
  <2>1. QED
    BY <1>1
<1>4. QED
  <2> DEFINE last == SubSeq(s, first, Len(s))
  <2>1. last \in Seq(S) /\ Len(last) = Least(k, Len(s)) /\ Len(last) = Len(s) - first + 1
    BY <1>1, <1>3
  <2> HIDE DEF first
  <2>2. \A i \in 0 .. Len(last) - 1 : last[Len(last) - i] = s[Len(s) - i]
    <3> SUFFICES ASSUME NEW i \in 0 .. Len(last) - 1 PROVE last[Len(last) - i] = s[Len(s) - i]
      OBVIOUS
    <3>1. Len(last) \in Nat /\ Len(s) \in Nat /\ first \in Int /\ Len(last) = Len(s) - first + 1
      BY <1>1, <2>1
    <3> HIDE DEF last
    <3>2. Len(last) - i \in 1 .. Len(s) - first + 1 /\ first + (Len(last) - i) - 1 = Len(s) - i
      BY <3>1
    <3>3. QED
      BY <1>3, <3>2 DEF last
  <2>3. QED
    BY <1>2, <2>1, <2>2

LEMMA CallIsCall ==
  ASSUME TurnAssumption, Shape, turn.pc = "tool"
  PROVE  Call \in Calls /\ Append(turn.seen, Call) \in Seq(Calls) /\ Seen \in Seq(Calls)
<1>1. Call \in Calls /\ turn.seen \in Seq(Calls)
  BY SMTT(40) DEF Shape, IsTurn, Call
<1>2. Append(turn.seen, Call) \in Seq(Calls) /\ 2 * Threshold \in Nat \ {0}
  BY <1>1 DEF TurnAssumption
<1>3. LastOf(Append(turn.seen, Call), 2 * Threshold) \in Seq(Calls)
  BY <1>2, LastOfFacts
<1>4. QED
  BY <1>1, <1>2, <1>3 DEF Seen

\* The calls of the last answer, the log and the caches stay as they are.
Quiet ==
  /\ turn'.ran = turn.ran /\ turn'.seen = turn.seen
  /\ turn'.known = turn.known /\ turn'.receipts = turn.receipts
\* A call is run, or answered from the cache, and noted.
Noted(entry) ==
  /\ ~ Looping(Seen) /\ turn'.ran = Append(turn.ran, entry) /\ turn'.seen = Seen
  /\ entry \in Ran /\ entry.call = Call

(* What the steps of a turn do to its record.                               *)
LEMMA BeginTurn ==
  ASSUME TurnAssumption, Shape, Begin
  PROVE  /\ Shape' /\ turn'.pc = "asked" /\ no' = no + 1 /\ no' \in 1 .. MaxTurns
         /\ turn'.ran = << >> /\ turn'.seen = << >> /\ UNCHANGED <<ledger, told>>
<1>1. /\ turn' = [NoTurn EXCEPT !.pc = "asked", !.ctl = Controller(setting.adaptive), !.budget = usage]
      /\ no' = no + 1 /\ no < setting.turns /\ Store(Text("user"))
      /\ UNCHANGED <<setting, ledger, told>>
  BY DEF Begin
<1>2. /\ IsTurn(turn') /\ turn'.pc = "asked" /\ turn'.ran = << >> /\ turn'.seen = << >>
  <2> DEFINE ctl == Controller(setting.adaptive)
  <2>1. turn' = [NoTurn EXCEPT !.pc = "asked", !.ctl = ctl, !.budget = usage]
    BY <1>1
  <2>2. QED
    <3> HIDE DEF ctl
    <3>1. QED
      BY <2>1, NoTurnIsTurn DEF IsTurn, Pcs
<1>3. no' \in 1 .. MaxTurns
  <2>1. setting.turns \in 1 .. MaxTurns /\ MaxTurns \in Nat
    BY DEF Shape, TurnAssumption
  <2>2. QED
    BY <1>1, <2>1 DEF Shape
<1>4. messages' \in Seq(Message)
  BY <1>1, StoreShape, TextIsMessage DEF Shape, Kinds
<1>5. Shape'
  BY <1>1, <1>2, <1>3, <1>4, SMTT(40) DEF Shape
<1>6. QED
  BY <1>1, <1>2, <1>3, <1>5

LEMMA PrepareTurn ==
  ASSUME Shape, Prepare
  PROVE  IsTurn(turn') /\ Quiet /\ turn'.pc = "plan"
<1>1. PICK h : turn' = [turn EXCEPT !.pc = "plan", !.work = h, !.base = Len(h)]
  BY DEF Prepare
<1>2. QED
  BY <1>1 DEF Shape, IsTurn, Pcs, Quiet

LEMMA PlanTurn ==
  ASSUME Shape, Plan
  PROVE  IsTurn(turn') /\ Quiet /\ turn'.pc = "call"
<1>1. PICK ctl, work, final :
        turn' = [turn EXCEPT !.pc = "call", !.ctl = ctl, !.work = work, !.attempt = 0,
                             !.final = final]
  BY DEF Plan
<1>2. QED
  BY <1>1 DEF Shape, IsTurn, Pcs, Quiet

LEMMA AnswerTurn ==
  ASSUME TurnAssumption, Shape, Answer
  PROVE  IsTurn(turn') /\ Quiet /\ turn'.pc = "answered"
<1>1. PICK n, cut, calls :
        /\ n \in 0 .. setting.batch /\ calls \in [1 .. n -> setting.calls]
        /\ turn' = [turn EXCEPT !.pc = "answered", !.calls = calls, !.cut = cut /\ n = 0,
                                !.budget = IF turn.stale THEN @ ELSE usage + 1]
  BY DEF Answer
<1>2. setting.calls \subseteq Calls /\ setting.batch \in Nat
  BY DEF Shape, TurnAssumption
<1>3. calls \in Seq(Calls)
  BY <1>1, <1>2
<1> DEFINE budget == IF turn.stale THEN turn.budget ELSE usage + 1
           cutoff == cut /\ n = 0
<1>4. turn' = [turn EXCEPT !.pc = "answered", !.calls = calls, !.cut = cutoff, !.budget = budget]
  BY <1>1 DEF Shape, IsTurn
<1>5. QED
  <2> HIDE DEF budget, cutoff
  <2>1. QED
    BY <1>3, <1>4, ZenonT(60) DEF Shape, IsTurn, Pcs, Quiet

LEMMA ContinueTurn ==
  ASSUME Shape, Continue
  PROVE  IsTurn(turn') /\ Quiet /\ turn'.pc = "plan"
<1>1. PICK more : turn' = [turn EXCEPT !.pc = "plan", !.step = @ + 1, !.recovered = TRUE,
                                       !.work = @ \o more]
  BY DEF Continue
<1> DEFINE work == turn.work \o more
<1>2. turn' = [turn EXCEPT !.pc = "plan", !.step = @ + 1, !.recovered = TRUE, !.work = work]
  BY <1>1 DEF Shape, IsTurn
<1>3. QED
  <2>1. turn.step + 1 \in Nat
    BY DEF Shape, IsTurn
  <2>2. QED
    <3> HIDE DEF work
    <3>1. QED
      BY <1>2, <2>1, ZenonT(60) DEF Shape, IsTurn, Pcs, Quiet

LEMMA AnnounceTurn ==
  ASSUME Shape, Announce
  PROVE  /\ IsTurn(turn') /\ Quiet /\ turn'.pc = "tool" /\ turn'.at \in DOMAIN turn'.calls
         /\ messages' \in Seq(Message)
<1> DEFINE work == Append(turn.work, Asks(IdsOf(turn.calls)))
<1>1. turn' = [turn EXCEPT !.pc = "tool", !.at = 1, !.work = work]
  BY DEF Announce, Shape, IsTurn
<1>2. turn.calls # << >> /\ turn.calls \in Seq(Calls) /\ no \in Nat /\ turn.step \in Nat
  BY DEF Announce, Shape, IsTurn
<1>3. IsTurn(turn') /\ Quiet /\ turn'.pc = "tool" /\ turn'.at = 1 /\ turn'.calls = turn.calls
  <2> HIDE DEF work
  <2>1. QED
    BY <1>1 DEF Shape, IsTurn, Pcs, Quiet
<1>4. 1 \in DOMAIN turn.calls
  BY <1>2
<1>5. Asks(IdsOf(turn.calls)) \in Message
  <2>1. IdsOf(turn.calls) \in Seq(Nat \X Nat \X Nat)
    BY <1>2, SMTT(40) DEF IdsOf
  <2>2. QED
    BY <2>1 DEF Asks, Message, Kinds
<1>6. messages' \in Seq(Message)
  <2>1. Store(Asks(IdsOf(turn.calls))) /\ messages \in Seq(Message)
    BY DEF Announce, Shape
  <2>2. QED
    BY <1>5, <2>1, StoreShape
<1>7. QED
  BY <1>3, <1>4, <1>6
LEMMA FailingTurn ==
  ASSUME TurnAssumption, Shape, MaxSteps \/ CallFails \/ OverLimit \/ DeadLoop
  PROVE  /\ IsTurn(turn') /\ turn.pc \in Working /\ turn'.pc = "failing" /\ turn'.ran = turn.ran
         /\ turn'.known = turn.known /\ turn'.receipts = turn.receipts
         /\ Record("failed") /\ UNCHANGED <<messages, no, setting, told>>
<1>1. CASE MaxSteps \/ CallFails \/ OverLimit
  <2>1. PICK final : turn' = [turn EXCEPT !.pc = "failing", !.final = final]
    <3>1. CASE MaxSteps
      BY <3>1 DEF MaxSteps
    <3>2. CASE CallFails \/ OverLimit
      <4>1. turn' = [turn EXCEPT !.pc = "failing"]
        BY <3>2 DEF CallFails, OverLimit
      <4>2. turn' = [turn EXCEPT !.pc = "failing", !.final = turn.final]
        BY <4>1 DEF Shape, IsTurn
      <4>3. QED
        BY <4>2
    <3>3. QED
      BY <1>1, <3>1, <3>2
  <2>2. IsTurn(turn') /\ turn'.pc = "failing" /\ Quiet
    BY <2>1 DEF Shape, IsTurn, Pcs, Quiet
  <2>3. turn.pc \in Working /\ Record("failed") /\ UNCHANGED <<messages, no, setting, told>>
    BY <1>1 DEF MaxSteps, CallFails, OverLimit, At, Working
  <2>4. QED
    BY <2>2, <2>3 DEF Quiet
<1>2. CASE DeadLoop
  <2>1. /\ turn' = [turn EXCEPT !.pc = "failing", !.seen = Seen] /\ turn.pc = "tool"
        /\ Record("failed") /\ UNCHANGED <<messages, no, setting, told>>
    BY <1>2 DEF DeadLoop, At
  <2>2. Seen \in Seq(Calls)
    BY <2>1, CallIsCall
  <2>3. QED
    BY <2>1, <2>2, ZenonT(60) DEF Shape, IsTurn, Pcs, Working
<1>3. QED
  BY <1>1, <1>2

LEMMA ConcludeTurn ==
  ASSUME Shape, Conclude
  PROVE  /\ IsTurn(turn') /\ Quiet /\ turn.pc = "answered" /\ turn'.pc = "reply"
         /\ Record("succeeded") /\ UNCHANGED <<messages, no, setting, told>>
BY DEF Conclude, InLimit, At, Shape, IsTurn, Pcs, Quiet

LEMMA RetryTurn ==
  ASSUME Shape, Retry
  PROVE  IsTurn(turn') /\ Quiet /\ turn.pc = "call" /\ turn'.pc = "call"
<1> DEFINE attempt == turn.attempt + 1
<1>1. turn' = [turn EXCEPT !.attempt = attempt] /\ turn.pc = "call"
  BY DEF Retry, At, Shape, IsTurn
<1>2. QED
  <2> HIDE DEF attempt
  <2>1. QED
    BY <1>1 DEF Shape, IsTurn, Quiet

\* A result comes from a receipt, from the cache, or from the tool.
FromReceipt == Reused /\ Quiet
FromCache ==
  /\ ~ Reused /\ Noted([call |-> Call, ok |-> TRUE, run |-> FALSE])
  /\ turn'.known = turn.known /\ turn'.receipts = turn.receipts
FromTool ==
  /\ ~ Reused /\ ~ Cached
  /\ \E ok \in BOOLEAN :
       /\ Noted([call |-> Call, ok |-> ok, run |-> TRUE])
       /\ turn'.receipts = turn.receipts \cup ({Key[Call]} \cap Reuse)
       /\ turn'.known = IF ok THEN turn.known \cup ({Key[Call]} \cap Query) ELSE turn.known

LEMMA ToolTurn ==
  ASSUME TurnAssumption, Shape, GiveAgain \/ Execute
  PROVE  /\ IsTurn(turn') /\ messages' \in Seq(Message) /\ turn.pc = "tool"
         /\ turn'.pc \in {"plan", "tool"} /\ (turn'.pc = "tool" => turn'.at \in DOMAIN turn'.calls)
         /\ UNCHANGED <<setting, no, ledger, told>>
         /\ FromReceipt \/ FromCache \/ FromTool
<1>1. turn.pc = "tool" /\ UNCHANGED <<setting, no, ledger, told>> /\ IsTurn(turn)
  BY DEF GiveAgain, Execute, At, Shape
<1>2. Call \in Calls /\ Seen \in Seq(Calls)
  BY <1>1, CallIsCall
<1> DEFINE Held(t) == /\ IsTurn(t) /\ t.pc = "tool" /\ t.calls = turn.calls /\ t.at = turn.at
                      /\ t.step = turn.step
<1>3. Held(turn)
  BY <1>1
<1>4. CASE Reused /\ \E gain \in Gains : Proceed(turn, gain)
  <2>1. PICK gain \in Gains : Proceed(turn, gain)
    BY <1>4
  <2>2. Seen = turn.seen
    BY <1>4 DEF Seen
  <2>3. QED
    BY <1>1, <1>2, <1>4, <2>1, <2>2, ProceedShape DEF FromReceipt, Quiet
<1>5. CASE /\ ~ Reused /\ Cached /\ ~ Looping(Seen)
           /\ Proceed([turn EXCEPT !.ran = Append(@, [call |-> Call, ok |-> TRUE, run |-> FALSE])], "low")
  <2> DEFINE entry == [call |-> Call, ok |-> TRUE, run |-> FALSE]
             t == [turn EXCEPT !.ran = Append(turn.ran, entry)]
  <2>1. entry \in Ran /\ entry.call = Call
    BY <1>2 DEF Ran
  <2>2. Proceed(t, "low")
    BY <1>1, <1>5 DEF IsTurn
  <2>3. Append(turn.ran, entry) \in Seq(Ran)
    BY <1>1, <2>1 DEF IsTurn
  <2>4. /\ Held(t) /\ t.ran = Append(turn.ran, entry)
        /\ t.known = turn.known /\ t.receipts = turn.receipts
    <3> HIDE DEF entry
    <3>1. QED
      BY <1>1, <2>3 DEF IsTurn
  <2>5. /\ IsTurn(turn') /\ messages' \in Seq(Message)
        /\ turn'.pc \in {"plan", "tool"} /\ (turn'.pc = "tool" => turn'.at \in DOMAIN turn'.calls)
        /\ turn'.ran = t.ran /\ turn'.seen = Seen
        /\ turn'.known = t.known /\ turn'.receipts = t.receipts
    <3> HIDE DEF t
    <3>1. QED
      BY <1>1, <1>2, <2>2, <2>4, ProceedShape
  <2>6. FromCache
    <3>1. Noted(entry) /\ turn'.known = turn.known /\ turn'.receipts = turn.receipts
      <4> HIDE DEF t, entry
      <4>1. QED
        BY <1>5, <2>1, <2>4, <2>5 DEF Noted
    <3>2. QED
      BY <1>5, <3>1 DEF FromCache
  <2>7. QED
    BY <1>1, <2>5, <2>6
<1>6. CASE Execute
  <2>1. PICK ok \in BOOLEAN, late \in BOOLEAN, gain \in Gains :
          Proceed([turn EXCEPT
                    !.ran = Append(@, [call |-> Call, ok |-> ok, run |-> TRUE]),
                    !.receipts = @ \cup ({Key[Call]} \cap Reuse),
                    !.known = IF ok THEN @ \cup ({Key[Call]} \cap Query) ELSE @,
                    !.stale = @ \/ late], gain)
    BY <1>6 DEF Execute, Gains
  <2> DEFINE entry == [call |-> Call, ok |-> ok, run |-> TRUE]
             receipts == turn.receipts \cup ({Key[Call]} \cap Reuse)
             known == IF ok THEN turn.known \cup ({Key[Call]} \cap Query) ELSE turn.known
             stale == turn.stale \/ late
             t == [turn EXCEPT !.ran = Append(turn.ran, entry), !.receipts = receipts,
                               !.known = known, !.stale = stale]
  <2>2. entry \in Ran /\ entry.call = Call
    BY <1>2 DEF Ran
  <2>3. Proceed(t, gain) /\ ~ Reused /\ ~ Cached /\ ~ Looping(Seen)
    BY <1>1, <1>6, <2>1 DEF IsTurn, Execute
  <2>4. Append(turn.ran, entry) \in Seq(Ran)
    BY <1>1, <2>2 DEF IsTurn
  <2>5. /\ Held(t) /\ t.ran = Append(turn.ran, entry)
        /\ t.known = known /\ t.receipts = receipts
    <3> HIDE DEF entry, known, receipts, stale
    <3>1. QED
      BY <1>1, <2>4 DEF IsTurn
  <2>6. /\ IsTurn(turn') /\ messages' \in Seq(Message)
        /\ turn'.pc \in {"plan", "tool"} /\ (turn'.pc = "tool" => turn'.at \in DOMAIN turn'.calls)
        /\ turn'.ran = t.ran /\ turn'.seen = Seen
        /\ turn'.known = t.known /\ turn'.receipts = t.receipts
    <3> HIDE DEF t
    <3>1. QED
      BY <1>1, <1>2, <2>3, <2>5, ProceedShape
  <2>7. FromTool
    <3>1. Noted(entry) /\ turn'.known = known /\ turn'.receipts = receipts
      <4> HIDE DEF t, entry, known, receipts
      <4>1. QED
        BY <2>2, <2>3, <2>5, <2>6 DEF Noted
    <3>2. QED
      BY <2>3, <3>1 DEF FromTool
  <2>8. QED
    BY <1>1, <2>6, <2>7
<1>7. QED
  BY <1>4, <1>5, <1>6 DEF GiveAgain
\* The steps of a turn by what they do to its record.
Progress == Prepare \/ Plan \/ Retry \/ Answer \/ Continue \/ Announce
Failing == MaxSteps \/ CallFails \/ OverLimit \/ DeadLoop
Ending == Refuse \/ Fail \/ Reply \/ Abandon

LEMMA ByRecord ==
  Next <=> \/ Begin \/ Progress \/ Failing \/ Conclude \/ GiveAgain \/ Execute \/ Ending
BY DEF Next, Step, Progress, Failing, Ending

LEMMA WorkTurn ==
  ASSUME TurnAssumption, Shape, Progress
  PROVE  /\ IsTurn(turn') /\ Quiet /\ messages' \in Seq(Message) /\ turn'.pc \in Working
         /\ turn'.pc = "tool" => turn'.at \in DOMAIN turn'.calls
         /\ UNCHANGED <<setting, no, told>>
         /\ \/ turn.pc = "asked" /\ ledger' = [ledger EXCEPT ![no] = "running"]
            \/ turn.pc \in Working /\ UNCHANGED ledger
<1>1. messages \in Seq(Message)
  BY DEF Shape
<1>2. CASE Prepare
  <2>1. /\ turn.pc = "asked" /\ ledger' = [ledger EXCEPT ![no] = "running"]
        /\ UNCHANGED <<messages, setting, no, told>>
    BY <1>2 DEF Prepare, At
  <2>2. QED
    BY <1>1, <1>2, <2>1, PrepareTurn DEF Working
<1>3. CASE Plan
  <2>1. turn.pc = "plan" /\ UNCHANGED <<messages, setting, no, told, ledger>>
    BY <1>3 DEF Plan, At
  <2>2. QED
    BY <1>1, <1>3, <2>1, PlanTurn DEF Working
<1>4. CASE Retry
  <2>1. UNCHANGED <<messages, setting, no, told, ledger>>
    BY <1>4 DEF Retry
  <2>2. QED
    BY <1>1, <1>4, <2>1, RetryTurn DEF Working
<1>5. CASE Answer
  <2>1. turn.pc = "call" /\ UNCHANGED <<messages, setting, no, told, ledger>>
    BY <1>5 DEF Answer, At
  <2>2. QED
    BY <1>1, <1>5, <2>1, AnswerTurn DEF Working
<1>6. CASE Continue
  <2>1. turn.pc = "answered" /\ UNCHANGED <<messages, setting, no, told, ledger>>
    BY <1>6 DEF Continue, InLimit, At
  <2>2. QED
    BY <1>1, <1>6, <2>1, ContinueTurn DEF Working
<1>7. CASE Announce
  <2>1. turn.pc = "answered" /\ UNCHANGED <<setting, no, told, ledger>>
    BY <1>7 DEF Announce, InLimit, At
  <2>2. QED
    BY <1>7, <2>1, AnnounceTurn DEF Working
<1>8. QED
  BY <1>2, <1>3, <1>4, <1>5, <1>6, <1>7 DEF Progress

LEMMA EndTurn ==
  ASSUME TurnAssumption, Shape, Ending
  PROVE  /\ turn' = NoTurn /\ turn.pc # "idle" /\ messages' \in Seq(Message)
         /\ UNCHANGED <<setting, no>>
         /\ told' \in [1 .. MaxTurns -> {"nothing", "reply", "error"}]
         /\ ledger' \in [1 .. MaxTurns -> {"none", "running", "succeeded", "failed"}]
         /\ \A n \in 1 .. MaxTurns : n # no => told'[n] = told[n]
         /\ \A n \in 1 .. MaxTurns : n # no => ledger'[n] = ledger[n]
         /\ ledger[no] # "running" => ledger'[no] = ledger[no]
         /\ \/ told'[no] = told[no] /\ UNCHANGED ledger
            \/ /\ messages'[Len(messages')] = Text("reply")
               /\ \/ turn.pc \in {"asked", "failing"} /\ told'[no] = "error"
                  \/ turn.pc = "reply" /\ told'[no] = "reply"
<1>1. turn.pc # "idle" /\ turn' = NoTurn /\ UNCHANGED <<setting, no>>
  BY DEF Ending, Refuse, Fail, Reply, Abandon, At
<1>2. no \in 1 .. MaxTurns
  BY <1>1 DEF Shape, TurnAssumption
<1>3. CASE Abandon
  <2>1. UNCHANGED <<messages, ledger, told>>
    BY <1>3 DEF Abandon
  <2>2. QED
    BY <1>1, <2>1 DEF Shape
<1>4. CASE Refuse \/ Fail \/ Reply
  <2>1. messages' \in Seq(Message) /\ messages'[Len(messages')] = Text("reply")
    <3>1. Store(Text("reply")) /\ messages \in Seq(Message)
      BY <1>4 DEF Refuse, Fail, Reply, Shape
    <3>2. Text("reply") \in Message
      BY TextIsMessage DEF Kinds
    <3>3. QED
      BY <3>1, <3>2, StoreShape
  <2>2. \/ turn.pc \in {"asked", "failing"} /\ told' = [told EXCEPT ![no] = "error"]
        \/ turn.pc = "reply" /\ told' = [told EXCEPT ![no] = "reply"]
    BY <1>4 DEF Refuse, Fail, Reply, At
  <2>3. /\ told' \in [1 .. MaxTurns -> {"nothing", "reply", "error"}]
        /\ \A n \in 1 .. MaxTurns : n # no => told'[n] = told[n]
        /\ \/ turn.pc \in {"asked", "failing"} /\ told'[no] = "error"
           \/ turn.pc = "reply" /\ told'[no] = "reply"
    BY <1>2, <2>2 DEF Shape
  <2>4. Record("succeeded") \/ UNCHANGED ledger
    BY <1>4 DEF Refuse, Fail, Reply
  <2>5. /\ ledger' \in [1 .. MaxTurns -> {"none", "running", "succeeded", "failed"}]
        /\ \A n \in 1 .. MaxTurns : n # no => ledger'[n] = ledger[n]
        /\ ledger[no] # "running" => ledger'[no] = ledger[no]
    <3>1. CASE UNCHANGED ledger
      BY <3>1 DEF Shape
    <3>2. CASE Record("succeeded")
      BY <1>2, <3>2, RecordShape
    <3>3. QED
      BY <2>4, <3>1, <3>2
  <2>6. QED
    BY <1>1, <2>1, <2>3, <2>5
<1>5. QED
  BY <1>3, <1>4 DEF Ending

LEMMA NextShape == ASSUME TurnAssumption, Shape, Next PROVE Shape'
<1>1. CASE Begin
  BY <1>1, BeginTurn
<1>2. CASE Progress
  <2>1. ledger' \in [1 .. MaxTurns -> {"none", "running", "succeeded", "failed"}]
    BY <1>2, WorkTurn DEF Shape
  <2>2. turn.pc # "idle"
    BY <1>2, WorkTurn DEF Working
  <2>3. QED
    BY <1>2, <2>1, <2>2, WorkTurn DEF Shape
<1>3. CASE Failing
  <2>1. turn.pc # "idle" /\ no # 0
    BY <1>3, FailingTurn DEF Failing, Working, Shape
  <2>2. ledger' \in [1 .. MaxTurns -> {"none", "running", "succeeded", "failed"}]
    BY <1>3, <2>1, FailingTurn, RecordShape DEF Failing
  <2>3. QED
    BY <1>3, <2>1, <2>2, FailingTurn DEF Failing, Shape
<1>4. CASE Conclude
  <2>1. turn.pc # "idle" /\ no # 0
    BY <1>4, ConcludeTurn DEF Shape
  <2>2. ledger' \in [1 .. MaxTurns -> {"none", "running", "succeeded", "failed"}]
    BY <1>4, <2>1, ConcludeTurn, RecordShape
  <2>3. QED
    BY <1>4, <2>1, <2>2, ConcludeTurn DEF Shape
<1>5. CASE GiveAgain \/ Execute
  BY <1>5, ToolTurn DEF Shape
<1>6. CASE Ending
  BY <1>6, EndTurn, NoTurnIsTurn DEF Shape
<1>7. QED
  BY <1>1, <1>2, <1>3, <1>4, <1>5, <1>6, ByRecord

(* What is kept of a turn that is recorded and stored has its shape,        *)
(* whatever the model is given (Session, executions, AgentRuntime.run).     *)
THEOREM TypeCorrect == ASSUME TurnAssumption PROVE Spec => []Shape
<1>1. Init => Shape
  BY InitShape
<1>2. Shape /\ [Next]_vars => Shape'
  <2>1. CASE Next
    BY <2>1, NextShape
  <2>2. CASE UNCHANGED vars
    BY <2>2 DEF vars, Shape, IsTurn
  <2>3. QED
    BY <2>1, <2>2
<1>3. QED
  BY <1>1, <1>2, PTL DEF Spec
-------------------------------------------------------------------------------
(* What is told agrees with the ledger and the session.                     *)

LEMMA TaleStep == ASSUME TurnAssumption, Shape, Tale, Next PROVE Tale'
<1>1. /\ \A n \in 1 .. MaxTurns : n > no => ledger[n] = "none" /\ told[n] = "nothing"
      /\ turn.pc # "idle" => no \in 1 .. MaxTurns /\ told[no] = "nothing" /\ ledger[no] = Entry(turn.pc)
      /\ \A n \in 1 .. MaxTurns : /\ told[n] = "reply" => ledger[n] = "succeeded"
                                  /\ told[n] = "error" => ledger[n] \in {"failed", "none"}
      /\ no \in Nat
  BY DEF Tale, Shape, VerdictAgrees, TurnAssumption
<1>2. CASE Begin
  <2>1. /\ turn'.pc = "asked" /\ no' = no + 1 /\ no' \in 1 .. MaxTurns
        /\ UNCHANGED <<ledger, told>>
    BY <1>2, BeginTurn
  <2>2. ledger'[no'] = "none" /\ told'[no'] = "nothing"
    BY <1>1, <2>1
  <2>3. VerdictAgrees'
    BY <1>1, <2>1 DEF VerdictAgrees, At
  <2>4. \A n \in 1 .. MaxTurns : n > no' => ledger'[n] = "none" /\ told'[n] = "nothing"
    BY <1>1, <2>1
  <2>5. Entry(turn'.pc) = "none"
    BY <2>1 DEF Entry, Working
  <2>6. QED
    BY <2>2, <2>3, <2>4, <2>5 DEF Tale
<1>3. CASE UNCHANGED <<no, told>> /\ turn.pc # "idle" /\ turn'.pc # "idle"
           /\ (\A n \in 1 .. MaxTurns : n # no => ledger'[n] = ledger[n])
           /\ ledger'[no] = Entry(turn'.pc)
  BY <1>1, <1>3 DEF Tale, VerdictAgrees, At
<1>4. CASE Progress
  <2>1. /\ turn'.pc \in Working /\ UNCHANGED <<no, told>>
        /\ \/ turn.pc = "asked" /\ ledger' = [ledger EXCEPT ![no] = "running"]
           \/ turn.pc \in Working /\ UNCHANGED ledger
    BY <1>4, WorkTurn
  <2>2. ledger'[no] = "running" /\ \A n \in 1 .. MaxTurns : n # no => ledger'[n] = ledger[n]
    BY <1>1, <2>1 DEF Entry, Working, Shape
  <2>3. QED
    BY <1>3, <2>1, <2>2 DEF Entry, Working
<1>5. CASE Failing
  <2>1. /\ turn.pc \in Working /\ turn'.pc = "failing" /\ UNCHANGED <<no, told>>
        /\ Record("failed")
    BY <1>5, FailingTurn DEF Failing
  <2>2. ledger[no] = "running" /\ no # 0
    BY <1>1, <2>1 DEF Entry, Working
  <2>3. ledger'[no] = "failed" /\ \A n \in 1 .. MaxTurns : n # no => ledger'[n] = ledger[n]
    BY <2>1, <2>2, RecordShape
  <2>4. QED
    BY <1>3, <2>1, <2>3 DEF Entry, Working
<1>6. CASE Conclude
  <2>1. /\ turn.pc = "answered" /\ turn'.pc = "reply" /\ UNCHANGED <<no, told>>
        /\ Record("succeeded")
    BY <1>6, ConcludeTurn
  <2>2. ledger[no] = "running" /\ no # 0
    BY <1>1, <2>1 DEF Entry, Working
  <2>3. ledger'[no] = "succeeded" /\ \A n \in 1 .. MaxTurns : n # no => ledger'[n] = ledger[n]
    BY <2>1, <2>2, RecordShape
  <2>4. QED
    BY <1>3, <2>1, <2>3 DEF Entry, Working
<1>7. CASE GiveAgain \/ Execute
  <2>1. /\ turn.pc = "tool" /\ turn'.pc \in {"plan", "tool"} /\ UNCHANGED <<no, told, ledger>>
    BY <1>7, ToolTurn
  <2>2. ledger[no] = "running"
    BY <1>1, <2>1 DEF Entry, Working
  <2>3. QED
    BY <1>3, <2>1, <2>2 DEF Entry, Working
<1>8. CASE Ending
  <2>1. /\ turn' = NoTurn /\ turn'.pc = "idle" /\ turn.pc # "idle" /\ no' = no
        /\ \A n \in 1 .. MaxTurns : n # no => told'[n] = told[n] /\ ledger'[n] = ledger[n]
        /\ ledger[no] # "running" => ledger'[no] = ledger[no]
    BY <1>8, EndTurn, NoTurnIsTurn
  <2>2. \/ told'[no] = "nothing"
        \/ /\ messages'[Len(messages')] = Text("reply")
           /\ \/ turn.pc \in {"asked", "failing"} /\ told'[no] = "error"
              \/ turn.pc = "reply" /\ told'[no] = "reply"
    BY <1>1, <1>8, EndTurn
  <2>3. /\ told'[no] = "reply" => ledger'[no] = "succeeded"
        /\ told'[no] = "error" => ledger'[no] \in {"failed", "none"}
    <3>1. CASE told'[no] = "nothing"
      BY <3>1
    <3>2. CASE turn.pc \in {"asked", "failing"} /\ told'[no] = "error"
      BY <1>1, <2>1, <3>2 DEF Entry, Working
    <3>3. CASE turn.pc = "reply" /\ told'[no] = "reply"
      BY <1>1, <2>1, <3>3 DEF Entry, Working
    <3>4. QED
      BY <2>2, <3>1, <3>2, <3>3
  <2>4. VerdictAgrees'
    <3>1. \A n \in 1 .. MaxTurns : /\ told'[n] = "reply" => ledger'[n] = "succeeded"
                                   /\ told'[n] = "error" => ledger'[n] \in {"failed", "none"}
      BY <1>1, <2>1, <2>3
    <3>2. told'[no'] # "nothing" => messages'[Len(messages')] = Text("reply")
      BY <2>1, <2>2
    <3>3. QED
      BY <3>1, <3>2 DEF VerdictAgrees, Text
  <2>5. QED
    BY <1>1, <2>1, <2>4 DEF Tale
<1>9. QED
  BY <1>2, <1>4, <1>5, <1>6, <1>7, <1>8, ByRecord

(* The client, the ledger and the session tell the same story of every      *)
(* turn, abandoned or not (_stream_ai_loop, RuntimeRecorder.wrap).          *)
THEOREM VerdictsAgree == ASSUME TurnAssumption PROVE Spec => []VerdictAgrees
<1>1. Init => Tale
  BY NoTurnIsTurn DEF Init, Tale, VerdictAgrees, At
<1>2. Shape /\ Tale /\ [Next]_vars => Tale'
  <2>1. ASSUME Shape, Tale, UNCHANGED vars PROVE Tale'
    BY <2>1 DEF vars, Tale, VerdictAgrees, At
  <2>2. QED
    BY <2>1, TaleStep
<1>3. Tale => VerdictAgrees
  BY DEF Tale
<1>4. QED
  BY <1>1, <1>2, <1>3, TypeCorrect, PTL DEF Spec

-------------------------------------------------------------------------------
(* A turn does not repeat its tools.                                        *)

LEMMA AppendedFacts ==
  ASSUME NEW S, NEW r \in Seq(S), NEW x \in S
  PROVE  /\ Append(r, x) \in Seq(S) /\ Len(Append(r, x)) = Len(r) + 1
         /\ Append(r, x)[Len(r) + 1] = x
         /\ \A i \in 1 .. Len(r) : Append(r, x)[i] = r[i]
OBVIOUS

\* The window of the detector follows the log, and what it does not object to
\* may be noted.
LEMMA NotedIsNewest ==
  ASSUME TurnAssumption, NEW seen \in Seq(Calls), NEW r \in Seq(Ran), NEW entry \in Ran,
         Newest(seen, r)
  PROVE  Newest(LastOf(Append(seen, entry.call), 2 * Threshold), Append(r, entry))
<1> DEFINE all == Append(seen, entry.call)
           new == LastOf(all, 2 * Threshold)
           log == Append(r, entry)
<1>1. /\ Threshold \in Nat \ {0} /\ 2 * Threshold \in Nat \ {0} /\ entry.call \in Calls
      /\ Len(seen) \in Nat /\ Len(r) \in Nat
  BY DEF TurnAssumption, Ran
<1>2. /\ all \in Seq(Calls) /\ Len(all) = Len(seen) + 1 /\ all[Len(seen) + 1] = entry.call
      /\ \A i \in 1 .. Len(seen) : all[i] = seen[i]
  BY <1>1, AppendedFacts
<1>3. /\ Len(log) = Len(r) + 1 /\ log[Len(r) + 1] = entry
      /\ \A i \in 1 .. Len(r) : log[i] = r[i]
  BY AppendedFacts
<1>4. /\ Len(new) = Least(2 * Threshold, Len(all))
      /\ \A i \in 0 .. Len(new) - 1 : new[Len(new) - i] = all[Len(all) - i]
  BY <1>1, <1>2, LastOfFacts, ZenonT(60)
<1>5. Len(seen) = Least(2 * Threshold, Len(r)) /\ Len(seen) <= Len(r)
  BY <1>1 DEF Newest, Least
<1>6. Len(new) = Least(2 * Threshold, Len(log)) /\ Len(new) <= Len(seen) + 1
  BY <1>1, <1>2, <1>3, <1>4, <1>5, SMTT(40) DEF Least
<1>7. ASSUME NEW i \in 0 .. Len(new) - 1 PROVE new[Len(new) - i] = log[Len(log) - i].call
  <2>1. new[Len(new) - i] = all[Len(all) - i]
    BY <1>4, <1>7
  <2>2. CASE i = 0
    BY <1>1, <1>2, <1>3, <2>1, <2>2
  <2>3. CASE i # 0
    <3>1. i - 1 \in 0 .. Len(seen) - 1 /\ i \in Nat
      BY <1>1, <1>2, <1>4, <1>6, <1>7, <2>3 DEF Least
    <3>2. /\ Len(all) - i = Len(seen) - (i - 1) /\ Len(all) - i \in 1 .. Len(seen)
          /\ Len(log) - i = Len(r) - (i - 1) /\ Len(log) - i \in 1 .. Len(r)
      <4>1. Len(all) - i = Len(seen) - (i - 1) /\ Len(log) - i = Len(r) - (i - 1)
        BY <1>1, <1>2, <1>3, <3>1
      <4>2. Len(seen) - (i - 1) \in 1 .. Len(seen) /\ Len(r) - (i - 1) \in 1 .. Len(r)
        <5>1. \A a, b, c \in Nat : a \in 0 .. b - 1 /\ b <= c => b - a \in 1 .. b /\ c - a \in 1 .. c
          OBVIOUS
        <5>2. QED
          BY <1>1, <1>5, <3>1, <5>1, SMTT(40)
      <4>3. QED
        BY <4>1, <4>2
    <3>3. seen[Len(seen) - (i - 1)] = r[Len(r) - (i - 1)].call
      BY <3>1 DEF Newest
    <3>4. QED
      BY <1>2, <1>3, <2>1, <3>2, <3>3
  <2>4. QED
    BY <2>2, <2>3
<1>8. QED
  BY <1>6, <1>7 DEF Newest
LEMMA NotedIsUnlooped ==
  ASSUME TurnAssumption, NEW seen \in Seq(Calls), NEW r \in Seq(Ran), NEW entry \in Ran,
         Newest(seen, Append(r, entry)), Unlooped(r), ~ Looping(seen)
  PROVE  Unlooped(Append(r, entry))
<1> DEFINE log == Append(r, entry)
           n == Len(seen)
           m == Len(log)
<1>1. /\ Threshold \in Nat /\ Threshold # 0 /\ n \in Nat /\ m \in Nat /\ m = Len(r) + 1 /\ Len(r) \in Nat
      /\ \A i \in 1 .. Len(r) : log[i] = r[i]
  BY AppendedFacts DEF TurnAssumption
<1>2. /\ n = Least(2 * Threshold, m)
      /\ \A k \in 0 .. n - 1 : seen[n - k] = log[m - k].call
  BY DEF Newest
<1>3. /\ ~ (n >= Threshold /\ \A i \in n - Threshold + 1 .. n : seen[i] = seen[n])
      /\ ~ (n = 2 * Threshold /\ \A i \in 3 .. n : seen[i] = seen[i - 2])
  BY DEF Looping
<1>4. Threshold \in Nat /\ Threshold # 0 /\ n \in Nat /\ m \in Nat /\ m = Len(r) + 1 /\ Len(r) \in Nat
  BY <1>1
<1>5. n <= m /\ (m >= 2 * Threshold => n = 2 * Threshold) /\ (m >= Threshold => n >= Threshold)
  BY <1>4, <1>2 DEF Least
<1> HIDE DEF log, n, m
<1>6. ASSUME NEW i \in 1 .. m - Threshold + 1
      PROVE  \E j \in i .. i + Threshold - 1 : log[j].call # log[i].call
  <2>1. CASE i <= Len(r) - Threshold + 1
    <3>1. PICK j \in i .. i + Threshold - 1 : r[j].call # r[i].call
      BY <1>1, <2>1 DEF Unlooped
    <3>2. j \in 1 .. Len(r) /\ i \in 1 .. Len(r)
      BY <1>4, <2>1
    <3>3. QED
      BY <1>1, <3>1, <3>2
  <2>2. CASE ~ (i <= Len(r) - Threshold + 1)
    <3>1. i = m - Threshold + 1 /\ m >= Threshold /\ n >= Threshold /\ n <= m
      BY <1>4, <1>5, <2>2, SMTT(40)
    <3>2. PICK k \in n - Threshold + 1 .. n : seen[k] # seen[n]
      BY <1>3, <3>1
    <3>3. n - k \in 0 .. n - 1 /\ 0 \in 0 .. n - 1 /\ n - (n - k) = k /\ n - 0 = n /\ m - 0 = m
      BY <1>4, <3>1, <3>2
    <3>4. seen[k] = log[m - (n - k)].call /\ seen[n] = log[m].call
      BY <1>2, <3>3
    <3>5. m - (n - k) \in i .. i + Threshold - 1 /\ m \in i .. i + Threshold - 1
      <4>1. k \in Int /\ n - Threshold + 1 <= k /\ k <= n
        BY <1>4, <3>2
      <4>2. QED
        BY <1>4, <3>1, <4>1
    <3>6. log[m - (n - k)].call # log[i].call \/ log[m].call # log[i].call
      BY <3>2, <3>4
    <3>7. QED
      BY <3>5, <3>6
  <2>3. QED
    BY <2>1, <2>2
<1>7. ASSUME NEW i \in 1 .. m - 2 * Threshold + 1
      PROVE  \E j \in i + 2 .. i + 2 * Threshold - 1 : log[j].call # log[j - 2].call
  <2>1. CASE i <= Len(r) - 2 * Threshold + 1
    <3>1. PICK j \in i + 2 .. i + 2 * Threshold - 1 : r[j].call # r[j - 2].call
      BY <1>4, <2>1 DEF Unlooped
    <3>2. j \in 1 .. Len(r) /\ j - 2 \in 1 .. Len(r)
      BY <1>4, <2>1
    <3>3. QED
      BY <1>1, <3>1, <3>2
  <2>2. CASE ~ (i <= Len(r) - 2 * Threshold + 1)
    <3>1. i = m - 2 * Threshold + 1 /\ n = 2 * Threshold /\ n <= m
      BY <1>4, <1>5, <2>2, SMTT(40)
    <3>2. PICK k \in 3 .. n : seen[k] # seen[k - 2]
      BY <1>3, <3>1
    <3>3. /\ n - k \in 0 .. n - 1 /\ n - k + 2 \in 0 .. n - 1
          /\ n - (n - k) = k /\ n - (n - k + 2) = k - 2
      BY <1>4, <3>1, <3>2
    <3>4. seen[k] = log[m - (n - k)].call /\ seen[k - 2] = log[m - (n - k + 2)].call
      BY <1>2, <3>3
    <3>5. /\ m - (n - k) \in i + 2 .. i + 2 * Threshold - 1
          /\ m - (n - k + 2) = m - (n - k) - 2
      BY <1>4, <3>1, <3>2
    <3>6. QED
      BY <3>2, <3>4, <3>5
  <2>3. QED
    BY <2>1, <2>2
<1>8. QED
  BY <1>6, <1>7 DEF Unlooped, log, m

\* A call that comes from the tool or the cache is noted.
LEMMA NotedStep ==
  ASSUME TurnAssumption, Shape, Logged, turn.pc = "tool", ~ Reused, NEW entry, Noted(entry)
  PROVE  Newest(turn'.seen, turn'.ran) /\ Unlooped(turn'.ran)
<1>1. /\ turn.seen \in Seq(Calls) /\ turn.ran \in Seq(Ran) /\ Newest(turn.seen, turn.ran)
      /\ Unlooped(turn.ran)
  BY DEF Shape, IsTurn, Logged, Working
<1>2. Seen = LastOf(Append(turn.seen, entry.call), 2 * Threshold) /\ Seen \in Seq(Calls)
  BY CallIsCall DEF Noted, Seen
<1>3. entry \in Ran /\ ~ Looping(Seen) /\ turn'.ran = Append(turn.ran, entry) /\ turn'.seen = Seen
  BY DEF Noted
<1>4. Newest(Seen, Append(turn.ran, entry))
  BY <1>1, <1>2, <1>3, NotedIsNewest, SMTT(40)
<1>5. QED
  BY <1>1, <1>2, <1>3, <1>4, NotedIsUnlooped

\* What is noted of a call that was not run again is held by the caches.
LEMMA NotedOnce ==
  ASSUME TurnAssumption, Shape, Logged, turn.pc = "tool", FromCache \/ FromTool
  PROVE  Cachings(turn') /\ Unrepeated(turn'.ran)
<1>1. PICK entry \in Ran :
        /\ turn'.ran = Append(turn.ran, entry) /\ entry.call = Call
        /\ turn.receipts \subseteq turn'.receipts /\ turn.known \subseteq turn'.known
        /\ entry.run => /\ ~ Reused /\ ~ Cached
                        /\ Key[Call] \in Reuse => Key[Call] \in turn'.receipts
                        /\ Key[Call] \in Query /\ entry.ok => Key[Call] \in turn'.known
  <2>1. CASE FromCache
    BY <2>1 DEF FromCache, Noted
  <2>2. CASE FromTool
    <3>1. PICK ok \in BOOLEAN :
            /\ Noted([call |-> Call, ok |-> ok, run |-> TRUE])
            /\ turn'.receipts = turn.receipts \cup ({Key[Call]} \cap Reuse)
            /\ turn'.known = IF ok THEN turn.known \cup ({Key[Call]} \cap Query) ELSE turn.known
      BY <2>2 DEF FromTool
    <3> DEFINE entry == [call |-> Call, ok |-> ok, run |-> TRUE]
    <3>2. /\ entry \in Ran /\ turn'.ran = Append(turn.ran, entry) /\ entry.call = Call
          /\ entry.ok = ok
      BY <3>1 DEF Noted
    <3>3. turn.receipts \subseteq turn'.receipts /\ turn.known \subseteq turn'.known
      BY <3>1
    <3>4. Key[Call] \in Reuse => Key[Call] \in turn'.receipts
      BY <3>1
    <3>5. Key[Call] \in Query /\ ok => Key[Call] \in turn'.known
      BY <3>1
    <3>6. ~ Reused /\ ~ Cached
      BY <2>2 DEF FromTool
    <3>7. QED
      <4> HIDE DEF entry
      <4>1. QED
        BY <3>2, <3>3, <3>4, <3>5, <3>6
  <2>3. QED
    BY <2>1, <2>2
<1> DEFINE r == turn.ran
           log == Append(r, entry)
<1>2. r \in Seq(Ran) /\ Cachings(turn) /\ Unrepeated(r)
  BY DEF Shape, IsTurn, Logged
<1>3. /\ Len(log) = Len(r) + 1 /\ log[Len(r) + 1] = entry /\ Len(r) \in Nat
      /\ \A i \in 1 .. Len(r) : log[i] = r[i]
      /\ DOMAIN log = 1 .. Len(r) + 1 /\ DOMAIN r = 1 .. Len(r)
  BY <1>2, AppendedFacts
<1>4. turn'.ran = log
  BY <1>1
<1> HIDE DEF r, log
<1>5. Cachings(turn')
  <2> SUFFICES ASSUME NEW i \in 1 .. Len(r) + 1, log[i].run
               PROVE  /\ Key[log[i].call] \in Reuse => Key[log[i].call] \in turn'.receipts
                      /\ Key[log[i].call] \in Query /\ log[i].ok => Key[log[i].call] \in turn'.known
    BY <1>3, <1>4 DEF Cachings
  <2>1. CASE i = Len(r) + 1
    BY <1>1, <1>3, <2>1
  <2>2. CASE i \in 1 .. Len(r)
    <3>1. log[i] = r[i] /\ i \in DOMAIN turn.ran
      BY <1>3, <2>2 DEF r
    <3>2. /\ Key[r[i].call] \in Reuse => Key[r[i].call] \in turn.receipts
          /\ Key[r[i].call] \in Query /\ r[i].ok => Key[r[i].call] \in turn.known
      BY <1>2, <3>1 DEF Cachings, r
    <3>3. QED
      BY <1>1, <3>1, <3>2
  <2>3. QED
    BY <1>3, <2>1, <2>2
<1>6. Unrepeated(log)
  <2> SUFFICES ASSUME NEW i \in 1 .. Len(r) + 1, NEW j \in 1 .. Len(r) + 1, i < j,
                      log[i].run, log[j].run, Key[log[i].call] = Key[log[j].call]
               PROVE  /\ Key[log[j].call] \notin Reuse
                      /\ ~ (Key[log[j].call] \in Query /\ log[i].ok)
    BY <1>3 DEF Unrepeated
  <2>1. i \in 1 .. Len(r) /\ log[i] = r[i]
    BY <1>3
  <2>2. CASE j \in 1 .. Len(r)
    <3>1. log[j] = r[j]
      BY <1>3, <2>2
    <3>2. QED
      BY <1>2, <1>3, <2>1, <2>2, <3>1 DEF Unrepeated
  <2>3. CASE j = Len(r) + 1
    <3>1. log[j] = entry
      BY <1>3, <2>3
    <3>2. /\ Key[r[i].call] \in Reuse => Key[r[i].call] \in turn.receipts
          /\ Key[r[i].call] \in Query /\ r[i].ok => Key[r[i].call] \in turn.known
      <4>1. i \in DOMAIN turn.ran
        BY <1>3, <2>1 DEF r
      <4>2. QED
        BY <1>2, <2>1, <4>1 DEF Cachings, r
    <3>3. ~ Reused /\ ~ Cached /\ Key[r[i].call] = Key[Call]
      BY <1>1, <2>1, <3>1
    <3>4. QED
      BY <1>1, <2>1, <3>1, <3>2, <3>3 DEF Reused, Cached
  <2>4. QED
    BY <1>3, <2>2, <2>3
<1>7. QED
  BY <1>4, <1>5, <1>6

LEMMA LoggedStep == ASSUME TurnAssumption, Shape, Logged, Next PROVE Logged'
<1>1. CASE turn'.ran = << >> /\ turn'.seen = << >>
  <2>1. Cachings(turn') /\ Unrepeated(turn'.ran) /\ Unlooped(turn'.ran)
    BY <1>1 DEF Cachings, Unrepeated, Unlooped, TurnAssumption
  <2>2. Newest(turn'.seen, turn'.ran)
    BY <1>1 DEF Newest, Least, TurnAssumption
  <2>3. QED
    BY <2>1, <2>2 DEF Logged
<1>2. CASE /\ turn'.ran = turn.ran /\ turn'.known = turn.known /\ turn'.receipts = turn.receipts
           /\ \/ turn'.pc \notin {"asked"} \cup Working
              \/ turn.pc \in {"asked"} \cup Working /\ turn'.seen = turn.seen
  BY <1>2 DEF Logged, Cachings
<1>3. CASE Begin
  BY <1>1, <1>3, BeginTurn
<1>4. CASE Progress
  BY <1>2, <1>4, WorkTurn DEF Quiet
<1>5. CASE Failing
  <2>1. /\ turn'.pc = "failing" /\ turn'.ran = turn.ran
        /\ turn'.known = turn.known /\ turn'.receipts = turn.receipts
    BY <1>5, FailingTurn DEF Failing
  <2>2. QED
    BY <1>2, <2>1 DEF Working
<1>6. CASE Conclude
  BY <1>2, <1>6, ConcludeTurn DEF Quiet, Working
<1>7. CASE GiveAgain \/ Execute
  <2>1. turn.pc = "tool" /\ (FromReceipt \/ FromCache \/ FromTool)
    BY <1>7, ToolTurn
  <2>2. CASE FromReceipt
    BY <1>2, <2>1, <2>2 DEF FromReceipt, Quiet, Working
  <2>3. CASE FromCache \/ FromTool
    <3>1. Cachings(turn') /\ Unrepeated(turn'.ran)
      BY <2>1, <2>3, NotedOnce
    <3>2. ~ Reused /\ \E entry : Noted(entry)
      BY <2>3 DEF FromCache, FromTool
    <3>3. Newest(turn'.seen, turn'.ran) /\ Unlooped(turn'.ran)
      BY <2>1, <3>2, NotedStep
    <3>4. QED
      BY <3>1, <3>3 DEF Logged
  <2>4. QED
    BY <2>1, <2>2, <2>3
<1>8. CASE Ending
  BY <1>1, <1>8, EndTurn, NoTurnIsTurn
<1>9. QED
  BY <1>3, <1>4, <1>5, <1>6, <1>7, <1>8, ByRecord

(* A turn runs a tool that gives its receipt again once, does not run a     *)
(* query again that has succeeded, and neither repeats a call nor lets two  *)
(* take turns as often as the detector allows, whatever the model asks for  *)
(* and however long the turn is (AgentRuntime.run, LoopDetector.check).     *)
THEOREM ToolsAreNotRepeated == ASSUME TurnAssumption PROVE Spec => []ToolsOnce
<1>1. Init => Logged
  <2> SUFFICES ASSUME Init PROVE Logged
    OBVIOUS
  <2>1. turn.ran = << >> /\ turn.seen = << >> /\ turn.pc = "idle"
    BY NoTurnIsTurn DEF Init
  <2>2. QED
    BY <2>1 DEF Logged, Cachings, Unrepeated, Unlooped, TurnAssumption, Working
<1>2. Shape /\ Logged /\ [Next]_vars => Logged'
  <2>1. ASSUME Shape, Logged, UNCHANGED vars PROVE Logged'
    BY <2>1 DEF vars, Logged, Cachings
  <2>2. QED
    BY <2>1, LoggedStep
<1>3. Logged => ToolsOnce
  BY DEF Logged, ToolsOnce, Unrepeated, Unlooped
<1>4. QED
  BY <1>1, <1>2, <1>3, TypeCorrect, PTL DEF Spec

-------------------------------------------------------------------------------
(* What the model is given.  A message that asks for tools is stored with   *)
(* its turn, its results one by one after it, and an abandoned turn leaves   *)
(* it without some of them; all else follows from that order.               *)

\* A sequence in which each result comes in its turn after the message that asked
\* for it, with nothing else between.
Follows(s, j, i) ==
  /\ s[j].kind = "calls" /\ i - j \in 1 .. Len(s[j].ids)
  /\ \A k \in 1 .. i - j : s[j + k] = Answers(s[j].ids[k])
Laid(s) == \A i \in DOMAIN s : s[i].kind = "tool" => \E j \in 1 .. i - 1 : Follows(s, j, i)

\* The calls of a message are numbered, after the turn and the step.
Name(m) == <<m.ids[1][1], m.ids[1][2]>>
Numbered(m) == m.ids # << >> /\ \A k \in DOMAIN m.ids : m.ids[k] = <<m.ids[1][1], m.ids[1][2], k>>
Named(s) == \A j \in DOMAIN s : s[j].kind = "calls" => Numbered(s[j])

\* Calls get a first result at once, but those at one place may still wait for it.
Met(s, place) ==
  \A j \in DOMAIN s : s[j].kind = "calls" /\ j # place =>
                        j < Len(s) /\ s[j + 1] = Answers(s[j].ids[1])
Presentable(s) == s \in Seq(Message) /\ Laid(s) /\ Named(s) /\ Met(s, 0)

\* What the turn in progress has asked for last, and what has been answered of it.
LastAsked(s) == Len(s) - turn.at + 1
Answering(s) ==
  /\ LastAsked(s) \in DOMAIN s /\ s[LastAsked(s)] = Asks(IdsOf(turn.calls))
  /\ \A k \in 1 .. turn.at - 1 : s[LastAsked(s) + k] = Answers(<<no, turn.step + 1, k>>)

\* What is stored: calls are told apart by their turns and steps, and none is named
\* as one that the turn t, the n-th, has still to ask for.
Distinct(s) ==
  \A i, j \in DOMAIN s :
    s[i].kind = "calls" /\ s[j].kind = "calls" /\ Name(s[i]) = Name(s[j]) => i = j
Asked(name, n, t) ==
  /\ name[1] <= n
  /\ t.pc # "idle" /\ name[1] = n =>
       name[2] <= t.step \/ (t.pc \in {"tool", "failing"} /\ name[2] = t.step + 1)
Kept(s, n, t) ==
  /\ s \in Seq(Message) /\ Laid(s) /\ Named(s) /\ Distinct(s)
  /\ \A j \in DOMAIN s : s[j].kind = "calls" => Asked(Name(s[j]), n, t)

\* The messages of the turn: the history, up to its base, and what was said since.
Speech(s, base) ==
  /\ s \in Seq(Message) /\ Laid(s) /\ Named(s) /\ base \in 0 .. Len(s)
  /\ base < Len(s) => s[base + 1].kind # "tool"
Spoken ==
  turn.pc \in Working =>
    /\ Speech(turn.work, turn.base)
    /\ IF turn.pc = "tool"
       THEN /\ Answering(turn.work) /\ Answering(messages)
            /\ Met(turn.work, LastAsked(turn.work)) /\ turn.base < LastAsked(turn.work)
       ELSE Met(turn.work, 0)
Orderly == Kept(messages, no, turn) /\ Spoken /\ Presentable(sent)

-------------------------------------------------------------------------------
(* Sets of places in a sequence.                                            *)

LEMMA LeastOf == ASSUME NEW T \in SUBSET Nat, T # {} PROVE \E x \in T : \A y \in T : x <= y
<1>1. IsWellFoundedOn(OpToRel(<, Nat), Nat)
  BY NatLessThanWellFounded
<1>2. PICK x \in T : \A y \in T : ~ (<<y, x>> \in OpToRel(<, Nat))
  BY <1>1, WFMin
<1>3. \A y \in T : ~ (y < x)
  BY <1>2 DEF OpToRel
<1>4. QED
  BY <1>3

LEMMA PlacesAreFinite ==
  ASSUME NEW n \in Nat, NEW A \in SUBSET (1 .. n)
  PROVE  IsFiniteSet(A) /\ Cardinality(A) \in Nat
<1>1. 1 \in Int /\ n \in Int
  OBVIOUS
<1>2. IsFiniteSet(1 .. n)
  BY <1>1, FS_Interval
<1>3. IsFiniteSet(A)
  BY <1>2, FS_Subset
<1>4. QED
  BY <1>3, FS_CardinalityType

\* Each rank in a set of places is held by one of them.
LEMMA Ranked ==
  ASSUME NEW n \in Nat, NEW A \in SUBSET (1 .. n), NEW rank \in 1 .. Cardinality(A)
  PROVE  \E i \in A : Cardinality({j \in A : j < i}) = rank - 1
<1> DEFINE Below(i) == {j \in A : j < i}
           Held(k) == \E i \in A : Cardinality(Below(i)) = k - 1
           T == {k \in 1 .. Cardinality(A) : ~ Held(k)}
<1>1. IsFiniteSet(A) /\ Cardinality(A) \in Nat /\ A \in SUBSET Nat
  <2>1. A \in SUBSET Nat
    OBVIOUS
  <2>2. IsFiniteSet(A) /\ Cardinality(A) \in Nat
    BY PlacesAreFinite
  <2>3. QED
    BY <2>1, <2>2
<1>2. SUFFICES ASSUME T # {} PROVE FALSE
  OBVIOUS
<1>3. T \in SUBSET Nat
  <2> HIDE DEF Held
  <2>1. \A k \in T : k \in Nat
    BY <1>1
  <2>2. QED
    BY <2>1
<1>4. PICK k \in T : \A y \in T : k <= y
  <2> HIDE DEF T
  <2>1. QED
    BY <1>2, <1>3, LeastOf
<1>5. k \in 1 .. Cardinality(A) /\ ~ Held(k)
  BY <1>4
<1>6. A # {}
  BY <1>1, <1>5, FS_EmptySet
<1>7. CASE k = 1
  <2>1. PICK i \in A : \A y \in A : i <= y
    BY <1>1, <1>6, LeastOf
  <2>2. i \in Nat /\ \A j \in A : j \in Nat /\ ~ (j < i)
    BY <1>1, <2>1
  <2>3. Cardinality(Below(i)) = 0
    <3>1. Below(i) = {}
      BY <2>2
    <3>2. QED
      BY <3>1, FS_EmptySet
  <2>4. QED
    BY <1>5, <1>7, <2>3
<1>8. CASE k # 1
  <2>1. k - 1 \in 1 .. Cardinality(A) /\ k - 1 \notin T
    <3>1. k \in Nat /\ k - 1 \in 1 .. Cardinality(A) /\ ~ (k <= k - 1)
      BY <1>1, <1>5, <1>8
    <3> HIDE DEF T
    <3>2. QED
      BY <1>4, <3>1
  <2>2. PICK i \in A : Cardinality(Below(i)) = (k - 1) - 1
    BY <2>1
  <2> DEFINE above == {j \in A : j > i}
             upto == Below(i) \cup {i}
  <2>3. IsFiniteSet(Below(i)) /\ i \notin Below(i)
    BY <1>1, FS_Subset
  <2>4. Cardinality(upto) = k - 1
    <3> HIDE DEF Below
    <3>1. Cardinality(upto) = Cardinality(Below(i)) + 1
      BY <2>3, FS_AddElement
    <3>2. QED
      BY <1>1, <1>5, <2>2, <3>1
  <2>5. CASE above = {}
    <3>1. \A j \in A : j \in Nat /\ ~ (j > i) /\ i \in Nat
      BY <1>1, <2>5
    <3>2. \A j \in A : j < i \/ j = i
      BY <3>1
    <3>3. A = upto
      BY <3>2
    <3> HIDE DEF upto
    <3>4. QED
      BY <1>1, <1>5, <2>4, <3>3
  <2>6. CASE above # {}
    <3>1. PICK m \in above : \A y \in above : m <= y
      <4>1. above \in SUBSET Nat
        BY <1>1
      <4> HIDE DEF above
      <4>2. QED
        BY <2>6, <4>1, LeastOf
    <3>2. m \in Nat /\ i \in Nat /\ i < m /\ \A j \in A : j \in Nat /\ (j > i => m <= j)
      BY <1>1, <3>1
    <3>3. \A j \in A : j < m <=> j < i \/ j = i
      BY <3>2
    <3>4. Below(m) = upto
      BY <3>3
    <3>5. Held(k)
      BY <2>4, <3>1, <3>4
    <3>6. QED
      BY <1>5, <3>5
  <2>7. QED
    BY <2>5, <2>6
<1>9. QED
  BY <1>7, <1>8

LEMMA PickedFacts ==
  ASSUME NEW s \in Seq(Message), NEW I \in SUBSET (1 .. Len(s))
  PROVE  /\ Picked(s, I) \in Seq(Message) /\ Len(Picked(s, I)) = Cardinality(I)
         /\ \A k \in 1 .. Len(Picked(s, I)) : \E i \in I : Picked(s, I)[k] = s[i]
<1> DEFINE n == Cardinality(I)
           at(k) == CHOOSE i \in I : Cardinality({j \in I : j < i}) = k - 1
           p == [k \in 1 .. n |-> s[at(k)]]
<1>1. Len(s) \in Nat /\ n \in Nat
  <2>1. Len(s) \in Nat
    OBVIOUS
  <2>2. QED
    BY <2>1, PlacesAreFinite
<1>2. \A k \in 1 .. n : at(k) \in I
  BY <1>1, Ranked
<1>3. \A i \in I : s[i] \in Message
  OBVIOUS
<1>4. Picked(s, I) = p
  BY DEF Picked
<1> HIDE DEF n, at
<1>5. p \in Seq(Message) /\ Len(p) = n
  <2>1. \A k \in 1 .. n : s[at(k)] \in Message
    BY <1>2, <1>3
  <2>2. p \in [1 .. n -> Message]
    BY <2>1
  <2>3. QED
    BY <1>1, <2>2
<1>6. \A k \in 1 .. n : p[k] = s[at(k)]
  OBVIOUS
<1> HIDE DEF p
<1>7. QED
  BY <1>2, <1>4, <1>5, <1>6 DEF n

\* t is what s has from place b on.
IsTail(t, s, b) ==
  /\ t \in Seq(Message) /\ b \in 1 .. Len(s) /\ Len(t) = Len(s) - b + 1
  /\ \A k \in 1 .. Len(t) : t[k] = s[b + k - 1]

LEMMA PickedTail ==
  ASSUME NEW s \in Seq(Message), NEW b \in 1 .. Len(s)
  PROVE  IsTail(Picked(s, b .. Len(s)), s, b)
<1> DEFINE I == b .. Len(s)
           n == Len(s) - b + 1
           at(k) == CHOOSE i \in I : Cardinality({j \in I : j < i}) = k - 1
<1>1. Len(s) \in Nat /\ b \in Nat /\ n \in Nat /\ b >= 1 /\ I \in SUBSET (1 .. Len(s))
  OBVIOUS
<1>2. Cardinality(I) = n
  BY <1>1, FS_Interval
<1>3. \A i \in I : Cardinality({j \in I : j < i}) = i - b
  <2>1. SUFFICES ASSUME NEW i \in I PROVE Cardinality({j \in I : j < i}) = i - b
    OBVIOUS
  <2>2. {j \in I : j < i} = b .. i - 1
    BY <1>1
  <2>3. Cardinality(b .. i - 1) = IF b > i - 1 THEN 0 ELSE (i - 1) - b + 1
    <3>1. i - 1 \in Int /\ b \in Int
      BY <1>1
    <3>2. QED
      BY <3>1, FS_Interval
  <2>4. i \in Nat /\ i >= b
    BY <1>1
  <2>5. (IF b > i - 1 THEN 0 ELSE (i - 1) - b + 1) = i - b
    BY <1>1, <2>4
  <2>6. QED
    BY <2>2, <2>3, <2>5
<1>4. \A k \in 1 .. n : at(k) = b + k - 1
  <2>1. SUFFICES ASSUME NEW k \in 1 .. n PROVE at(k) = b + k - 1
    OBVIOUS
  <2>2. b + k - 1 \in I /\ (b + k - 1) - b = k - 1
    BY <1>1
  <2>3. at(k) \in I /\ Cardinality({j \in I : j < at(k)}) = k - 1
    BY <1>3, <2>2
  <2>4. at(k) - b = k - 1
    BY <1>3, <2>3
  <2> HIDE DEF at
  <2>5. QED
    BY <1>1, <2>3, <2>4
<1>5. Picked(s, I) = [k \in 1 .. n |-> s[at(k)]]
  BY <1>2 DEF Picked
<1>6. \A k \in 1 .. n : Picked(s, I)[k] = s[b + k - 1]
  <2> HIDE DEF at, n
  <2>1. QED
    BY <1>4, <1>5
<1>7. Picked(s, I) \in Seq(Message) /\ Len(Picked(s, I)) = n
  BY <1>1, <1>2, PickedFacts
<1>8. QED
  BY <1>1, <1>6, <1>7 DEF IsTail

LEMMA SubSeqTail ==
  ASSUME NEW s \in Seq(Message), NEW b \in 1 .. Len(s)
  PROVE  IsTail(SubSeq(s, b, Len(s)), s, b)
  BY DEF IsTail

-------------------------------------------------------------------------------
(* Sequences of messages.                                                   *)

LEMMA KindOfAnswers == \A id : Answers(id).kind = "tool" /\ Answers(id).ids = <<id>>
  BY DEF Answers
LEMMA KindOfText == \A kind : Text(kind).kind = kind /\ Text(kind).ids = << >>
  BY DEF Text

LEMMA Chain ==
  ASSUME NEW s, NEW i \in Nat, NEW j \in 1 .. i - 1, Follows(s, j, i)
  PROVE  \A k \in j + 1 .. i : s[k] = Answers(s[j].ids[k - j]) /\ s[k].kind = "tool"
<1>1. SUFFICES ASSUME NEW k \in j + 1 .. i
               PROVE  s[k] = Answers(s[j].ids[k - j]) /\ s[k].kind = "tool"
  OBVIOUS
<1>2. k - j \in 1 .. i - j /\ j + (k - j) = k
  OBVIOUS
<1>3. s[j + (k - j)] = Answers(s[j].ids[k - j])
  BY <1>2 DEF Follows
<1>4. QED
  BY <1>2, <1>3, KindOfAnswers

LEMMA FirstAnswer ==
  ASSUME NEW s \in Seq(Message), Laid(s), NEW j \in 1 .. Len(s), s[j].kind = "calls",
         j < Len(s), s[j + 1].kind = "tool"
  PROVE  Follows(s, j, j + 1) /\ s[j + 1] = Answers(s[j].ids[1])
<1>1. j + 1 \in 1 .. Len(s) /\ j + 1 \in Nat
  OBVIOUS
<1>2. PICK f \in 1 .. (j + 1) - 1 : Follows(s, f, j + 1)
  BY <1>1 DEF Laid
<1>3. \A k \in f + 1 .. j + 1 : s[k] = Answers(s[f].ids[k - f]) /\ s[k].kind = "tool"
  BY <1>1, <1>2, Chain
<1>4. f = j
  <2>1. f < j => j \in f + 1 .. j + 1
    BY <1>2
  <2>2. ~ (f < j)
    BY <1>3, <2>1
  <2>3. QED
    BY <1>2, <2>2
<1>5. j + 1 \in f + 1 .. j + 1 /\ (j + 1) - f = 1
  BY <1>4
<1>6. QED
  BY <1>2, <1>3, <1>4, <1>5

\* What starts with a message that is no result leaves no result behind.
LEMMA TailIsLaid ==
  ASSUME NEW s \in Seq(Message), NEW b, NEW t, IsTail(t, s, b), s[b].kind # "tool",
         Laid(s), Named(s)
  PROVE  Laid(t) /\ Named(t) /\ (Met(s, 0) => Met(t, 0))
<1>1. /\ b \in 1 .. Len(s) /\ Len(s) \in Nat /\ b \in Nat /\ t \in Seq(Message) /\ Len(t) \in Nat
      /\ Len(t) = Len(s) - b + 1 /\ \A k \in 1 .. Len(t) : t[k] = s[b + k - 1]
  BY DEF IsTail
<1>2. \A k \in 1 .. Len(t) : b + k - 1 \in 1 .. Len(s)
  BY <1>1
<1>3. Laid(t)
  <2>1. SUFFICES ASSUME NEW i \in 1 .. Len(t), t[i].kind = "tool"
                 PROVE  \E j \in 1 .. i - 1 : Follows(t, j, i)
    BY <1>1, SMTT(40) DEF Laid
  <2>2. /\ i \in Nat /\ b + i - 1 \in Nat /\ b + i - 1 \in 1 .. Len(s)
        /\ s[b + i - 1].kind = "tool"
    BY <1>1, <1>2, <2>1
  <2>3. PICK f \in 1 .. (b + i - 1) - 1 : Follows(s, f, b + i - 1)
    BY <2>2 DEF Laid
  <2>4. \A k \in f + 1 .. b + i - 1 : s[k] = Answers(s[f].ids[k - f]) /\ s[k].kind = "tool"
    BY <2>2, <2>3, Chain
  <2>5. f >= b
    <3>1. f < b => b \in f + 1 .. b + i - 1
      BY <1>1, <2>2, <2>3, SMTT(40)
    <3>2. QED
      BY <1>1, <2>3, <2>4, <3>1
  <2> DEFINE j == f - b + 1
  <2>6. j \in 1 .. i - 1 /\ j \in 1 .. Len(t) /\ b + j - 1 = f /\ i - j = (b + i - 1) - f
    BY <1>1, <2>2, <2>3, <2>5
  <2>7. t[j] = s[f]
    BY <1>1, <2>6
  <2>8. \A k \in 1 .. i - j : t[j + k] = s[f + k]
    <3>1. SUFFICES ASSUME NEW k \in 1 .. i - j PROVE t[j + k] = s[f + k]
      OBVIOUS
    <3>2. j + k \in 1 .. Len(t) /\ b + (j + k) - 1 = f + k
      BY <1>1, <2>2, <2>6
    <3> HIDE DEF j
    <3>3. QED
      BY <1>1, <3>2
  <2> HIDE DEF j
  <2>9. Follows(t, j, i)
    BY <2>3, <2>6, <2>7, <2>8 DEF Follows
  <2>10. QED
    BY <2>6, <2>9
<1>4. Named(t)
  <2>1. SUFFICES ASSUME NEW j \in 1 .. Len(t), t[j].kind = "calls" PROVE Numbered(t[j])
    BY <1>1 DEF Named
  <2>2. b + j - 1 \in DOMAIN s /\ t[j] = s[b + j - 1]
    BY <1>1, <1>2
  <2>3. QED
    BY <2>1, <2>2 DEF Named
<1>5. ASSUME Met(s, 0) PROVE Met(t, 0)
  <2>1. SUFFICES ASSUME NEW j \in 1 .. Len(t), t[j].kind = "calls"
                 PROVE  j < Len(t) /\ t[j + 1] = Answers(t[j].ids[1])
    BY <1>1 DEF Met
  <2> DEFINE f == b + j - 1
  <2>2. f \in 1 .. Len(s) /\ f # 0 /\ t[j] = s[f]
    BY <1>1, <1>2
  <2>3. f < Len(s) /\ s[f + 1] = Answers(s[f].ids[1])
    <3> HIDE DEF f
    <3>1. QED
      BY <1>5, <2>1, <2>2 DEF Met
  <2>4. j + 1 \in 1 .. Len(t) /\ b + (j + 1) - 1 = f + 1
    BY <1>1, <2>3
  <2>5. t[j + 1] = s[f + 1]
    <3> HIDE DEF f
    <3>1. QED
      BY <1>1, <2>4
  <2>6. QED
    BY <1>1, <2>2, <2>3, <2>4, <2>5
<1>6. QED
  BY <1>3, <1>4, <1>5

\* A message that is no result comes at the end.
LEMMA NextMessage ==
  ASSUME NEW s \in Seq(Message), Laid(s), Named(s), NEW m \in Message, m.kind # "tool",
         m.kind = "calls" => Numbered(m)
  PROVE  LET t == Append(s, m)
         IN  /\ t \in Seq(Message) /\ Laid(t) /\ Named(t)
             /\ Met(s, 0) => Met(t, Len(t)) /\ (m.kind # "calls" => Met(t, 0))
<1> DEFINE t == Append(s, m)
           n == Len(s)
<1>1. /\ t \in Seq(Message) /\ Len(t) = n + 1 /\ n \in Nat /\ t[n + 1] = m
      /\ \A i \in 1 .. n : t[i] = s[i]
  OBVIOUS
<1> HIDE DEF t
<1>2. Laid(t)
  <2>1. SUFFICES ASSUME NEW i \in 1 .. Len(t), t[i].kind = "tool"
                 PROVE  \E j \in 1 .. i - 1 : Follows(t, j, i)
    BY <1>1 DEF Laid
  <2>2. i \in 1 .. n /\ s[i].kind = "tool"
    BY <1>1, <2>1
  <2>3. PICK j \in 1 .. i - 1 : Follows(s, j, i)
    BY <2>2 DEF Laid
  <2>4. t[j] = s[j] /\ \A k \in 1 .. i - j : t[j + k] = s[j + k]
    BY <1>1, <2>2, <2>3
  <2>5. QED
    BY <2>3, <2>4 DEF Follows
<1>3. Named(t)
  BY <1>1 DEF Named
<1>4. ASSUME Met(s, 0) PROVE Met(t, Len(t)) /\ (m.kind # "calls" => Met(t, 0))
  <2>1. ASSUME NEW j \in 1 .. n, t[j].kind = "calls"
        PROVE  j < Len(t) /\ t[j + 1] = Answers(t[j].ids[1])
    <3>1. s[j].kind = "calls" /\ j # 0 /\ j \in DOMAIN s
      BY <1>1, <2>1
    <3>2. j < n /\ s[j + 1] = Answers(s[j].ids[1])
      BY <1>4, <3>1 DEF Met
    <3>3. QED
      BY <1>1, <3>2
  <2>2. \A j \in DOMAIN t : j \in 1 .. n \/ j = Len(t)
    BY <1>1
  <2>3. Met(t, Len(t))
    BY <2>1, <2>2 DEF Met
  <2>4. ASSUME m.kind # "calls" PROVE Met(t, 0)
    BY <1>1, <2>1, <2>2, <2>4 DEF Met
  <2>5. QED
    BY <2>3, <2>4
<1>5. QED
  BY <1>1, <1>2, <1>3, <1>4 DEF t

\* The next result of what was asked for last.
LEMMA NextAnswer ==
  ASSUME NEW s \in Seq(Message), Laid(s), Named(s), Answering(s),
         no \in Nat, turn.step \in Nat, turn.at \in 1 .. Len(turn.calls), turn.calls \in Seq(Calls)
  PROVE  LET t == Append(s, Answers(<<no, turn.step + 1, turn.at>>))
             p == LastAsked(s)
         IN  /\ t \in Seq(Message) /\ Laid(t) /\ Named(t) /\ Len(t) = Len(s) + 1
             /\ Met(s, LastAsked(s)) => Met(t, 0)
             /\ p \in 1 .. Len(s) /\ t[p] = Asks(IdsOf(turn.calls))
             /\ \A k \in 1 .. turn.at : t[p + k] = Answers(<<no, turn.step + 1, k>>)
             /\ \A i \in 1 .. Len(s) : t[i] = s[i]
<1> DEFINE a == Answers(<<no, turn.step + 1, turn.at>>)
           t == Append(s, a)
           n == Len(s)
           p == LastAsked(s)
           ids == IdsOf(turn.calls)
<1>1. turn.at \in Nat /\ turn.at >= 1 /\ n \in Nat /\ p = n - turn.at + 1
  BY DEF LastAsked
<1>2. a \in Message /\ a.kind = "tool"
  <2>1. <<<<no, turn.step + 1, turn.at>>>> \in Seq(Nat \X Nat \X Nat)
    BY <1>1
  <2>2. QED
    BY <2>1 DEF Answers, Message, Kinds
<1> HIDE DEF a
<1>3. /\ t \in Seq(Message) /\ Len(t) = n + 1 /\ t[n + 1] = a /\ \A i \in 1 .. n : t[i] = s[i]
  BY <1>2
<1> HIDE DEF t
<1>4. p \in 1 .. n /\ p + turn.at = n + 1 /\ p \in Nat
  BY <1>1, SMTT(40) DEF Answering
<1>5. s[p] = Asks(ids) /\ \A k \in 1 .. turn.at - 1 : s[p + k] = Answers(<<no, turn.step + 1, k>>)
  BY DEF Answering
<1>6. Len(ids) = Len(turn.calls) /\ \A k \in 1 .. Len(turn.calls) : ids[k] = <<no, turn.step + 1, k>>
  BY DEF IdsOf
<1>7. s[p].kind = "calls" /\ s[p].ids = ids
  BY <1>5 DEF Asks
<1> HIDE DEF p, ids
<1>8. t[p] = s[p]
  BY <1>3, <1>4
<1>9. \A k \in 1 .. turn.at : t[p + k] = Answers(<<no, turn.step + 1, k>>)
  <2>1. SUFFICES ASSUME NEW k \in 1 .. turn.at PROVE t[p + k] = Answers(<<no, turn.step + 1, k>>)
    OBVIOUS
  <2>2. CASE k = turn.at
    BY <1>3, <1>4, <2>2 DEF a
  <2>3. CASE k # turn.at
    <3>1. k \in 1 .. turn.at - 1 /\ p + k \in 1 .. n
      BY <1>1, <1>4, <2>3, SMTT(40)
    <3>2. QED
      BY <1>3, <1>5, <3>1
  <2>4. QED
    BY <2>2, <2>3
<1>10. Follows(t, p, n + 1)
  <2>1. (n + 1) - p = turn.at /\ turn.at \in 1 .. Len(ids)
    BY <1>1, <1>4, <1>6
  <2>2. \A k \in 1 .. turn.at : t[p + k] = Answers(ids[k])
    <3>1. \A k \in 1 .. turn.at : k \in 1 .. Len(turn.calls)
      BY <1>1
    <3>2. QED
      BY <1>6, <1>9, <3>1
  <2>3. QED
    BY <1>7, <1>8, <2>1, <2>2 DEF Follows
<1>11. Laid(t)
  <2>1. SUFFICES ASSUME NEW i \in 1 .. Len(t), t[i].kind = "tool"
                 PROVE  \E j \in 1 .. i - 1 : Follows(t, j, i)
    BY <1>3 DEF Laid
  <2>2. CASE i = n + 1
    <3>1. p \in 1 .. i - 1
      BY <1>1, <1>4, <2>2
    <3>2. QED
      BY <1>10, <2>2, <3>1
  <2>3. CASE i # n + 1
    <3>1. i \in 1 .. n /\ s[i].kind = "tool"
      BY <1>1, <1>3, <2>1, <2>3
    <3>2. PICK j \in 1 .. i - 1 : Follows(s, j, i)
      BY <3>1 DEF Laid
    <3>3. t[j] = s[j] /\ \A k \in 1 .. i - j : t[j + k] = s[j + k]
      <4>1. j \in 1 .. n /\ \A k \in 1 .. i - j : j + k \in 1 .. n
        BY <1>1, <3>1, <3>2
      <4>2. QED
        BY <1>3, <4>1
    <3>4. QED
      BY <3>2, <3>3 DEF Follows
  <2>4. QED
    BY <2>2, <2>3
<1>12. \A j \in DOMAIN t : t[j].kind = "calls" => j \in 1 .. n /\ j \in DOMAIN s /\ s[j].kind = "calls" /\ t[j] = s[j]
  BY <1>1, <1>2, <1>3
<1>13. Named(t)
  BY <1>12 DEF Named
<1>14. ASSUME Met(s, p) PROVE Met(t, 0)
  <2>1. SUFFICES ASSUME NEW j \in DOMAIN t, t[j].kind = "calls"
                 PROVE  j < Len(t) /\ t[j + 1] = Answers(t[j].ids[1])
    BY DEF Met
  <2>2. j \in 1 .. n /\ j < Len(t) /\ j \in DOMAIN s /\ s[j].kind = "calls" /\ t[j] = s[j]
    BY <1>1, <1>3, <1>12, <2>1
  <2>3. CASE j = p
    <3>1. 1 \in 1 .. turn.at /\ 1 \in 1 .. Len(turn.calls)
      BY <1>1
    <3>2. t[p + 1] = Answers(ids[1])
      BY <1>6, <1>9, <3>1
    <3>3. QED
      BY <1>7, <2>2, <2>3, <3>2
  <2>4. CASE j # p
    <3>1. j < n /\ s[j + 1] = Answers(s[j].ids[1])
      BY <1>14, <2>2, <2>4 DEF Met
    <3>2. j + 1 \in 1 .. n
      BY <1>1, <2>2, <3>1
    <3>3. QED
      BY <1>3, <2>2, <3>1, <3>2
  <2>5. QED
    BY <2>3, <2>4
<1>15. QED
  BY <1>3, <1>4, <1>5, <1>8, <1>9, <1>11, <1>13, <1>14 DEF t, a, p, ids

Plain(s) == s \in Seq(Message) /\ \A i \in 1 .. Len(s) : s[i].kind \in {"user", "reply"}

LEMMA PlainIsPresentable == ASSUME NEW s, Plain(s) PROVE Presentable(s)
  BY DEF Plain, Presentable, Laid, Named, Met

LEMMA PlainThenPresentable ==
  ASSUME NEW p, Plain(p), NEW s, Presentable(s) PROVE Presentable(p \o s)
<1> DEFINE t == p \o s
           m == Len(p)
           n == Len(s)
<1>1. p \in Seq(Message) /\ s \in Seq(Message) /\ \A i \in 1 .. m : p[i].kind \in {"user", "reply"}
  BY DEF Plain, Presentable
<1>2. /\ t \in Seq(Message) /\ m \in Nat /\ n \in Nat /\ Len(t) = m + n
      /\ \A i \in 1 .. m : t[i] = p[i]
      /\ \A i \in m + 1 .. m + n : t[i] = s[i - m]
  BY <1>1
<1> HIDE DEF t, m, n
<1>3. ASSUME NEW i \in 1 .. Len(t), t[i].kind \in {"calls", "tool"}
      PROVE  i - m \in 1 .. n /\ i - m \in DOMAIN s /\ t[i] = s[i - m]
  <2>1. i \notin 1 .. m
    <3>1. ASSUME i \in 1 .. m PROVE p[i].kind \in {"calls", "tool"}
      BY <1>2, <1>3, <3>1
    <3>2. QED
      BY <1>1, <3>1
  <2>2. i - m \in 1 .. n /\ i \in m + 1 .. m + n
    BY <1>2, <2>1
  <2>3. t[i] = s[i - m]
    BY <1>2, <2>2, Zenon
  <2>4. QED
    BY <1>1, <2>2, <2>3 DEF n
<1>4. Laid(t)
  <2>1. SUFFICES ASSUME NEW i \in 1 .. Len(t), t[i].kind = "tool"
                 PROVE  \E j \in 1 .. i - 1 : Follows(t, j, i)
    <3>1. DOMAIN t = 1 .. Len(t)
      BY <1>2
    <3>2. QED
      BY <3>1 DEF Laid
  <2>2. i - m \in 1 .. n /\ i - m \in DOMAIN s /\ t[i] = s[i - m]
    BY <1>3, <2>1
  <2>3. PICK j \in 1 .. (i - m) - 1 : Follows(s, j, i - m)
    BY <2>1, <2>2 DEF Presentable, Laid
  <2>4. m + j \in 1 .. i - 1 /\ i - (m + j) = (i - m) - j /\ j \in 1 .. n
    BY <1>2, <2>2, <2>3
  <2>5. t[m + j] = s[j]
    <3>1. m + j \in m + 1 .. m + n /\ (m + j) - m = j
      BY <1>2, <2>4
    <3>2. t[m + j] = s[(m + j) - m]
      BY <1>2, <3>1, Zenon
    <3>3. QED
      BY <3>1, <3>2
  <2>6. \A k \in 1 .. (i - m) - j : t[(m + j) + k] = s[j + k]
    <3>1. SUFFICES ASSUME NEW k \in 1 .. (i - m) - j PROVE t[(m + j) + k] = s[j + k]
      OBVIOUS
    <3>2. (m + j) + k \in m + 1 .. m + n /\ ((m + j) + k) - m = j + k
      BY <1>2, <2>2, <2>3, <2>4
    <3>3. t[(m + j) + k] = s[((m + j) + k) - m]
      BY <1>2, <3>2, Zenon
    <3>4. QED
      BY <3>2, <3>3, Zenon
  <2>7. Follows(t, m + j, i)
    BY <2>3, <2>4, <2>5, <2>6 DEF Follows
  <2>8. QED
    BY <2>4, <2>7
<1>5. Named(t)
  <2>1. SUFFICES ASSUME NEW j \in 1 .. Len(t), t[j].kind = "calls" PROVE Numbered(t[j])
    BY <1>2 DEF Named
  <2>2. j - m \in DOMAIN s /\ t[j] = s[j - m]
    BY <1>3, <2>1
  <2>3. QED
    BY <2>1, <2>2 DEF Presentable, Named
<1>6. Met(t, 0)
  <2>1. SUFFICES ASSUME NEW j \in 1 .. Len(t), t[j].kind = "calls"
                 PROVE  j < Len(t) /\ t[j + 1] = Answers(t[j].ids[1])
    BY <1>2 DEF Met
  <2>2. j - m \in 1 .. n /\ j - m \in DOMAIN s /\ j - m # 0 /\ t[j] = s[j - m]
    BY <1>3, <2>1
  <2>3. j - m < n /\ s[(j - m) + 1] = Answers(s[j - m].ids[1])
    BY <2>1, <2>2 DEF Presentable, Met, n
  <2>4. j + 1 \in m + 1 .. m + n /\ (j + 1) - m = (j - m) + 1 /\ j < Len(t)
    BY <1>2, <2>2, <2>3
  <2>5. t[j + 1] = s[(j + 1) - m]
    BY <1>2, <2>4, Zenon
  <2>6. QED
    BY <2>2, <2>3, <2>4, <2>5
<1>7. QED
  BY <1>2, <1>4, <1>5, <1>6 DEF Presentable, t

LEMMA IdsOfMessage ==
  ASSUME NEW m \in Message PROVE m.ids \in Seq(Nat \X Nat \X Nat) /\ DOMAIN m.ids = 1 .. Len(m.ids)
<1>1. m.ids \in Seq(Nat \X Nat \X Nat)
  BY DEF Message
<1>2. QED
  BY <1>1

LEMMA PresentableIsShown ==
  ASSUME NEW s, Presentable(s), NEW i \in DOMAIN s
  PROVE  /\ s[i].kind = "tool" =>
              \E j \in 1 .. i - 1 : /\ s[j].kind = "calls" /\ s[i].ids[1] \in ToSet(s[j].ids)
                                    /\ \A k \in j + 1 .. i - 1 : s[k].kind = "tool" /\ s[k] # s[i]
         /\ s[i].kind = "calls" =>
              /\ i < Len(s) /\ s[i + 1].kind = "tool"
              /\ s[i + 1].ids[1] \in ToSet(s[i].ids)
<1>1. s \in Seq(Message) /\ i \in 1 .. Len(s) /\ i \in Nat /\ Len(s) \in Nat
  BY DEF Presentable
<1>2. ASSUME s[i].kind = "tool"
      PROVE  \E j \in 1 .. i - 1 : /\ s[j].kind = "calls" /\ s[i].ids[1] \in ToSet(s[j].ids)
                                   /\ \A k \in j + 1 .. i - 1 : s[k].kind = "tool" /\ s[k] # s[i]
  <2>1. PICK j \in 1 .. i - 1 : Follows(s, j, i)
    BY <1>2 DEF Presentable, Laid
  <2>2. \A k \in j + 1 .. i : s[k] = Answers(s[j].ids[k - j]) /\ s[k].kind = "tool"
    BY <1>1, <2>1, Chain
  <2>3. j \in DOMAIN s /\ s[j].kind = "calls" /\ i - j \in 1 .. Len(s[j].ids)
    BY <1>1, <2>1 DEF Follows
  <2>4. s[j].ids \in Seq(Nat \X Nat \X Nat) /\ DOMAIN s[j].ids = 1 .. Len(s[j].ids)
    <3>1. s[j] \in Message
      BY <1>1, <2>3
    <3>2. QED
      BY <3>1, IdsOfMessage
  <2>5. \A k \in 1 .. Len(s[j].ids) : s[j].ids[k] = <<s[j].ids[1][1], s[j].ids[1][2], k>>
    <3>1. Numbered(s[j])
      BY <2>3 DEF Presentable, Named
    <3>2. QED
      BY <2>4, <3>1 DEF Numbered
  <2>6. i \in j + 1 .. i /\ s[i].ids = <<s[j].ids[i - j]>>
    <3>1. i \in j + 1 .. i
      BY <1>1, <2>1
    <3>2. QED
      BY <2>2, <3>1, KindOfAnswers
  <2>7. s[i].ids[1] = s[j].ids[i - j] /\ s[i].ids[1] \in ToSet(s[j].ids)
    <3>1. s[i].ids[1] = s[j].ids[i - j]
      BY <2>6
    <3>2. i - j \in DOMAIN s[j].ids
      BY <2>3, <2>4
    <3>3. QED
      BY <3>1, <3>2 DEF ToSet
  <2>8. \A k \in j + 1 .. i - 1 : s[k].kind = "tool" /\ s[k] # s[i]
    <3>1. SUFFICES ASSUME NEW k \in j + 1 .. i - 1 PROVE s[k].kind = "tool" /\ s[k] # s[i]
      OBVIOUS
    <3>2. k \in j + 1 .. i /\ k - j \in 1 .. Len(s[j].ids) /\ k - j # i - j
      BY <1>1, <2>1, <2>3, SMTT(40)
    <3>3. s[k].ids = <<s[j].ids[k - j]>> /\ s[k].kind = "tool"
      BY <2>2, <3>2, KindOfAnswers
    <3>4. s[j].ids[k - j] # s[j].ids[i - j]
      BY <2>3, <2>5, <3>2
    <3>5. QED
      BY <2>6, <3>3, <3>4
  <2>9. QED
    BY <2>1, <2>3, <2>7, <2>8
<1>3. ASSUME s[i].kind = "calls"
      PROVE  i < Len(s) /\ s[i + 1].kind = "tool" /\ s[i + 1].ids[1] \in ToSet(s[i].ids)
  <2>1. i < Len(s) /\ s[i + 1] = Answers(s[i].ids[1])
    BY <1>1, <1>3 DEF Presentable, Met
  <2>2. s[i].ids \in Seq(Nat \X Nat \X Nat) /\ s[i].ids # << >>
    <3>1. s[i] \in Message
      BY <1>1
    <3>2. Numbered(s[i])
      BY <1>3 DEF Presentable, Named
    <3>3. QED
      BY <3>1, <3>2, IdsOfMessage DEF Numbered
  <2>3. s[i].ids[1] \in ToSet(s[i].ids)
    <3>1. 1 \in DOMAIN s[i].ids
      BY <2>2
    <3>2. QED
      BY <3>1 DEF ToSet
  <2>4. QED
    BY <2>1, <2>3, KindOfAnswers
<1>4. QED
  BY <1>2, <1>3

-------------------------------------------------------------------------------
(* The history.                                                             *)

\* The block of a message begins with one that is no result, and the blocks follow
\* each other.
LEMMA Blocks ==
  ASSUME NEW s \in Seq(Message), Laid(s), Named(s), Distinct(s), NEW i \in 1 .. Len(s)
  PROVE  /\ Block(s, i) \in 1 .. Len(s) /\ s[Block(s, i)].kind # "tool"
         /\ \A b \in 1 .. Len(s) : s[b].kind # "tool" => (Block(s, i) >= b <=> i >= b)
<1> DEFINE asked == {j \in 1 .. i - 1 : s[i].kind = "tool" /\ s[j].kind = "calls"
                                          /\ s[i].ids[1] \in ToSet(s[j].ids)}
<1>1. i \in Nat /\ Len(s) \in Nat
  OBVIOUS
<1>2. Block(s, i) = IF asked = {} THEN i ELSE CHOOSE j \in asked : TRUE
  BY DEF Block
<1>3. CASE s[i].kind # "tool"
  <2>1. Block(s, i) = i
    BY <1>2, <1>3
  <2>2. QED
    BY <1>3, <2>1
<1>4. CASE s[i].kind = "tool"
  <2>1. PICK j \in 1 .. i - 1 : Follows(s, j, i)
    BY <1>4 DEF Laid
  <2>2. \A k \in j + 1 .. i : s[k] = Answers(s[j].ids[k - j]) /\ s[k].kind = "tool"
    BY <1>1, <2>1, Chain
  <2>3. j \in DOMAIN s /\ j \in 1 .. Len(s) /\ s[j].kind = "calls" /\ i - j \in 1 .. Len(s[j].ids)
    BY <1>1, <2>1 DEF Follows
  <2>4. s[i].ids[1] = s[j].ids[i - j]
    <3>1. i \in j + 1 .. i
      BY <1>1, <2>1
    <3>2. s[i].ids = <<s[j].ids[i - j]>>
      BY <2>2, <3>1, KindOfAnswers
    <3>3. QED
      BY <3>2
  <2>5. s[j].ids \in Seq(Nat \X Nat \X Nat) /\ DOMAIN s[j].ids = 1 .. Len(s[j].ids)
    <3>1. s[j] \in Message
      BY <2>3
    <3>2. QED
      BY <3>1, IdsOfMessage
  <2>6. s[i].ids[1] = <<s[j].ids[1][1], s[j].ids[1][2], i - j>>
    <3>1. i - j \in DOMAIN s[j].ids
      BY <2>3, <2>5
    <3>2. Numbered(s[j])
      BY <2>3 DEF Named
    <3>3. QED
      BY <2>4, <3>1, <3>2 DEF Numbered
  <2>7. j \in asked
    <3>1. i - j \in DOMAIN s[j].ids
      BY <2>3, <2>5
    <3>2. s[i].ids[1] \in ToSet(s[j].ids)
      BY <2>4, <3>1 DEF ToSet
    <3>3. QED
      BY <1>4, <2>1, <2>3, <3>2
  <2>8. ASSUME NEW x \in asked PROVE x = j
    <3>1. x \in DOMAIN s /\ s[x].kind = "calls" /\ s[i].ids[1] \in ToSet(s[x].ids)
      BY <1>1
    <3>2. PICK k \in DOMAIN s[x].ids : s[i].ids[1] = s[x].ids[k]
      BY <3>1 DEF ToSet
    <3>3. Numbered(s[x])
      BY <3>1 DEF Named
    <3>4. s[i].ids[1] = <<s[x].ids[1][1], s[x].ids[1][2], k>>
      BY <3>2, <3>3 DEF Numbered
    <3>5. Name(s[x]) = Name(s[j])
      BY <2>6, <3>4 DEF Name
    <3>6. QED
      BY <2>3, <3>1, <3>5 DEF Distinct
  <2> HIDE DEF asked
  <2>9. Block(s, i) = j
    BY <1>2, <2>7, <2>8
  <2>10. ASSUME NEW b \in 1 .. Len(s), s[b].kind # "tool" PROVE j >= b <=> i >= b
    <3>1. b \notin j + 1 .. i
      BY <2>2, <2>10
    <3>2. QED
      BY <1>1, <2>1, <3>1
  <2>11. QED
    BY <2>3, <2>9, <2>10
<1>5. QED
  BY <1>3, <1>4

LEMMA WindowIsTail ==
  ASSUME NEW s \in Seq(Message), Laid(s), Named(s), Distinct(s), NEW w \in Windows(s)
  PROVE  \E b \in 1 .. Len(s) : s[b].kind # "tool" /\ w = b .. Len(s)
<1>1. PICK x \in 1 .. Len(s) : w = {i \in 1 .. Len(s) : Block(s, i) >= Block(s, x)}
  BY DEF Windows
<1> DEFINE b == Block(s, x)
<1>2. b \in 1 .. Len(s) /\ s[b].kind # "tool"
  BY Blocks
<1>3. \A i \in 1 .. Len(s) : Block(s, i) >= b <=> i >= b
  BY <1>2, Blocks
<1>4. w = {i \in 1 .. Len(s) : i >= b}
  BY <1>1, <1>3
<1> HIDE DEF b
<1>5. w = b .. Len(s)
  BY <1>2, <1>4
<1>6. QED
  BY <1>2, <1>5

LEMMA SanitizedIsPresentable ==
  ASSUME NEW h \in Seq(Message), Laid(h), Named(h)
  PROVE  Presentable(Sanitized(h)) /\ Len(Sanitized(h)) = Len(h)
<1> DEFINE t == Sanitized(h)
           open(i) == h[i].kind = "calls" /\ (i = Len(h) \/ h[i + 1].kind # "tool")
<1>1. Text("reply") \in Message /\ Text("reply").kind = "reply"
  BY TextIsMessage, KindOfText DEF Kinds
<1>2. t = [i \in 1 .. Len(h) |-> IF open(i) THEN Text("reply") ELSE h[i]]
  BY DEF Sanitized
<1>3. t \in Seq(Message) /\ Len(t) = Len(h) /\ Len(h) \in Nat
  <2>1. \A i \in 1 .. Len(h) : (IF open(i) THEN Text("reply") ELSE h[i]) \in Message
    BY <1>1
  <2>2. t \in [1 .. Len(h) -> Message] /\ Len(h) \in Nat
    BY <1>2, <2>1
  <2> HIDE DEF t
  <2>3. QED
    BY <2>2
<1>4. \A i \in 1 .. Len(h) : t[i] = IF open(i) THEN Text("reply") ELSE h[i]
  BY <1>2
<1> HIDE DEF t
<1>5. \A i \in 1 .. Len(h) : h[i].kind = "tool" => t[i] = h[i]
  BY <1>4
<1>6. \A i \in 1 .. Len(h) : t[i].kind \in {"tool", "calls"} => t[i] = h[i]
  BY <1>1, <1>4
<1>7. ASSUME NEW j \in 1 .. Len(h), h[j].kind = "calls", j < Len(h), h[j + 1].kind = "tool"
      PROVE  t[j] = h[j]
  <2>1. j # Len(h)
    BY <1>3, <1>7
  <2>2. ~ open(j)
    BY <1>7, <2>1
  <2> HIDE DEF open
  <2>3. QED
    BY <1>4, <2>2
<1> HIDE DEF open
<1>8. Laid(t)
  <2>1. SUFFICES ASSUME NEW i \in 1 .. Len(h), t[i].kind = "tool"
                 PROVE  \E j \in 1 .. i - 1 : Follows(t, j, i)
    BY <1>3 DEF Laid
  <2>2. i \in Nat /\ h[i].kind = "tool" /\ t[i] = h[i]
    BY <1>6, <2>1
  <2>3. PICK j \in 1 .. i - 1 : Follows(h, j, i)
    BY <2>2 DEF Laid
  <2>4. \A k \in j + 1 .. i : h[k] = Answers(h[j].ids[k - j]) /\ h[k].kind = "tool"
    BY <2>2, <2>3, Chain
  <2>5. j \in 1 .. Len(h) /\ j < Len(h) /\ j + 1 \in j + 1 .. i /\ h[j].kind = "calls"
    BY <1>3, <2>2, <2>3 DEF Follows
  <2>6. t[j] = h[j]
    BY <1>7, <2>4, <2>5
  <2>7. \A k \in 1 .. i - j : t[j + k] = h[j + k]
    <3>1. SUFFICES ASSUME NEW k \in 1 .. i - j PROVE t[j + k] = h[j + k]
      OBVIOUS
    <3>2. j + k \in j + 1 .. i /\ j + k \in 1 .. Len(h)
      BY <1>3, <2>2, <2>3
    <3>3. QED
      BY <1>5, <2>4, <3>2
  <2>8. Follows(t, j, i)
    BY <2>3, <2>6, <2>7 DEF Follows
  <2>9. QED
    BY <2>8
<1>9. Named(t)
  <2>1. SUFFICES ASSUME NEW j \in 1 .. Len(h), t[j].kind = "calls" PROVE Numbered(t[j])
    BY <1>3 DEF Named
  <2>2. t[j] = h[j] /\ j \in DOMAIN h
    BY <1>6, <2>1
  <2>3. QED
    BY <2>1, <2>2 DEF Named
<1>10. Met(t, 0)
  <2>1. SUFFICES ASSUME NEW j \in 1 .. Len(h), t[j].kind = "calls"
                 PROVE  j < Len(h) /\ t[j + 1] = Answers(t[j].ids[1])
    BY <1>3 DEF Met
  <2>2. t[j] = h[j] /\ h[j].kind = "calls"
    BY <1>6, <2>1
  <2>3. ~ open(j)
    BY <1>1, <1>4, <2>1
  <2>4. j < Len(h) /\ h[j + 1].kind = "tool" /\ j + 1 \in 1 .. Len(h)
    BY <1>3, <2>2, <2>3 DEF open
  <2>5. h[j + 1] = Answers(h[j].ids[1])
    BY <2>2, <2>4, FirstAnswer
  <2>6. t[j + 1] = h[j + 1]
    BY <1>5, <2>4
  <2>7. QED
    BY <2>2, <2>4, <2>5, <2>6
<1>11. QED
  BY <1>3, <1>8, <1>9, <1>10 DEF Presentable, t

LEMMA ValidatedIsPresentable ==
  ASSUME NEW h, Presentable(h), Len(h) >= 1
  PROVE  Presentable(Validated(h))
<1> DEFINE waited(i) == \E j \in 1 .. i - 1 :
                           /\ h[j].kind = "calls" /\ h[i].ids[1] \in ToSet(h[j].ids)
                           /\ \A k \in j + 1 .. i - 1 : h[k] # h[i]
<1>1. h \in Seq(Message) /\ Len(h) \in Nat /\ 1 \in 1 .. Len(h) /\ Laid(h) /\ Named(h) /\ Met(h, 0)
  BY DEF Presentable
<1>2. \A i \in DOMAIN h : h[i].kind = "tool" => waited(i)
  BY PresentableIsShown
<1>3. Validated(h) = Picked(h, {i \in DOMAIN h : h[i].kind = "tool" => waited(i)})
  BY DEF Validated
<1> HIDE DEF waited
<1>4. {i \in DOMAIN h : h[i].kind = "tool" => waited(i)} = 1 .. Len(h)
  BY <1>1, <1>2
<1>5. IsTail(Validated(h), h, 1)
  BY <1>1, <1>3, <1>4, PickedTail
<1>6. h[1].kind # "tool"
  BY <1>1 DEF Laid
<1>7. QED
  BY <1>1, <1>5, <1>6, TailIsLaid DEF Presentable, IsTail

\* Whatever was stored and however the window cuts it, the history can be shown.
LEMMA HistoryIsPresentable ==
  ASSUME NEW s \in Seq(Message), Laid(s), Named(s), Distinct(s), NEW h \in Histories(s)
  PROVE  Presentable(h)
<1>1. PICK w \in Windows(s) : h = Validated(Sanitized(Picked(s, w)))
  BY DEF Histories
<1>2. PICK b \in 1 .. Len(s) : s[b].kind # "tool" /\ w = b .. Len(s)
  BY WindowIsTail
<1> DEFINE p == Picked(s, w)
<1>3. IsTail(p, s, b)
  BY <1>2, PickedTail
<1> HIDE DEF p
<1>4. p \in Seq(Message) /\ Len(p) >= 1 /\ Laid(p) /\ Named(p)
  <2>1. Laid(p) /\ Named(p)
    BY <1>2, <1>3, TailIsLaid
  <2>2. QED
    BY <2>1, <1>3 DEF IsTail
<1>5. Presentable(Sanitized(p)) /\ Len(Sanitized(p)) >= 1
  BY <1>4, SanitizedIsPresentable
<1>6. QED
  BY <1>1, <1>5, ValidatedIsPresentable DEF p

-------------------------------------------------------------------------------
(* What is left of the messages when they are compacted.                    *)

LEMMA LastOfPlain == ASSUME NEW s, Plain(s), NEW k \in Nat PROVE Plain(LastOf(s, k))
<1> DEFINE b == Greatest(1, Len(s) - k + 1)
           t == SubSeq(s, b, Len(s))
<1>1. s \in Seq(Message) /\ Len(s) \in Nat
  BY DEF Plain
<1>2. b \in Nat /\ b >= 1 /\ b <= Len(s) + 1
  BY <1>1 DEF Greatest
<1> HIDE DEF b
<1>3. /\ t \in Seq(Message) /\ Len(t) = Len(s) - b + 1
      /\ \A i \in 1 .. Len(t) : b + i - 1 \in 1 .. Len(s) /\ t[i] = s[b + i - 1]
  BY <1>1, <1>2
<1> HIDE DEF t
<1>4. Plain(t)
  BY <1>3 DEF Plain
<1>5. QED
  BY <1>4 DEF LastOf, t, b

LEMMA PlainMore ==
  ASSUME NEW s, Plain(s) PROVE Plain(s \o <<Text("user")>>)
<1> DEFINE m == Text("user")
           t == s \o <<m>>
<1>1. m \in Message /\ m.kind = "user"
  BY TextIsMessage, KindOfText DEF Kinds
<1> HIDE DEF m
<1>2. s \in Seq(Message) /\ Len(s) \in Nat /\ \A i \in 1 .. Len(s) : s[i].kind \in {"user", "reply"}
  BY DEF Plain
<1>3. /\ t \in Seq(Message) /\ Len(t) = Len(s) + 1
      /\ \A i \in 1 .. Len(t) : (t[i] = s[i] /\ i \in 1 .. Len(s)) \/ t[i] = m
  BY <1>1, <1>2
<1> HIDE DEF t
<1>4. Plain(t)
  BY <1>1, <1>2, <1>3 DEF Plain
<1>5. QED
  BY <1>4 DEF t, m

LEMMA RankedLast ==
  ASSUME NEW n \in Nat, NEW A \in SUBSET (1 .. n), NEW r \in 1 .. Cardinality(A)
  PROVE  \E i \in A : Cardinality({j \in A : j >= i}) = r
<1>1. IsFiniteSet(A) /\ Cardinality(A) \in Nat
  BY PlacesAreFinite
<1> DEFINE rank == Cardinality(A) - r + 1
<1>2. rank \in 1 .. Cardinality(A) /\ Cardinality(A) - (rank - 1) = r
  BY <1>1
<1> HIDE DEF rank
<1>3. PICK i \in A : Cardinality({j \in A : j < i}) = rank - 1
  BY <1>2, Ranked
<1> DEFINE low == {j \in A : j < i}
           high == {j \in A : j >= i}
<1>4. high = A \ low
  <2>1. \A j \in A : j \in Nat /\ i \in Nat
    OBVIOUS
  <2>2. \A j \in A : j >= i <=> ~ (j < i)
    BY <2>1
  <2>3. QED
    BY <2>2
<1>5. A \cap low = low
  OBVIOUS
<1>6. Cardinality(low) = rank - 1
  BY <1>3
<1> HIDE DEF high, low
<1>7. Cardinality(high) = Cardinality(A) - Cardinality(A \cap low)
  BY <1>1, <1>4, FS_Difference, Zenon
<1>8. Cardinality(high) = r
  BY <1>2, <1>5, <1>6, <1>7
<1>9. QED
  BY <1>8 DEF high

LEMMA CompactedIsPresentable ==
  ASSUME RecentRounds \in Nat \ {0}, MaxTalk \in Nat, NEW work, Presentable(work), NEW base \in 0 .. Len(work),
         base < Len(work) => work[base + 1].kind # "tool"
  PROVE  Presentable(Compacted(work, base))
<1> DEFINE I == {i \in 1 .. base : work[i].kind \in {"user", "reply"}}
           talk == Picked(work, I)
           now == SubSeq(work, base + 1, Len(work))
           asked == {i \in DOMAIN now : now[i].kind = "calls"}
           c == Cardinality(asked)
           recent == {i \in asked : Cardinality({j \in asked : j >= i}) = Least(RecentRounds, c)}
           place == CHOOSE i \in recent : TRUE
           kept == IF asked = {} THEN LastOf(now, 4) ELSE SubSeq(now, place, Len(now))
<1>1. work \in Seq(Message) /\ Len(work) \in Nat /\ base \in Nat /\ Laid(work) /\ Named(work) /\ Met(work, 0)
  BY DEF Presentable
<1>2. Plain(talk)
  <2>1. I \in SUBSET (1 .. Len(work))
    BY <1>1
  <2>2. \A i \in I : work[i].kind \in {"user", "reply"}
    OBVIOUS
  <2> HIDE DEF I
  <2>3. /\ talk \in Seq(Message)
        /\ \A k \in 1 .. Len(talk) : \E i \in I : talk[k] = work[i]
    BY <1>1, <2>1, PickedFacts
  <2> HIDE DEF talk
  <2>4. QED
    BY <2>2, <2>3 DEF Plain
<1>3. Presentable(now)
  <2>1. CASE base = Len(work)
    <3>1. now = << >>
      BY <1>1, <2>1
    <3>2. Plain(<< >>)
      BY DEF Plain
    <3>3. QED
      BY <3>1, <3>2, PlainIsPresentable
  <2>2. CASE base # Len(work)
    <3>1. base + 1 \in 1 .. Len(work) /\ work[base + 1].kind # "tool"
      BY <1>1, <2>2
    <3>2. IsTail(now, work, base + 1)
      BY <1>1, <3>1, SubSeqTail
    <3> HIDE DEF now
    <3>3. QED
      BY <1>1, <3>1, <3>2, TailIsLaid DEF Presentable, IsTail
  <2>3. QED
    BY <2>1, <2>2
<1> HIDE DEF now
<1>4. now \in Seq(Message) /\ Len(now) \in Nat /\ DOMAIN now = 1 .. Len(now) /\ Laid(now) /\ Named(now) /\ Met(now, 0)
  BY <1>3 DEF Presentable
<1>5. Presentable(kept)
  <2>1. CASE asked = {}
    <3>1. \A i \in 1 .. Len(now) : now[i].kind # "calls"
      BY <1>4, <2>1
    <3>2. \A i \in 1 .. Len(now) : now[i].kind # "tool"
      <4>1. SUFFICES ASSUME NEW i \in 1 .. Len(now), now[i].kind = "tool" PROVE FALSE
        OBVIOUS
      <4>2. PICK j \in 1 .. i - 1 : Follows(now, j, i)
        BY <1>4, <4>1 DEF Laid
      <4>3. j \in 1 .. Len(now) /\ now[j].kind = "calls"
        BY <1>4, <4>2 DEF Follows
      <4>4. QED
        BY <3>1, <4>3
    <3>3. \A i \in 1 .. Len(now) : now[i].kind \in Kinds
      <4>1. \A m \in Message : m.kind \in Kinds
        BY DEF Message
      <4>2. QED
        BY <1>4, <4>1
    <3>4. Plain(now)
      BY <1>4, <3>1, <3>2, <3>3 DEF Plain, Kinds
    <3>5. Plain(LastOf(now, 4))
      <4>1. 4 \in Nat
        OBVIOUS
      <4>2. QED
        BY <3>4, <4>1, LastOfPlain
    <3>6. kept = LastOf(now, 4)
      BY <2>1
    <3>7. QED
      BY <3>5, <3>6, PlainIsPresentable
  <2>2. CASE asked # {}
    <3>1. asked \in SUBSET (1 .. Len(now))
      BY <1>4
    <3>2. \A i \in asked : now[i].kind = "calls"
      OBVIOUS
    <3> HIDE DEF asked
    <3>3. IsFiniteSet(asked) /\ c \in Nat /\ c # 0
      BY <1>4, <2>2, <3>1, PlacesAreFinite, FS_EmptySet
    <3> DEFINE r == Least(RecentRounds, c)
    <3>4. r \in Nat /\ 1 <= r /\ r <= c
      BY <3>3 DEF Least
    <3> HIDE DEF r, c
    <3>5. r \in 1 .. Cardinality(asked)
      BY <3>3, <3>4 DEF c
    <3>6. \E i \in asked : Cardinality({j \in asked : j >= i}) = r
      <4>1. asked \in SUBSET (1 .. Len(now)) /\ Len(now) \in Nat
        BY <1>4, <3>1
      <4>2. QED
        BY <4>1, <3>5, RankedLast, ZenonT(60)
    <3>7. PICK i \in asked : Cardinality({j \in asked : j >= i}) = r
      BY <3>6
    <3>8. place \in asked
      <4>1. i \in recent
        BY <3>7 DEF r
      <4>2. place \in recent
        BY <4>1
      <4>3. QED
        BY <4>2
    <3> HIDE DEF place
    <3>9. place \in 1 .. Len(now) /\ now[place].kind # "tool"
      BY <3>1, <3>2, <3>8
    <3>10. IsTail(SubSeq(now, place, Len(now)), now, place)
      BY <1>4, <3>9, SubSeqTail
    <3>11. Presentable(SubSeq(now, place, Len(now)))
      <4> DEFINE t == SubSeq(now, place, Len(now))
      <4> HIDE DEF t
      <4>1. IsTail(t, now, place)
        BY <3>10 DEF t
      <4>2. Presentable(t)
        BY <1>4, <3>9, <4>1, TailIsLaid DEF Presentable, IsTail
      <4>3. QED
        BY <4>2 DEF t
    <3>12. QED
      BY <2>2, <3>11
  <2>3. QED
    BY <2>1, <2>2
<1>6. Plain(LastOf(talk, MaxTalk) \o <<Text("user")>>)
  BY <1>2, LastOfPlain, PlainMore
<1>7. Compacted(work, base) = LastOf(talk, MaxTalk) \o <<Text("user")>> \o kept
  BY DEF Compacted, now
<1> HIDE DEF talk, kept
<1>8. QED
  BY <1>5, <1>6, <1>7, PlainThenPresentable

-------------------------------------------------------------------------------
(* What is stored, and what a turn says.                                    *)

LEMMA Bounds == TurnAssumption => RecentRounds \in Nat \ {0} /\ MaxTalk \in Nat
BY DEF TurnAssumption

LEMMA NameOfMessage ==
  ASSUME NEW m \in Message, Numbered(m) PROVE Name(m)[1] \in Nat /\ Name(m)[2] \in Nat
<1>1. m.ids \in Seq(Nat \X Nat \X Nat) /\ m.ids # << >>
  BY DEF Message, Numbered
<1>2. m.ids[1] \in Nat \X Nat \X Nat
  BY <1>1
<1>3. QED
  BY <1>2 DEF Name

\* Nothing is stored, and the turn goes on or ends.
Later(t, u) ==
  \/ u.pc = "idle"
  \/ /\ t.pc # "idle" /\ t.step \in Nat /\ u.step \in Nat
     /\ \/ u.step = t.step + 1
        \/ u.step = t.step /\ (t.pc \in {"tool", "failing"} => u.pc \in {"tool", "failing"})

LEMMA NamesOfKept ==
  ASSUME NEW s, NEW n, NEW t, Kept(s, n, t), NEW j \in DOMAIN s, s[j].kind = "calls"
  PROVE  /\ Name(s[j])[1] \in Nat /\ Name(s[j])[2] \in Nat /\ Asked(Name(s[j]), n, t)
<1>1. s[j] \in Message /\ Numbered(s[j]) /\ Asked(Name(s[j]), n, t)
  BY DEF Kept, Named
<1>2. QED
  BY <1>1, NameOfMessage

LEMMA KeptOn ==
  ASSUME NEW s, NEW n \in Nat, NEW t, NEW u, Kept(s, n, t), Later(t, u)
  PROVE  Kept(s, n, u)
<1>1. ASSUME NEW name, name[1] \in Nat, name[2] \in Nat, Asked(name, n, t)
      PROVE  Asked(name, n, u)
  BY <1>1 DEF Asked, Later
<1>2. ASSUME NEW j \in DOMAIN s, s[j].kind = "calls" PROVE Asked(Name(s[j]), n, u)
  BY <1>1, <1>2, NamesOfKept
<1>3. QED
  BY <1>2 DEF Kept

LEMMA KeptAnew ==
  ASSUME NEW s, NEW n \in Nat, NEW t, NEW u, Kept(s, n, t)
  PROVE  Kept(s, n + 1, u)
<1>1. ASSUME NEW name, name[1] \in Nat, name[2] \in Nat, Asked(name, n, t)
      PROVE  Asked(name, n + 1, u)
  <2>1. name[1] <= n
    BY <1>1 DEF Asked
  <2>2. name[1] <= n + 1 /\ name[1] # n + 1
    BY <1>1, <2>1
  <2>3. QED
    BY <2>2 DEF Asked
<1>2. ASSUME NEW j \in DOMAIN s, s[j].kind = "calls" PROVE Asked(Name(s[j]), n + 1, u)
  BY <1>1, <1>2, NamesOfKept
<1>3. QED
  BY <1>2 DEF Kept

LEMMA KeptMore ==
  ASSUME NEW s, NEW n \in Nat, NEW t, Kept(s, n, t), NEW m \in Message,
         Laid(Append(s, m)), Named(Append(s, m)),
         m.kind = "calls" =>
           /\ Asked(Name(m), n, t)
           /\ \A j \in DOMAIN s : s[j].kind = "calls" => Name(s[j]) # Name(m)
  PROVE  Kept(Append(s, m), n, t)
<1> DEFINE more == Append(s, m)
<1>1. s \in Seq(Message) /\ Distinct(s) /\ \A j \in DOMAIN s : s[j].kind = "calls" => Asked(Name(s[j]), n, t)
  BY DEF Kept
<1>2. /\ more \in Seq(Message) /\ Len(s) \in Nat /\ DOMAIN s = 1 .. Len(s)
      /\ DOMAIN more = 1 .. Len(s) + 1 /\ more[Len(s) + 1] = m
      /\ \A i \in 1 .. Len(s) : more[i] = s[i]
  BY <1>1
<1> HIDE DEF more
<1>3. ASSUME NEW i \in DOMAIN more
      PROVE  (more[i] = s[i] /\ i \in DOMAIN s) \/ (i = Len(s) + 1 /\ more[i] = m)
  <2>1. i \in 1 .. Len(s) \/ i = Len(s) + 1
    BY <1>2
  <2>2. QED
    BY <1>2, <2>1
<1>4. Distinct(more)
  BY <1>1, <1>3 DEF Distinct
<1>5. \A j \in DOMAIN more : more[j].kind = "calls" => Asked(Name(more[j]), n, t)
  BY <1>1, <1>3
<1>6. QED
  BY <1>2, <1>4, <1>5 DEF Kept, more

LEMMA KeptText ==
  ASSUME NEW s, NEW n \in Nat, NEW t, Kept(s, n, t), NEW kind \in {"user", "reply"}
  PROVE  Kept(Append(s, Text(kind)), n, t)
<1>1. Text(kind) \in Message /\ Text(kind).kind \notin {"tool", "calls"}
  BY TextIsMessage, KindOfText DEF Kinds
<1>2. Laid(Append(s, Text(kind))) /\ Named(Append(s, Text(kind)))
  BY <1>1, NextMessage DEF Kept
<1>3. QED
  BY <1>1, <1>2, KeptMore

LEMMA SpeechMore ==
  ASSUME NEW s, NEW base, Speech(s, base), NEW m \in Message,
         Laid(Append(s, m)), Named(Append(s, m)), m.kind = "tool" => base < Len(s)
  PROVE  Speech(Append(s, m), base)
<1> DEFINE more == Append(s, m)
<1>1. /\ s \in Seq(Message) /\ Len(s) \in Nat /\ base \in 0 .. Len(s)
      /\ base < Len(s) => s[base + 1].kind # "tool"
  BY DEF Speech
<1>2. /\ more \in Seq(Message) /\ Len(more) = Len(s) + 1 /\ more[Len(s) + 1] = m
      /\ \A i \in 1 .. Len(s) : more[i] = s[i]
  BY <1>1
<1> HIDE DEF more
<1>3. more[base + 1].kind # "tool"
  <2>1. CASE base < Len(s)
    <3>1. base + 1 \in 1 .. Len(s)
      BY <1>1, <2>1
    <3>2. QED
      BY <1>1, <1>2, <2>1, <3>1
  <2>2. CASE ~ (base < Len(s))
    <3>1. base + 1 = Len(s) + 1
      BY <1>1, <2>2
    <3>2. QED
      BY <1>2, <2>2, <3>1
  <2>3. QED
    BY <2>1, <2>2
<1>4. base \in 0 .. Len(more)
  BY <1>1, <1>2
<1>5. QED
  BY <1>2, <1>3, <1>4 DEF Speech, more

LEMMA SpeechText ==
  ASSUME NEW s, NEW base, Speech(s, base), Met(s, 0), NEW kind \in {"user", "reply"}
  PROVE  Speech(Append(s, Text(kind)), base) /\ Met(Append(s, Text(kind)), 0)
<1>1. Text(kind) \in Message /\ Text(kind).kind \notin {"tool", "calls"}
  BY TextIsMessage, KindOfText DEF Kinds
<1>2. Laid(Append(s, Text(kind))) /\ Named(Append(s, Text(kind))) /\ Met(Append(s, Text(kind)), 0)
  BY <1>1, NextMessage DEF Speech
<1>3. QED
  BY <1>1, <1>2, SpeechMore

LEMMA SpeechIsPresentable ==
  ASSUME NEW s, NEW base, Speech(s, base), Met(s, 0)
  PROVE  Presentable(s) /\ (RecentRounds \in Nat \ {0} /\ MaxTalk \in Nat => Presentable(Compacted(s, base)))
<1>1. Presentable(s) /\ base \in 0 .. Len(s) /\ (base < Len(s) => s[base + 1].kind # "tool")
  BY DEF Speech, Presentable
<1>2. QED
  BY <1>1, CompactedIsPresentable

-------------------------------------------------------------------------------
(* Every step leaves what is stored and what is said in order.              *)

LEMMA BeginOrderly == ASSUME TurnAssumption, Shape, Orderly, Begin PROVE Orderly'
<1>1. /\ messages' = Append(messages, Text("user")) /\ no' = no + 1 /\ sent' = sent
      /\ turn'.pc = "asked" /\ no \in Nat
  BY BeginTurn DEF Begin, Store, Shape
<1>2. Kept(messages, no + 1, turn')
  BY <1>1, KeptAnew DEF Orderly
<1>3. Kept(Append(messages, Text("user")), no + 1, turn')
  <2>1. no + 1 \in Nat /\ "user" \in {"user", "reply"}
    BY <1>1
  <2>2. QED
    BY <1>2, <2>1, KeptText
<1>4. QED
  BY <1>1, <1>3 DEF Orderly, Spoken, Working

\* A turn comes to its end, or a step of it is its last.
LEMMA LastOrderly ==
  ASSUME Shape, Orderly, Later(turn, turn'), turn'.pc \notin Working, UNCHANGED <<no, sent>>,
         \/ UNCHANGED messages
         \/ messages' = Append(messages, Text("reply"))
  PROVE  Orderly'
<1>1. no \in Nat /\ Kept(messages, no, turn)
  BY DEF Shape, Orderly
<1>2. Kept(messages, no, turn')
  BY <1>1, KeptOn
<1>3. Kept(messages', no', turn')
  BY <1>1, <1>2, KeptText
<1>4. QED
  BY <1>3 DEF Orderly, Spoken

LEMMA FailingOrderly ==
  ASSUME TurnAssumption, Shape, Orderly, Failing \/ Conclude PROVE Orderly'
<1>1. /\ turn'.pc \in {"failing", "reply"} /\ UNCHANGED <<messages, no>>
      /\ turn.pc # "idle" /\ (turn.pc = "tool" => turn'.pc = "failing") /\ turn.pc # "failing"
  <2>1. CASE Failing
    <3>1. turn.pc \in Working /\ turn'.pc = "failing" /\ UNCHANGED <<messages, no>>
      BY <2>1, FailingTurn DEF Failing
    <3>2. QED
      BY <3>1 DEF Working
  <2>2. CASE Conclude
    BY <2>2, ConcludeTurn
  <2>3. QED
    BY <2>1, <2>2
<1>2. turn'.step = turn.step /\ turn.step \in Nat /\ sent' = sent
  <2>1. CASE MaxSteps
    BY <2>1 DEF MaxSteps, Shape, IsTurn
  <2>2. CASE CallFails \/ OverLimit \/ Conclude
    BY <2>2 DEF CallFails, OverLimit, Conclude, Shape, IsTurn
  <2>3. CASE DeadLoop
    BY <2>3 DEF DeadLoop, Shape, IsTurn
  <2>4. QED
    BY <2>1, <2>2, <2>3 DEF Failing
<1>3. Later(turn, turn')
  BY <1>1, <1>2 DEF Later
<1>4. QED
  BY <1>1, <1>2, <1>3, LastOrderly DEF Working

LEMMA EndingOrderly == ASSUME TurnAssumption, Shape, Orderly, Ending PROVE Orderly'
<1>1. /\ turn' = NoTurn /\ UNCHANGED <<no, sent>>
      /\ UNCHANGED messages \/ messages' = Append(messages, Text("reply"))
  BY DEF Ending, Refuse, Fail, Reply, Abandon, Store
<1>2. turn'.pc = "idle"
  BY <1>1, NoTurnIsTurn
<1>3. Later(turn, turn') /\ turn'.pc \notin Working
  BY <1>2 DEF Later, Working
<1>4. QED
  BY <1>1, <1>3, LastOrderly

\* A step of the turn that stores nothing and asks for nothing.
LEMMA SilentOrderly ==
  ASSUME Shape, Orderly, Later(turn, turn'), UNCHANGED <<messages, no>>,
         turn'.pc # "tool", Speech(turn'.work, turn'.base), Met(turn'.work, 0), Presentable(sent')
  PROVE  Orderly'
<1>1. no \in Nat /\ Kept(messages, no, turn)
  BY DEF Shape, Orderly
<1>2. Kept(messages', no', turn')
  BY <1>1, KeptOn
<1>3. QED
  BY <1>2 DEF Orderly, Spoken

LEMMA PrepareOrderly == ASSUME Shape, Orderly, Prepare PROVE Orderly'
<1>1. PICK h \in Histories(messages) : turn' = [turn EXCEPT !.pc = "plan", !.work = h, !.base = Len(h)]
  BY DEF Prepare
<1>2. /\ turn'.pc = "plan" /\ turn'.work = h /\ turn'.base = Len(h)
      /\ turn'.step = turn.step /\ turn.step \in Nat
  BY <1>1 DEF Shape, IsTurn
<1>3. turn.pc = "asked" /\ UNCHANGED <<messages, no, sent>>
  BY DEF Prepare, At
<1>4. Presentable(h)
  BY <1>1, HistoryIsPresentable DEF Orderly, Kept
<1>5. Speech(h, Len(h)) /\ Met(h, 0)
  <2>1. h \in Seq(Message) /\ Laid(h) /\ Named(h) /\ Met(h, 0)
    BY <1>4 DEF Presentable
  <2>2. Len(h) \in 0 .. Len(h) /\ ~ (Len(h) < Len(h))
    BY <2>1
  <2>3. QED
    BY <2>1, <2>2 DEF Speech
<1>6. Later(turn, turn')
  BY <1>2, <1>3 DEF Later
<1>7. QED
  BY <1>2, <1>3, <1>5, <1>6, SilentOrderly DEF Orderly

LEMMA PlanOrderly == ASSUME TurnAssumption, Shape, Orderly, Plan PROVE Orderly'
<1>1. PICK ctl, work, final, compact :
        /\ turn' = [turn EXCEPT !.pc = "call", !.ctl = ctl, !.work = work, !.attempt = 0,
                                !.final = final]
        /\ work = turn.work \/ work = Append(turn.work, Text("user"))
        /\ sent' = work \/ sent' = Compacted(work, turn.base)
  BY ZenonT(60) DEF Plan
<1>2. /\ turn'.pc = "call" /\ turn'.work = work /\ turn'.base = turn.base
      /\ turn'.step = turn.step /\ turn.step \in Nat
  BY <1>1 DEF Shape, IsTurn
<1>3. turn.pc = "plan" /\ UNCHANGED <<messages, no>>
  BY DEF Plan, At
<1>4. Speech(turn.work, turn.base) /\ Met(turn.work, 0)
  BY <1>3 DEF Orderly, Spoken, Working
<1>5. Speech(work, turn.base) /\ Met(work, 0)
  <2>1. "user" \in {"user", "reply"}
    OBVIOUS
  <2>2. /\ Speech(Append(turn.work, Text("user")), turn.base)
        /\ Met(Append(turn.work, Text("user")), 0)
    BY <1>4, <2>1, SpeechText
  <2>3. QED
    BY <1>1, <1>4, <2>2
<1>6. Presentable(sent')
  BY <1>1, <1>5, SpeechIsPresentable, Bounds
<1>7. Later(turn, turn')
  BY <1>2, <1>3 DEF Later
<1>8. QED
  BY <1>2, <1>3, <1>5, <1>6, <1>7, SilentOrderly

LEMMA CallOrderly == ASSUME TurnAssumption, Shape, Orderly, Retry \/ Answer PROVE Orderly'
<1>1. /\ turn'.work = turn.work /\ turn'.base = turn.base /\ turn'.step = turn.step
      /\ turn.step \in Nat
  <2>1. CASE Retry
    <3> DEFINE attempt == turn.attempt + 1
    <3>1. turn' = [turn EXCEPT !.attempt = attempt]
      BY <2>1 DEF Retry, Shape, IsTurn
    <3> HIDE DEF attempt
    <3>2. QED
      BY <3>1 DEF Shape, IsTurn
  <2>2. CASE Answer
    <3>1. PICK calls, cutoff, budget :
            turn' = [turn EXCEPT !.pc = "answered", !.calls = calls, !.cut = cutoff, !.budget = budget]
      <4>1. PICK n, cut, calls :
              turn' = [turn EXCEPT !.pc = "answered", !.calls = calls, !.cut = cut /\ n = 0,
                                   !.budget = IF turn.stale THEN @ ELSE usage + 1]
        BY <2>2 DEF Answer
      <4> DEFINE budget == IF turn.stale THEN turn.budget ELSE usage + 1
                 cutoff == cut /\ n = 0
      <4>2. turn' = [turn EXCEPT !.pc = "answered", !.calls = calls, !.cut = cutoff, !.budget = budget]
        BY <4>1 DEF Shape, IsTurn
      <4> HIDE DEF budget, cutoff
      <4>3. QED
        BY <4>2
    <3>2. QED
      BY <3>1 DEF Shape, IsTurn
  <2>3. QED
    BY <2>1, <2>2
<1>2. turn.pc = "call" /\ turn'.pc \in {"call", "answered"} /\ UNCHANGED <<messages, no, sent>>
  <2>1. CASE Retry
    BY <2>1, RetryTurn DEF Retry
  <2>2. CASE Answer
    BY <2>2, AnswerTurn DEF Answer, At
  <2>3. QED
    BY <2>1, <2>2
<1>3. Speech(turn.work, turn.base) /\ Met(turn.work, 0)
  BY <1>2 DEF Orderly, Spoken, Working
<1>4. Later(turn, turn')
  BY <1>1, <1>2 DEF Later
<1>5. QED
  BY <1>1, <1>2, <1>3, <1>4, SilentOrderly DEF Orderly

LEMMA ContinueOrderly == ASSUME Shape, Orderly, Continue PROVE Orderly'
<1>1. PICK more \in {<< >>, <<Text("reply"), Text("user")>>} :
        turn' = [turn EXCEPT !.pc = "plan", !.step = @ + 1, !.recovered = TRUE, !.work = @ \o more]
  BY DEF Continue
<1> DEFINE work == turn.work \o more
<1>2. /\ turn'.pc = "plan" /\ turn'.work = work /\ turn'.base = turn.base
      /\ turn'.step = turn.step + 1 /\ turn.step \in Nat
  <2>1. turn' = [turn EXCEPT !.pc = "plan", !.step = @ + 1, !.recovered = TRUE, !.work = work]
    BY <1>1 DEF Shape, IsTurn
  <2> HIDE DEF work
  <2>2. QED
    BY <2>1 DEF Shape, IsTurn
<1>3. turn.pc = "answered" /\ UNCHANGED <<messages, no, sent>>
  BY DEF Continue, InLimit, At
<1>4. Speech(turn.work, turn.base) /\ Met(turn.work, 0)
  BY <1>3 DEF Orderly, Spoken, Working
<1>5. Speech(work, turn.base) /\ Met(work, 0)
  <2>1. turn.work \in Seq(Message) /\ Text("reply") \in Message /\ Text("user") \in Message
    BY <1>4, TextIsMessage DEF Speech, Kinds
  <2>2. CASE more = << >>
    <3>1. work = turn.work
      BY <2>1, <2>2
    <3>2. QED
      BY <1>4, <3>1
  <2>3. CASE more = <<Text("reply"), Text("user")>>
    <3> DEFINE one == Append(turn.work, Text("reply"))
    <3>1. work = Append(one, Text("user"))
      <4>1. \A s \in Seq(Message) : \A a, b \in Message : s \o <<a, b>> = Append(Append(s, a), b)
        OBVIOUS
      <4>2. QED
        BY <2>1, <2>3, <4>1
    <3>2. Speech(one, turn.base) /\ Met(one, 0)
      BY <1>4, SpeechText
    <3> HIDE DEF one, work
    <3>3. QED
      BY <3>1, <3>2, SpeechText
  <2>4. QED
    BY <2>2, <2>3
<1>6. Later(turn, turn')
  BY <1>2, <1>3 DEF Later
<1> HIDE DEF work
<1>7. QED
  BY <1>2, <1>3, <1>5, <1>6, SilentOrderly DEF Orderly

\* The message that asks for the calls of an answer is named after its step.
LEMMA AsksOfCalls ==
  ASSUME no \in Nat, turn.step \in Nat, turn.calls \in Seq(Calls), turn.calls # << >>
  PROVE  LET m == Asks(IdsOf(turn.calls))
         IN  /\ m \in Message /\ m.kind = "calls" /\ Numbered(m)
             /\ Name(m)[1] = no /\ Name(m)[2] = turn.step + 1
<1> DEFINE ids == IdsOf(turn.calls)
<1>1. /\ ids \in Seq(Nat \X Nat \X Nat) /\ ids # << >> /\ 1 \in DOMAIN ids
      /\ \A k \in DOMAIN ids : ids[k] = <<no, turn.step + 1, k>>
  <2>1. Len(turn.calls) \in Nat /\ Len(turn.calls) # 0 /\ DOMAIN turn.calls = 1 .. Len(turn.calls)
    OBVIOUS
  <2>2. ids = [k \in 1 .. Len(turn.calls) |-> <<no, turn.step + 1, k>>]
    BY <2>1 DEF IdsOf
  <2>3. \A k \in 1 .. Len(turn.calls) : <<no, turn.step + 1, k>> \in Nat \X Nat \X Nat
    BY <2>1
  <2>4. DOMAIN ids = 1 .. Len(turn.calls) /\ 1 \in 1 .. Len(turn.calls)
    BY <2>1, <2>2
  <2>5. ids \in Seq(Nat \X Nat \X Nat)
    BY <2>1, <2>2, <2>3
  <2> HIDE DEF ids
  <2>6. ids # << >>
    BY <2>4
  <2>7. QED
    BY <2>2, <2>4, <2>5, <2>6
<1> HIDE DEF ids
<1>2. Asks(ids) \in Message /\ Asks(ids).kind = "calls" /\ Asks(ids).ids = ids
  BY <1>1 DEF Asks, Message, Kinds
<1>3. ids[1][1] = no /\ ids[1][2] = turn.step + 1
  BY <1>1
<1>4. Numbered(Asks(ids)) /\ Name(Asks(ids)) = <<no, turn.step + 1>>
  BY <1>1, <1>2, <1>3 DEF Numbered, Name
<1>5. QED
  BY <1>2, <1>4 DEF ids

LEMMA AnnounceOrderly == ASSUME TurnAssumption, Shape, Orderly, Announce PROVE Orderly'
<1> DEFINE m == Asks(IdsOf(turn.calls))
<1>1. /\ turn.pc = "answered" /\ turn.calls # << >> /\ turn.calls \in Seq(Calls)
      /\ no \in Nat /\ turn.step \in Nat /\ UNCHANGED <<no, sent>>
      /\ messages' = Append(messages, m)
  BY DEF Announce, InLimit, At, Store, Shape, IsTurn
<1>2. /\ turn'.pc = "tool" /\ turn'.at = 1 /\ turn'.calls = turn.calls /\ turn'.step = turn.step
      /\ turn'.work = Append(turn.work, m) /\ turn'.base = turn.base
  <2> DEFINE work == Append(turn.work, m)
  <2>1. turn' = [turn EXCEPT !.pc = "tool", !.at = 1, !.work = work]
    BY DEF Announce, Shape, IsTurn
  <2> HIDE DEF work
  <2>2. /\ turn'.pc = "tool" /\ turn'.at = 1 /\ turn'.calls = turn.calls /\ turn'.step = turn.step
        /\ turn'.work = work /\ turn'.base = turn.base
    BY <2>1 DEF Shape, IsTurn
  <2>3. QED
    BY <2>2 DEF work
<1>3. /\ m \in Message /\ m.kind = "calls" /\ Numbered(m)
      /\ Name(m)[1] = no /\ Name(m)[2] = turn.step + 1
  BY <1>1, AsksOfCalls
<1>4. m = Asks(IdsOf(turn.calls)')
  <2>1. IdsOf(turn.calls)' = IdsOf(turn.calls)
    BY <1>1, <1>2 DEF IdsOf
  <2>2. QED
    BY <2>1
<1> HIDE DEF m
<1>5. Kept(messages', no', turn')
  <2>1. Kept(messages, no, turn) /\ Later(turn, turn')
    BY <1>1, <1>2 DEF Orderly, Later
  <2>2. Kept(messages, no, turn')
    BY <1>1, <2>1, KeptOn
  <2>3. Laid(Append(messages, m)) /\ Named(Append(messages, m))
    BY <1>3, <2>1, NextMessage DEF Kept
  <2>4. Asked(Name(m), no, turn')
    BY <1>1, <1>2, <1>3 DEF Asked
  <2>5. ASSUME NEW j \in DOMAIN messages, messages[j].kind = "calls"
        PROVE  Name(messages[j]) # Name(m)
    <3>1. /\ Name(messages[j])[1] \in Nat /\ Name(messages[j])[2] \in Nat
          /\ Asked(Name(messages[j]), no, turn)
      BY <2>1, <2>5, NamesOfKept
    <3>2. Name(messages[j])[1] = no => Name(messages[j])[2] <= turn.step
      BY <1>1, <3>1 DEF Asked
    <3>3. Name(messages[j])[1] = no => Name(messages[j])[2] # turn.step + 1
      BY <1>1, <3>1, <3>2
    <3>4. QED
      BY <1>3, <3>3
  <2>6. Kept(Append(messages, m), no, turn')
    BY <1>1, <1>3, <2>2, <2>3, <2>4, <2>5, KeptMore
  <2>7. QED
    BY <1>1, <2>6
<1>6. Speech(turn.work, turn.base) /\ Met(turn.work, 0)
  BY <1>1 DEF Orderly, Spoken, Working
<1>7. turn.work \in Seq(Message) /\ messages \in Seq(Message) /\ turn.base \in 0 .. Len(turn.work)
  BY <1>6 DEF Speech, Shape
<1>8. /\ Laid(turn'.work) /\ Named(turn'.work) /\ Met(turn'.work, Len(turn'.work))
  BY <1>2, <1>3, <1>6, NextMessage DEF Speech
<1>9. Speech(turn'.work, turn'.base)
  BY <1>2, <1>3, <1>6, <1>8, SpeechMore
<1>10. \A s \in Seq(Message) : /\ Len(Append(s, m)) = Len(s) + 1 /\ Len(s) \in Nat
                               /\ Len(s) + 1 \in DOMAIN Append(s, m) /\ Append(s, m)[Len(s) + 1] = m
                               /\ (Len(s) + 1) - 1 + 1 = Len(s) + 1
  BY <1>3
<1>11. /\ LastAsked(turn.work)' = Len(turn'.work) /\ turn'.base < Len(turn'.work)
       /\ Answering(turn.work)'
  <2>1. Len(turn'.work) = Len(turn.work) + 1 /\ LastAsked(turn.work)' = Len(turn'.work)
    BY <1>2, <1>7, <1>10 DEF LastAsked
  <2>2. turn'.base < Len(turn'.work)
    BY <1>2, <1>7, <2>1
  <2>3. Len(turn'.work) \in DOMAIN turn'.work /\ turn'.work[Len(turn'.work)] = m
    BY <1>2, <1>7, <1>10
  <2>4. \A k \in 1 .. turn'.at - 1 : FALSE
    BY <1>2
  <2>5. QED
    BY <1>4, <2>1, <2>2, <2>3, <2>4 DEF Answering
<1>12. Answering(messages)'
  <2>1. Len(messages') = Len(messages) + 1 /\ LastAsked(messages)' = Len(messages')
    BY <1>1, <1>2, <1>7, <1>10 DEF LastAsked
  <2>3. Len(messages') \in DOMAIN messages' /\ messages'[Len(messages')] = m
    BY <1>1, <1>7, <1>10
  <2>4. \A k \in 1 .. turn'.at - 1 : FALSE
    BY <1>2
  <2>5. QED
    BY <1>4, <2>1, <2>3, <2>4 DEF Answering
<1>13. QED
  BY <1>1, <1>2, <1>5, <1>8, <1>9, <1>11, <1>12 DEF Orderly, Spoken

\* A result is stored and said; then comes the next call, or the next step.
ToolSaid ==
  /\ messages' = Append(messages, Answers(<<no, turn.step + 1, turn.at>>))
  /\ turn'.work = Append(turn.work, Answers(<<no, turn.step + 1, turn.at>>))
  /\ turn'.base = turn.base
  /\ IF turn.at = Len(turn.calls)
     THEN turn'.pc = "plan" /\ turn'.step = turn.step + 1
     ELSE /\ turn'.pc = "tool" /\ turn'.step = turn.step
          /\ turn'.at = turn.at + 1 /\ turn'.calls = turn.calls

LEMMA ProceedSays ==
  ASSUME Shape, NEW t, IsTurn(t), t.work = turn.work, t.base = turn.base,
         t.calls = turn.calls, t.at = turn.at, t.step = turn.step, NEW gain, Proceed(t, gain)
  PROVE  ToolSaid
<1> DEFINE last == turn.at = Len(turn.calls)
           answer == Answers(<<no, turn.step + 1, turn.at>>)
           work == Append(t.work, answer)
           ctl == Recorded(t.ctl, turn.step + 1, gain)
           at == IF last THEN 1 ELSE t.at + 1
           calls == IF last THEN << >> ELSE t.calls
           step == IF last THEN t.step + 1 ELSE t.step
           pc == IF last THEN "plan" ELSE "tool"
<1>1. turn' = [t EXCEPT !.ctl = ctl, !.work = work, !.seen = Seen, !.at = at,
                        !.calls = calls, !.step = step, !.pc = pc]
  BY DEF Proceed, IsTurn
<1>2. /\ turn'.work = work /\ turn'.base = t.base /\ turn'.step = step /\ turn'.pc = pc
      /\ turn'.at = at /\ turn'.calls = calls
  <2> HIDE DEF ctl, work, last, answer, at, calls, step, pc
  <2>1. QED
    BY <1>1 DEF IsTurn
<1>3. messages' = Append(messages, answer)
  BY DEF Proceed, Store
<1>4. QED
  BY <1>2, <1>3 DEF ToolSaid

LEMMA ToolSays ==
  ASSUME TurnAssumption, Shape, GiveAgain \/ Execute
  PROVE  ToolSaid
<1>1. turn.pc = "tool" /\ Call \in Calls /\ IsTurn(turn)
  <2>1. turn.pc = "tool"
    BY DEF GiveAgain, Execute, At
  <2>2. QED
    BY <2>1, CallIsCall DEF Shape
<1>2. ASSUME NEW entry \in Ran, NEW receipts, NEW known, NEW stale, NEW gain,
             Proceed([turn EXCEPT !.ran = Append(turn.ran, entry), !.receipts = receipts,
                                  !.known = known, !.stale = stale], gain)
      PROVE  ToolSaid
  <2> DEFINE ran == Append(turn.ran, entry)
             t == [turn EXCEPT !.ran = ran, !.receipts = receipts, !.known = known, !.stale = stale]
  <2>1. ran \in Seq(Ran)
    BY <1>1 DEF IsTurn
  <2>2. /\ IsTurn(t) /\ t.work = turn.work /\ t.base = turn.base
        /\ t.calls = turn.calls /\ t.at = turn.at /\ t.step = turn.step
    <3> HIDE DEF ran
    <3>1. QED
      BY <1>1, <2>1 DEF IsTurn
  <2>3. Proceed(t, gain)
    BY <1>2
  <2> HIDE DEF t
  <2>4. QED
    BY <2>2, <2>3, ProceedSays DEF ToolSaid
<1>3. CASE Reused /\ \E gain \in Gains : Proceed(turn, gain)
  BY <1>1, <1>3, ProceedSays DEF ToolSaid
<1>4. CASE /\ ~ Reused /\ Cached /\ ~ Looping(Seen)
           /\ Proceed([turn EXCEPT !.ran = Append(@, [call |-> Call, ok |-> TRUE, run |-> FALSE])], "low")
  <2> DEFINE entry == [call |-> Call, ok |-> TRUE, run |-> FALSE]
             ran == Append(turn.ran, entry)
  <2>1. entry \in Ran
    BY <1>1 DEF Ran
  <2>2. Proceed([turn EXCEPT !.ran = ran], "low")
    BY <1>1, <1>4 DEF IsTurn
  <2>3. [turn EXCEPT !.ran = ran] =
          [turn EXCEPT !.ran = ran, !.receipts = turn.receipts, !.known = turn.known, !.stale = turn.stale]
    <3> HIDE DEF ran
    <3>1. QED
      BY <1>1 DEF IsTurn
  <2>4. Proceed([turn EXCEPT !.ran = Append(turn.ran, entry), !.receipts = turn.receipts,
                             !.known = turn.known, !.stale = turn.stale], "low")
    BY <2>2, <2>3
  <2> HIDE DEF entry
  <2>5. QED
    BY <1>2, <2>1, <2>4
<1>5. CASE Execute
  <2>1. PICK ok \in BOOLEAN, late \in BOOLEAN, gain \in Gains :
          Proceed([turn EXCEPT
                    !.ran = Append(@, [call |-> Call, ok |-> ok, run |-> TRUE]),
                    !.receipts = @ \cup ({Key[Call]} \cap Reuse),
                    !.known = IF ok THEN @ \cup ({Key[Call]} \cap Query) ELSE @,
                    !.stale = @ \/ late], gain)
    BY <1>5, ZenonT(60) DEF Execute, Gains
  <2> DEFINE entry == [call |-> Call, ok |-> ok, run |-> TRUE]
             receipts == turn.receipts \cup ({Key[Call]} \cap Reuse)
             known == IF ok THEN turn.known \cup ({Key[Call]} \cap Query) ELSE turn.known
             stale == turn.stale \/ late
  <2>2. entry \in Ran
    BY <1>1 DEF Ran
  <2>3. Proceed([turn EXCEPT !.ran = Append(turn.ran, entry), !.receipts = receipts,
                             !.known = known, !.stale = stale], gain)
    BY <1>1, <2>1 DEF IsTurn
  <2> HIDE DEF entry, receipts, known, stale
  <2>4. QED
    BY <1>2, <2>2, <2>3
<1>6. QED
  BY <1>3, <1>4, <1>5 DEF GiveAgain

LEMMA ToolOrderly ==
  ASSUME TurnAssumption, Shape, Orderly, GiveAgain \/ Execute PROVE Orderly'
<1> DEFINE a == Answers(<<no, turn.step + 1, turn.at>>)
<1>1. /\ turn.pc = "tool" /\ turn.calls \in Seq(Calls) /\ turn.at \in 1 .. Len(turn.calls)
      /\ no \in Nat /\ turn.step \in Nat /\ turn.at \in Nat /\ messages \in Seq(Message)
      /\ UNCHANGED <<no, sent>>
  <2>1. turn.pc = "tool" /\ UNCHANGED <<no, sent>>
    BY DEF GiveAgain, Execute, At
  <2>2. /\ turn.calls \in Seq(Calls) /\ turn.at \in DOMAIN turn.calls /\ no \in Nat
        /\ turn.step \in Nat /\ turn.at \in Nat /\ messages \in Seq(Message)
    BY <2>1 DEF Shape, IsTurn
  <2>3. QED
    BY <2>1, <2>2, SMTT(40)
<1>2. ToolSaid
  BY ToolSays
<1>3. /\ messages' = Append(messages, a) /\ turn'.work = Append(turn.work, a) /\ turn'.base = turn.base
  BY <1>2 DEF ToolSaid
<1>4. a \in Message /\ a.kind = "tool"
  <2>1. <<no, turn.step + 1, turn.at>> \in Nat \X Nat \X Nat
    BY <1>1, SMTT(40)
  <2>2. <<<<no, turn.step + 1, turn.at>>>> \in Seq(Nat \X Nat \X Nat)
    BY <2>1
  <2>3. QED
    BY <2>2 DEF Answers, Message, Kinds
<1> DEFINE p == LastAsked(turn.work)
           q == LastAsked(messages)
<1>5. /\ Speech(turn.work, turn.base) /\ Answering(turn.work) /\ Answering(messages)
      /\ Met(turn.work, p) /\ turn.base < p
  BY <1>1 DEF Orderly, Spoken, Working
<1>6. /\ turn.work \in Seq(Message) /\ Laid(turn.work) /\ Named(turn.work)
      /\ turn.base \in 0 .. Len(turn.work)
      /\ Laid(messages) /\ Named(messages) /\ Kept(messages, no, turn)
  BY <1>5 DEF Speech, Orderly, Kept
<1>7. LET t == turn'.work
      IN  /\ t \in Seq(Message) /\ Laid(t) /\ Named(t) /\ Len(t) = Len(turn.work) + 1 /\ Met(t, 0)
          /\ p \in 1 .. Len(turn.work) /\ t[p] = Asks(IdsOf(turn.calls))
          /\ \A k \in 1 .. turn.at : t[p + k] = Answers(<<no, turn.step + 1, k>>)
  <2>1. LET t == Append(turn.work, a)
        IN  /\ t \in Seq(Message) /\ Laid(t) /\ Named(t) /\ Len(t) = Len(turn.work) + 1
            /\ Met(turn.work, p) => Met(t, 0)
            /\ p \in 1 .. Len(turn.work) /\ t[p] = Asks(IdsOf(turn.calls))
            /\ \A k \in 1 .. turn.at : t[p + k] = Answers(<<no, turn.step + 1, k>>)
    BY <1>1, <1>5, <1>6, NextAnswer
  <2> HIDE DEF a, p
  <2>2. QED
    BY <1>3, <1>5, <2>1
<1>8. LET t == messages'
      IN  /\ t \in Seq(Message) /\ Laid(t) /\ Named(t) /\ Len(t) = Len(messages) + 1
          /\ q \in 1 .. Len(messages) /\ t[q] = Asks(IdsOf(turn.calls))
          /\ \A k \in 1 .. turn.at : t[q + k] = Answers(<<no, turn.step + 1, k>>)
  <2>1. LET t == Append(messages, a)
        IN  /\ t \in Seq(Message) /\ Laid(t) /\ Named(t) /\ Len(t) = Len(messages) + 1
            /\ q \in 1 .. Len(messages) /\ t[q] = Asks(IdsOf(turn.calls))
            /\ \A k \in 1 .. turn.at : t[q + k] = Answers(<<no, turn.step + 1, k>>)
    BY <1>1, <1>5, <1>6, NextAnswer
  <2> HIDE DEF a, q
  <2>2. QED
    BY <1>3, <2>1
<1>9. Kept(messages', no', turn')
  <2>1. Later(turn, turn')
    <3>1. \/ turn'.step = turn.step + 1
          \/ turn'.step = turn.step /\ turn'.pc = "tool"
      BY <1>2 DEF ToolSaid
    <3>2. turn'.step \in Nat
      BY <1>1, <3>1
    <3>3. QED
      BY <1>1, <3>1, <3>2 DEF Later
  <2>2. Kept(messages, no, turn')
    BY <1>1, <1>6, <2>1, KeptOn
  <2>3. Kept(Append(messages, a), no, turn')
    <3> HIDE DEF a
    <3>1. Laid(Append(messages, a)) /\ Named(Append(messages, a)) /\ a.kind # "calls"
      BY <1>3, <1>4, <1>8
    <3>2. QED
      BY <1>1, <1>4, <2>2, <3>1, KeptMore
  <2>4. QED
    BY <1>1, <1>3, <2>3
<1>10. Speech(turn'.work, turn'.base)
  <2>1. turn.base < Len(turn.work)
    BY <1>5, <1>6, <1>7
  <2> HIDE DEF a
  <2>2. Laid(Append(turn.work, a)) /\ Named(Append(turn.work, a))
    BY <1>3, <1>7
  <2>3. Speech(Append(turn.work, a), turn.base)
    BY <1>4, <1>5, <2>1, <2>2, SpeechMore
  <2>4. QED
    BY <1>3, <2>3
<1>11. CASE turn.at = Len(turn.calls)
  <2>1. turn'.pc = "plan"
    BY <1>2, <1>11 DEF ToolSaid
  <2>2. QED
    BY <1>1, <1>7, <1>9, <1>10, <2>1 DEF Orderly, Spoken
<1>12. CASE turn.at # Len(turn.calls)
  <2>1. /\ turn'.pc = "tool" /\ turn'.step = turn.step /\ turn'.at = turn.at + 1
        /\ turn'.calls = turn.calls
    BY <1>2, <1>12 DEF ToolSaid
  <2>2. IdsOf(turn.calls)' = IdsOf(turn.calls)
    BY <1>1, <2>1 DEF IdsOf
  <2>3. LastAsked(turn.work)' = p
    <3>1. Len(turn.work) \in Nat /\ Len(turn'.work) = Len(turn.work) + 1
      BY <1>6, <1>7
    <3>2. PICK m \in Nat, at \in Nat : m = Len(turn.work) /\ at = turn.at
      BY <1>1, <3>1
    <3>3. LastAsked(turn.work)' = (m + 1) - (at + 1) + 1
      BY <2>1, <3>1, <3>2 DEF LastAsked
    <3>4. LastAsked(turn.work) = m - at + 1
      BY <3>2 DEF LastAsked
    <3>5. (m + 1) - (at + 1) + 1 = m - at + 1
      OBVIOUS
    <3>6. QED
      BY <3>3, <3>4, <3>5
  <2>4. LastAsked(messages)' = q
    <3>1. Len(messages) \in Nat /\ Len(messages') = Len(messages) + 1
      BY <1>1, <1>8
    <3>2. PICK m \in Nat, at \in Nat : m = Len(messages) /\ at = turn.at
      BY <1>1, <3>1
    <3>3. LastAsked(messages)' = (m + 1) - (at + 1) + 1
      BY <2>1, <3>1, <3>2 DEF LastAsked
    <3>4. LastAsked(messages) = m - at + 1
      BY <3>2 DEF LastAsked
    <3>5. (m + 1) - (at + 1) + 1 = m - at + 1
      OBVIOUS
    <3>6. QED
      BY <3>3, <3>4, <3>5
  <2>5. 1 .. turn'.at - 1 = 1 .. turn.at
    BY <1>1, <2>1
  <2> HIDE DEF p, q
  <2>6. Answering(turn.work)'
    <3>1. p \in DOMAIN turn'.work
      BY <1>6, <1>7
    <3>2. turn'.work[p] = Asks(IdsOf(turn.calls)')
      BY <1>7, <2>2
    <3>3. \A k \in 1 .. turn'.at - 1 : turn'.work[p + k] = Answers(<<no', turn'.step + 1, k>>)
      BY <1>1, <1>7, <2>1, <2>5
    <3>4. QED
      BY <2>3, <3>1, <3>2, <3>3 DEF Answering
  <2>7. Answering(messages)'
    <3>1. q \in DOMAIN messages'
      BY <1>1, <1>8
    <3>2. messages'[q] = Asks(IdsOf(turn.calls)')
      BY <1>8, <2>2
    <3>3. \A k \in 1 .. turn'.at - 1 : messages'[q + k] = Answers(<<no', turn'.step + 1, k>>)
      BY <1>1, <1>8, <2>1, <2>5
    <3>4. QED
      BY <2>4, <3>1, <3>2, <3>3 DEF Answering
  <2>8. Met(turn'.work, p)
    <3>1. ASSUME NEW j \in DOMAIN turn'.work, turn'.work[j].kind = "calls"
          PROVE  j < Len(turn'.work) /\ turn'.work[j + 1] = Answers(turn'.work[j].ids[1])
      <4>1. j # 0
        BY <1>7
      <4>2. QED
        BY <1>7, <3>1, <4>1 DEF Met
    <3>2. QED
      BY <3>1 DEF Met
  <2>9. turn'.base < p
    BY <1>3, <1>5 DEF p
  <2>10. QED
    BY <1>1, <1>9, <1>10, <2>1, <2>3, <2>6, <2>7, <2>8, <2>9 DEF Orderly, Spoken
<1>13. QED
  BY <1>11, <1>12

LEMMA OrderlyStep == ASSUME TurnAssumption, Shape, Orderly, Next PROVE Orderly'
BY ByRecord, BeginOrderly, PrepareOrderly, PlanOrderly, CallOrderly, ContinueOrderly,
   AnnounceOrderly, FailingOrderly, ToolOrderly, EndingOrderly DEF Progress

(* The model is never given a result whose call it cannot see, or a call    *)
(* without any result, wherever a turn was abandoned, the window of history *)
(* begins, or the messages are compacted (get_history, compact_messages).   *)
THEOREM NothingIsOrphaned == ASSUME TurnAssumption PROVE Spec => []NoOrphans
<1>1. Init => Orderly
  <2> SUFFICES ASSUME Init PROVE Orderly
    OBVIOUS
  <2>1. messages = << >> /\ sent = << >> /\ turn.pc = "idle"
    BY NoTurnIsTurn DEF Init
  <2>2. Presentable(<< >>)
    <3>1. Plain(<< >>)
      BY DEF Plain
    <3>2. QED
      BY <3>1, PlainIsPresentable
  <2>3. Kept(messages, no, turn)
    BY <2>1, <2>2 DEF Kept, Presentable, Distinct
  <2>4. QED
    BY <2>1, <2>2, <2>3 DEF Orderly, Spoken, Working
<1>2. Shape /\ Orderly /\ [Next]_vars => Orderly'
  <2>1. ASSUME Shape, Orderly, UNCHANGED vars PROVE Orderly'
    BY <2>1 DEF vars, Orderly, Spoken, Answering, LastAsked, IdsOf
  <2>2. QED
    BY <2>1, OrderlyStep
<1>3. Orderly => NoOrphans
  BY PresentableIsShown DEF Orderly, NoOrphans
<1>4. QED
  BY <1>1, <1>2, <1>3, TypeCorrect, PTL DEF Spec

=================================================================================
