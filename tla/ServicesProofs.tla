---------------------------- MODULE ServicesProofs -----------------------------
(***************************************************************************)
(* Proofs about the task specifications and the machines of Services, for     *)
(* any number of actors: first the specifications, whichever requests overtake *)
(* one another between the reading of the row and its replacement, and however *)
(* often the process restarts; then each machine with the inductive invariant  *)
(* of its module; and last the two together, one machine at a time.          *)
(***************************************************************************)
EXTENDS Services, Sequences, FiniteSetTheorems, WellFoundedInduction, TLAPS

\* What a request has read, and still trusts when it saves.
SeenInv ==
  \A q \in Requests : request[q].pc # "idle" =>
    /\ Seen(q).content \in Contents
    /\ request[q].kind \in {"update", "enrich"} => Seen(q).revision < MaxRevision
    /\ request[q].kind = "acknowledge" => Seen(q).content \in Sound
    /\ request[q].kind = "schedule" =>
         Seen(q).validated = Seen(q).content /\ Seen(q).content \in Sound

RowInv ==
  /\ ApprovedIsValidated
  /\ row.status = "needs_ack" => row.content \in Sound
  /\ Gone => row.last # "running"

\* The claim of a run is with the request that took it, or with its thread.
Owns(q) == request[q].pc = "claimed" \/ run[q].pc # "none"
OwnInv ==
  /\ \A q \in Requests : Owns(q) => running
  /\ \A q \in Requests : request[q].pc = "claimed" => run[q].pc = "none"
  /\ \A p, q \in Requests : Owns(p) /\ Owns(q) => p = q
  /\ row.last = "running" => \E q \in Requests : run[q].pc # "none"

Inv == TypeOK /\ SeenInv /\ RowInv /\ OwnInv

\* The parts of TypeOK.
TheRow == mode \in Modes /\ row \in Rows /\ (row.next # "none" => row.enabled)
TheRequests ==
  request \in [Requests -> [kind : Kinds \cup {"none"}, pc : {"idle", "read", "claimed"},
                            seen : Copies]]
TheRuns ==
  run \in [Requests -> [pc : {"none", "started", "executing"},
                        granted : Contents \cup {NoDigest}, content : Contents \cup {NoDigest}]]

LEMMA Parts == TypeOK <=> TheRow /\ TheRequests /\ TheRuns /\ running \in BOOLEAN
  BY Zenon DEF TypeOK, TheRow, TheRequests, TheRuns

LEMMA PartsNext ==
  ASSUME TheRow', TheRequests', TheRuns', running' \in BOOLEAN PROVE TypeOK'
  BY Zenon DEF TypeOK, TheRow, TheRequests, TheRuns

LEMMA InitInv == ASSUME SpecsAssumption, Init PROVE Inv
<1> USE DEF SpecsAssumption, Init, Idle, NoRun, Nothing, NoDigest
<1>1. TypeOK
  <2>1. TheRow
    BY DEF TheRow, Rows, Statuses
  <2>2. TheRequests
    BY DEF TheRequests, Copies
  <2>3. TheRuns
    BY DEF TheRuns
  <2>4. QED
    BY <2>1, <2>2, <2>3, Parts
<1>2. SeenInv
  BY DEF SeenInv
<1>3. RowInv
  BY DEF RowInv, ApprovedIsValidated, Gone
<1>4. OwnInv
  <2>1. \A q \in Requests : request[q].pc = "idle" /\ run[q].pc = "none"
    OBVIOUS
  <2>2. row.last = "none"
    OBVIOUS
  <2>3. QED
    BY ONLY <2>1, <2>2 DEF OwnInv, Owns
<1>5. QED
  BY <1>1, <1>2, <1>3, <1>4 DEF Inv

-------------------------------------------------------------------------------
(* Requests that save: TaskSpecStore.save replaces the row.                 *)

Specifications == {s \in Copies : s.content \in Contents}
Saveable == Statuses \ {"deleted"}

\* The saved row is the specification of the request, with its status.
LEMMA Saved ==
  ASSUME SpecsAssumption, TypeOK, NEW spec \in Specifications, NEW status \in Saveable,
         NEW enabled \in BOOLEAN, Save(spec, status, enabled)
  PROVE  /\ row' \in Rows /\ (row'.next # "none" => row'.enabled)
         /\ row'.content = spec.content /\ row'.validated = spec.validated
         /\ row'.revision = spec.revision /\ row'.status = status
         /\ row'.last = "running" => row.last = "running"
<1>1. PICK next \in NextRuns(enabled) :
        row' = [content |-> spec.content, validated |-> spec.validated,
                generated |-> spec.generated, revision |-> spec.revision,
                status |-> status, enabled |-> enabled, next |-> next,
                last |-> IF Gone THEN "none" ELSE row.last]
  BY DEF Save
<1>2. next \in {"none", "later", "now"} /\ (next # "none" => enabled)
  BY DEF NextRuns
<1>3. QED
  BY <1>1, <1>2 DEF TypeOK, Rows, Specifications, Copies, Saveable

\* A request that saves what was validated, or does not approve, keeps the
\* invariant whatever the row has become since it was read.
LEMMA SaveStep ==
  ASSUME SpecsAssumption, Inv, NEW q \in Requests, request[q].pc = "read",
         NEW spec \in Specifications, NEW status \in Saveable, NEW enabled \in BOOLEAN,
         Save(spec, status, enabled), End(q), Unrun,
         status = "approved" => spec.validated = spec.content /\ spec.content \in Sound,
         status = "needs_ack" => spec.content \in Sound
  PROVE  Inv'
<1>1. TypeOK /\ SeenInv /\ RowInv /\ OwnInv
  BY DEF Inv
<1>2. /\ row' \in Rows /\ (row'.next # "none" => row'.enabled)
      /\ row'.content = spec.content /\ row'.validated = spec.validated
      /\ row'.status = status /\ (row'.last = "running" => row.last = "running")
  BY <1>1, Saved
<1>3. \A p \in Requests : request'[p] = IF p = q THEN Idle ELSE request[p]
  BY <1>1 DEF End, TypeOK
<1>4. TypeOK'
  BY <1>1, <1>2 DEF TypeOK, End, Unrun, Idle, Nothing, Copies, SpecsAssumption, NoDigest
<1>5. SeenInv'
  BY <1>1, <1>3 DEF SeenInv, Seen, Idle
<1>6. RowInv'
  BY <1>2 DEF RowInv, ApprovedIsValidated, Gone, Saveable
<1>7. OwnInv'
  BY <1>1, <1>2, <1>3 DEF OwnInv, Owns, Unrun, Idle
<1>8. QED
  BY <1>4, <1>5, <1>6, <1>7 DEF Inv

LEMMA SavingStep ==
  ASSUME SpecsAssumption, Inv, NEW q \in Requests,
         \/ Update(q) \/ Enrich(q) \/ Review(q) \/ Confirm(q) \/ Acknowledge(q) \/ Schedule(q)
  PROVE  Inv'
<1> USE DEF Doing
<1>1. /\ request[q].pc = "read" /\ End(q) /\ Unrun
      /\ Seen(q) \in Specifications
      /\ request[q].kind \in {"update", "enrich"} => Seen(q).revision + 1 \in 0 .. MaxRevision
      /\ request[q].kind = "acknowledge" => Seen(q).content \in Sound
      /\ request[q].kind = "schedule" =>
           Seen(q).validated = Seen(q).content /\ Seen(q).content \in Sound
  <2>1. request[q].pc = "read" /\ End(q) /\ Unrun
    BY DEF Update, Enrich, Review, Confirm, Acknowledge, Schedule
  <2>2. Seen(q) \in Copies
    BY DEF Inv, TypeOK, Seen
  <2>3. QED
    BY <2>1, <2>2 DEF Inv, SeenInv, Specifications, Copies, SpecsAssumption
<1>2. \A c \in Contents, v \in Contents \cup {NoDigest}, g \in Contents \cup {NoDigest} :
        /\ [Seen(q) EXCEPT !.validated = c] \in Specifications
        /\ request[q].kind \in {"update", "enrich"} =>
             [Seen(q) EXCEPT !.content = c, !.validated = v, !.generated = g, !.revision = @ + 1]
               \in Specifications
  BY <1>1 DEF Specifications, Copies
<1>3. Seen(q).content \in Contents /\ Seen(q).enabled \in BOOLEAN
  BY <1>1 DEF Specifications, Copies
<1>4. CASE Update(q)
  <2>1. PICK c \in Contents :
          Save([Seen(q) EXCEPT !.content = c, !.validated = NoDigest, !.generated = NoDigest,
                               !.revision = @ + 1], "review_required", FALSE)
    BY <1>4 DEF Update
  <2>2. "review_required" \in Saveable
    BY DEF Saveable, Statuses
  <2>3. request[q].kind = "update"
    BY <1>4 DEF Update
  <2>4. QED
    BY <1>1, <1>2, <2>1, <2>2, <2>3, SaveStep
<1>5. CASE Enrich(q)
  <2>1. PICK c \in Contents :
          Save([Seen(q) EXCEPT !.content = c, !.generated = c, !.validated = NoDigest,
                               !.revision = @ + 1],
               IF c \in Sound THEN "draft" ELSE "blocked", FALSE)
    BY <1>5 DEF Enrich
  <2>2. (IF c \in Sound THEN "draft" ELSE "blocked") \in Saveable \ {"approved", "needs_ack"}
    BY DEF Saveable, Statuses
  <2>3. [Seen(q) EXCEPT !.content = c, !.generated = c, !.validated = NoDigest, !.revision = @ + 1]
          \in Specifications
    BY <1>1, <1>5 DEF Enrich, Specifications, Copies
  <2>4. QED
    BY <1>1, <2>1, <2>2, <2>3, SaveStep
<1>6. CASE Review(q)
  <2>1. \/ Save(Seen(q), "blocked", FALSE)
        \/ Seen(q).content \in Sound /\ Save([Seen(q) EXCEPT !.validated = Seen(q).content], "approved", FALSE)
        \/ \E status \in {"needs_ack", "review_required"} :
             Seen(q).content \in Sound /\ Save(Seen(q), status, FALSE)
    BY <1>6 DEF Review
  <2>2. {"blocked", "needs_ack", "review_required", "approved"} \subseteq Saveable
    BY DEF Saveable, Statuses
  <2>3. [Seen(q) EXCEPT !.validated = Seen(q).content].content = Seen(q).content
        /\ [Seen(q) EXCEPT !.validated = Seen(q).content].validated = Seen(q).content
        /\ [Seen(q) EXCEPT !.validated = Seen(q).content] \in Specifications
    BY <1>1, <1>2, <1>3 DEF Specifications, Copies
  <2>4. CASE Save(Seen(q), "blocked", FALSE)
    BY <1>1, <2>2, <2>4, SaveStep
  <2>5. CASE Seen(q).content \in Sound
             /\ Save([Seen(q) EXCEPT !.validated = Seen(q).content], "approved", FALSE)
    BY <1>1, <2>2, <2>3, <2>5, SaveStep
  <2>6. ASSUME NEW status \in {"needs_ack", "review_required"},
               Seen(q).content \in Sound, Save(Seen(q), status, FALSE)
        PROVE  Inv'
    BY <1>1, <2>2, <2>6, SaveStep
  <2>7. QED
    BY <2>1, <2>4, <2>5, <2>6
<1>7. CASE Confirm(q)
  <2>1. \/ Save(Seen(q), "blocked", FALSE)
        \/ Seen(q).content \in Sound
           /\ Save([Seen(q) EXCEPT !.validated = Seen(q).content], "approved", Seen(q).enabled)
    BY <1>7 DEF Confirm
  <2>2. {"blocked", "approved"} \subseteq Saveable
    BY DEF Saveable, Statuses
  <2>3. [Seen(q) EXCEPT !.validated = Seen(q).content].content = Seen(q).content
        /\ [Seen(q) EXCEPT !.validated = Seen(q).content].validated = Seen(q).content
        /\ [Seen(q) EXCEPT !.validated = Seen(q).content] \in Specifications
    BY <1>1, <1>2, <1>3 DEF Specifications, Copies
  <2>4. CASE Save(Seen(q), "blocked", FALSE)
    BY <1>1, <2>2, <2>4, SaveStep
  <2>5. CASE Seen(q).content \in Sound
             /\ Save([Seen(q) EXCEPT !.validated = Seen(q).content], "approved", Seen(q).enabled)
    BY <1>1, <1>3, <2>2, <2>3, <2>5, SaveStep
  <2>6. QED
    BY <2>1, <2>4, <2>5
<1>8. CASE Acknowledge(q)
  <2>1. Save([Seen(q) EXCEPT !.validated = Seen(q).content], "approved", FALSE)
        /\ Seen(q).content \in Sound /\ "approved" \in Saveable
    BY <1>1, <1>8 DEF Acknowledge, Saveable, Statuses
  <2>2. [Seen(q) EXCEPT !.validated = Seen(q).content].content = Seen(q).content
        /\ [Seen(q) EXCEPT !.validated = Seen(q).content].validated = Seen(q).content
        /\ [Seen(q) EXCEPT !.validated = Seen(q).content] \in Specifications
    BY <1>1, <1>2, <1>3 DEF Specifications, Copies
  <2>3. QED
    BY <1>1, <2>1, <2>2, SaveStep
<1>9. CASE Schedule(q)
  <2>1. PICK enabled \in {FALSE, mode # "manual"} : Save(Seen(q), "approved", enabled)
    BY <1>9 DEF Schedule
  <2>2. enabled \in BOOLEAN /\ "approved" \in Saveable
    BY DEF Saveable, Statuses
  <2>3. Seen(q).validated = Seen(q).content /\ Seen(q).content \in Sound
    BY <1>1, <1>9 DEF Schedule
  <2>4. QED
    BY <1>1, <2>1, <2>2, <2>3, SaveStep
<1>10. QED
  BY <1>4, <1>5, <1>6, <1>7, <1>8, <1>9

-------------------------------------------------------------------------------
(* Everything else.                                                         *)

LEMMA ReadStep ==
  ASSUME SpecsAssumption, Inv, NEW q \in Requests, NEW kind \in Kinds, Read(q, kind)
  PROVE  Inv'
<1> USE DEF Read
<1>1. TypeOK /\ SeenInv /\ RowInv /\ OwnInv
  BY DEF Inv
<1>2. Copy(row) \in Copies /\ Copy(row).content = row.content
      /\ Copy(row).validated = row.validated /\ Copy(row).revision = row.revision
  BY <1>1 DEF TypeOK, Rows, Copies, Copy
<1>3. \A p \in Requests : request'[p] =
        IF p = q THEN [kind |-> kind, pc |-> "read", seen |-> Copy(row)] ELSE request[p]
  BY <1>1 DEF TypeOK
<1>4. TypeOK'
  BY <1>1, <1>2 DEF TypeOK
<1>5. SeenInv'
  <2>1. row.content \in Contents /\ row.revision \in 0 .. MaxRevision
    BY <1>1 DEF TypeOK, Rows
  <2>2. kind = "acknowledge" => row.content \in Sound
    BY <1>1 DEF RowInv, Allowed
  <2>3. kind = "schedule" => row.validated = row.content /\ row.content \in Sound
    BY <1>1 DEF RowInv, ApprovedIsValidated, Allowed
  <2>4. QED
    BY <1>1, <1>2, <1>3, <2>1, <2>2, <2>3 DEF SeenInv, Seen
<1>6. RowInv'
  BY <1>1 DEF RowInv, ApprovedIsValidated, Gone
<1>7. OwnInv'
  BY <1>1, <1>3 DEF OwnInv, Owns
<1>8. QED
  BY <1>4, <1>5, <1>6, <1>7 DEF Inv

LEMMA RunStep ==
  ASSUME SpecsAssumption, Inv, NEW q \in Requests,
         \/ EnrichInVain(q) \/ Claim(q) \/ MarkStarted(q) \/ MarkFails(q)
         \/ Execute(q) \/ Finish(q)
  PROVE  Inv'
<1>1. TypeOK /\ SeenInv /\ RowInv /\ OwnInv
  BY DEF Inv
<1>a. ASSUME End(q)
      PROVE  /\ \A p \in Requests : request'[p] = IF p = q THEN Idle ELSE request[p]
             /\ TheRequests' /\ SeenInv'
  <2>1. \A p \in Requests : request'[p] = IF p = q THEN Idle ELSE request[p]
    BY <1>1, <1>a DEF End, TypeOK
  <2>2. Idle \in [kind : Kinds \cup {"none"}, pc : {"idle", "read", "claimed"}, seen : Copies]
    BY DEF Idle, Nothing, Copies, SpecsAssumption
  <2>3. TheRequests'
    BY <1>1, <1>a, <2>2, Parts DEF End, TheRequests
  <2>4. SeenInv'
    BY <1>1, <2>1 DEF SeenInv, Seen, Idle
  <2>5. QED
    BY <2>1, <2>3, <2>4
<1>2. ASSUME End(q), UNCHANGED <<mode, row, run, running>> PROVE Inv'
  <2>1. TypeOK'
    BY <1>1, <1>2, <1>a, Parts, PartsNext DEF TheRow, TheRuns
  <2>2. RowInv'
    BY <1>1, <1>2 DEF RowInv, ApprovedIsValidated, Gone
  <2>3. OwnInv'
    BY <1>1, <1>2, <1>a DEF OwnInv, Owns, Idle
  <2>4. QED
    BY <1>a, <1>2, <2>1, <2>2, <2>3 DEF Inv
<1>3. CASE EnrichInVain(q)
  BY <1>2, <1>3 DEF EnrichInVain, Unrun
<1>4. CASE Claim(q)
  <2>1. CASE running
    <3>1. End(q) /\ UNCHANGED <<mode, row, run, running>>
      BY <1>4, <2>1 DEF Claim
    <3>2. QED
      BY <1>2, <3>1
  <2>2. CASE ~ running
    <3>1. running' = TRUE /\ UNCHANGED <<mode, row, run>>
          /\ \A p \in Requests : request'[p] =
               IF p = q THEN [request[q] EXCEPT !.pc = "claimed"] ELSE request[p]
      BY <1>1, <1>4, <2>2 DEF Claim, TypeOK
    <3>2. TypeOK'
      <4>1. TheRequests'
        BY <1>1, <1>4, <2>2, Parts DEF Claim, TheRequests
      <4>2. QED
        BY <1>1, <3>1, <4>1, Parts, PartsNext DEF TheRow, TheRuns
    <3>3. SeenInv'
      BY <1>1, <1>4, <3>1 DEF SeenInv, Seen, Claim, Starting, TypeOK
    <3>4. RowInv'
      BY <1>1, <3>1 DEF RowInv, ApprovedIsValidated, Gone
    <3>5. \A p \in Requests : ~ Owns(p)
      BY <1>1, <2>2 DEF OwnInv
    <3>6. OwnInv'
      BY <1>1, <3>1, <3>5 DEF OwnInv, Owns
    <3>7. QED
      BY <3>2, <3>3, <3>4, <3>6 DEF Inv
  <2>3. QED
    BY <2>1, <2>2
<1>5. CASE MarkStarted(q)
  <2>1. End(q) /\ row' = Marked(request[q].kind = "tick") /\ UNCHANGED <<mode, running>>
        /\ run' = [run EXCEPT ![q] = [NoRun EXCEPT !.pc = "started", !.granted = Seen(q).content]]
        /\ request[q].pc = "claimed"
    BY <1>5 DEF MarkStarted, Starting
  <2>2. /\ row' \in Rows /\ (row'.next # "none" => row'.enabled) /\ (Gone => row' = row)
        /\ row'.content = row.content /\ row'.validated = row.validated /\ row'.status = row.status
    BY <1>1, <2>1 DEF Marked, TypeOK, Rows
  <2>3. \A p \in Requests : run'[p].pc = IF p = q THEN "started" ELSE run[p].pc
    BY <1>1, <2>1 DEF TypeOK, NoRun
  <2>4. Seen(q).content \in Contents
    BY <1>1, <2>1 DEF SeenInv
  <2>5. TypeOK'
    <3>1. TheRuns'
      BY <1>1, <2>1, <2>4, Parts DEF TheRuns, NoRun
    <3>2. QED
      BY <1>1, <1>a, <2>1, <2>2, <3>1, Parts, PartsNext DEF TheRow
  <2>6. RowInv'
    BY <1>1, <2>2 DEF RowInv, ApprovedIsValidated, Gone
  <2>7. \A p \in Requests : request'[p].pc = IF p = q THEN "idle" ELSE request[p].pc
    BY <1>a, <2>1 DEF Idle
  <2>8. OwnInv'
    BY <1>1, <2>1, <2>3, <2>7 DEF OwnInv, Owns
  <2>9. QED
    BY <1>a, <2>1, <2>5, <2>6, <2>8 DEF Inv
<1>6. CASE MarkFails(q)
  BY <1>2, <1>6 DEF MarkFails
<1>7. CASE Execute(q)
  <2>1. \A p \in Requests : run'[p].pc = IF p = q THEN "executing" ELSE run[p].pc
    BY <1>1, <1>7 DEF Execute, TypeOK
  <2>2. run[q].pc = "started" /\ UNCHANGED <<mode, row, request, running>>
    BY <1>7 DEF Execute
  <2>3. TypeOK'
    <3>1. TheRuns'
      <4>1. run[q].granted \in Contents \cup {NoDigest} /\ row.content \in Contents
        BY <1>1, Parts DEF TheRow, TheRuns, Rows
      <4>2. [run[q] EXCEPT !.pc = "executing", !.content = row.content]
              \in [pc : {"none", "started", "executing"},
                  granted : Contents \cup {NoDigest}, content : Contents \cup {NoDigest}]
        BY <1>1, <4>1, Parts DEF TheRuns
      <4>3. run' = [run EXCEPT ![q] = [run[q] EXCEPT !.pc = "executing", !.content = row.content]]
        BY <1>1, <1>7, Parts DEF Execute, TheRuns
      <4>4. QED
        BY <1>1, <4>2, <4>3, Parts DEF TheRuns
    <3>2. QED
      BY <1>1, <2>2, <3>1, Parts, PartsNext DEF TheRow, TheRequests
  <2>4. SeenInv' /\ RowInv'
    BY <1>1, <2>2 DEF SeenInv, Seen, RowInv, ApprovedIsValidated, Gone
  <2>5. OwnInv'
    BY <1>1, <2>1, <2>2 DEF OwnInv, Owns
  <2>6. QED
    BY <2>3, <2>4, <2>5 DEF Inv
<1>8. CASE Finish(q)
  <2>1. /\ run[q].pc # "none" /\ run' = [run EXCEPT ![q] = NoRun] /\ running' = FALSE
        /\ UNCHANGED <<mode, request>>
    BY <1>8 DEF Finish
  <2>2. PICK ok \in BOOLEAN : row' = Finished(ok)
    BY <1>8 DEF Finish
  <2>3. /\ row' \in Rows /\ (row'.next # "none" => row'.enabled) /\ row'.last # "running"
        /\ row'.content = row.content /\ row'.validated = row.validated /\ row'.status = row.status
    BY <1>1, <2>2 DEF Finished, TypeOK, Rows, RowInv
  <2>4. \A p \in Requests : run'[p].pc = IF p = q THEN "none" ELSE run[p].pc
    BY <1>1, <2>1 DEF TypeOK, NoRun
  <2>5. TypeOK'
    BY <1>1, <2>1, <2>3 DEF TypeOK, NoRun
  <2>6. SeenInv' /\ RowInv'
    BY <1>1, <2>1, <2>3 DEF SeenInv, Seen, RowInv, ApprovedIsValidated, Gone
  <2>7. \A p \in Requests : p # q => ~ Owns(p)
    BY <1>1, <2>1 DEF OwnInv, Owns
  <2>8. request[q].pc # "claimed"
    BY <1>1, <2>1 DEF OwnInv
  <2>9. OwnInv'
    BY <2>1, <2>3, <2>4, <2>7, <2>8 DEF OwnInv, Owns
  <2>10. QED
    BY <2>5, <2>6, <2>9 DEF Inv
<1>9. QED
  BY <1>3, <1>4, <1>5, <1>6, <1>7, <1>8

LEMMA OtherStep == ASSUME SpecsAssumption, Inv, Delete \/ Time \/ Restart PROVE Inv'
<1>1. TypeOK /\ SeenInv /\ RowInv /\ OwnInv
  BY DEF Inv
<1>2. CASE Delete
  <2>1. row' \in Rows /\ row'.next = "none" /\ row'.status = "deleted" /\ row'.last = "none"
        /\ UNCHANGED <<mode, request, running, run>>
    BY <1>1, <1>2 DEF Delete, TypeOK, Rows, Statuses
  <2>2. QED
    BY <1>1, <2>1
    DEF Inv, TypeOK, SeenInv, Seen, RowInv, ApprovedIsValidated, Gone, OwnInv, Owns
<1>3. CASE Time
  <2>1. /\ row' \in Rows /\ row'.enabled /\ UNCHANGED <<mode, request, running, run>>
        /\ row'.status = row.status /\ row'.content = row.content
        /\ row'.validated = row.validated /\ row'.last = row.last
    BY <1>1, <1>3 DEF Time, TypeOK, Rows
  <2>2. QED
    BY <1>1, <2>1
    DEF Inv, TypeOK, SeenInv, Seen, RowInv, ApprovedIsValidated, Gone, OwnInv, Owns
<1>4. CASE Restart
  <2>1. /\ row' \in Rows /\ (row'.next # "none" => row'.enabled) /\ row'.last # "running"
        /\ row'.status = row.status /\ row'.content = row.content
        /\ row'.validated = row.validated
    BY <1>1, <1>4 DEF Restart, Recovered, TypeOK, Rows
  <2>2. \A q \in Requests : request'[q].pc = "idle" /\ run'[q].pc = "none"
    BY <1>4 DEF Restart, Idle, NoRun
  <2>3. TypeOK'
    <3>1. TheRequests'
      BY <1>4 DEF Restart, TheRequests, Idle, Nothing, Copies, SpecsAssumption
    <3>2. TheRuns'
      BY <1>4 DEF Restart, TheRuns, NoRun
    <3>3. TheRow' /\ running' = FALSE
      BY <1>1, <1>4, <2>1, Parts DEF Restart, TheRow
    <3>4. QED
      BY <3>1, <3>2, <3>3, Parts, PartsNext
  <2>4. SeenInv' /\ RowInv'
    BY <1>1, <2>1, <2>2 DEF SeenInv, RowInv, ApprovedIsValidated, Gone
  <2>5. OwnInv'
    BY <2>1, <2>2 DEF OwnInv, Owns
  <2>6. QED
    BY <2>3, <2>4, <2>5 DEF Inv
<1>5. QED
  BY <1>2, <1>3, <1>4

LEMMA Step == ASSUME SpecsAssumption PROVE Inv /\ [Next]_vars => Inv'
<1> SUFFICES ASSUME Inv, [Next]_vars PROVE Inv'
  OBVIOUS
<1>1. CASE UNCHANGED vars
  BY <1>1
  DEF vars, Inv, TypeOK, SeenInv, Seen, RowInv, ApprovedIsValidated, Gone, OwnInv, Owns
<1>2. CASE Next
  BY <1>2, OtherStep, ReadStep, SavingStep, RunStep DEF Next, Serve
<1>3. QED
  BY <1>1, <1>2

LEMMA Invariant == ASSUME SpecsAssumption PROVE Spec => []Inv
<1>1. Init => Inv
  BY InitInv
<1>2. Inv /\ [Next]_vars => Inv'
  BY Step
<1>3. QED
  BY <1>1, <1>2, PTL DEF Spec

\* The row, the copies of the requests and the runs keep their shape, and only
\* an enabled specification has a next run.
THEOREM TypeCorrect == ASSUME SpecsAssumption PROVE Spec => []TypeOK
<1>1. Inv => TypeOK
  BY DEF Inv
<1>2. QED
  BY <1>1, Invariant, PTL

\* Requests save what they have read although others came in between; still
\* nothing is approved that was not validated.
THEOREM Approved == ASSUME SpecsAssumption PROVE Spec => []ApprovedIsValidated
<1>1. Inv => ApprovedIsValidated
  BY DEF Inv, RowInv
<1>2. QED
  BY <1>1, Invariant, PTL

\* However many requests and ticks start it, a specification is executed once
\* at a time, and its row says so only while it is.
THEOREM OneRun == ASSUME SpecsAssumption PROVE Spec => []RunsOneAtATime
<1>1. Inv => RunsOneAtATime
  <2> SUFFICES ASSUME Inv PROVE RunsOneAtATime
    OBVIOUS
  <2>1. \A p, q \in Active : p = q
    BY DEF Inv, OwnInv, Owns, Active
  <2>2. Cardinality(Active) <= 1
    <3>1. CASE Active = {}
      BY <3>1, FS_EmptySet
    <3>2. ASSUME NEW q \in Active PROVE Cardinality(Active) <= 1
      <4>1. Active = {q}
        BY <2>1
      <4>2. Cardinality(Active) = 1
        BY <4>1, FS_Singleton
      <4>3. QED
        BY <4>2
    <3>3. QED
      BY <3>1, <3>2
  <2>3. row.last = "running" => Active # {}
    BY DEF Inv, OwnInv, Active
  <2>4. QED
    BY <2>2, <2>3 DEF RunsOneAtATime
<1>2. QED
  BY <1>1, Invariant, PTL

LEMMA EnrichStep ==
  ASSUME SpecsAssumption, Inv, [Next]_vars, NEW q \in Requests,
         Doing(q, "enrich"), request'[q].pc = "idle", row'.content # row.content
  PROVE  ~ Gone /\ row'.revision = row.revision + 1
<1> USE DEF Doing
<1>1. TypeOK
  BY DEF Inv
<1>2. CASE UNCHANGED vars
  BY <1>2 DEF vars
<1>3. CASE Delete \/ Time \/ Restart
  BY <1>1, <1>3 DEF Delete, Time, Restart, Recovered, TypeOK, Rows
<1>4. ASSUME NEW p \in Requests, Serve(p) \/ Execute(p) \/ Finish(p), p # q
      PROVE  FALSE
  BY <1>1, <1>4
  DEF Serve, Read, Update, Enrich, EnrichInVain, Review, Confirm, Acknowledge, Schedule,
      Claim, MarkStarted, MarkFails, Execute, Finish, End, TypeOK
<1>5. CASE Enrich(q)
  <2>1. PICK c \in Contents :
          Save([Seen(q) EXCEPT !.content = c, !.generated = c, !.validated = NoDigest,
                               !.revision = @ + 1],
               IF c \in Sound THEN "draft" ELSE "blocked", FALSE)
    BY <1>5 DEF Enrich
  <2>2. row'.revision = Seen(q).revision + 1
    BY <1>1, <2>1 DEF Save, TypeOK, Copies, Seen
  <2>3. QED
    BY <1>5, <2>2 DEF Enrich, Current
<1>6. CASE Serve(q) /\ ~ Enrich(q)
  BY <1>1, <1>6
  DEF Serve, Read, Update, EnrichInVain, Review, Confirm, Acknowledge, Schedule,
      Claim, MarkStarted, MarkFails, Starting
<1>7. CASE Execute(q) \/ Finish(q)
  BY <1>7 DEF Execute, Finish
<1>8. QED
  BY <1>2, <1>3, <1>4, <1>5, <1>6, <1>7 DEF Next

\* The answer of a model is saved only on top of what the model was given: it
\* neither undoes a newer edit nor brings a deleted specification back.
THEOREM UserWins == ASSUME SpecsAssumption PROVE Spec => EnrichGoesForward
<1>1. Inv /\ [Next]_vars =>
        [\A q \in Requests :
           (Doing(q, "enrich") /\ request'[q].pc = "idle" /\ row'.content # row.content)
             => ~ Gone /\ row'.revision = row.revision + 1]_vars
  BY EnrichStep
<1>2. QED
  BY <1>1, Invariant, PTL DEF Spec, EnrichGoesForward

(* FailoverOwners: a1 is thread, a2 current, a3 owners, a4 stopped, a5 handle, *)
(* a6 mine, a7 late and a8 forced.                                          *)

LEMMA FailoverInit == Failover!Init => Failover!HeldInv
<1> SUFFICES ASSUME Failover!Init PROVE Failover!HeldInv
  OBVIOUS
<1> USE FailoverAssumption DEF Failover!Init
<1>1. Failover!OwnersTypeOK
  BY DEF Failover!OwnersTypeOK, Failover!Started
<1>2. Failover!OneLives /\ Failover!StoppedLate
  BY DEF Failover!OneLives, Failover!Alive, Failover!StoppedLate
<1>3. Failover!Counted /\ Failover!LastLeaves
  BY DEF Failover!Counted, Failover!LastLeaves, Failover!Leaving
<1>4. QED
  BY <1>1, <1>2, <1>3 DEF Failover!HeldInv

\* The instance has its own name for Cardinality.
LEMMA SameCardinality == ASSUME NEW S PROVE Failover!Cardinality(S) = Cardinality(S)
  BY Zenon DEF Failover!Cardinality, Cardinality, Failover!IsFiniteSet, IsFiniteSet

LEMMA FailoverStep ==
  ASSUME Failover!HeldInv, Failover!Next PROVE Failover!HeldInv'
<1> USE FailoverAssumption
<1> DEFINE States == {"none", "waits", "works", "ended"}
           Deeds == {"none", "held", "leaving", "joining", "released"}
<1>1. /\ Failover!OwnersTypeOK /\ Failover!OneLives /\ Failover!Counted
      /\ Failover!LastLeaves /\ Failover!StoppedLate
  BY DEF Failover!HeldInv
<1>2. /\ a1 \in [Generations -> States] /\ a3 \in Nat
      /\ a5 \in [Owners -> Deeds] /\ 0 \notin Generations
      /\ a2 \in Generations \cup {0} /\ (a2 # 0 => a1[a2] # "none")
      /\ \A g \in a4 \cup a8 : g \in Generations /\ a1[g] # "none"
      /\ a6 \in [Owners -> Generations \cup {0}]
      /\ \A o \in Owners : a6[o] # 0 => a1[a6[o]] # "none"
      /\ \A o \in Owners : a5[o] \in {"held", "leaving", "joining"} => a6[o] # 0
  BY <1>1 DEF Failover!OwnersTypeOK, Failover!Started
\* Typing, from the same facts of the next state.
<1>3. ASSUME a1' \in [Generations -> States], a3' \in Nat, a5' \in [Owners -> Deeds],
             a2' \in Generations \cup {0}, a2' # 0 => a1'[a2'] # "none",
             \A g \in a4' \cup a8' : g \in Generations /\ a1'[g] # "none",
             a6' \in [Owners -> Generations \cup {0}],
             \A o \in Owners : a6'[o] # 0 => a1'[a6'[o]] # "none",
             \A o \in Owners : a5'[o] \in {"held", "leaving", "joining"} => a6'[o] # 0
      PROVE  Failover!OwnersTypeOK'
  <2>1. Failover!Started' = {g \in Generations : a1'[g] # "none"}
    BY DEF Failover!Started
  <2>2. a2' \in Failover!Started' \cup {0} /\ a4' \subseteq Failover!Started' /\ a8' \subseteq Failover!Started'
    BY <1>3, <2>1
  <2>3. a6' \in [Owners -> Failover!Started' \cup {0}]
    BY <1>3, <2>1
  <2>4. QED
    BY <1>3, <2>2, <2>3 DEF Failover!OwnersTypeOK
\* A step of the thread.
<1>4. ASSUME NEW g \in Generations, Failover!Wake(g) \/ Failover!Wait(g) PROVE Failover!HeldInv'
  <2>1. /\ UNCHANGED <<a2, a3, a4, a5, a6, a7, a8>>
        /\ \E s \in {"waits", "works", "ended"} : a1' = [a1 EXCEPT ![g] = s]
        /\ a1[g] \in {"waits", "works"}
    BY <1>2, <1>4 DEF Failover!Wake, Failover!Wait, Failover!Alive
  <2>2. /\ a1' \in [Generations -> States]
        /\ \A h \in Generations : a1[h] # "none" => a1'[h] # "none"
        /\ \A h \in Generations : a1'[h] \in {"waits", "works"} => a1[h] \in {"waits", "works"}
    BY <1>2, <2>1
  <2>3. Failover!OwnersTypeOK'
    BY <1>2, <1>3, <2>1, <2>2
  <2>4. Failover!OneLives'
    BY <1>1, <2>1, <2>2 DEF Failover!OneLives, Failover!Alive
  <2>5. Failover!Counted' /\ Failover!LastLeaves' /\ Failover!StoppedLate'
    BY <1>1, <2>1 DEF Failover!Counted, Failover!LastLeaves, Failover!StoppedLate,
                      Failover!Holders, Failover!Leaving
  <2>6. QED
    BY <2>3, <2>4, <2>5 DEF Failover!HeldInv
\* Who holds the current worker, and who is about to stop it.
<1>5. /\ \A o \in Owners : o \in Failover!Holders <=> a5[o] = "held" /\ a6[o] = a2
      /\ \A o \in Owners : o \in Failover!Holders' <=> a5'[o] = "held" /\ a6'[o] = a2'
      /\ \A o \in Owners : o \in Failover!Leaving <=> a5[o] = "leaving" /\ a6[o] = a2
      /\ \A o \in Owners : o \in Failover!Leaving' <=> a5'[o] = "leaving" /\ a6'[o] = a2'
      /\ Failover!Holders \subseteq Owners /\ Failover!Holders' \subseteq Owners
      /\ Failover!Leaving \subseteq Owners /\ Failover!Leaving' \subseteq Owners
  BY DEF Failover!Holders, Failover!Leaving
<1>6. /\ a2 # 0 /\ a2 \notin a8 => a3 = Cardinality(Failover!Holders)
      /\ a2 \notin a8 /\ Failover!Leaving # {} => Failover!Holders \subseteq a7
      /\ \A o \in Owners : a5[o] = "held" /\ a6[o] \in a4 => a6[o] \in a8 \/ o \in a7
      /\ \A g \in Generations : a1[g] \in {"waits", "works"} => g = a2
  <2>1. a2 # 0 /\ a2 \notin a8 => a3 = Cardinality(Failover!Holders)
    BY <1>1, SameCardinality DEF Failover!Counted
  <2>2. a2 \notin a8 /\ Failover!Leaving # {} => Failover!Holders \subseteq a7
    BY <1>1 DEF Failover!LastLeaves
  <2>3. \A o \in Owners : a5[o] = "held" /\ a6[o] \in a4 => a6[o] \in a8 \/ o \in a7
    BY <1>1 DEF Failover!StoppedLate
  <2>4. \A g \in Generations : a1[g] \in {"waits", "works"} => g = a2
    BY <1>1 DEF Failover!OneLives, Failover!Alive
  <2>5. QED
    BY <2>1, <2>2, <2>3, <2>4
<1>7. ASSUME Failover!OwnersTypeOK',
             a2' # 0 /\ a2' \notin a8' => a3' = Cardinality(Failover!Holders'),
             a2' \notin a8' /\ Failover!Leaving' # {} => Failover!Holders' \subseteq a7',
             \A o \in Owners : a5'[o] = "held" /\ a6'[o] \in a4' => a6'[o] \in a8' \/ o \in a7',
             \A g \in Generations : a1'[g] \in {"waits", "works"} => g = a2'
      PROVE  Failover!HeldInv'
  <2>1. Failover!Counted'
    BY <1>7, SameCardinality DEF Failover!Counted
  <2>2. Failover!LastLeaves'
    BY <1>7 DEF Failover!LastLeaves
  <2>3. Failover!StoppedLate'
    BY <1>7 DEF Failover!StoppedLate
  <2>4. Failover!OneLives'
    BY <1>7 DEF Failover!OneLives, Failover!Alive
  <2>5. QED
    BY <1>7, <2>1, <2>2, <2>3, <2>4 DEF Failover!HeldInv
<1>8. IsFiniteSet(Failover!Holders) /\ IsFiniteSet(Failover!Holders')
  BY <1>5, FS_Subset
<1>9. ASSUME NEW o \in Owners, Failover!Join(o) PROVE Failover!HeldInv'
  <2>1. /\ a5[o] = "none" /\ a2 \in Generations /\ a2 \notin a4 /\ a3' = a3 + 1
        /\ a5' = [a5 EXCEPT ![o] = "held"] /\ a6' = [a6 EXCEPT ![o] = a2]
        /\ a7' = (IF Failover!Leaving = {} THEN a7 ELSE a7 \cup {o})
        /\ UNCHANGED <<a1, a2, a4, a8>>
    BY <1>9 DEF Failover!Join, Failover!Alive
  <2>2. Failover!OwnersTypeOK'
    BY <1>2, <1>3, <2>1
  <2>3. Failover!Holders' = Failover!Holders \cup {o} /\ o \notin Failover!Holders
    BY <1>2, <1>5, <2>1
  <2>4. Failover!Leaving' = Failover!Leaving
    BY <1>2, <1>5, <2>1
  <2>5. a2' # 0 /\ a2' \notin a8' => a3' = Cardinality(Failover!Holders')
    <3>1. Cardinality(Failover!Holders') = Cardinality(Failover!Holders) + 1
      BY <1>8, <2>3, FS_AddElement
    <3>2. QED
      BY <1>6, <2>1, <3>1
  <2>6. a2' \notin a8' /\ Failover!Leaving' # {} => Failover!Holders' \subseteq a7'
    BY <1>6, <2>1, <2>3, <2>4
  <2>7. \A p \in Owners : a5'[p] = "held" /\ a6'[p] \in a4' => a6'[p] \in a8' \/ p \in a7'
    BY <1>2, <1>6, <2>1
  <2>8. QED
    BY <1>6, <1>7, <2>1, <2>2, <2>5, <2>6, <2>7
<1>10. ASSUME NEW o \in Owners, NEW g \in Generations, Failover!Start(o, g) PROVE Failover!HeldInv'
  <2>1. /\ a5[o] = "none" /\ a1[g] = "none" /\ a3' = 1 /\ a2' = g /\ a1' = [a1 EXCEPT ![g] = "waits"]
        /\ a5' = [a5 EXCEPT ![o] = "held"] /\ a6' = [a6 EXCEPT ![o] = g]
        /\ UNCHANGED <<a4, a7, a8>> /\ ~ Failover!Alive(a2)
    BY <1>10 DEF Failover!Start
  <2>2. Failover!OwnersTypeOK'
    BY <1>2, <1>3, <2>1
  <2>3. \A p \in Owners : a6[p] # g /\ (p # o => a5'[p] = a5[p] /\ a6'[p] = a6[p])
    BY <1>2, <2>1
  <2>4. Failover!Holders' = {o} /\ Failover!Leaving' = {}
    BY <1>2, <1>5, <2>1, <2>3
  <2>5. a3' = Cardinality(Failover!Holders')
    BY <2>1, <2>4, FS_Singleton
  <2>6. \A p \in Owners : a5'[p] = "held" /\ a6'[p] \in a4' => a6'[p] \in a8' \/ p \in a7'
    BY <1>2, <1>6, <2>1, <2>3
  <2>7. \A h \in Generations : a1'[h] \in {"waits", "works"} => h = a2'
    BY <1>2, <1>6, <2>1 DEF Failover!Alive
  <2>8. QED
    BY <1>7, <2>2, <2>4, <2>5, <2>6, <2>7
<1>11. ASSUME NEW o \in Owners, Failover!Release(o) PROVE Failover!HeldInv'
  <2>1. a5[o] = "held" /\ UNCHANGED <<a1, a2, a4, a6, a7, a8>>
    BY <1>11 DEF Failover!Release
  <2>2. \E d \in {"leaving", "released"} : a5' = [a5 EXCEPT ![o] = d]
    BY <1>11 DEF Failover!Release, Failover!CountDown
  <2>3. a3' \in Nat
    BY <1>2, <1>11 DEF Failover!Release, Failover!CountDown
  <2>4. Failover!OwnersTypeOK'
    BY <1>2, <1>3, <2>1, <2>2, <2>3
  <2>5. \A p \in Owners : p # o => a5'[p] = a5[p]
    BY <1>2, <2>2
  <2>6. Failover!Holders' = Failover!Holders \ {o}
    BY <1>2, <1>5, <2>1, <2>2
  <2>7. \A p \in Owners : a5'[p] = "held" /\ a6'[p] \in a4' => a6'[p] \in a8' \/ p \in a7'
    BY <1>2, <1>6, <2>1, <2>2
  <2>8. CASE a6[o] = a2
    <3>1. /\ a3' = (IF a3 = 0 THEN 0 ELSE a3 - 1)
          /\ a5' = [a5 EXCEPT ![o] = IF a3 <= 1 THEN "leaving" ELSE "released"]
      BY <1>11, <2>8 DEF Failover!Release, Failover!CountDown
    <3>2. o \in Failover!Holders /\ a2 # 0
      BY <1>2, <1>5, <2>1, <2>8
    <3>3. ASSUME a2 \notin a8 PROVE a3 # 0 /\ Cardinality(Failover!Holders') = a3 - 1
      <4>1. a3 = Cardinality(Failover!Holders)
        BY <1>6, <3>2, <3>3
      <4>2. Cardinality(Failover!Holders') = a3 - 1
        BY <1>8, <2>6, <3>2, <4>1, FS_RemoveElement
      <4>3. Cardinality(Failover!Holders') \in Nat
        BY <1>8, FS_CardinalityType
      <4>4. QED
        BY <1>2, <4>2, <4>3
    <3>4. ASSUME a2' \notin a8', Failover!Leaving' # {} PROVE Failover!Holders' \subseteq a7'
      <4>1. CASE Failover!Leaving # {}
        BY <1>6, <2>1, <2>6, <3>4, <4>1
      <4>2. CASE Failover!Leaving = {}
        <5>1. a3 <= 1
          BY <1>2, <1>5, <2>1, <2>5, <3>1, <3>4, <4>2
        <5>2. Cardinality(Failover!Holders') = 0
          <6>1. a3 # 0 /\ Cardinality(Failover!Holders') = a3 - 1
            BY <2>1, <3>3, <3>4
          <6>2. QED
            BY <1>2, <5>1, <6>1
        <5>3. Failover!Holders' = {}
          BY <1>8, <5>2, FS_EmptySet
        <5>4. QED
          BY <5>3
      <4>3. QED
        BY <4>1, <4>2
    <3>5. a2' # 0 /\ a2' \notin a8' => a3' = Cardinality(Failover!Holders')
      BY <2>1, <3>1, <3>3
    <3>6. QED
      BY <1>6, <1>7, <2>1, <2>4, <2>7, <3>4, <3>5
  <2>9. CASE a6[o] # a2
    <3>1. a3' = a3 /\ a5' = [a5 EXCEPT ![o] = "released"]
      BY <1>11, <2>9 DEF Failover!Release
    <3>2. Failover!Holders' = Failover!Holders /\ Failover!Leaving' = Failover!Leaving
      BY <1>2, <1>5, <2>1, <2>9, <3>1
    <3>3. QED
      BY <1>6, <1>7, <2>1, <2>4, <2>7, <3>1, <3>2
  <2>10. QED
    BY <2>8, <2>9
<1>12. ASSUME NEW o \in Owners, Failover!Force(o) PROVE Failover!HeldInv'
  <2>1. /\ a5[o] = "none" /\ a2 # 0 /\ a3' = 0 /\ a5' = [a5 EXCEPT ![o] = "leaving"]
        /\ a6' = [a6 EXCEPT ![o] = a2] /\ a8' = a8 \cup {a2} /\ UNCHANGED <<a1, a2, a4, a7>>
    BY <1>12 DEF Failover!Force
  <2>2. Failover!OwnersTypeOK'
    BY <1>2, <1>3, <2>1
  <2>3. \A p \in Owners : a5'[p] = "held" /\ a6'[p] \in a4' => a6'[p] \in a8' \/ p \in a7'
    BY <1>2, <1>6, <2>1
  <2>4. QED
    BY <1>6, <1>7, <2>1, <2>2, <2>3
<1>13. ASSUME NEW o \in Owners, Failover!SetEvent(o) PROVE Failover!HeldInv'
  <2>1. /\ a5[o] = "leaving" /\ UNCHANGED <<a1, a2, a3, a6, a7, a8>>
        /\ \E d \in {"joining", "released"} : a5' = [a5 EXCEPT ![o] = d]
        /\ a4' = a4 \/ (a6[o] = a2 /\ a4' = a4 \cup {a2})
    BY <1>13 DEF Failover!SetEvent
  <2>2. Failover!OwnersTypeOK'
    BY <1>2, <1>3, <2>1
  <2>3. Failover!Holders' = Failover!Holders /\ Failover!Leaving' \subseteq Failover!Leaving
    BY <1>2, <1>5, <2>1
  <2>4. ASSUME NEW p \in Owners, a5'[p] = "held", a6'[p] \in a4' PROVE a6'[p] \in a8' \/ p \in a7'
    <3>1. a5[p] = "held" /\ a6'[p] = a6[p]
      BY <1>2, <2>1, <2>4
    <3>2. CASE a6[p] \in a4
      BY <1>6, <2>1, <3>1, <3>2
    <3>3. CASE a6[p] = a2 /\ a6[o] = a2
      BY <1>5, <1>6, <2>1, <3>1, <3>3
    <3>4. QED
      BY <2>1, <2>4, <3>1, <3>2, <3>3
  <2>5. QED
    BY <1>6, <1>7, <2>1, <2>2, <2>3, <2>4
<1>14. ASSUME NEW o \in Owners, Failover!TimeOut(o) \/ Failover!Clear(o) PROVE Failover!HeldInv'
  <2>1. /\ a5[o] = "joining" /\ a5' = [a5 EXCEPT ![o] = "released"]
        /\ a2' = a2 \/ (a2' = 0 /\ a6[o] = a2 /\ ~ Failover!Alive(a2))
        /\ UNCHANGED <<a1, a3, a4, a6, a7, a8>>
    BY <1>14 DEF Failover!TimeOut, Failover!Clear
  <2>2. Failover!OwnersTypeOK'
    BY <1>2, <1>3, <2>1
  <2>3. \A p \in Owners : a5'[p] = "held" /\ a6'[p] \in a4' => a6'[p] \in a8' \/ p \in a7'
    BY <1>2, <1>6, <2>1
  <2>4. CASE a2' = a2
    <3>1. Failover!Holders' = Failover!Holders /\ Failover!Leaving' = Failover!Leaving
      BY <1>2, <1>5, <2>1, <2>4
    <3>2. QED
      BY <1>6, <1>7, <2>1, <2>2, <2>3, <2>4, <3>1
  <2>5. CASE a2' = 0 /\ ~ Failover!Alive(a2)
    <3>1. Failover!Leaving' = {}
      BY <1>2, <1>5, <2>1, <2>5
    <3>2. \A g \in Generations : a1[g] \notin {"waits", "works"}
      BY <1>6, <2>5 DEF Failover!Alive
    <3>3. QED
      BY <1>7, <2>1, <2>2, <2>3, <2>5, <3>1, <3>2
  <2>6. QED
    BY <2>1, <2>4, <2>5
<1>15. QED
  BY <1>4, <1>9, <1>10, <1>11, <1>12, <1>13, <1>14 DEF Failover!Next

(* DriftWatch: a1 is now, a2 host, a3 baseline, a4 throttles, a5 told, a6 at,   *)
(* a7 mode, a8 base, a9 last, a10 new and a11 quiet.                        *)

LEMMA DriftInit == Drift!Init => Drift!DriftInv
<1> SUFFICES ASSUME Drift!Init PROVE Drift!DriftInv
  OBVIOUS
<1>1. /\ a1 = Period /\ a2 = {} /\ a4 = Drift!Never /\ a5 = Drift!Never /\ a11 = {}
      /\ a6 = [s \in Scans |-> "idle"] /\ a7 = [s \in Scans |-> "watch"]
      /\ a9 = [s \in Scans |-> Drift!Never]
  BY DEF Drift!Init
<1>2. Drift!Never = [k \in Findings |-> 0]
  BY DEF Drift!Never
<1>3. Drift!Never \in [Findings -> Nat] /\ \A k \in Findings : Drift!Never[k] = 0
  BY <1>2
<1>4. Drift!DriftTypeOK
  BY <1>1, <1>3, DriftAssumption DEF Drift!DriftTypeOK, Drift!Times
<1>5. Drift!NoneAhead
  BY <1>1, <1>3, DriftAssumption DEF Drift!NoneAhead
<1>6. QED
  BY <1>1, <1>4, <1>5 DEF Drift!DriftInv

LEMMA DriftStep == ASSUME Drift!DriftInv, Drift!Next PROVE Drift!DriftInv'
<1>1. /\ a1 \in Nat /\ a1 >= Period /\ a2 \subseteq Changes
      /\ a4 \in [Findings -> Nat] /\ a5 \in [Findings -> Nat] /\ a9 \in [Scans -> [Findings -> Nat]]
      /\ a6 \in [Scans -> {"idle", "scan", "baseline", "state"}] /\ a7 \in [Scans -> {"watch", "accept"}]
  BY DEF Drift!DriftInv, Drift!DriftTypeOK, Drift!Times
<1>2. /\ a11 = {}
      /\ \A k \in Findings : a4[k] <= a5[k] /\ a5[k] <= a1 /\ \A s \in Scans : a9[s][k] <= a5[k]
  BY DEF Drift!DriftInv, Drift!NoneAhead
<1>3. ASSUME a1' \in Nat, a1' >= Period, a2' \subseteq Changes,
             a4' \in [Findings -> Nat], a5' \in [Findings -> Nat], a9' \in [Scans -> [Findings -> Nat]],
             a6' \in [Scans -> {"idle", "scan", "baseline", "state"}],
             a7' \in [Scans -> {"watch", "accept"}], a11' = {},
             \A k \in Findings : a4'[k] <= a5'[k] /\ a5'[k] <= a1',
             \A k \in Findings, s \in Scans : a9'[s][k] <= a5'[k]
      PROVE  Drift!DriftInv'
  BY <1>3 DEF Drift!DriftInv, Drift!DriftTypeOK, Drift!Times, Drift!NoneAhead
\* A scan that keeps or forgets the times it has read.
<1>4. \A k \in Findings : Drift!Never[k] = 0
  BY DEF Drift!Never
<1>5. Drift!Never \in [Findings -> Nat]
  BY DEF Drift!Never
<1>6. CASE Drift!Tick
  <2>1. a1' = a1 + 1 /\ UNCHANGED <<a2, a4, a5, a6, a7, a9, a11>>
    BY <1>6 DEF Drift!Tick
  <2>2. a1' \in Nat /\ a1' >= Period /\ a1 <= a1'
    BY <1>1, <2>1, DriftAssumption
  <2>3. \A k \in Findings : a4'[k] <= a5'[k] /\ a5'[k] <= a1'
    BY <1>1, <1>2, <2>1, <2>2
  <2>4. QED
    BY <1>1, <1>2, <1>3, <2>1, <2>2, <2>3
<1>7. ASSUME NEW c \in Changes, Drift!Change(c) PROVE Drift!DriftInv'
  <2>1. a2' \subseteq Changes /\ UNCHANGED <<a1, a4, a5, a6, a7, a9, a11>>
    BY <1>1, <1>7 DEF Drift!Change
  <2>2. QED
    BY <1>1, <1>2, <1>3, <2>1
<1>8. ASSUME NEW s \in Scans, NEW m \in {"watch", "accept"}, Drift!Load(s, m) PROVE Drift!DriftInv'
  <2>1. /\ a9' = [a9 EXCEPT ![s] = a4] /\ UNCHANGED <<a1, a2, a4, a5, a11>>
        /\ a6' = [a6 EXCEPT ![s] = "scan"]
        /\ \E n \in {"watch", "accept"} : a7' = [a7 EXCEPT ![s] = n]
    BY <1>8 DEF Drift!Load
  <2>2. a9' \in [Scans -> [Findings -> Nat]] /\ \A r \in Scans : a9'[r] = (IF r = s THEN a4 ELSE a9[r])
    BY <1>1, <2>1
  <2>3. \A k \in Findings, r \in Scans : a9'[r][k] <= a5'[k]
    BY <1>2, <2>1, <2>2
  <2>4. a6' \in [Scans -> {"idle", "scan", "baseline", "state"}] /\ a7' \in [Scans -> {"watch", "accept"}]
    BY <1>1, <2>1
  <2>5. QED
    BY <1>1, <1>2, <1>3, <2>1, <2>2, <2>3, <2>4
<1>9. ASSUME NEW s \in Scans, Drift!Scan(s) PROVE Drift!DriftInv'
  <2>1. a6' = [a6 EXCEPT ![s] = "baseline"] /\ UNCHANGED <<a1, a2, a4, a7>>
    BY <1>9 DEF Drift!Scan, Drift!Scanned
  <2>2. a6' \in [Scans -> {"idle", "scan", "baseline", "state"}]
    BY <1>1, <2>1
  <2>3. CASE UNCHANGED <<a9, a5, a11>>
    BY <1>1, <1>2, <1>3, <2>1, <2>2, <2>3
  <2>4. ASSUME a9' = [a9 EXCEPT ![s] = Drift!Noted(@, Drift!Told(s))],
               a5' = Drift!Noted(a5, Drift!Told(s)),
               a11' = a11 \cup {c \in Drift!Found(s) :
                                  a5'[FindingOf[c]] = 0 \/ a1 - a5'[FindingOf[c]] >= Period}
        PROVE  Drift!DriftInv'
    <3>1. PICK T : T = Drift!Told(s)
      OBVIOUS
    <3>2. /\ a9' = [a9 EXCEPT ![s] = [k \in Findings |-> IF k \in T THEN a1 ELSE a9[s][k]]]
          /\ a5' = [k \in Findings |-> IF k \in T THEN a1 ELSE a5[k]]
      BY <1>1, <2>4, <3>1 DEF Drift!Noted
    <3>3. a5' \in [Findings -> Nat] /\ \A k \in Findings : a5'[k] = (IF k \in T THEN a1 ELSE a5[k])
      BY <1>1, <3>2
    <3>4. PICK n \in [Findings -> Nat] : /\ a9' = [a9 EXCEPT ![s] = n]
                                         /\ \A k \in Findings : n[k] = (IF k \in T THEN a1 ELSE a9[s][k])
      <4> DEFINE q == [k \in Findings |-> IF k \in T THEN a1 ELSE a9[s][k]]
      <4>1. q \in [Findings -> Nat] /\ \A k \in Findings : q[k] = (IF k \in T THEN a1 ELSE a9[s][k])
        BY <1>1
      <4>2. a9' = [a9 EXCEPT ![s] = q]
        BY <3>2
      <4> HIDE DEF q
      <4>3. QED
        BY <4>1, <4>2
    <3>5. a9' \in [Scans -> [Findings -> Nat]] /\ \A r \in Scans : a9'[r] = (IF r = s THEN n ELSE a9[r])
      BY <1>1, <3>4
    <3>6. \A k \in Findings : a5[k] <= a5'[k] /\ a5'[k] <= a1 /\ a4[k] <= a5'[k]
      BY <1>1, <1>2, <3>3
    <3>7. \A k \in Findings : n[k] <= a5'[k]
      BY <1>1, <1>2, <3>3, <3>4
    <3>8. \A k \in Findings, r \in Scans : a9'[r][k] <= a5'[k]
      <4> SUFFICES ASSUME NEW k \in Findings, NEW r \in Scans PROVE a9'[r][k] <= a5'[k]
        OBVIOUS
      <4>1. CASE r = s
        BY <3>5, <3>7, <4>1
      <4>2. CASE r # s
        <5>1. a9'[r] = a9[r] /\ a9[r][k] \in Nat /\ a5[k] \in Nat /\ a5'[k] \in Nat
          BY <1>1, <3>3, <3>5, <4>2
        <5>2. QED
          BY <1>2, <3>6, <5>1
      <4>3. QED
        BY <4>1, <4>2
    <3>9. ASSUME NEW c \in Drift!Found(s) PROVE a5'[FindingOf[c]] # 0 /\ ~ (a1 - a5'[FindingOf[c]] >= Period)
      <4>1. c \in Changes
        BY <1>1, <3>9 DEF Drift!Found
      <4>2. PICK k \in Findings : k = FindingOf[c]
        BY <4>1, DriftAssumption
      <4>3. k \in T \/ Drift!Throttled(s, k)
        BY <3>1, <3>9, <4>2 DEF Drift!Told
      <4>4. CASE k \in T
        <5>1. a5'[k] = a1
          BY <3>3, <4>4
        <5>2. QED
          BY <1>1, <4>2, <5>1, DriftAssumption
      <4>5. CASE Drift!Throttled(s, k)
        <5>1. a9[s][k] # 0 /\ a1 - a9[s][k] < Period
          BY <4>5 DEF Drift!Throttled
        <5>2. a9[s][k] \in Nat /\ a5[k] \in Nat /\ a5'[k] \in Nat
          BY <1>1, <3>3
        <5>3. a9[s][k] <= a5[k] /\ a5[k] <= a5'[k]
          BY <1>2, <3>6
        <5>4. QED
          BY <1>1, <4>2, <5>1, <5>2, <5>3, DriftAssumption
      <4>6. QED
        BY <4>3, <4>4, <4>5
    <3>10. a11' = {}
      BY <1>2, <2>4, <3>9
    <3>11. QED
      BY <1>1, <1>3, <2>1, <2>2, <3>3, <3>5, <3>6, <3>8, <3>10
  <2>5. QED
    BY <1>9, <2>3, <2>4 DEF Drift!Scan
<1>10. ASSUME NEW s \in Scans, Drift!SaveBaseline(s) PROVE Drift!DriftInv'
  <2>1. a6' = [a6 EXCEPT ![s] = "state"] /\ UNCHANGED <<a1, a2, a4, a5, a7, a9, a11>>
    BY <1>10 DEF Drift!SaveBaseline
  <2>2. QED
    BY <1>1, <1>2, <1>3, <2>1
<1>11. ASSUME NEW s \in Scans, Drift!SaveState(s) \/ Drift!Stop(s) PROVE Drift!DriftInv'
  <2>1. /\ a6' = [a6 EXCEPT ![s] = "idle"] /\ a7' = [a7 EXCEPT ![s] = "watch"]
        /\ a9' = [a9 EXCEPT ![s] = Drift!Never] /\ UNCHANGED <<a1, a2, a5, a11>>
        /\ a4' = a4 \/ a4' = a9[s]
    BY <1>11 DEF Drift!SaveState, Drift!Stop, Drift!Leave
  <2>2. a4' \in [Findings -> Nat] /\ \A k \in Findings : a4'[k] <= a5[k]
    BY <1>1, <1>2, <2>1
  <2>3. a9' \in [Scans -> [Findings -> Nat]] /\ \A r \in Scans : a9'[r] = (IF r = s THEN Drift!Never ELSE a9[r])
    BY <1>1, <1>5, <2>1
  <2>4. \A k \in Findings, r \in Scans : a9'[r][k] <= a5'[k]
    <3> SUFFICES ASSUME NEW k \in Findings, NEW r \in Scans PROVE a9'[r][k] <= a5[k]
      BY <2>1
    <3>1. a5[k] \in Nat /\ a9[r][k] <= a5[k] /\ (a9'[r][k] = 0 \/ a9'[r][k] = a9[r][k])
      BY <1>1, <1>2, <1>4, <2>3
    <3>2. QED
      BY <3>1
  <2>5. a6' \in [Scans -> {"idle", "scan", "baseline", "state"}] /\ a7' \in [Scans -> {"watch", "accept"}]
    BY <1>1, <2>1
  <2>6. QED
    BY <1>1, <1>2, <1>3, <2>1, <2>2, <2>3, <2>4, <2>5
<1>12. QED
  BY <1>6, <1>7, <1>8, <1>9, <1>10, <1>11 DEF Drift!Next

\* A set of numbers has a least one.
LEMMA LeastOf == ASSUME NEW N \in SUBSET Nat, N # {} PROVE \E n \in N : \A m \in N : n <= m
<1> DEFINE Less == {p \in Nat \X Nat : p[1] < p[2]}
<1>1. IsWellFoundedOn(Less, Nat)
  BY NatLessThanWellFounded, Zenon DEF OpToRel
<1>2. PICK n \in N : \A m \in N : ~ (<<m, n>> \in Less)
  <2> HIDE DEF Less
  <2>1. QED
    BY <1>1, WFMin
<1>3. \A m \in N : n <= m
  <2> SUFFICES ASSUME NEW m \in N PROVE n <= m
    OBVIOUS
  <2>1. m \in Nat /\ n \in Nat /\ ~ (<<m, n>> \in Less)
    BY <1>2
  <2>2. ~ (m < n)
    BY <2>1
  <2>3. QED
    BY <2>1, <2>2
<1>4. QED
  BY <1>3

(* ProxySwitch: a1 is kind, a3 active, a4 served, a6 unsure, a7 switcher,      *)
(* a8 goal, a9 at and a11 backoff.                                          *)

LEMMA ProxyInit == Proxy!Init => Proxy!SwitchInv
<1> SUFFICES ASSUME Proxy!Init PROVE Proxy!SwitchInv
  OBVIOUS
<1>1. /\ a1 \in [Nodes -> {"naive", "brook", "free"}] /\ a3 = 1 /\ a4 = 1 /\ a6 = FALSE /\ a7 = Nobody
      /\ a8 = [a \in Proxy!Actors |-> 0] /\ a9 = [a \in Proxy!Actors |-> "wait"] /\ a11 = FALSE
  BY DEF Proxy!Init
<1>2. Nobody \notin Proxy!Actors
  BY ProxyAssumption DEF Proxy!Actors
<1>3. Proxy!SwitchTypeOK
  BY <1>1 DEF Proxy!SwitchTypeOK, Proxy!Places
<1>4. Proxy!Locked /\ Proxy!MarkIsServed /\ Proxy!FlagFollows
  BY <1>1, <1>2 DEF Proxy!Locked, Proxy!MarkIsServed, Proxy!FlagFollows
<1>5. QED
  BY <1>1, <1>3, <1>4 DEF Proxy!SwitchInv

LEMMA ProxyStep == ASSUME Proxy!SwitchInv, Proxy!Next PROVE Proxy!SwitchInv'
<1> DEFINE A == Proxy!Actors
<1>1. /\ a9 \in [A -> Proxy!Places] /\ a8 \in [A -> Nodes \cup {0}]
      /\ a1 \in [Nodes -> {"naive", "brook", "free", "gone"}]
      /\ a7 \in A \cup {Nobody} /\ a6 \in BOOLEAN /\ a11 \in BOOLEAN
  BY DEF Proxy!SwitchInv, Proxy!SwitchTypeOK
<1>2. /\ \A a \in A : a9[a] \in {"helper", "mark"} <=> a7 = a
      /\ \A a \in A : a9[a] = "mark" => a4 = a8[a]
      /\ ~ a6 /\ (\A a \in A : a9[a] # "mark") => a3 \in {a4, 0}
      /\ a11 => a9[Worker] = "wait"
  BY DEF Proxy!SwitchInv, Proxy!Locked, Proxy!MarkIsServed, Proxy!FlagFollows
<1>3. Worker \in A /\ Nobody \notin A /\ Worker \notin Switchers /\ Switchers \subseteq A
  BY ProxyAssumption DEF Proxy!Actors
<1>4. ASSUME a9' \in [A -> Proxy!Places], a8' \in [A -> Nodes \cup {0}],
             a1' \in [Nodes -> {"naive", "brook", "free", "gone"}],
             a7' \in A \cup {Nobody}, a6' \in BOOLEAN, a11' \in BOOLEAN,
             \A a \in A : a9'[a] \in {"helper", "mark"} <=> a7' = a,
             \A a \in A : a9'[a] = "mark" => a4' = a8'[a],
             ~ a6' /\ (\A a \in A : a9'[a] # "mark") => a3' \in {a4', 0},
             a11' => a9'[Worker] = "wait"
      PROVE  Proxy!SwitchInv'
  <2>1. Proxy!SwitchTypeOK'
    BY <1>4 DEF Proxy!SwitchTypeOK, Proxy!Actors, Proxy!Places
  <2>2. Proxy!Locked' /\ Proxy!MarkIsServed' /\ Proxy!FlagFollows'
    BY <1>4 DEF Proxy!Locked, Proxy!MarkIsServed, Proxy!FlagFollows, Proxy!Actors
  <2>3. QED
    BY <1>4, <2>1, <2>2 DEF Proxy!SwitchInv
<1> HIDE DEF A
\* The table is edited.
<1>5. ASSUME NEW n \in Nodes, NEW k \in {"naive", "brook"},
             Proxy!Add(n, k) \/ Proxy!Update(n, k) \/ Proxy!Delete(n)
      PROVE  Proxy!SwitchInv'
  <2>1. /\ \E p \in {"naive", "brook", "gone"} : a1' = [a1 EXCEPT ![n] = p]
        /\ UNCHANGED <<a4, a6, a7, a8, a9, a11>> /\ a3' \in {a3, 0}
    BY <1>5 DEF Proxy!Add, Proxy!Update, Proxy!Delete, Proxy!Edit, Proxy!switchVars, Proxy!workerVars
  <2>2. a1' \in [Nodes -> {"naive", "brook", "free", "gone"}]
    BY <1>1, <2>1
  <2>3. QED
    BY <1>1, <1>2, <1>4, <2>1, <2>2
\* An actor moves, and nobody calls the helper before or after.
<1>6. ASSUME NEW a \in A, NEW p \in {"wait", "ask", "probe", "choose", "chosen"},
             a9[a] \notin {"helper", "mark"}, a9' = [a9 EXCEPT ![a] = p], UNCHANGED <<a1, a3, a4, a6, a7>>,
             a8' \in [A -> Nodes \cup {0}], \A b \in A : b # a => a8'[b] = a8[b],
             a11' \in BOOLEAN, a11' => a9'[Worker] = "wait"
      PROVE  Proxy!SwitchInv'
  <2>1. a9' \in [A -> Proxy!Places]
    BY <1>1, <1>6 DEF Proxy!Places
  <2>2. \A b \in A : a9'[b] = (IF b = a THEN p ELSE a9[b])
    BY <1>1, <1>6
  <2>3. \A b \in A : a9'[b] \in {"helper", "mark"} <=> a7' = b
    BY <1>2, <1>6, <2>2
  <2>4. \A b \in A : a9'[b] = "mark" => a4' = a8'[b]
    BY <1>2, <1>6, <2>2
  <2>5. ~ a6' /\ (\A b \in A : a9'[b] # "mark") => a3' \in {a4', 0}
    BY <1>2, <1>6, <2>2
  <2>6. QED
    BY <1>1, <1>4, <1>6, <2>1, <2>3, <2>4, <2>5
<1>7. ASSUME NEW c \in Switchers, NEW n \in Nodes, Proxy!Ask(c, n) PROVE Proxy!SwitchInv'
  <2>1. /\ c \in A /\ a9[c] = "wait" /\ a9' = [a9 EXCEPT ![c] = "ask"] /\ a8' = [a8 EXCEPT ![c] = n]
        /\ UNCHANGED <<a1, a3, a4, a6, a7, a11>>
    BY <1>3, <1>7 DEF Proxy!Ask, Proxy!switchVars, Proxy!workerVars, Proxy!tableVars
  <2>2. a8' \in [A -> Nodes \cup {0}] /\ \A b \in A : b # c => a8'[b] = a8[b]
    BY <1>1, <2>1
  <2>3. a11' => a9'[Worker] = "wait"
    BY <1>1, <1>2, <1>3, <2>1
  <2>4. QED
    BY <1>1, <1>6, <2>1, <2>2, <2>3
<1>8. ASSUME NEW a \in A, Proxy!Enter(a) PROVE Proxy!SwitchInv'
  <2>1. /\ a9[a] = "ask" /\ a7 = Nobody /\ a7' = a /\ a9' = [a9 EXCEPT ![a] = "helper"]
        /\ UNCHANGED <<a1, a3, a4, a6, a8, a11>>
    BY <1>8 DEF Proxy!Enter, Proxy!tableVars, Proxy!workerVars
  <2>2. a9' \in [A -> Proxy!Places] /\ \A b \in A : a9'[b] = (IF b = a THEN "helper" ELSE a9[b])
    BY <1>1, <2>1 DEF Proxy!Places
  <2>3. \A b \in A : a9'[b] \in {"helper", "mark"} <=> a7' = b
    BY <1>2, <1>3, <2>1, <2>2
  <2>4. \A b \in A : a9'[b] = "mark" => a4' = a8'[b]
    BY <1>2, <2>1, <2>2
  <2>5. ~ a6' /\ (\A b \in A : a9'[b] # "mark") => a3' \in {a4', 0}
    BY <1>2, <1>3, <2>1
  <2>6. a11' => a9'[Worker] = "wait"
    BY <1>2, <1>3, <2>1, <2>2
  <2>7. QED
    BY <1>1, <1>4, <2>1, <2>2, <2>3, <2>4, <2>5, <2>6
<1>9. ASSUME NEW a \in A, Proxy!Helped(a) PROVE Proxy!SwitchInv'
  <2>1. /\ a9[a] = "helper" /\ a4' = a8[a] /\ a6' = FALSE /\ a9' = [a9 EXCEPT ![a] = "mark"]
        /\ UNCHANGED <<a1, a3, a7, a8, a11>>
    BY <1>9 DEF Proxy!Helped, Proxy!tableVars, Proxy!workerVars
  <2>2. a9' \in [A -> Proxy!Places] /\ \A b \in A : a9'[b] = (IF b = a THEN "mark" ELSE a9[b])
    BY <1>1, <2>1 DEF Proxy!Places
  <2>3. \A b \in A : a9'[b] \in {"helper", "mark"} <=> a7' = b
    BY <1>2, <2>1, <2>2
  <2>4. \A b \in A : a9'[b] = "mark" => a4' = a8'[b]
    BY <1>2, <2>1, <2>2
  <2>5. a9'[a] = "mark" /\ (a11' => a9'[Worker] = "wait")
    BY <1>2, <1>3, <2>1, <2>2
  <2>6. QED
    BY <1>1, <1>4, <2>1, <2>2, <2>3, <2>4, <2>5
\* The lock is given back.
<1>10. ASSUME NEW a \in A, a9[a] \in {"helper", "mark"}, Proxy!Back(a), UNCHANGED <<a1, a8>>,
              a6' \in BOOLEAN, a11' \in BOOLEAN, a11' => a11, ~ a6' => a3' \in {a4', 0}
       PROVE  Proxy!SwitchInv'
  <2>1. a7' = Nobody /\ a9' = [a9 EXCEPT ![a] = "wait"]
    BY <1>10 DEF Proxy!Back
  <2>2. a9' \in [A -> Proxy!Places] /\ \A b \in A : a9'[b] = (IF b = a THEN "wait" ELSE a9[b])
    BY <1>1, <2>1 DEF Proxy!Places
  <2>3. \A b \in A : a9'[b] \notin {"helper", "mark"}
    BY <1>2, <1>10, <2>2
  <2>4. a11' => a9'[Worker] = "wait"
    BY <1>2, <1>3, <1>10, <2>2
  <2>5. QED
    BY <1>1, <1>3, <1>4, <1>10, <2>1, <2>2, <2>3, <2>4
<1>11. ASSUME NEW a \in A, Proxy!Refused(a) \/ Proxy!Lost(a) PROVE Proxy!SwitchInv'
  <2>1. /\ a9[a] = "helper" /\ Proxy!Back(a) /\ UNCHANGED <<a1, a3, a8, a11>>
        /\ (a6' = a6 /\ a4' = a4) \/ a6' = TRUE
    BY <1>11 DEF Proxy!Refused, Proxy!Lost, Proxy!tableVars
  <2>2. \A b \in A : a9[b] # "mark"
    BY <1>2, <2>1
  <2>3. ~ a6' => a3' \in {a4', 0}
    BY <1>2, <2>1, <2>2
  <2>4. a6' \in BOOLEAN
    BY <1>1, <2>1
  <2>5. QED
    BY <1>1, <1>10, <2>1, <2>3, <2>4
<1>12. ASSUME NEW a \in A, Proxy!Mark(a) PROVE Proxy!SwitchInv'
  <2>1. /\ a9[a] = "mark" /\ Proxy!Back(a) /\ UNCHANGED <<a1, a4, a6, a8>> /\ a11' = FALSE
        /\ a3' \in {a8[a], 0}
    BY <1>12 DEF Proxy!Mark
  <2>2. a3' \in {a4', 0}
    BY <1>2, <2>1
  <2>3. QED
    BY <1>1, <1>10, <2>1, <2>2
\* The worker.
<1>13. CASE Proxy!BackoffOver
  <2>1. a11' = FALSE /\ UNCHANGED <<a1, a3, a4, a6, a7, a8, a9>>
    BY <1>13 DEF Proxy!BackoffOver, Proxy!tableVars, Proxy!switchVars
  <2>2. QED
    BY <1>1, <1>2, <1>4, <2>1
<1>14. CASE Proxy!Wake \/ Proxy!ProbeWorks \/ Proxy!ProbeFails \/ Proxy!Choose \/ Proxy!Exhausted \/ Proxy!Switch
  <2>1. UNCHANGED <<a1, a3, a4, a6, a7>>
    BY <1>14 DEF Proxy!Wake, Proxy!ProbeWorks, Proxy!ProbeFails, Proxy!Choose, Proxy!Exhausted, Proxy!Switch,
                 Proxy!tableVars, Proxy!switchVars
  <2>2. PICK p \in {"wait", "ask", "probe", "choose", "chosen"} :
          a9' = [a9 EXCEPT ![Worker] = p] /\ (a11' = a11 \/ (a11' = TRUE /\ p = "wait"))
    BY <1>14 DEF Proxy!Wake, Proxy!ProbeWorks, Proxy!ProbeFails, Proxy!Choose, Proxy!Exhausted, Proxy!Switch,
                 Proxy!To, Proxy!workerVars
  <2>3. a9[Worker] \notin {"helper", "mark"} /\ (a11 => Proxy!ProbeWorks \/ Proxy!Wake \/ a9[Worker] # "wait")
    BY <1>14 DEF Proxy!Wake, Proxy!ProbeWorks, Proxy!ProbeFails, Proxy!Choose, Proxy!Exhausted, Proxy!Switch
  <2>4. ~ a11
    BY <1>2, <2>3 DEF Proxy!Wake, Proxy!ProbeWorks
  <2>5. a11' \in BOOLEAN /\ (a11' => a9'[Worker] = "wait")
    <3>1. a9'[Worker] = p
      BY <1>1, <1>3, <2>2
    <3>2. a11' = FALSE \/ (a11' = TRUE /\ p = "wait")
      BY <1>1, <2>2, <2>4, Zenon
    <3>3. QED
      BY <3>1, <3>2
  <2>6. a8' \in [A -> Nodes \cup {0}] /\ \A b \in A : b # Worker => a8'[b] = a8[b]
    <3>1. CASE a8' = a8
      BY <1>1, <3>1
    <3>2. CASE Proxy!Choose
      <4>1. a8' = [a8 EXCEPT ![Worker] = Proxy!First(Proxy!Candidates)] /\ Proxy!Candidates # {}
        BY <3>2 DEF Proxy!Choose
      <4>2. Proxy!First(Proxy!Candidates) \in Proxy!Candidates /\ Proxy!Candidates \subseteq Nodes
        <5>1. Proxy!Candidates \subseteq Nodes
          BY DEF Proxy!Candidates
        <5>2. \E n \in Proxy!Candidates : \A m \in Proxy!Candidates : n <= m
          BY <4>1, <5>1, LeastOf, ProxyAssumption
        <5>3. QED
          BY <5>1, <5>2 DEF Proxy!First
      <4>3. QED
        BY <1>1, <1>3, <4>1, <4>2
    <3>3. QED
      BY <1>14, <3>1, <3>2 DEF Proxy!Wake, Proxy!ProbeWorks, Proxy!ProbeFails, Proxy!Exhausted, Proxy!Switch
  <2>7. QED
    BY <1>3, <1>6, <2>1, <2>2, <2>3, <2>5, <2>6
<1>15. QED
  <2>1. ASSUME NEW n \in Nodes, NEW k \in {"naive", "brook"}, Proxy!Delete(n) PROVE Proxy!SwitchInv'
    BY <1>5, <2>1
  <2>2. "naive" \in {"naive", "brook"}
    OBVIOUS
  <2>3. \A n \in Nodes : Proxy!Delete(n) => Proxy!SwitchInv'
    BY <2>1, <2>2
  <2>4. QED
    BY <1>5, <1>7, <1>8, <1>9, <1>11, <1>12, <1>13, <1>14, <2>3 DEF Proxy!Next, A

(* RssDigest: a1 is day, a2 pubday, a3 pushed, a6 digest, a7 made, a8 at,      *)
(* a10 known, a11 today and a13 overlap.                                    *)

LEMMA DigestInit == Digest!Init => Digest!OnceInv
<1> SUFFICES ASSUME Digest!Init PROVE Digest!OnceInv
  OBVIOUS
<1>1. /\ a1 = 1 /\ a2 = [a \in Articles |-> 0] /\ a7 = 0 /\ a13 = {}
      /\ a6 = [d \in 1 .. MaxDigests |-> {}] /\ a8 = [c \in Callers |-> "idle"]
      /\ a10 = [c \in Callers |-> {}] /\ a11 = [c \in Callers |-> 1]
      /\ a3 = [day |-> 1, ids |-> {}]
  BY DEF Digest!Init
<1>2. 1 .. a7 = {}
  BY <1>1
<1>3. Digest!DigestTypeOK
  BY <1>1, DigestAssumption DEF Digest!DigestTypeOK
<1>4. Digest!Told = {} /\ Digest!Computing = {}
  BY <1>1, <1>2 DEF Digest!Told, Digest!Computing
<1>5. Digest!ToldIsKnown /\ Digest!ArticleOnce
  BY <1>2, <1>4 DEF Digest!ToldIsKnown, Digest!Today, Digest!ArticleOnce
<1>6. QED
  BY <1>3, <1>5 DEF Digest!OnceInv

LEMMA DigestStep == ASSUME Digest!OnceInv, Digest!Next PROVE Digest!OnceInv'
<1> DEFINE Places == {"idle", "choose", "cache", "tell"}
           Of(d) == d \in 1 .. a7 /\ d \notin a13
           Of1(d) == d \in 1 .. a7' /\ d \notin a13'
<1>1. /\ a1 \in {1, 2} /\ a7 \in 0 .. MaxDigests /\ a13 \subseteq 1 .. a7
      /\ a2 \in [Articles -> 0 .. a1] /\ a11 \in [Callers -> 1 .. a1]
      /\ a6 \in [1 .. MaxDigests -> SUBSET Articles]
      /\ a10 \in [Callers -> SUBSET Articles] /\ a8 \in [Callers -> Places]
      /\ a3 \in [day : {1, 2}, ids : SUBSET Articles]
  BY DEF Digest!OnceInv, Digest!DigestTypeOK
\* The invariant, without its names.
<1>2. /\ \A d \in 1 .. a7 : \A a \in a6[d] : a2[a] # 0
      /\ \A d : Of(d) => \A a \in a6[d] : a2[a] = a1 => a3.day = a1 /\ a \in a3.ids
      /\ \A d : Of(d) => \A a \in a6[d] : \A c \in Callers :
           a8[c] = "choose" /\ a2[a] = a1 => a11[c] = a1 /\ a \in a10[c]
      /\ \A d, e : Of(d) /\ Of(e) /\ d < e => a6[d] \cap a6[e] = {}
  <2>1. Digest!ToldIsKnown /\ Digest!ArticleOnce
    BY DEF Digest!OnceInv
  <2>2. \A d : Of(d) => \A a \in a6[d] : a2[a] = a1 => a \in Digest!Today
    BY DEF Digest!Today, Digest!Told
  <2>3. \A d, e : Of(d) /\ Of(e) => {d, e} \cap a13 = {}
    OBVIOUS
  <2>4. \A d, e : Of(d) /\ Of(e) /\ d < e => a6[d] \cap a6[e] = {}
    BY <2>1, <2>3 DEF Digest!ArticleOnce
  <2> HIDE DEF Of
  <2>5. \A d \in 1 .. a7 : \A a \in a6[d] : a2[a] # 0
    BY <2>1 DEF Digest!ToldIsKnown
  <2>6. \A d : Of(d) => \A a \in a6[d] : a2[a] = a1 => a3.day = a1 /\ a \in a3.ids
    BY <2>1, <2>2 DEF Digest!ToldIsKnown
  <2>7. \A d : Of(d) => \A a \in a6[d] : \A c \in Callers :
           a8[c] = "choose" /\ a2[a] = a1 => a11[c] = a1 /\ a \in a10[c]
    BY <2>1, <2>2 DEF Digest!ToldIsKnown, Digest!Computing
  <2>8. QED
    BY <2>4, <2>5, <2>6, <2>7
<1>3. ASSUME a1' \in {1, 2}, a7' \in 0 .. MaxDigests, a13' \subseteq 1 .. a7',
             a2' \in [Articles -> 0 .. a1'], a11' \in [Callers -> 1 .. a1'],
             a6' \in [1 .. MaxDigests -> SUBSET Articles],
             a10' \in [Callers -> SUBSET Articles], a8' \in [Callers -> Places],
             a3' \in [day : {1, 2}, ids : SUBSET Articles],
             \A d \in 1 .. a7' : \A a \in a6'[d] : a2'[a] # 0,
             \A d : Of1(d) => \A a \in a6'[d] : a2'[a] = a1' => a3'.day = a1' /\ a \in a3'.ids,
             \A d : Of1(d) => \A a \in a6'[d] : \A c \in Callers :
               a8'[c] = "choose" /\ a2'[a] = a1' => a11'[c] = a1' /\ a \in a10'[c],
             \A d, e : Of1(d) /\ Of1(e) /\ d < e => a6'[d] \cap a6'[e] = {}
      PROVE  Digest!OnceInv'
  <2>1. Digest!DigestTypeOK'
    BY <1>3 DEF Digest!DigestTypeOK
  <2>2. \A a : a \in Digest!Today' => a2'[a] = a1' /\ \E d : Of1(d) /\ a \in a6'[d]
    BY DEF Digest!Today, Digest!Told
  <2>3. Digest!ArticleOnce'
    <3>1. \A d \in 1 .. a7', e \in 1 .. a7' : {d, e} \cap a13' = {} => Of1(d) /\ Of1(e)
      OBVIOUS
    <3> HIDE DEF Of1
    <3>2. QED
      BY <1>3, <3>1 DEF Digest!ArticleOnce
  <2> HIDE DEF Of1
  <2>4. Digest!Today' # {} => a3'.day = a1' /\ Digest!Today' \subseteq a3'.ids
    BY <1>3, <2>2
  <2>5. \A c \in Callers : a8'[c] = "choose" /\ Digest!Today' # {} =>
          a11'[c] = a1' /\ Digest!Today' \subseteq a10'[c]
    BY <1>3, <2>2
  <2>6. Digest!ToldIsKnown'
    BY <1>3, <2>4, <2>5 DEF Digest!ToldIsKnown, Digest!Computing
  <2>7. QED
    BY <2>1, <2>3, <2>6 DEF Digest!OnceInv
<1>4. CASE Digest!Midnight
  <2>1. a1 = 1 /\ a1' = 2 /\ UNCHANGED <<a2, a3, a6, a7, a8, a10, a11, a13>>
    BY <1>4 DEF Digest!Midnight, Digest!fileVars, Digest!callVars
  <2>2. a2' \in [Articles -> 0 .. a1'] /\ a11' \in [Callers -> 1 .. a1'] /\ \A a \in Articles : a2[a] # a1'
    BY <1>1, <2>1
  <2>3. \A d : Of1(d) => Of(d) /\ \A a \in a6'[d] : a2'[a] # a1'
    <3>1. \A d : Of1(d) => Of(d) /\ d \in 1 .. MaxDigests
      BY <1>1, <2>1, DigestAssumption
    <3> HIDE DEF Of, Of1
    <3>2. \A d \in 1 .. MaxDigests : a6'[d] \subseteq Articles
      BY <1>1, <2>1
    <3>3. QED
      BY <2>1, <2>2, <3>1, <3>2
  <2>4. \A d : Of1(d) => Of(d)
    BY <2>3
  <2> HIDE DEF Of, Of1
  <2>5. QED
    BY <1>1, <1>2, <1>3, <2>1, <2>2, <2>3, <2>4
<1>5. ASSUME NEW x \in Articles, Digest!Fetched(x) PROVE Digest!OnceInv'
  <2>1. a2[x] = 0 /\ a2' = [a2 EXCEPT ![x] = a1] /\ UNCHANGED <<a1, a3, a6, a7, a8, a10, a11, a13>>
    BY <1>5 DEF Digest!Fetched, Digest!fileVars, Digest!callVars
  <2>2. a2' \in [Articles -> 0 .. a1']
    BY <1>1, <2>1
  <2>3. \A d \in 1 .. a7' : d \in 1 .. a7 /\ \A a \in a6'[d] : a \in a6[d] /\ a # x /\ a2'[a] = a2[a]
    BY <1>1, <1>2, <2>1
  <2>4. \A d : Of1(d) => Of(d) /\ d \in 1 .. a7'
    BY <2>1
  <2> HIDE DEF Of, Of1
  <2>5. \A d : Of1(d) => Of(d) /\ \A a \in a6'[d] : a2'[a] = a2[a]
    BY <2>3, <2>4
  <2>6. \A d \in 1 .. a7' : \A a \in a6'[d] : a2'[a] # 0
    BY <1>2, <2>3
  <2>7. QED
    BY <1>1, <1>2, <1>3, <2>1, <2>2, <2>5, <2>6
\* Nothing is chosen or told.
<1>6. ASSUME UNCHANGED <<a1, a2, a3, a6, a7, a13>>, a11' \in [Callers -> 1 .. a1],
             a10' \in [Callers -> SUBSET Articles], a8' \in [Callers -> Places],
             \A c \in Callers : a8'[c] = "choose" =>
               \/ a8[c] = "choose" /\ a11'[c] = a11[c] /\ a10'[c] = a10[c]
               \/ a11'[c] = a1 /\ a10'[c] = IF a3.day = a1 THEN a3.ids ELSE {}
      PROVE  Digest!OnceInv'
  <2>1. \A d : Of1(d) => Of(d)
    BY <1>6
  <2> HIDE DEF Of, Of1
  <2>2. \A d : Of(d) => \A a \in a6[d] : \A c \in Callers :
          a8'[c] = "choose" /\ a2[a] = a1 => a11'[c] = a1 /\ a \in a10'[c]
    BY <1>2, <1>6
  <2>3. QED
    BY <1>1, <1>2, <1>3, <1>6, <2>1, <2>2
<1>7. ASSUME NEW c \in Callers, Digest!Cached(c) \/ Digest!Nothing(c) \/ Digest!Cache(c) \/ Digest!Tell(c)
      PROVE  Digest!OnceInv'
  <2>1. UNCHANGED <<a1, a2, a3, a6, a7, a11, a13>>
    BY <1>7 DEF Digest!Cached, Digest!Nothing, Digest!Cache, Digest!Tell, Digest!fileVars,
                Digest!callVars
  <2>2. a10' = a10 \/ a10' = [a10 EXCEPT ![c] = {}]
    BY <1>7 DEF Digest!Cached, Digest!Nothing, Digest!Cache, Digest!Tell, Digest!callVars
  <2>3. (a8' = a8 /\ a10' = a10) \/ \E p \in {"idle", "cache", "tell"} : a8' = [a8 EXCEPT ![c] = p]
    BY <1>7 DEF Digest!Cached, Digest!Nothing, Digest!Cache, Digest!Tell, Digest!callVars, Digest!To
  <2>4. a10' \in [Callers -> SUBSET Articles] /\ a8' \in [Callers -> Places]
    BY <1>1, <2>2, <2>3
  <2>5. \A b \in Callers : a8'[b] = "choose" => a8[b] = "choose" /\ a10'[b] = a10[b]
    BY <1>1, <2>2, <2>3
  <2>6. QED
    BY <1>1, <1>6, <2>1, <2>4, <2>5
<1>8. ASSUME NEW c \in Callers, Digest!Read(c) PROVE Digest!OnceInv'
  <2>1. PICK ids \in SUBSET Articles :
          /\ ids = IF a3.day = a1 THEN a3.ids ELSE {}
          /\ a10' = [a10 EXCEPT ![c] = ids]
    BY <1>1, <1>8 DEF Digest!Read
  <2>2. /\ a8' = [a8 EXCEPT ![c] = "choose"] /\ a11' = [a11 EXCEPT ![c] = a1]
        /\ UNCHANGED <<a1, a2, a3, a6, a7, a13>>
    BY <1>8 DEF Digest!Read, Digest!To, Digest!fileVars
  <2>3. /\ a10' \in [Callers -> SUBSET Articles] /\ a8' \in [Callers -> Places]
        /\ a11' \in [Callers -> 1 .. a1]
    BY <1>1, <2>1, <2>2
  <2>4. \A b \in Callers : IF b = c THEN a10'[b] = ids /\ a11'[b] = a1
                           ELSE a10'[b] = a10[b] /\ a11'[b] = a11[b] /\ a8'[b] = a8[b]
    BY <1>1, <2>1, <2>2
  <2>5. QED
    BY <1>6, <2>1, <2>2, <2>3, <2>4
<1>9. ASSUME NEW c \in Callers, Digest!Choose(c) PROVE Digest!OnceInv'
  <2>1. PICK A \in SUBSET Digest!Choices(c) :
          /\ a6' = [a6 EXCEPT ![a7 + 1] = A] /\ a3' = [day |-> a11[c], ids |-> a10[c] \cup A]
    BY <1>9 DEF Digest!Choose
  <2>2. /\ a8[c] = "choose" /\ a7 < MaxDigests /\ a7' = a7 + 1 /\ a8' = [a8 EXCEPT ![c] = "cache"]
        /\ a13' = (IF Digest!Computing # {c} \/ a11[c] # a1 THEN a13 \cup {a7 + 1} ELSE a13)
        /\ UNCHANGED <<a1, a2, a10, a11>>
    BY <1>9 DEF Digest!Choose, Digest!To
  <2>3. A \subseteq Articles /\ \A a \in A : a2[a] = a11[c] /\ a \notin a10[c]
    BY DEF Digest!Choices
  <2>4. /\ a7 \in Nat /\ a7' \in 0 .. MaxDigests /\ a7 + 1 \in 1 .. MaxDigests /\ 1 .. a7' = (1 .. a7) \cup {a7 + 1}
        /\ a7 + 1 \notin 1 .. a7 /\ a13' \subseteq 1 .. a7'
    BY <1>1, <2>2, DigestAssumption
  <2>5. /\ a6' \in [1 .. MaxDigests -> SUBSET Articles] /\ a8' \in [Callers -> Places]
        /\ a3' \in [day : {1, 2}, ids : SUBSET Articles]
    <3>1. a11[c] \in {1, 2}
      BY <1>1
    <3>2. a6' \in [1 .. MaxDigests -> SUBSET Articles]
      BY <1>1, <2>1, <2>3
    <3>3. QED
      BY <1>1, <2>1, <2>2, <2>3, <3>1, <3>2
  <2>6. /\ \A d \in 1 .. a7 : a6'[d] = a6[d]
        /\ a6'[a7 + 1] = A
    BY <1>1, <2>1, <2>4
  <2>7. \A b \in Callers : a8'[b] = (IF b = c THEN "cache" ELSE a8[b])
    BY <1>1, <2>2
  <2>8. \A d \in 1 .. a7' : \A a \in a6'[d] : a2'[a] # 0
    <3>1. a11[c] # 0
      BY <1>1
    <3>2. QED
      BY <1>2, <2>2, <2>3, <2>4, <2>6, <3>1
  \* What was told today, the new digest aside, the caller knew when it chose.
  <2>9. \A d : Of(d) => \A a \in a6[d] : a2[a] = a1 => a11[c] = a1 /\ a \in a10[c]
    <3> HIDE DEF Of
    <3>1. QED
      BY <1>2, <2>2
  <2>10. CASE a13' = a13 \cup {a7 + 1}
    <3>1. \A d : Of1(d) => Of(d) /\ a6'[d] = a6[d]
      BY <2>4, <2>6, <2>10
    <3> HIDE DEF Of, Of1
    <3>2. \A d : Of1(d) => \A a \in a6'[d] : a2'[a] = a1' => a3'.day = a1' /\ a \in a3'.ids
      BY <2>1, <2>2, <2>9, <3>1
    <3>3. \A d : Of1(d) => \A a \in a6'[d] : \A b \in Callers :
            a8'[b] = "choose" /\ a2'[a] = a1' => a11'[b] = a1' /\ a \in a10'[b]
      BY <1>2, <2>2, <2>7, <3>1
    <3>4. \A d, e : Of1(d) /\ Of1(e) /\ d < e => a6'[d] \cap a6'[e] = {}
      BY <1>2, <3>1
    <3>5. QED
      BY <1>1, <1>3, <2>2, <2>4, <2>5, <2>8, <3>2, <3>3, <3>4
  <2>11. CASE Digest!Computing = {c} /\ a11[c] = a1 /\ a13' = a13
    <3>1. \A d : Of1(d) => (Of(d) /\ a6'[d] = a6[d]) \/ (d = a7 + 1 /\ a6'[d] = A)
      BY <2>4, <2>6, <2>11
    <3>2. \A b \in Callers : a8'[b] # "choose"
      BY <2>7, <2>11 DEF Digest!Computing
    <3>3. \A d, e : Of(d) /\ e = a7 + 1 => d < e /\ ~ (e < d)
      BY <2>4
    <3>4. \A d : d = a7 + 1 => ~ (d < d)
      BY <2>4
    <3> HIDE DEF Of, Of1
    <3>5. \A d : Of1(d) => \A a \in a6'[d] : a2'[a] = a1' => a3'.day = a1' /\ a \in a3'.ids
      BY <2>1, <2>2, <2>9, <2>11, <3>1
    <3>6. \A d : Of(d) => a6[d] \cap A = {}
      BY <2>3, <2>9, <2>11
    <3>7. \A d, e : Of1(d) /\ Of1(e) /\ d < e => a6'[d] \cap a6'[e] = {}
      BY <1>2, <3>1, <3>3, <3>4, <3>6
    <3>8. QED
      BY <1>1, <1>3, <2>2, <2>4, <2>5, <2>8, <3>2, <3>5, <3>7
  <2>12. QED
    BY <2>2, <2>10, <2>11
<1>10. QED
  <2>1. CASE Digest!Age
    BY <1>1, <1>6, <2>1 DEF Digest!Age, Digest!callVars
  <2>2. QED
    BY <1>4, <1>5, <1>7, <1>8, <1>9, <2>1 DEF Digest!Next

(* SearchSync: a1 is source, a2 now, a3 time, a4 mark, a5 index, a6 at,        *)
(* a7 upTo, a8 batch, a9 seen, a11 skipped, a12 tied and a13 crossed.        *)

LEMMA SearchInit == Search!Init => Search!FollowInv
<1> SUFFICES ASSUME Search!Init PROVE Search!FollowInv
  OBVIOUS
<1>1. /\ a1 \in {"mails", "articles"} /\ a2 = 1 /\ a3 = [d \in Docs |-> 0] /\ a4 = 0
      /\ a5 = [d \in Docs |-> 0] /\ a6 = [r \in Syncs |-> "idle"] /\ a7 = [r \in Syncs |-> 0]
      /\ a8 = [r \in Syncs |-> [d \in Docs |-> 0]] /\ a9 = 0
  BY DEF Search!Init
<1>2. Search!SyncTypeOK
  BY <1>1 DEF Search!SyncTypeOK
<1>3. \A d \in Docs : Search!Settled(d, a4)
  BY <1>1 DEF Search!Settled, Search!Excused
<1>4. \A r \in Syncs : Search!InOrder(r) /\ a6[r] = "idle"
  BY <1>1 DEF Search!InOrder
<1>5. QED
  BY <1>2, <1>3, <1>4 DEF Search!FollowInv

LEMMA SearchStep == ASSUME Search!FollowInv, Search!Next PROVE Search!FollowInv'
<1> DEFINE Places == {"idle", "read", "send"}
           Ex(d) == a3[d] = 0 \/ a5[d] = a3[d] \/ d \in a11 \cup a13 \/ (a1 = "mails" /\ d \in a12)
           Ex1(d) == a3'[d] = 0 \/ a5'[d] = a3'[d] \/ d \in a11' \cup a13' \/ (a1' = "mails" /\ d \in a12')
           N(d, t) == a3[d] # 0 /\ (IF a1 = "mails" THEN a3[d] > t ELSE a3[d] >= t)
           N1(d, t) == a3'[d] # 0 /\ (IF a1' = "mails" THEN a3'[d] > t ELSE a3'[d] >= t)
<1>1. /\ a1 \in {"mails", "articles"} /\ a2 \in Nat /\ a2 # 0 /\ a9 \in Nat /\ a9 <= a2
      /\ a3 \in [Docs -> Nat] /\ (\A d \in Docs : a3[d] <= a2) /\ a4 \in Nat /\ a4 <= a9
      /\ a5 \in [Docs -> Nat] /\ a6 \in [Syncs -> Places]
      /\ a7 \in [Syncs -> Nat] /\ (\A r \in Syncs : a7[r] <= a9)
      /\ a8 \in [Syncs -> [Docs -> Nat]] /\ (\A r \in Syncs, d \in Docs : a8[r][d] <= a9)
  <2>1. /\ a1 \in {"mails", "articles"} /\ a2 \in Nat \ {0} /\ a9 \in 0 .. a2
        /\ a3 \in [Docs -> 0 .. a2] /\ a4 \in 0 .. a9 /\ a5 \in [Docs -> Nat]
        /\ a6 \in [Syncs -> Places] /\ a7 \in [Syncs -> 0 .. a9] /\ a8 \in [Syncs -> [Docs -> 0 .. a9]]
    BY DEF Search!FollowInv, Search!SyncTypeOK
  <2>2. a3 \in [Docs -> Nat] /\ \A d \in Docs : a3[d] <= a2
    BY <2>1
  <2>3. a7 \in [Syncs -> Nat] /\ \A r \in Syncs : a7[r] <= a9
    BY <2>1
  <2>4. \A r \in Syncs, d \in Docs : a8[r][d] \in Nat /\ a8[r][d] <= a9
    BY <2>1
  <2>5. \A r \in Syncs : a8[r] \in [Docs -> Nat]
    BY <2>1, <2>4
  <2>6. a8 \in [Syncs -> [Docs -> Nat]]
    BY <2>1, <2>5
  <2>7. QED
    BY <2>1, <2>2, <2>3, <2>4, <2>6
<1>2. /\ \A d \in Docs : Ex(d) \/ N(d, a4)
      /\ \A r \in Syncs, d \in Docs : a8[r][d] # 0 =>
           a8[r][d] <= a3[d] /\ a6[r] = "send" /\ a7[r] <= a8[r][d]
      /\ \A r \in Syncs, d \in Docs : a6[r] = "read" => Ex(d) \/ N(d, a7[r])
      /\ \A r \in Syncs, d \in Docs : a6[r] = "send" =>
           \/ Ex(d) \/ a8[r][d] = a3[d]
           \/ N(d, a7[r]) /\ \A e \in Docs : a8[r][e] # 0 => N(d, a8[r][e])
  <2>1. \A d \in Docs : Search!Excused(d) <=> Ex(d)
    BY DEF Search!Excused
  <2>2. /\ \A d \in Docs : d \in Search!NewSince(a4) <=> N(d, a4)
        /\ \A d \in Docs, r \in Syncs : d \in Search!NewSince(a7[r]) <=> N(d, a7[r])
        /\ \A d, e \in Docs, r \in Syncs : d \in Search!NewSince(a8[r][e]) <=> N(d, a8[r][e])
    BY DEF Search!NewSince
  <2> HIDE DEF Ex, N
  <2>3. \A d \in Docs : Ex(d) \/ N(d, a4)
    BY <2>1, <2>2 DEF Search!FollowInv, Search!Settled
  <2>4. \A r \in Syncs, d \in Docs : a8[r][d] # 0 =>
           a8[r][d] <= a3[d] /\ a6[r] = "send" /\ a7[r] <= a8[r][d]
    BY DEF Search!FollowInv, Search!InOrder
  <2>5. \A r \in Syncs, d \in Docs : a6[r] = "read" => Ex(d) \/ N(d, a7[r])
    BY <2>1, <2>2 DEF Search!FollowInv, Search!Settled
  <2>6. \A r \in Syncs, d \in Docs : a6[r] = "send" =>
           \/ Ex(d) \/ a8[r][d] = a3[d]
           \/ N(d, a7[r]) /\ \A e \in Docs : a8[r][e] # 0 => N(d, a8[r][e])
    BY <2>1, <2>2 DEF Search!FollowInv, Search!Sending, Search!Ahead, Search!Left
  <2>7. QED
    BY <2>3, <2>4, <2>5, <2>6
<1>3. ASSUME a1' \in {"mails", "articles"}, a2' \in Nat, a2' # 0, a9' \in Nat, a9' <= a2',
             a3' \in [Docs -> Nat], \A d \in Docs : a3'[d] <= a2', a4' \in Nat, a4' <= a9',
             a5' \in [Docs -> Nat], a6' \in [Syncs -> Places],
             a7' \in [Syncs -> Nat], \A r \in Syncs : a7'[r] <= a9',
             a8' \in [Syncs -> [Docs -> Nat]], \A r \in Syncs, d \in Docs : a8'[r][d] <= a9',
             \A d \in Docs : Ex1(d) \/ N1(d, a4'),
             \A r \in Syncs, d \in Docs : a8'[r][d] # 0 =>
               a8'[r][d] <= a3'[d] /\ a6'[r] = "send" /\ a7'[r] <= a8'[r][d],
             \A r \in Syncs, d \in Docs : a6'[r] = "read" => Ex1(d) \/ N1(d, a7'[r]),
             \A r \in Syncs, d \in Docs : a6'[r] = "send" =>
               \/ Ex1(d) \/ a8'[r][d] = a3'[d]
               \/ /\ N1(d, a7'[r])
                  /\ \A e \in Docs : a8'[r][e] # 0 => N1(d, a8'[r][e])
      PROVE  Search!FollowInv'
  <2>1. a3' \in [Docs -> 0 .. a2'] /\ a7' \in [Syncs -> 0 .. a9'] /\ a2' \in Nat \ {0}
    BY <1>3
  <2>2. \A r \in Syncs : a8'[r] \in [Docs -> 0 .. a9']
    BY <1>3
  <2>3. a8' \in [Syncs -> [Docs -> 0 .. a9']] /\ a9' \in 0 .. a2' /\ a4' \in 0 .. a9'
    BY <1>3, <2>2
  <2>4. Search!SyncTypeOK'
    BY <1>3, <2>1, <2>3 DEF Search!SyncTypeOK
  <2>5. \A r \in Syncs : Search!InOrder(r)'
    BY <1>3 DEF Search!InOrder
  <2>6. \A d \in Docs : Search!Excused(d)' <=> Ex1(d)
    BY DEF Search!Excused
  <2>7. /\ \A d \in Docs : (d \in Search!NewSince(a4)') <=> N1(d, a4')
        /\ \A d \in Docs, r \in Syncs : (d \in Search!NewSince(a7[r])') <=> N1(d, a7'[r])
        /\ \A d, e \in Docs, r \in Syncs : (d \in Search!NewSince(a8[r][e])') <=> N1(d, a8'[r][e])
    BY DEF Search!NewSince
  <2> HIDE DEF Ex1, N1
  <2>8. \A d \in Docs : Search!Settled(d, a4)'
    BY <1>3, <2>6, <2>7 DEF Search!Settled
  <2>9. \A r \in Syncs : a6'[r] = "read" => \A d \in Docs : Search!Settled(d, a7[r])'
    BY <1>3, <2>6, <2>7 DEF Search!Settled
  <2>10. \A r \in Syncs : a6'[r] = "send" => \A d \in Docs : Search!Sending(r, d)'
    BY <1>3, <2>6, <2>7 DEF Search!Sending, Search!Ahead, Search!Left
  <2>11. QED
    BY <2>4, <2>5, <2>8, <2>9, <2>10 DEF Search!FollowInv
<1>4. CASE Search!Tick
  <2>1. a2' = a2 + 1 /\ UNCHANGED <<a1, a3, a4, a5, a6, a7, a8, a9, a11, a12, a13>>
    BY <1>4 DEF Search!Tick
  <2>2. a2' \in Nat /\ a2' # 0 /\ a9' <= a2' /\ \A d \in Docs : a3'[d] <= a2'
    BY <1>1, <2>1
  <2>3. \A d : (Ex(d) => Ex1(d)) /\ \A t : N(d, t) => N1(d, t)
    BY <2>1
  <2> HIDE DEF Ex, Ex1, N, N1
  <2>4. QED
    BY <1>1, <1>2, <1>3, <2>1, <2>2, <2>3
<1>5. ASSUME NEW x \in Docs, Search!Arrive(x) PROVE Search!FollowInv'
  <2>1. /\ a3' = [a3 EXCEPT ![x] = a2] /\ a12' = (IF a9 = a2 THEN a12 \cup {x} ELSE a12)
        /\ a11' = a11 \ {x} /\ a13' = a13 \ {x} /\ UNCHANGED <<a1, a2, a4, a5, a6, a7, a8, a9>>
    BY <1>5 DEF Search!Arrive
  <2>2. a3' \in [Docs -> Nat] /\ a3'[x] = a2 /\ \A d \in Docs \ {x} : a3'[d] = a3[d]
    BY <1>1, <2>1
  <2>3. \A d \in Docs : a3'[d] <= a2' /\ a3[d] <= a3'[d]
    BY <1>1, <2>1, <2>2
  <2>4. \A d \in Docs \ {x} : (Ex(d) => Ex1(d)) /\ \A t : N(d, t) => N1(d, t)
    <3>1. SUFFICES ASSUME NEW d \in Docs \ {x} PROVE (Ex(d) => Ex1(d)) /\ \A t : N(d, t) => N1(d, t)
      OBVIOUS
    <3>2. a3'[d] = a3[d] /\ (d \in a11 => d \in a11') /\ (d \in a13 => d \in a13') /\ (d \in a12 => d \in a12')
      BY <2>1, <2>2
    <3>3. QED
      BY <2>1, <3>2
  <2>5. Ex1(x) \/ \A t \in Nat : t <= a9 => N1(x, t)
    <3>1. CASE a9 = a2 /\ a1 = "mails"
      BY <2>1, <3>1
    <3>2. CASE a9 # a2 \/ a1 # "mails"
      <4>1. \A t \in Nat : t <= a9 => a2 >= t /\ (a9 # a2 => a2 > t)
        BY <1>1
      <4>2. QED
        BY <1>1, <2>1, <2>2, <3>2, <4>1
    <3>3. QED
      BY <3>1, <3>2
  <2> HIDE DEF Ex, Ex1, N, N1
  <2>6. \A d \in Docs : Ex1(d) \/ N1(d, a4')
    BY <1>1, <1>2, <2>1, <2>4, <2>5
  <2>7. \A r \in Syncs, d \in Docs : a8'[r][d] # 0 =>
          a8'[r][d] <= a3'[d] /\ a6'[r] = "send" /\ a7'[r] <= a8'[r][d]
    <3>1. \A r \in Syncs, d \in Docs : a8[r][d] \in Nat /\ a3[d] \in Nat /\ a3'[d] \in Nat
      BY <1>1, <2>2
    <3>2. QED
      BY <1>2, <2>1, <2>3, <3>1
  <2>8. \A r \in Syncs, d \in Docs : a6'[r] = "read" => Ex1(d) \/ N1(d, a7'[r])
    BY <1>1, <1>2, <2>1, <2>4, <2>5
  <2>9. \A r \in Syncs, d \in Docs : a6'[r] = "send" =>
           \/ Ex1(d) \/ a8'[r][d] = a3'[d]
           \/ N1(d, a7'[r]) /\ \A e \in Docs : a8'[r][e] # 0 => N1(d, a8'[r][e])
    <3>1. SUFFICES ASSUME NEW r \in Syncs, NEW d \in Docs, a6'[r] = "send"
                   PROVE \/ Ex1(d) \/ a8'[r][d] = a3'[d]
                         \/ N1(d, a7'[r]) /\ \A e \in Docs : a8'[r][e] # 0 => N1(d, a8'[r][e])
      OBVIOUS
    <3>2. CASE d # x
      BY <1>2, <2>1, <2>2, <2>4, <3>1, <3>2
    <3>3. CASE d = x
      <4>1. a7[r] \in Nat /\ a7[r] <= a9 /\ \A e \in Docs : a8[r][e] \in Nat /\ a8[r][e] <= a9
        BY <1>1
      <4>2. QED
        BY <2>1, <2>5, <3>3, <4>1
    <3>4. QED
      BY <3>2, <3>3
  <2>10. QED
    BY <1>1, <1>3, <2>1, <2>2, <2>3, <2>6, <2>7, <2>8, <2>9
<1>6. ASSUME NEW x \in Syncs, Search!Load(x) PROVE Search!FollowInv'
  <2>1. /\ a6[x] = "idle" /\ a6' = [a6 EXCEPT ![x] = "read"] /\ a7' = [a7 EXCEPT ![x] = a4]
        /\ UNCHANGED <<a1, a2, a3, a4, a5, a8, a9, a11, a12, a13>>
    BY <1>6 DEF Search!Load
  <2>2. /\ a6' \in [Syncs -> Places] /\ a7' \in [Syncs -> Nat] /\ a6'[x] = "read" /\ a7'[x] = a4
        /\ \A r \in Syncs \ {x} : a6'[r] = a6[r] /\ a7'[r] = a7[r]
    BY <1>1, <2>1
  <2>3. \A d : (Ex(d) => Ex1(d)) /\ \A t : N(d, t) => N1(d, t)
    BY <2>1
  <2> HIDE DEF Ex, Ex1, N, N1
  <2>4. \A d \in Docs : a8[x][d] = 0
    BY <1>2, <2>1
  <2>5. \A r \in Syncs : a7'[r] <= a9'
    BY <1>1, <2>1, <2>2
  <2>6. \A r \in Syncs, d \in Docs : a8'[r][d] # 0 =>
          a8'[r][d] <= a3'[d] /\ a6'[r] = "send" /\ a7'[r] <= a8'[r][d]
    BY <1>2, <2>1, <2>2, <2>4
  <2>7. \A r \in Syncs, d \in Docs : a6'[r] = "read" => Ex1(d) \/ N1(d, a7'[r])
    BY <1>2, <2>2, <2>3
  <2>8. \A r \in Syncs, d \in Docs : a6'[r] = "send" =>
           \/ Ex1(d) \/ a8'[r][d] = a3'[d]
           \/ N1(d, a7'[r]) /\ \A e \in Docs : a8'[r][e] # 0 => N1(d, a8'[r][e])
    BY <1>2, <2>1, <2>2, <2>3
  <2>9. \A d \in Docs : Ex1(d) \/ N1(d, a4')
    BY <1>2, <2>1, <2>3
  <2>10. QED
    BY <1>1, <1>3, <2>1, <2>2, <2>5, <2>6, <2>7, <2>8, <2>9
<1>7. ASSUME NEW x \in Syncs, Search!Read(x) PROVE Search!FollowInv'
  <2> DEFINE Batch == [d \in Docs |-> IF N(d, a7[x]) THEN a3[d] ELSE 0]
  <2>1. /\ a6[x] = "read" /\ a6' = [a6 EXCEPT ![x] = "send"] /\ a9' = a2
        /\ UNCHANGED <<a1, a2, a3, a4, a5, a7, a11, a12, a13>>
    BY <1>7 DEF Search!Read
  <2>2. a8' = [a8 EXCEPT ![x] = Batch]
    <3>1. \A d \in Docs : d \in Search!NewSince(a7[x]) <=> N(d, a7[x])
      BY DEF Search!NewSince
    <3>2. [d \in Docs |-> IF d \in Search!NewSince(a7[x]) THEN a3[d] ELSE 0] = Batch
      BY <3>1
    <3>3. QED
      BY <1>7, <3>2 DEF Search!Read
  <2>3. \A d : (Ex(d) => Ex1(d)) /\ \A t : N(d, t) => N1(d, t)
    BY <2>1
  <2>4. \A d \in Docs : N(d, a7[x]) => a7[x] <= a3[d]
    BY <1>1
  <2> HIDE DEF Ex, Ex1, N, N1
  <2>5. Batch \in [Docs -> Nat] /\ \A d \in Docs : Batch[d] = (IF N(d, a7[x]) THEN a3[d] ELSE 0)
    BY <1>1
  <2> HIDE DEF Batch
  <2>6. /\ a6' \in [Syncs -> Places] /\ a8' \in [Syncs -> [Docs -> Nat]] /\ a6'[x] = "send" /\ a8'[x] = Batch
        /\ \A r \in Syncs \ {x} : a6'[r] = a6[r] /\ a8'[r] = a8[r]
    BY <1>1, <2>1, <2>2, <2>5
  <2>7. /\ a9' \in Nat /\ a9' <= a2' /\ a4' <= a9' /\ \A r \in Syncs : a7'[r] <= a9'
    BY <1>1, <2>1
  <2>8. \A r \in Syncs, d \in Docs : a8'[r][d] <= a9'
    <3>1. \A d \in Docs : Batch[d] <= a9'
      BY <1>1, <2>1, <2>5
    <3>2. \A r \in Syncs \ {x}, d \in Docs : a8[r][d] <= a9'
      <4>1. \A r \in Syncs, d \in Docs : a8[r][d] \in Nat /\ a8[r][d] <= a9
        BY <1>1
      <4>2. QED
        BY <1>1, <2>1, <4>1
    <3>3. QED
      BY <2>6, <3>1, <3>2
  <2>9. \A r \in Syncs, d \in Docs : a8'[r][d] # 0 =>
          a8'[r][d] <= a3'[d] /\ a6'[r] = "send" /\ a7'[r] <= a8'[r][d]
    <3>1. \A d \in Docs : Batch[d] # 0 => Batch[d] <= a3[d] /\ a7[x] <= Batch[d]
      BY <1>1, <2>4, <2>5
    <3>2. QED
      BY <1>2, <2>1, <2>6, <3>1
  <2>10. \A r \in Syncs, d \in Docs : a6'[r] = "read" => Ex1(d) \/ N1(d, a7'[r])
    BY <1>2, <2>1, <2>3, <2>6
  <2>11. \A r \in Syncs, d \in Docs : a6'[r] = "send" =>
           \/ Ex1(d) \/ a8'[r][d] = a3'[d]
           \/ N1(d, a7'[r]) /\ \A e \in Docs : a8'[r][e] # 0 => N1(d, a8'[r][e])
    <3>1. \A d \in Docs : Ex1(d) \/ Batch[d] = a3'[d]
      BY <1>2, <2>1, <2>3, <2>5
    <3>2. QED
      BY <1>2, <2>1, <2>3, <2>6, <3>1
  <2>12. \A d \in Docs : Ex1(d) \/ N1(d, a4')
    BY <1>2, <2>1, <2>3
  <2>13. QED
    BY <1>1, <1>3, <2>1, <2>6, <2>7, <2>8, <2>9, <2>10, <2>11, <2>12
\* What is sent, or refused, is the oldest of what is left.
<1>8. ASSUME NEW x \in Syncs, NEW y \in Docs, Search!IsNext(x, y), Search!Sent(x, y)
      PROVE  /\ a6[x] = "send" /\ a8[x][y] # 0 /\ a8[x][y] \in Nat
             /\ \A e \in Docs : a8[x][e] # 0 => a8[x][y] <= a8[x][e]
             /\ a8' \in [Syncs -> [Docs -> Nat]] /\ a8'[x][y] = 0
             /\ \A e \in Docs \ {y} : a8'[x][e] = a8[x][e]
             /\ \A r \in Syncs \ {x} : a8'[r] = a8[r]
             /\ \A r \in Syncs, e \in Docs : a8'[r][e] # 0 => a8'[r][e] = a8[r][e]
             /\ \A r \in Syncs, e \in Docs : a8'[r][e] <= a9
  <2>1. /\ a6[x] = "send" /\ a8[x][y] # 0
        /\ \A e \in Docs : a8[x][e] # 0 => a8[x][y] < a8[x][e] \/ (a8[x][y] = a8[x][e] /\ y <= e)
    BY <1>8 DEF Search!IsNext, Search!Left
  <2>2. \A e \in Docs : a8[x][e] \in Nat
    BY <1>1
  <2>3. \A e \in Docs : a8[x][e] # 0 => a8[x][y] <= a8[x][e]
    BY <2>1, <2>2
  <2>4. a8' = [a8 EXCEPT ![x][y] = 0]
    BY <1>8 DEF Search!Sent
  <2>5. /\ a8' \in [Syncs -> [Docs -> Nat]] /\ a8'[x][y] = 0
        /\ \A e \in Docs \ {y} : a8'[x][e] = a8[x][e]
        /\ \A r \in Syncs \ {x} : a8'[r] = a8[r]
    BY <1>1, <2>4
  <2>6. \A r \in Syncs, e \in Docs : a8'[r][e] = 0 \/ a8'[r][e] = a8[r][e]
    BY <2>5
  <2>7. \A r \in Syncs, e \in Docs : a8'[r][e] <= a9
    BY <1>1, <2>6
  <2>8. QED
    BY <2>1, <2>2, <2>3, <2>5, <2>6, <2>7
<1>9. ASSUME NEW x \in Syncs, NEW y \in Docs, Search!Take(x, y) PROVE Search!FollowInv'
  <2>1. /\ Search!IsNext(x, y) /\ Search!Sent(x, y) /\ a5' = [a5 EXCEPT ![y] = a8[x][y]]
        /\ a7' = [a7 EXCEPT ![x] = a8[x][y]]
        /\ a13' = (IF a8[x][y] < a3[y] THEN a13 \cup {y} ELSE a13 \ {y}) /\ a11' = a11 \ {y}
        /\ UNCHANGED <<a1, a2, a3, a4, a6, a9, a12>>
    BY <1>9 DEF Search!Take
  <2> DEFINE b == a8[x][y]
  <2>2. /\ a6[x] = "send" /\ b # 0 /\ b \in Nat
        /\ \A e \in Docs : a8[x][e] # 0 => b <= a8[x][e]
        /\ a8' \in [Syncs -> [Docs -> Nat]] /\ a8'[x][y] = 0
        /\ \A e \in Docs \ {y} : a8'[x][e] = a8[x][e]
        /\ \A r \in Syncs \ {x} : a8'[r] = a8[r]
        /\ \A r \in Syncs, e \in Docs : a8'[r][e] # 0 => a8'[r][e] = a8[r][e]
        /\ \A r \in Syncs, e \in Docs : a8'[r][e] <= a9
    BY <1>8, <2>1
  <2>3. /\ a5' \in [Docs -> Nat] /\ a5'[y] = b /\ a7' \in [Syncs -> Nat] /\ a7'[x] = b
        /\ (\A d \in Docs \ {y} : a5'[d] = a5[d]) /\ \A r \in Syncs \ {x} : a7'[r] = a7[r]
    BY <1>1, <2>1, <2>2
  <2>4. b <= a3[y] /\ b <= a9
    BY <1>1, <1>2, <2>2
  <2>5. Ex1(y)
    <3>1. CASE b < a3[y]
      BY <2>1, <3>1
    <3>2. CASE ~ b < a3[y]
      <4>1. b = a3[y]
        <5>1. b \in Nat /\ a3[y] \in Nat /\ b <= a3[y]
          BY <1>1, <2>2, <2>4
        <5>2. QED
          BY <3>2, <5>1
      <4>2. a3' = a3 /\ a5'[y] = a3[y]
        BY <2>1, <2>3, <4>1
      <4>3. a5'[y] = a3'[y]
        BY <4>2
      <4>4. QED
        BY <4>3
    <3>3. QED
      BY <3>1, <3>2
  <2>6. \A d \in Docs \ {y} : Ex(d) => Ex1(d)
    <3>1. SUFFICES ASSUME NEW d \in Docs \ {y} PROVE Ex(d) => Ex1(d)
      OBVIOUS
    <3>2. a5'[d] = a5[d] /\ (d \in a11 => d \in a11') /\ (d \in a13 => d \in a13')
      BY <2>1, <2>3
    <3>3. QED
      BY <2>1, <3>2
  <2>7. \A d, t : N(d, t) => N1(d, t)
    BY <2>1
  <2> HIDE DEF Ex, Ex1, N, N1, b
  <2>8. \A r \in Syncs : a7'[r] <= a9'
    BY <1>1, <2>1, <2>3, <2>4
  <2>9. \A r \in Syncs, d \in Docs : a8'[r][d] # 0 =>
          a8'[r][d] <= a3'[d] /\ a6'[r] = "send" /\ a7'[r] <= a8'[r][d]
    <3>1. \A r \in Syncs \ {x}, d \in Docs : a8'[r][d] # 0 => a7'[r] <= a8'[r][d]
      BY <1>2, <2>2, <2>3
    <3>2. \A d \in Docs : a8'[x][d] # 0 => a7'[x] <= a8'[x][d]
      BY <2>2, <2>3
    <3>3. QED
      BY <1>2, <2>1, <2>2, <3>1, <3>2
  <2>10. \A r \in Syncs, d \in Docs : a6'[r] = "read" => Ex1(d) \/ N1(d, a7'[r])
    <3>1. \A r \in Syncs : a6'[r] = "read" => r # x /\ a6[r] = "read" /\ a7'[r] = a7[r]
      BY <2>1, <2>2, <2>3
    <3>2. QED
      BY <1>2, <2>5, <2>6, <2>7, <3>1
  <2>11. \A r \in Syncs, d \in Docs : a6'[r] = "send" =>
           \/ Ex1(d) \/ a8'[r][d] = a3'[d]
           \/ N1(d, a7'[r]) /\ \A e \in Docs : a8'[r][e] # 0 => N1(d, a8'[r][e])
    <3>1. SUFFICES ASSUME NEW r \in Syncs, NEW d \in Docs, a6'[r] = "send", d # y
                   PROVE \/ Ex1(d) \/ a8'[r][d] = a3'[d]
                         \/ N1(d, a7'[r]) /\ \A e \in Docs : a8'[r][e] # 0 => N1(d, a8'[r][e])
      BY <2>5
    <3>2. \/ Ex(d) \/ a8[r][d] = a3[d]
          \/ N(d, a7[r]) /\ \A e \in Docs : a8[r][e] # 0 => N(d, a8[r][e])
      BY <1>2, <2>1, <3>1
    <3>3. a8'[r][d] = a8[r][d]
      BY <2>2, <3>1
    <3>4. CASE \A e \in Docs : a8[r][e] # 0 => N(d, a8[r][e])
      <4>1. \A e \in Docs : a8'[r][e] # 0 => N1(d, a8'[r][e])
        BY <2>2, <2>7, <3>4
      <4>2. r = x => N1(d, a7'[r])
        BY <2>2, <2>3, <2>7, <3>4 DEF b
      <4>3. r # x => a7'[r] = a7[r]
        BY <2>3
      <4>4. QED
        BY <2>1, <2>6, <2>7, <3>1, <3>2, <3>3, <4>1, <4>2, <4>3
    <3>5. QED
      BY <2>1, <2>6, <3>1, <3>2, <3>3, <3>4
  <2>12. \A d \in Docs : Ex1(d) \/ N1(d, a4')
    BY <1>2, <2>1, <2>5, <2>6, <2>7
  <2>13. QED
    BY <1>1, <1>3, <2>1, <2>2, <2>3, <2>8, <2>9, <2>10, <2>11, <2>12
<1>10. ASSUME NEW x \in Syncs, NEW y \in Docs, Search!Refuse(x, y) PROVE Search!FollowInv'
  <2>1. /\ Search!IsNext(x, y) /\ Search!Sent(x, y)
        /\ a11' = (IF Search!Passed(x, y) THEN a11 \cup {y} ELSE a11)
        /\ UNCHANGED <<a1, a2, a3, a4, a5, a6, a7, a9, a12, a13>>
    BY <1>10 DEF Search!Refuse
  <2>2. /\ a6[x] = "send" /\ a8[x][y] # 0 /\ a8[x][y] \in Nat
        /\ a8' \in [Syncs -> [Docs -> Nat]] /\ a8'[x][y] = 0
        /\ \A e \in Docs \ {y} : a8'[x][e] = a8[x][e]
        /\ \A r \in Syncs \ {x} : a8'[r] = a8[r]
        /\ \A r \in Syncs, e \in Docs : a8'[r][e] # 0 => a8'[r][e] = a8[r][e]
        /\ \A r \in Syncs, e \in Docs : a8'[r][e] <= a9
    BY <1>8, <2>1
  <2>3. \A d : (Ex(d) => Ex1(d)) /\ \A t : N(d, t) => N1(d, t)
    BY <2>1
  <2>4. Ex1(y) \/ (N1(y, a7[x]) /\ \A e \in Docs : a8'[x][e] = 0)
    <3>1. CASE Search!Passed(x, y)
      <4>1. y \in a11'
        BY <2>1, <3>1, ZenonT(30)
      <4>2. QED
        BY <4>1
    <3>2. CASE ~ Search!Passed(x, y)
      <4>1. {d \in Docs : a8[x][d] # 0} = {y} /\ a7[x] # a8[x][y]
        BY <3>2 DEF Search!Passed, Search!Left
      <4>2. \A e \in Docs : a8'[x][e] = 0
        BY <2>2, <4>1
      <4>3. a7[x] \in Nat /\ a3[y] \in Nat /\ a7[x] <= a8[x][y] /\ a8[x][y] <= a3[y]
        BY <1>1, <1>2, <2>2
      <4>4. a3[y] > a7[x] /\ a3[y] >= a7[x] /\ a3[y] # 0
        <5>1. a8[x][y] \in Nat /\ a8[x][y] # 0 /\ a7[x] # a8[x][y]
          BY <2>2, <4>1
        <5>2. \A i, j, k \in Nat : i <= j /\ j <= k /\ i # j /\ j # 0 => k > i /\ k >= i /\ k # 0
          OBVIOUS
        <5>3. QED
          BY <4>3, <5>1, <5>2
      <4>5. a3'[y] > a7[x] /\ a3'[y] >= a7[x] /\ a3'[y] # 0
        BY <2>1, <4>4
      <4>6. N1(y, a7[x])
        BY <4>5
      <4>7. QED
        BY <4>2, <4>6
    <3>3. QED
      BY <3>1, <3>2
  <2> HIDE DEF Ex, Ex1, N, N1
  <2>5. \A r \in Syncs, d \in Docs : a8'[r][d] # 0 =>
          a8'[r][d] <= a3'[d] /\ a6'[r] = "send" /\ a7'[r] <= a8'[r][d]
    BY <1>2, <2>1, <2>2
  <2>6. \A r \in Syncs, d \in Docs : a6'[r] = "read" => Ex1(d) \/ N1(d, a7'[r])
    BY <1>2, <2>1, <2>3
  <2>7. \A r \in Syncs, d \in Docs : a6'[r] = "send" =>
           \/ Ex1(d) \/ a8'[r][d] = a3'[d]
           \/ N1(d, a7'[r]) /\ \A e \in Docs : a8'[r][e] # 0 => N1(d, a8'[r][e])
    <3>1. SUFFICES ASSUME NEW r \in Syncs, NEW d \in Docs, a6'[r] = "send"
                   PROVE \/ Ex1(d) \/ a8'[r][d] = a3'[d]
                         \/ N1(d, a7'[r]) /\ \A e \in Docs : a8'[r][e] # 0 => N1(d, a8'[r][e])
      OBVIOUS
    <3>2. \/ Ex(d) \/ a8[r][d] = a3[d]
          \/ N(d, a7[r]) /\ \A e \in Docs : a8[r][e] # 0 => N(d, a8[r][e])
      BY <1>2, <2>1, <3>1
    <3>3. CASE r = x /\ d = y
      BY <2>1, <2>4, <3>3
    <3>4. CASE ~ (r = x /\ d = y)
      <4>1. a8'[r][d] = a8[r][d]
        BY <2>2, <3>4
      <4>2. QED
        BY <2>1, <2>2, <2>3, <3>2, <4>1
    <3>5. QED
      BY <3>3, <3>4
  <2>8. \A d \in Docs : Ex1(d) \/ N1(d, a4')
    BY <1>2, <2>1, <2>3
  <2>9. QED
    BY <1>1, <1>3, <2>1, <2>2, <2>5, <2>6, <2>7, <2>8
<1>11. ASSUME NEW x \in Syncs, Search!Save(x) PROVE Search!FollowInv'
  <2>1. /\ a6[x] = "send" /\ a6' = [a6 EXCEPT ![x] = "idle"] /\ a4' \in {a4, a7[x]}
        /\ a7' = [a7 EXCEPT ![x] = 0] /\ UNCHANGED <<a1, a2, a3, a5, a8, a9, a11, a12, a13>>
    BY <1>11 DEF Search!Save
  <2>2. \A d \in Docs : a8[x][d] = 0
    BY <1>11 DEF Search!Save, Search!Left
  <2>3. /\ a6' \in [Syncs -> Places] /\ a7' \in [Syncs -> Nat] /\ a6'[x] = "idle" /\ a7'[x] = 0
        /\ \A r \in Syncs \ {x} : a6'[r] = a6[r] /\ a7'[r] = a7[r]
    BY <1>1, <2>1
  <2>4. \A d : (Ex(d) => Ex1(d)) /\ \A t : N(d, t) => N1(d, t)
    BY <2>1
  <2>5. \A d : a3[d] = 0 => Ex(d)
    OBVIOUS
  <2> HIDE DEF Ex, Ex1, N, N1
  <2>6. a4' \in Nat /\ a4' <= a9' /\ \A r \in Syncs : a7'[r] <= a9'
    BY <1>1, <2>1, <2>3
  <2>7. \A d \in Docs : Ex1(d) \/ N1(d, a4')
    <3>1. \A d \in Docs : Ex(d) \/ N(d, a7[x])
      BY <1>2, <2>1, <2>2, <2>5
    <3>2. QED
      BY <1>2, <2>1, <2>4, <3>1
  <2>8. \A r \in Syncs, d \in Docs : a8'[r][d] # 0 =>
          a8'[r][d] <= a3'[d] /\ a6'[r] = "send" /\ a7'[r] <= a8'[r][d]
    BY <1>2, <2>1, <2>2, <2>3
  <2>9. \A r \in Syncs, d \in Docs : a6'[r] = "read" => Ex1(d) \/ N1(d, a7'[r])
    BY <1>2, <2>3, <2>4
  <2>10. \A r \in Syncs, d \in Docs : a6'[r] = "send" =>
           \/ Ex1(d) \/ a8'[r][d] = a3'[d]
           \/ N1(d, a7'[r]) /\ \A e \in Docs : a8'[r][e] # 0 => N1(d, a8'[r][e])
    BY <1>2, <2>1, <2>3, <2>4
  <2>11. QED
    BY <1>1, <1>3, <2>1, <2>3, <2>6, <2>7, <2>8, <2>9, <2>10
<1>12. QED
  BY <1>4, <1>5, <1>6, <1>7, <1>9, <1>10, <1>11 DEF Search!Next

(* WebClips: a1 is page, a2 row, a3 note, a4 notes, a5 at, a6 got, a7 mine,    *)
(* a8 told, a11 default and a12 loose.                                      *)

LEMMA LinkInit == Clips!Init => Clips!LinkInv
<1> SUFFICES ASSUME Clips!Init PROVE Clips!LinkInv
  OBVIOUS
<1>1. /\ a1 = 1 /\ a2 = Clips!NoClip /\ a3 = [n \in 1 .. MaxNotes |-> Clips!NoNote]
      /\ a4 = 0 /\ a12 = {} /\ a5 = [c \in Clippers |-> "look"]
      /\ a6 = [c \in Clippers |-> Clips!NoClip] /\ a7 = [c \in Clippers |-> 0]
      /\ a8 = [c \in Clippers |-> 0] /\ a11 \in [groups : SUBSET Clips!Groups, visible : BOOLEAN]
  BY DEF Clips!Init
<1>2. Clips!NoClip \in Clips!Clips /\ Clips!NoClip.link = 0 /\ 1 .. a4 = {}
  BY <1>1 DEF Clips!NoClip, Clips!Clips
<1>3. Clips!NoNote \in [version : Nat, groups : SUBSET Clips!Groups, visible : BOOLEAN,
                        owner : {"bot", "user"}, there : BOOLEAN]
  BY DEF Clips!NoNote
<1>4. Clips!ClipsTypeOK
  BY <1>1, <1>2, <1>3, ClipsAssumption DEF Clips!ClipsTypeOK, Clips!Notes
<1>5. Clips!OneMaker
  BY <1>1 DEF Clips!OneMaker
<1>6. \A v : Clips!Kept(0, v)
  BY DEF Clips!Kept
<1>7. \A c \in Clippers : a7[c] = 0 /\ a8[c] = 0 /\ a6[c].link = 0
  BY <1>1, <1>2
<1>8. a2.link = 0
  BY <1>1, <1>2
<1>9. QED
  BY <1>2, <1>4, <1>5, <1>6, <1>7, <1>8 DEF Clips!LinkInv

LEMMA LinkStep ==
  ASSUME Clips!LinkInv, Clips!Next \/ UNCHANGED <<a1, a2, a3, a4, a5, a6, a7, a8, a9, a10, a11, a12>>
  PROVE  Clips!LinkInv'
<1> DEFINE Pl == {"look", "fetch", "put", "decide", "create", "everyone", "logged_in", "hide",
                  "transfer", "link", "delete", "done"}
           Busy == {"everyone", "logged_in", "hide", "transfer", "link", "delete"}
           Gr == {"everyone", "logged_in"}
           NS == 1 .. MaxNotes
           NR == [version : Nat, groups : SUBSET Gr, visible : BOOLEAN,
                  owner : {"bot", "user"}, there : BOOLEAN]
           CR == [version : Nat, link : NS \cup {0}]
           P(n) == a3[n].there /\ a3[n].groups = {} /\ ~ a3[n].visible
           P1(n) == a3'[n].there /\ a3'[n].groups = {} /\ ~ a3'[n].visible
           K(l, v) == l # 0 => /\ l \in 1 .. a4 /\ P(l) /\ a3[l].version = v
                               /\ \A c \in Clippers : a7[c] # l
           K1(l, v) == l # 0 => /\ l \in 1 .. a4' /\ P1(l) /\ a3'[l].version = v
                                /\ \A c \in Clippers : a7'[c] # l
           Cl(w, v, p) == /\ w.there /\ w.version = v
                          /\ p # "everyone" => "everyone" \notin w.groups
                          /\ p \in {"hide", "transfer", "link"} => w.groups = {}
                          /\ p \in {"transfer", "link"} => ~ w.visible
           G(n) == P(n) \/ ~ a3[n].there \/ n \in a12 \/ \E c \in Clippers : a7[c] = n
           G1(n) == P1(n) \/ ~ a3'[n].there \/ n \in a12' \/ \E c \in Clippers : a7'[c] = n
<1>1. /\ a1 \in Nat /\ a2 \in CR /\ a6 \in [Clippers -> CR] /\ a4 \in 0 .. MaxNotes
      /\ a3 \in [NS -> NR] /\ a5 \in [Clippers -> Pl] /\ a7 \in [Clippers -> 0 .. a4]
      /\ a8 \in [Clippers -> NS \cup {0}] /\ a11 \in [groups : SUBSET Gr, visible : BOOLEAN]
  BY DEF Clips!LinkInv, Clips!ClipsTypeOK, Clips!Clips, Clips!Notes, Clips!Groups
<1>2. /\ \A c, b \in Clippers : a7[c] # 0 /\ a7[c] = a7[b] => c = b
      /\ \A c \in Clippers : a7[c] # 0 <=> a5[c] \in Busy
      /\ \A c \in Clippers : a7[c] # 0 /\ a5[c] # "delete" => Cl(a3[a7[c]], a6[c].version, a5[c])
      /\ \A c \in Clippers : K(a6[c].link, a6[c].version)
      /\ \A c \in Clippers : K(a8[c], a6[c].version) /\ (a8[c] # 0 => a5[c] = "done")
      /\ K(a2.link, a2.version)
      /\ \A n \in 1 .. a4 : G(n)
  <2>1. \A l, v : Clips!Kept(l, v) => K(l, v)
    BY DEF Clips!Kept, Clips!Private
  <2>2. \A n \in 1 .. a4 : G(n)
    BY DEF Clips!LinkInv, Clips!Private
  <2>3. \A c \in Clippers : Clips!Closing(c) => Cl(a3[a7[c]], a6[c].version, a5[c])
    BY DEF Clips!Closing
  <2> HIDE DEF K, G, Cl
  <2>4. QED
    BY <2>1, <2>2, <2>3 DEF Clips!LinkInv, Clips!OneMaker
<1>3. ASSUME a1' \in Nat, a2' \in CR, a6' \in [Clippers -> CR], a4' \in 0 .. MaxNotes,
             a3' \in [NS -> NR], a5' \in [Clippers -> Pl], a7' \in [Clippers -> 0 .. a4'],
             a8' \in [Clippers -> NS \cup {0}], a11' = a11,
             \A c, b \in Clippers : a7'[c] # 0 /\ a7'[c] = a7'[b] => c = b,
             \A c \in Clippers : a7'[c] # 0 <=> a5'[c] \in Busy,
             \A c \in Clippers : a7'[c] # 0 /\ a5'[c] # "delete" => Cl(a3'[a7'[c]], a6'[c].version, a5'[c]),
             \A c \in Clippers : K1(a6'[c].link, a6'[c].version),
             \A c \in Clippers : K1(a8'[c], a6'[c].version) /\ (a8'[c] # 0 => a5'[c] = "done"),
             K1(a2'.link, a2'.version),
             \A n \in 1 .. a4' : G1(n)
      PROVE  Clips!LinkInv'
  <2>1. Clips!ClipsTypeOK'
    BY <1>1, <1>3 DEF Clips!ClipsTypeOK, Clips!Clips, Clips!Notes, Clips!Groups
  <2>2. Clips!OneMaker'
    BY <1>3 DEF Clips!OneMaker
  <2>3. \A c \in Clippers : Cl(a3'[a7'[c]], a6'[c].version, a5'[c]) => Clips!Closing(c)'
    BY DEF Clips!Closing
  <2>4. \A c \in Clippers : (Clips!Kept(a6[c].link, a6[c].version))' /\ (Clips!Kept(a8[c], a6[c].version))'
    BY <1>3 DEF Clips!Kept, Clips!Private
  <2>5. (Clips!Kept(a2.link, a2.version))'
    BY <1>3 DEF Clips!Kept, Clips!Private
  <2>6. \A n \in 1 .. a4' : Clips!Private(n)' \/ ~ a3'[n].there \/ n \in a12' \/ \E c \in Clippers : a7'[c] = n
    BY <1>3 DEF Clips!Private
  <2> HIDE DEF K1, G1, Cl
  <2>7. QED
    BY <1>3, <2>1, <2>2, <2>3, <2>4, <2>5, <2>6 DEF Clips!LinkInv
\* A step of a call that makes no note.
<1>4. ASSUME NEW x \in Clippers, NEW p \in Pl \ Busy, a5[x] \notin Busy, a5[x] # "done",
             a5' = [a5 EXCEPT ![x] = p], a6' \in [Clippers -> CR], a8' \in [Clippers -> NS \cup {0}],
             \A c \in Clippers \ {x} : a6'[c] = a6[c] /\ a8'[c] = a8[c],
             K(a6'[x].link, a6'[x].version),
             a8'[x] = 0 \/ (p = "done" /\ K(a8'[x], a6'[x].version)),
             a2' \in CR, K(a2'.link, a2'.version), UNCHANGED <<a1, a3, a4, a7, a11, a12>>
      PROVE  Clips!LinkInv'
  <2>1. /\ a5' \in [Clippers -> Pl] /\ a5'[x] = p /\ a7[x] = 0
        /\ \A c \in Clippers \ {x} : a5'[c] = a5[c]
    BY <1>1, <1>2, <1>4
  <2>2. \A l, v : K(l, v) => K1(l, v)
    BY <1>4
  <2>3. \A n \in 1 .. a4' : G1(n)
    BY <1>2, <1>4
  <2>4. K1(0, a6'[x].version)
    OBVIOUS
  <2> HIDE DEF K, K1, G, G1, Cl, NR, CR, NS, Busy, Pl
  <2>5. \A c \in Clippers : K1(a6'[c].link, a6'[c].version)
    BY <1>2, <1>4, <2>2
  <2>6. \A c \in Clippers : K1(a8'[c], a6'[c].version) /\ (a8'[c] # 0 => a5'[c] = "done")
    BY <1>2, <1>4, <2>1, <2>2, <2>4
  <2>7. \A c \in Clippers : a7'[c] # 0 <=> a5'[c] \in Busy
    BY <1>2, <1>4, <2>1
  <2>8. \A c \in Clippers : a7'[c] # 0 /\ a5'[c] # "delete" => Cl(a3'[a7'[c]], a6'[c].version, a5'[c])
    BY <1>2, <1>4, <2>1
  <2>9. QED
    BY <1>1, <1>2, <1>3, <1>4, <2>1, <2>2, <2>3, <2>5, <2>6, <2>7, <2>8
<1>5. \A c \in Clippers : a5[c] # "done" => a8[c] = 0
  BY <1>2
<1>6. CASE Clips!Change \/ Clips!Expire \/ UNCHANGED <<a1, a2, a3, a4, a5, a6, a7, a8, a9, a10, a11, a12>>
  <2>1. /\ a1' \in Nat /\ a2' \in CR /\ (a2' = a2 \/ a2'.link = 0)
        /\ UNCHANGED <<a3, a4, a5, a6, a7, a8, a11, a12>>
    BY <1>1, <1>6 DEF Clips!Change, Clips!Expire, Clips!noteVars, Clips!callVars, Clips!NoClip
  <2>2. \A l, v : K(l, v) => K1(l, v)
    BY <2>1
  <2>3. \A n \in 1 .. a4' : G1(n)
    BY <1>2, <2>1
  <2>4. K1(0, a2'.version)
    OBVIOUS
  <2> HIDE DEF K, K1, G, G1, Cl, NR, CR, NS, Busy, Pl
  <2>5. K1(a2'.link, a2'.version)
    BY <1>2, <2>1, <2>2, <2>4
  <2>6. QED
    BY <1>1, <1>2, <1>3, <2>1, <2>2, <2>3, <2>5
<1>7. ASSUME NEW x \in Clippers,
             Clips!Look(x) \/ Clips!Fetch(x) \/ Clips!FetchFails(x) \/ Clips!Put(x)
             \/ Clips!Plain(x) \/ Clips!Archived(x) \/ Clips!Upload(x)
      PROVE  Clips!LinkInv'
  <2>1. /\ a5[x] \in {"look", "fetch", "put", "decide"}
        /\ \E p \in Pl \ Busy : a5' = [a5 EXCEPT ![x] = p]
        /\ UNCHANGED <<a1, a3, a4, a7, a11, a12>>
    BY <1>7 DEF Clips!Look, Clips!Fetch, Clips!FetchFails, Clips!Put, Clips!Plain, Clips!Archived,
                Clips!Upload, Clips!To, Clips!noteVars
  <2>2. /\ a6' = a6 \/ a6' = [a6 EXCEPT ![x] = a2] \/ a6' = [a6 EXCEPT ![x] = [version |-> a1, link |-> 0]]
        /\ a2' = a2 \/ a2' = Clips!NoClip \/ (a2' = a6[x] /\ a6' = a6)
        /\ a8' = a8 \/ (a8' = [a8 EXCEPT ![x] = a6[x].link] /\ a6' = a6 /\ a5' = [a5 EXCEPT ![x] = "done"])
    BY <1>7 DEF Clips!Look, Clips!Fetch, Clips!FetchFails, Clips!Put, Clips!Plain, Clips!Archived,
                Clips!Upload, Clips!To, Clips!noteVars
  <2>3. PICK p \in Pl \ Busy : a5' = [a5 EXCEPT ![x] = p]
    BY <2>1
  <2>4. \A v : K(0, v)
    OBVIOUS
  <2>5. a8[x] = 0 /\ a5[x] \notin Busy /\ a5[x] # "done" /\ a6[x] \in CR
    BY <1>1, <1>5, <2>1
  <2>6. [version |-> a1, link |-> 0] \in CR /\ Clips!NoClip \in CR /\ Clips!NoClip.link = 0
    BY <1>1 DEF Clips!NoClip
  <2>7. CR = [version : Nat, link : NS \cup {0}]
    OBVIOUS
  <2>8. a6[x].link \in NS \cup {0}
    BY <1>1
  <2> HIDE DEF K, CR, NS
  <2>9. /\ a6' \in [Clippers -> CR] /\ \A c \in Clippers \ {x} : a6'[c] = a6[c]
    BY <1>1, <2>2, <2>6
  <2>10. K(a6'[x].link, a6'[x].version)
    <3>1. a6'[x] = a6[x] \/ a6'[x] = a2 \/ a6'[x] = [version |-> a1, link |-> 0]
      BY <1>1, <2>2
    <3>2. CASE a6'[x] = [version |-> a1, link |-> 0]
      BY <2>4, <3>2
    <3>3. QED
      BY <1>2, <3>1, <3>2
  <2>11. /\ a8' \in [Clippers -> NS \cup {0}] /\ \A c \in Clippers \ {x} : a8'[c] = a8[c]
    BY <1>1, <2>2, <2>8
  <2>12. a8'[x] = 0 \/ (a5'[x] = "done" /\ K(a8'[x], a6'[x].version))
    BY <1>1, <1>2, <2>2, <2>5
  <2>13. a5'[x] = p
    BY <1>1, <2>3
  <2>14. a2' \in CR /\ K(a2'.link, a2'.version)
    BY <1>1, <1>2, <2>2, <2>4, <2>5, <2>6
  <2> HIDE DEF Pl, Busy
  <2>15. QED
    BY <1>4, <2>1, <2>3, <2>5, <2>9, <2>10, <2>11, <2>12, <2>13, <2>14
\* A note is made, by a call that keeps it or does not know of it.
<1>8. ASSUME NEW x \in Clippers, NEW p \in Pl, a5[x] = "create", Clips!Made(x), a5' = [a5 EXCEPT ![x] = p],
             \/ p = "everyone" /\ a7' = [a7 EXCEPT ![x] = a4 + 1] /\ a12' = a12
             \/ p \notin Busy /\ a7' = a7 /\ a12' = a12 \cup {a4 + 1},
             UNCHANGED <<a1, a2, a6, a8, a11>>
      PROVE  Clips!LinkInv'
  <2> DEFINE w == [version |-> a6[x].version, groups |-> a11.groups, visible |-> a11.visible,
                   owner |-> "bot", there |-> TRUE]
  <2>1. a4 < MaxNotes /\ a4' = a4 + 1 /\ a3' = [a3 EXCEPT ![a4 + 1] = w]
    BY <1>8 DEF Clips!Made
  <2>2. w \in NR /\ w.there /\ w.version = a6[x].version
    BY <1>1
  <2> HIDE DEF w
  <2>3. /\ a4' \in 0 .. MaxNotes /\ a4' \in NS /\ a4' # 0 /\ 1 .. a4' = (1 .. a4) \cup {a4'}
        /\ a4' \notin 1 .. a4 /\ 1 .. a4 \subseteq NS /\ 0 .. a4 \subseteq 0 .. a4' /\ a4' \notin 0 .. a4
        /\ a4' \in 0 .. a4' /\ a4 + 1 = a4'
    BY <1>1, <2>1, ClipsAssumption
  <2>4. a3' \in [NS -> NR] /\ a3'[a4'] = w /\ \A n \in 1 .. a4 : a3'[n] = a3[n]
    BY <1>1, <2>1, <2>2, <2>3
  <2>5. /\ a5' \in [Clippers -> Pl] /\ a5'[x] = p /\ a7[x] = 0 /\ a8[x] = 0
        /\ \A c \in Clippers \ {x} : a5'[c] = a5[c]
    <3>1. a5' \in [Clippers -> Pl] /\ a5'[x] = p /\ \A c \in Clippers \ {x} : a5'[c] = a5[c]
      BY <1>1, <1>8
    <3>2. a7[x] = 0
      BY <1>2, <1>8
    <3>3. QED
      BY <1>5, <1>8, <3>1, <3>2
  <2>6. /\ a7' \in [Clippers -> 0 .. a4'] /\ \A c \in Clippers \ {x} : a7'[c] = a7[c]
        /\ (p = "everyone" /\ a7'[x] = a4' /\ a12' = a12) \/ (p \notin Busy /\ a7'[x] = 0 /\ a4' \in a12')
        /\ a12 \subseteq a12'
    <3>1. a7 \in [Clippers -> 0 .. a4']
      BY <1>1, <2>3
    <3>2. CASE p = "everyone" /\ a7' = [a7 EXCEPT ![x] = a4 + 1] /\ a12' = a12
      BY <2>3, <3>1, <3>2
    <3>3. CASE p \notin Busy /\ a7' = a7 /\ a12' = a12 \cup {a4 + 1}
      BY <2>3, <2>5, <3>1, <3>3
    <3>4. QED
      BY <1>8, <3>2, <3>3
  <2>7. \A c \in Clippers : a7'[c] = a7[c] \/ a7'[c] = a4'
    BY <2>5, <2>6
  <2>8. \A l, v : K(l, v) => K1(l, v)
    <3>1. SUFFICES ASSUME NEW l, NEW v, K(l, v), l # 0 PROVE K1(l, v)
      OBVIOUS
    <3>2. l \in 1 .. a4 /\ P(l) /\ a3[l].version = v /\ \A c \in Clippers : a7[c] # l
      BY <3>1
    <3>3. l \in 1 .. a4' /\ l # a4' /\ a3'[l] = a3[l]
      BY <2>3, <2>4, <3>2
    <3>4. QED
      BY <2>7, <3>2, <3>3
  <2>9. \A n \in 1 .. a4 : G1(n)
    <3>1. SUFFICES ASSUME NEW n \in 1 .. a4 PROVE G1(n)
      OBVIOUS
    <3>2. G(n) /\ a3'[n] = a3[n] /\ n # 0
      BY <1>2, <2>4
    <3>3. \A c \in Clippers : a7[c] = n => a7'[c] = n
      BY <2>5, <2>6, <3>2
    <3>4. QED
      BY <2>6, <3>2, <3>3
  <2>10. G1(a4')
    BY <2>6
  <2>11. p = "everyone" => Cl(a3'[a7'[x]], a6'[x].version, a5'[x])
    BY <1>8, <2>2, <2>4, <2>5, <2>6
  <2>12. \A c \in Clippers \ {x} : a7'[c] # 0 => a7'[c] \in 1 .. a4 /\ a3'[a7'[c]] = a3[a7[c]]
    BY <1>1, <2>4, <2>6
  <2>13. "everyone" \in Busy /\ Busy \subseteq Pl
    OBVIOUS
  <2> HIDE DEF K, K1, G, G1, Cl, NR, CR, NS, Busy, Pl
  <2>14. \A c \in Clippers : a7'[c] # 0 <=> a5'[c] \in Busy
    BY <1>2, <2>3, <2>5, <2>6, <2>13
  <2>15. \A c \in Clippers : a7'[c] # 0 /\ a5'[c] # "delete" => Cl(a3'[a7'[c]], a6'[c].version, a5'[c])
    <3>1. SUFFICES ASSUME NEW c \in Clippers, a7'[c] # 0, a5'[c] # "delete"
                   PROVE Cl(a3'[a7'[c]], a6'[c].version, a5'[c])
      OBVIOUS
    <3>2. CASE c = x
      BY <2>6, <2>11, <3>1, <3>2
    <3>3. CASE c # x
      BY <1>2, <1>8, <2>5, <2>6, <2>12, <3>1, <3>3
    <3>4. QED
      BY <3>2, <3>3
  <2>16. \A c, b \in Clippers : a7'[c] # 0 /\ a7'[c] = a7'[b] => c = b
    BY <1>1, <1>2, <2>3, <2>6
  <2>17. \A c \in Clippers : K1(a6'[c].link, a6'[c].version) /\ K1(a8'[c], a6'[c].version)
    BY <1>2, <1>8, <2>8
  <2>18. \A c \in Clippers : a8'[c] # 0 => a5'[c] = "done"
    BY <1>2, <1>8, <2>5
  <2>19. K1(a2'.link, a2'.version)
    BY <1>2, <1>8, <2>8
  <2>20. QED
    BY <1>1, <1>3, <1>8, <2>3, <2>4, <2>5, <2>6, <2>9, <2>10, <2>14, <2>15, <2>16, <2>17, <2>18, <2>19
<1>9. ASSUME NEW x \in Clippers, Clips!Create(x) \/ Clips!CreateFails(x) PROVE Clips!LinkInv'
  <2>1. CASE Clips!Create(x)
    <3>1. /\ a5[x] = "create" /\ Clips!Made(x) /\ a5' = [a5 EXCEPT ![x] = "everyone"]
          /\ a7' = [a7 EXCEPT ![x] = a4 + 1] /\ UNCHANGED <<a1, a2, a6, a8, a11, a12>>
      BY <2>1 DEF Clips!Create, Clips!To
    <3>2. QED
      BY <1>8, <3>1
  <2>2. CASE Clips!CreateFails(x)
    <3>1. /\ a5[x] = "create" /\ UNCHANGED <<a1, a2, a6, a7, a8, a11>>
          /\ UNCHANGED <<a3, a4, a12>> \/ (Clips!Made(x) /\ a12' = a12 \cup {a4 + 1})
          /\ \E p \in Pl \ Busy : a5' = [a5 EXCEPT ![x] = p]
      BY <2>2 DEF Clips!CreateFails, Clips!To, Clips!noteVars
    <3>2. PICK p \in Pl \ Busy : a5' = [a5 EXCEPT ![x] = p]
      BY <3>1
    <3>3. a5[x] \notin Busy /\ a5[x] # "done" /\ p \in Pl /\ p \notin Busy
      BY <3>1
    <3>4. CASE UNCHANGED <<a3, a4, a12>>
      <4>1. a6' = a6 /\ a8' = a8 /\ a2' = a2 /\ a8'[x] = 0
        BY <1>5, <3>1
      <4>2. K(a6'[x].link, a6'[x].version) /\ K(a2'.link, a2'.version)
        BY <1>2, <4>1
      <4> HIDE DEF K, CR, NS, Pl, Busy
      <4>3. QED
        BY <1>1, <1>4, <3>1, <3>2, <3>3, <3>4, <4>1, <4>2
    <3>5. CASE Clips!Made(x) /\ a12' = a12 \cup {a4 + 1}
      <4> HIDE DEF K, CR, NS, Pl, Busy
      <4>1. QED
        BY <1>8, <3>1, <3>2, <3>3, <3>5
    <3>6. QED
      BY <3>1, <3>4, <3>5
  <2>3. QED
    BY <1>9, <2>1, <2>2
\* A request about the note that a call is making.
<1>10. ASSUME NEW x \in Clippers, NEW w \in NR, a7[x] # 0, a3' \in {a3, [a3 EXCEPT ![a7[x]] = w]}
       PROVE  /\ a7[x] \in 1 .. a4 /\ a7[x] \in NS /\ a3' \in [NS -> NR] /\ a3'[a7[x]] \in {a3[a7[x]], w}
              /\ a3' # a3 => a3'[a7[x]] = w
              /\ \A n \in NS \ {a7[x]} : a3'[n] = a3[n]
              /\ \A c \in Clippers \ {x} : a7[c] # 0 => a7[c] \in NS /\ a7[c] # a7[x]
  <2>1. a7[x] \in 1 .. a4 /\ 1 .. a4 \subseteq NS /\ \A c \in Clippers : a7[c] # 0 => a7[c] \in 1 .. a4
    BY <1>1, <1>10, ClipsAssumption
  <2>2. \A c \in Clippers \ {x} : a7[c] # 0 => a7[c] # a7[x]
    BY <1>2
  <2> HIDE DEF NS, NR
  <2>3. QED
    BY <1>1, <1>10, <2>1, <2>2
<1>11. ASSUME NEW x \in Clippers, NEW w \in NR, NEW p \in Busy, a7[x] # 0,
              a3' \in {a3, [a3 EXCEPT ![a7[x]] = w]}, a5' = [a5 EXCEPT ![x] = p],
              p # "delete" => Cl(a3'[a7[x]], a6[x].version, p),
              UNCHANGED <<a1, a2, a4, a6, a7, a8, a11, a12>>
       PROVE  Clips!LinkInv'
  <2>1. /\ a7[x] \in NS /\ a3' \in [NS -> NR] /\ \A n \in NS \ {a7[x]} : a3'[n] = a3[n]
        /\ \A c \in Clippers \ {x} : a7[c] # 0 => a7[c] \in NS /\ a7[c] # a7[x]
    BY <1>10, <1>11
  <2>2. p \in Pl /\ a5[x] \in Busy /\ a5[x] # "done" /\ a8[x] = 0
    <3>1. a5[x] \in Busy
      BY <1>2, <1>11
    <3>2. QED
      BY <1>5, <3>1
  <2>3. 1 .. a4 \subseteq NS
    BY <1>1, ClipsAssumption
  <2>4. \A l, v : K(l, v) => K1(l, v)
    <3>1. SUFFICES ASSUME NEW l, NEW v, K(l, v), l # 0 PROVE K1(l, v)
      OBVIOUS
    <3>2. l \in 1 .. a4 /\ P(l) /\ a3[l].version = v /\ \A c \in Clippers : a7[c] # l
      BY <3>1
    <3>3. a3'[l] = a3[l]
      BY <2>1, <2>3, <3>2
    <3>4. QED
      BY <1>11, <3>2, <3>3
  <2>5. \A n \in 1 .. a4' : G1(n)
    <3>1. SUFFICES ASSUME NEW n \in 1 .. a4 PROVE G1(n)
      BY <1>11
    <3>2. CASE n = a7[x]
      BY <1>11, <3>2
    <3>3. CASE n # a7[x]
      <4>1. a3'[n] = a3[n] /\ G(n)
        BY <1>2, <2>1, <2>3, <3>3
      <4>2. QED
        BY <1>11, <4>1
    <3>4. QED
      BY <3>2, <3>3
  <2> HIDE DEF K, K1, G, G1, Cl, NR, CR, NS, Busy, Pl
  <2>6. a5' \in [Clippers -> Pl] /\ a5'[x] = p /\ \A c \in Clippers \ {x} : a5'[c] = a5[c]
    BY <1>1, <1>11, <2>2
  <2>7. \A c \in Clippers : a7'[c] # 0 <=> a5'[c] \in Busy
    BY <1>2, <1>11, <2>6
  <2>8. \A c \in Clippers : a7'[c] # 0 /\ a5'[c] # "delete" => Cl(a3'[a7'[c]], a6'[c].version, a5'[c])
    <3>1. SUFFICES ASSUME NEW c \in Clippers, a7[c] # 0, a5'[c] # "delete"
                   PROVE Cl(a3'[a7[c]], a6[c].version, a5'[c])
      BY <1>11
    <3>2. CASE c = x
      BY <1>11, <2>6, <3>1, <3>2
    <3>3. CASE c # x
      BY <1>2, <2>1, <2>6, <3>1, <3>3
    <3>4. QED
      BY <3>2, <3>3
  <2>9. \A c \in Clippers : K1(a6'[c].link, a6'[c].version) /\ K1(a8'[c], a6'[c].version)
    BY <1>2, <1>11, <2>4
  <2>10. \A c \in Clippers : a8'[c] # 0 => a5'[c] = "done"
    BY <1>2, <1>11, <2>2, <2>6
  <2>11. K1(a2'.link, a2'.version)
    BY <1>2, <1>11, <2>4
  <2>12. QED
    BY <1>1, <1>2, <1>3, <1>11, <2>1, <2>5, <2>6, <2>7, <2>8, <2>9, <2>10, <2>11
\* The note of such a call, by where it is.
<1>12. ASSUME NEW x \in Clippers, a5[x] \in Busy
       PROVE  /\ a7[x] # 0 /\ a7[x] \in 1 .. a4 /\ a7[x] \in NS /\ a3[a7[x]] \in NR
              /\ a5[x] # "delete" => Cl(a3[a7[x]], a6[x].version, a5[x])
  <2>1. a7[x] # 0
    BY <1>2, <1>12
  <2>2. a7[x] \in 1 .. a4 /\ 1 .. a4 \subseteq NS
    BY <1>1, <2>1, ClipsAssumption
  <2> HIDE DEF NS, NR, Cl, Busy
  <2>3. QED
    BY <1>1, <1>2, <2>1, <2>2
<1>13. ASSUME NEW x \in Clippers,
              Clips!CloseGroup(x, "everyone", "logged_in") \/ Clips!CloseGroup(x, "logged_in", "hide")
       PROVE  Clips!LinkInv'
  <2>1. PICK g \in Gr :
          /\ a5[x] = g
          /\ Clips!CloseGroup(x, g, IF g = "everyone" THEN "logged_in" ELSE "hide")
    BY <1>13 DEF Clips!CloseGroup, Clips!Ask
  <2> DEFINE v == [a3[a7[x]] EXCEPT !.groups = @ \ {g}]
             q == IF g = "everyone" THEN "logged_in" ELSE "hide"
  <2>2. /\ UNCHANGED <<a1, a2, a4, a6, a7, a8, a11, a12>>
        /\ \/ a3' = [a3 EXCEPT ![a7[x]] = v] /\ a5' = [a5 EXCEPT ![x] = q]
           \/ a3' \in {a3, [a3 EXCEPT ![a7[x]] = v]} /\ a5' = [a5 EXCEPT ![x] = "delete"]
    BY <2>1 DEF Clips!CloseGroup, Clips!Ask, Clips!Done, Clips!Seems, Clips!Steady, Clips!To, Clips!Note
  <2>3. /\ a7[x] # 0 /\ a7[x] \in NS /\ a3[a7[x]] \in NR /\ Cl(a3[a7[x]], a6[x].version, g)
    BY <1>12, <2>1
  <2>4. v \in NR /\ v.groups = a3[a7[x]].groups \ {g} /\ v.there = a3[a7[x]].there /\ v.version = a3[a7[x]].version
    BY <2>3
  <2>5. q \in Busy /\ q \in {"logged_in", "hide"} /\ (q = "hide" => g = "logged_in") /\ "delete" \in Busy
    OBVIOUS
  <2>6. Cl(v, a6[x].version, q)
    <3>1. v.there /\ v.version = a6[x].version
      BY <2>3, <2>4
    <3>2. "everyone" \notin v.groups
      BY <2>1, <2>3, <2>4
    <3>3. q = "hide" => v.groups = {}
      <4>1. a3[a7[x]].groups \subseteq Gr
        BY <2>3
      <4>2. QED
        BY <2>4, <2>5, <3>2, <4>1
    <3>4. QED
      BY <2>5, <3>1, <3>2, <3>3
  <2>7. a3' = [a3 EXCEPT ![a7[x]] = v] => a3'[a7[x]] = v
    BY <1>1, <2>3
  <2> HIDE DEF v, q, NR, NS, Cl, Busy
  <2>8. CASE a3' = [a3 EXCEPT ![a7[x]] = v] /\ a5' = [a5 EXCEPT ![x] = q]
    BY <1>11, <2>2, <2>3, <2>4, <2>5, <2>6, <2>7, <2>8
  <2>9. CASE a3' \in {a3, [a3 EXCEPT ![a7[x]] = v]} /\ a5' = [a5 EXCEPT ![x] = "delete"]
    BY <1>11, <2>2, <2>3, <2>4, <2>5, <2>9
  <2>10. QED
    BY <2>2, <2>8, <2>9
<1>14. ASSUME NEW x \in Clippers, Clips!Hide(x) PROVE Clips!LinkInv'
  <2> DEFINE v == [a3[a7[x]] EXCEPT !.visible = FALSE]
  <2>1. /\ a5[x] = "hide" /\ UNCHANGED <<a1, a2, a4, a6, a7, a8, a11, a12>>
        /\ \/ a3' = [a3 EXCEPT ![a7[x]] = v] /\ a5' = [a5 EXCEPT ![x] = "transfer"]
           \/ a3' \in {a3, [a3 EXCEPT ![a7[x]] = v]} /\ a5' = [a5 EXCEPT ![x] = "delete"]
    BY <1>14 DEF Clips!Hide, Clips!Ask, Clips!Done, Clips!Seems, Clips!Steady, Clips!To, Clips!Note
  <2>2. /\ a7[x] # 0 /\ a7[x] \in NS /\ a3[a7[x]] \in NR /\ Cl(a3[a7[x]], a6[x].version, "hide")
    BY <1>12, <2>1
  <2>3. /\ v \in NR /\ v.groups = a3[a7[x]].groups /\ v.there = a3[a7[x]].there
        /\ v.version = a3[a7[x]].version /\ ~ v.visible
    BY <2>2
  <2>4. Cl(v, a6[x].version, "transfer")
    BY <2>2, <2>3
  <2>5. a3' = [a3 EXCEPT ![a7[x]] = v] => a3'[a7[x]] = v
    BY <1>1, <2>2
  <2>6. "transfer" \in Busy /\ "delete" \in Busy
    OBVIOUS
  <2> HIDE DEF v, NR, NS, Cl, Busy
  <2>7. CASE a3' = [a3 EXCEPT ![a7[x]] = v] /\ a5' = [a5 EXCEPT ![x] = "transfer"]
    BY <1>11, <2>1, <2>2, <2>3, <2>4, <2>5, <2>6, <2>7
  <2>8. CASE a3' \in {a3, [a3 EXCEPT ![a7[x]] = v]} /\ a5' = [a5 EXCEPT ![x] = "delete"]
    BY <1>11, <2>1, <2>2, <2>3, <2>6, <2>8
  <2>9. QED
    BY <2>1, <2>7, <2>8
<1>15. ASSUME NEW x \in Clippers, Clips!Transfer(x) PROVE Clips!LinkInv'
  <2> DEFINE v == [a3[a7[x]] EXCEPT !.owner = "user"]
  <2>1. /\ a5[x] = "transfer" /\ UNCHANGED <<a1, a2, a4, a6, a7, a8, a11, a12>>
        /\ a3' \in {a3, [a3 EXCEPT ![a7[x]] = v]} /\ a5' = [a5 EXCEPT ![x] = "link"]
    BY <1>15 DEF Clips!Transfer, Clips!Ask, Clips!Done, Clips!Seems, Clips!Steady, Clips!To, Clips!Note
  <2>2. /\ a7[x] # 0 /\ a7[x] \in NS /\ a3[a7[x]] \in NR /\ Cl(a3[a7[x]], a6[x].version, "transfer")
    BY <1>12, <2>1
  <2>3. /\ v \in NR /\ v.groups = a3[a7[x]].groups /\ v.there = a3[a7[x]].there
        /\ v.version = a3[a7[x]].version /\ v.visible = a3[a7[x]].visible
    BY <2>2
  <2>4. Cl(v, a6[x].version, "link") /\ Cl(a3[a7[x]], a6[x].version, "link")
    BY <2>2, <2>3
  <2>5. a3'[a7[x]] = v \/ a3'[a7[x]] = a3[a7[x]]
    <3>1. CASE a3' = a3
      BY <3>1
    <3>2. CASE a3' = [a3 EXCEPT ![a7[x]] = v]
      BY <1>1, <2>2, <3>2
    <3>3. QED
      BY <2>1, <3>1, <3>2
  <2>6. "link" \in Busy
    OBVIOUS
  <2> HIDE DEF v, NR, NS, Cl, Busy
  <2>7. Cl(a3'[a7[x]], a6[x].version, "link")
    BY <2>4, <2>5
  <2>8. QED
    BY <1>11, <2>1, <2>2, <2>3, <2>6, <2>7
\* A call that lets its note go: it is removed, or the link to it is kept.
<1>16. ASSUME NEW x \in Clippers, NEW w \in NR, a5[x] \in Busy, a3' \in {a3, [a3 EXCEPT ![a7[x]] = w]},
              a5' = [a5 EXCEPT ![x] = "done"], a7' = [a7 EXCEPT ![x] = 0], a12 \subseteq a12',
              UNCHANGED <<a1, a4, a6, a11>>, a8' \in [Clippers -> NS \cup {0}], a2' \in CR,
              \A c \in Clippers \ {x} : a8'[c] = a8[c], G1(a7[x]),
              a8'[x] = a8[x] \/ (a8'[x] = a7[x] /\ P1(a7[x]) /\ a3'[a7[x]].version = a6[x].version),
              \/ a2' = a2
              \/ /\ a2' = [version |-> a6[x].version, link |-> a7[x]]
                 /\ P1(a7[x]) /\ a3'[a7[x]].version = a6[x].version
       PROVE  Clips!LinkInv'
  <2>1. /\ a7[x] # 0 /\ a7[x] \in NS /\ a7[x] \in 1 .. a4 /\ a3' \in [NS -> NR]
        /\ \A n \in NS \ {a7[x]} : a3'[n] = a3[n]
        /\ \A c \in Clippers \ {x} : a7[c] # 0 => a7[c] \in NS /\ a7[c] # a7[x]
    BY <1>10, <1>12, <1>16
  <2>2. /\ "done" \in Pl /\ a8[x] = 0 /\ 0 \in 0 .. a4 /\ 1 .. a4 \subseteq NS /\ "done" \notin Busy
    <3>1. a5[x] # "done"
      BY <1>16
    <3>2. QED
      BY <1>1, <1>5, <3>1, ClipsAssumption
  <2>3. /\ a5' \in [Clippers -> Pl] /\ a5'[x] = "done" /\ \A c \in Clippers \ {x} : a5'[c] = a5[c]
    BY <1>1, <1>16, <2>2
  <2>4. /\ a7' \in [Clippers -> 0 .. a4'] /\ a7'[x] = 0 /\ \A c \in Clippers \ {x} : a7'[c] = a7[c]
    BY <1>1, <1>16, <2>2
  <2>5. \A l, v : K(l, v) => K1(l, v)
    <3>1. SUFFICES ASSUME NEW l, NEW v, K(l, v), l # 0 PROVE K1(l, v)
      OBVIOUS
    <3>2. l \in 1 .. a4 /\ P(l) /\ a3[l].version = v /\ \A c \in Clippers : a7[c] # l
      BY <3>1
    <3>3. a3'[l] = a3[l]
      BY <2>1, <2>2, <3>2
    <3>4. \A c \in Clippers : a7'[c] # l
      BY <2>4, <3>1, <3>2
    <3>5. QED
      BY <1>16, <3>2, <3>3, <3>4
  <2>6. \A n \in 1 .. a4' : G1(n)
    <3>1. SUFFICES ASSUME NEW n \in 1 .. a4, n # a7[x] PROVE G1(n)
      BY <1>16
    <3>2. a3'[n] = a3[n] /\ G(n)
      BY <1>2, <2>1, <2>2, <3>1
    <3>3. \A c \in Clippers : a7[c] = n => a7'[c] = n
      BY <2>4, <3>1
    <3>4. QED
      BY <1>16, <3>2, <3>3
  <2>7. P1(a7[x]) /\ a3'[a7[x]].version = a6[x].version => K1(a7[x], a6[x].version)
    <3>1. \A c \in Clippers : a7'[c] # a7[x]
      BY <2>1, <2>4
    <3>2. QED
      BY <1>16, <2>1, <3>1
  <2>8. K1(0, a6[x].version)
    OBVIOUS
  <2>9. a2' = [version |-> a6[x].version, link |-> a7[x]] => a2'.link = a7[x] /\ a2'.version = a6[x].version
    OBVIOUS
  <2> HIDE DEF K, K1, G, G1, Cl, NR, CR, NS, Busy, Pl, P1
  <2>10. K1(a2'.link, a2'.version)
    BY <1>2, <1>16, <2>5, <2>7, <2>9
  <2>11. \A c \in Clippers : K1(a6'[c].link, a6'[c].version)
    BY <1>2, <1>16, <2>5
  <2>12. \A c \in Clippers : K1(a8'[c], a6'[c].version)
    <3>1. SUFFICES ASSUME NEW c \in Clippers PROVE K1(a8'[c], a6[c].version)
      BY <1>16
    <3>2. CASE c = x
      BY <1>16, <2>2, <2>7, <2>8, <3>2
    <3>3. CASE c # x
      BY <1>2, <1>16, <2>5, <3>3
    <3>4. QED
      BY <3>2, <3>3
  <2>13. \A c \in Clippers : a8'[c] # 0 => a5'[c] = "done"
    BY <1>2, <1>16, <2>3
  <2>14. \A c \in Clippers : a7'[c] # 0 <=> a5'[c] \in Busy
    BY <1>2, <2>2, <2>3, <2>4
  <2>15. \A c \in Clippers : a7'[c] # 0 /\ a5'[c] # "delete" => Cl(a3'[a7'[c]], a6'[c].version, a5'[c])
    BY <1>2, <1>16, <2>1, <2>3, <2>4
  <2>16. \A c, b \in Clippers : a7'[c] # 0 /\ a7'[c] = a7'[b] => c = b
    BY <1>2, <2>4
  <2>17. QED
    BY <1>1, <1>3, <1>16, <2>1, <2>3, <2>4, <2>6, <2>10, <2>11, <2>12, <2>13, <2>14, <2>15, <2>16
<1>17. ASSUME NEW x \in Clippers, Clips!Delete(x) PROVE Clips!LinkInv'
  <2> DEFINE v == [a3[a7[x]] EXCEPT !.there = FALSE]
  <2>1. /\ a5[x] = "delete" /\ a5' = [a5 EXCEPT ![x] = "done"] /\ a7' = [a7 EXCEPT ![x] = 0]
        /\ UNCHANGED <<a1, a2, a4, a6, a8, a11>> /\ a12 \subseteq a12'
        /\ \/ a3' = [a3 EXCEPT ![a7[x]] = v]
           \/ a3' \in {a3, [a3 EXCEPT ![a7[x]] = v]} /\ a7[x] \in a12'
    BY <1>17 DEF Clips!Delete, Clips!Done, Clips!Seems, Clips!Steady, Clips!To, Clips!Note
  <2>2. /\ a7[x] # 0 /\ a7[x] \in NS /\ a3[a7[x]] \in NR /\ a5[x] \in Busy
    BY <1>12, <2>1
  <2>3. v \in NR /\ ~ v.there
    BY <2>2
  <2>4. a3' = [a3 EXCEPT ![a7[x]] = v] => a3'[a7[x]] = v
    BY <1>1, <2>2
  <2>5. G1(a7[x])
    BY <2>1, <2>3, <2>4
  <2> HIDE DEF v, NR, NS, CR, Cl, G1, P1, Busy
  <2>6. QED
    BY <1>1, <1>16, <2>1, <2>2, <2>3, <2>5
<1>18. ASSUME NEW x \in Clippers, Clips!PutLink(x) PROVE Clips!LinkInv'
  <2>1. /\ a5[x] = "link" /\ a5' = [a5 EXCEPT ![x] = "done"] /\ a7' = [a7 EXCEPT ![x] = 0]
        /\ a8' = [a8 EXCEPT ![x] = a7[x]] /\ a2' = [version |-> a6[x].version, link |-> a7[x]]
        /\ UNCHANGED <<a1, a3, a4, a6, a11, a12>>
    BY <1>18 DEF Clips!PutLink, Clips!To, Clips!noteVars
  <2>2. /\ a7[x] # 0 /\ a7[x] \in NS /\ a3[a7[x]] \in NR /\ a5[x] \in Busy
        /\ Cl(a3[a7[x]], a6[x].version, "link")
    BY <1>12, <2>1
  <2>3. P1(a7[x]) /\ a3'[a7[x]].version = a6[x].version
    BY <2>1, <2>2
  <2>4. G1(a7[x])
    BY <2>3
  <2>5. a6[x].version \in Nat
    BY <1>1
  <2>6. a2' \in CR
    BY <2>1, <2>2, <2>5
  <2> HIDE DEF NR, NS, CR, Cl, G1, P1, Busy
  <2>7. a8' \in [Clippers -> NS \cup {0}] /\ a8'[x] = a7[x] /\ \A c \in Clippers \ {x} : a8'[c] = a8[c]
    BY <1>1, <2>1, <2>2
  <2>8. QED
    BY <1>16, <2>1, <2>2, <2>3, <2>4, <2>6, <2>7
<1>19. QED
  BY <1>6, <1>7, <1>9, <1>13, <1>14, <1>15, <1>17, <1>18 DEF Clips!Next

(* Backups: a1 is patient, a2 run, a3 phase, a4 left, a5 made, a6 halo, a7     *)
(* seen, a8 due, a9 previous, a10 local, a11 cloud, a12 status, a13 queue, a14  *)
(* at, a15 failed, a17 copy and a18 missed.                                 *)

LEMMA BackupInit == Backup!Init => Backup!SavedInv
<1> SUFFICES ASSUME Backup!Init PROVE Backup!SavedInv
  OBVIOUS
<1>1. /\ a1 \in BOOLEAN /\ a2 = 0 /\ a3 = "idle" /\ a4 = {} /\ a5 = {} /\ a6 = 1 /\ a7 = 0 /\ a9 = 0
      /\ a10 = {} /\ a11 = {} /\ a12 = Backup!NoStatus /\ a13 = [r \in Backup!Runs |-> {}]
      /\ a14 = [r \in Backup!Runs |-> "none"] /\ a15 = [r \in Backup!Runs |-> FALSE]
      /\ a17 = [r \in Backup!Runs |-> Backup!NoStatus] /\ a18 = {}
  BY DEF Backup!Init
<1>2. Backup!NoStatus \in Backup!Records /\ Backup!NoStatus.halo = 0 /\ Backup!NoStatus.sync = "none"
  BY BackupAssumption DEF Backup!NoStatus, Backup!Records
<1>3. Backup!BackupTypeOK
  BY <1>1, <1>2, BackupAssumption DEF Backup!BackupTypeOK
<1>4. Backup!AllSighted
  BY <1>1, <1>2 DEF Backup!AllSighted, Backup!Sighted
<1>5. Backup!MadeInTime /\ Backup!Waited
  BY <1>1, <1>2 DEF Backup!MadeInTime, Backup!Waited, Backup!OnTheWay, Backup!Uploading
<1>6. QED
  BY <1>3, <1>4, <1>5 DEF Backup!SavedInv

LEMMA BackupStep == ASSUME Backup!SavedInv, Backup!Next PROVE Backup!SavedInv'
<1> DEFINE Src == Others \cup {"halo", "media"}
           RS == 1 .. MaxRuns
           FS == [source : Src, run : RS, version : Nat]
           Sy == {"none", "pending", "uploading", "failed", "success"}
           RC == [run : 0 .. MaxRuns, files : SUBSET FS, halo : Nat, sync : Sy]
           Busy == {"media", "time", "clean", "collect", "recorded"}
           At == {"none", "begun", "sends", "read", "over"}
           S(v) == v # 0 => \E f \in a10 \cup a11 \cup a18 : f.source = "halo" /\ f.version >= v
           S1(v) == v # 0 => \E f \in a10' \cup a11' \cup a18' : f.source = "halo" /\ f.version >= v
           Up(r) == a14[r] \notin {"none", "over"}
           Up1(r) == a14'[r] \notin {"none", "over"}
           OW(r) == /\ Up(r) => a3 = "idle" /\ r = a2
                    /\ a14[r] = "begun" => a12.files \subseteq a10
                    /\ a14[r] = "sends" =>
                         a13[r] \subseteq a10 /\ (a15[r] \/ a12.files \subseteq a13[r] \cup a11)
                    /\ a14[r] = "read" => a15[r] \/ a17[r].files \subseteq a11
           OW1(r) == /\ Up1(r) => a3' = "idle" /\ r = a2'
                     /\ a14'[r] = "begun" => a12'.files \subseteq a10'
                     /\ a14'[r] = "sends" =>
                          a13'[r] \subseteq a10' /\ (a15'[r] \/ a12'.files \subseteq a13'[r] \cup a11')
                     /\ a14'[r] = "read" => a15'[r] \/ a17'[r].files \subseteq a11'
           Wt == /\ \A r \in RS : OW(r)
                 /\ a3 = "recorded" => a12.files = a5
                 /\ a12.sync = "success" => a12.files \subseteq a11
           Wt1 == /\ \A r \in RS : OW1(r)
                  /\ a3' = "recorded" => a12'.files = a5'
                  /\ a12'.sync = "success" => a12'.files \subseteq a11'
<1>1. /\ a2 \in 0 .. MaxRuns /\ a3 \in Busy \cup {"idle"} /\ a5 \subseteq a10
      /\ a10 \subseteq FS /\ a11 \subseteq FS /\ a18 \subseteq FS
      /\ a6 \in Nat /\ a7 \in Nat /\ a7 <= a6 /\ a9 \in Nat /\ a1 \in BOOLEAN
      /\ a4 \subseteq Others \cup {"halo"} /\ (a3 \in Busy => a2 # 0)
      /\ a12 \in RC /\ a17 \in [RS -> RC] /\ a15 \in [RS -> BOOLEAN]
      /\ a14 \in [RS -> At] /\ a13 \in [RS -> SUBSET FS]
  BY DEF Backup!SavedInv, Backup!BackupTypeOK, Backup!Records, Backup!Files, Backup!Runs, Backup!Halo, Backup!Media
<1>2. /\ S(a12.halo) /\ S(a9) /\ \A r \in RS : S(a17[r].halo)
      /\ a3 = "idle" => a5 = {}
      /\ \A f \in a5 : f.source # "media" => a3 \in {"collect", "recorded"}
      /\ \A f \in a5 : f.source = "halo" => f.version >= a7
      /\ a1 => Wt
  <2>1. S(a12.halo) /\ S(a9) /\ \A r \in RS : S(a17[r].halo)
    BY DEF Backup!SavedInv, Backup!AllSighted, Backup!Sighted, Backup!Runs, Backup!Halo
  <2>2. /\ a3 = "idle" => a5 = {}
        /\ \A f \in a5 : f.source # "media" => a3 \in {"collect", "recorded"}
        /\ \A f \in a5 : f.source = "halo" => f.version >= a7
    BY DEF Backup!SavedInv, Backup!MadeInTime, Backup!Halo, Backup!Media
  <2>3. a1 => Wt
    BY DEF Backup!SavedInv, Backup!Waited, Backup!OnTheWay, Backup!Uploading, Backup!Runs
  <2>4. QED
    BY <2>1, <2>2, <2>3
<1>3. ASSUME a1' = a1, a2' \in 0 .. MaxRuns, a3' \in Busy \cup {"idle"}, a5' \subseteq a10',
             a10' \subseteq FS, a11' \subseteq FS, a18' \subseteq FS,
             a6' \in Nat, a7' \in Nat, a7' <= a6', a9' \in Nat,
             a4' \subseteq Others \cup {"halo"}, a3' \in Busy => a2' # 0,
             a12' \in RC, a17' \in [RS -> RC], a15' \in [RS -> BOOLEAN],
             a14' \in [RS -> At], a13' \in [RS -> SUBSET FS],
             S1(a12'.halo), S1(a9'), \A r \in RS : S1(a17'[r].halo),
             a3' = "idle" => a5' = {},
             \A f \in a5' : f.source # "media" => a3' \in {"collect", "recorded"},
             \A f \in a5' : f.source = "halo" => f.version >= a7',
             a1 => Wt1
      PROVE  Backup!SavedInv'
  <2>1. a7' \in 0 .. a6'
    BY <1>3
  <2>2. Backup!BackupTypeOK'
    BY <1>1, <1>3, <2>1 DEF Backup!BackupTypeOK, Backup!Records, Backup!Files, Backup!Runs, Backup!Halo, Backup!Media
  <2>3. Backup!AllSighted'
    BY <1>3 DEF Backup!AllSighted, Backup!Sighted, Backup!Runs, Backup!Halo
  <2>4. Backup!MadeInTime'
    BY <1>3 DEF Backup!MadeInTime, Backup!Halo, Backup!Media
  <2>5. Backup!Waited'
    BY <1>3 DEF Backup!Waited, Backup!OnTheWay, Backup!Uploading, Backup!Runs
  <2>6. QED
    BY <2>2, <2>3, <2>4, <2>5 DEF Backup!SavedInv
\* Archives only become more, and a backup under way has the uploads wait.
<1>4. ASSUME a10 \subseteq a10', a11 \subseteq a11', a18 \subseteq a18'
      PROVE  \A v : S(v) => S1(v)
  BY <1>4
<1>5. ASSUME a1 => \A r \in RS : ~ Up(r), UNCHANGED a14 PROVE a1 => \A r \in RS : OW1(r)
  BY <1>5
<1>6. a1 /\ a3 \in Busy => \A r \in RS : ~ Up(r)
  BY <1>2
<1>7. CASE Backup!Change
  <2>1. a6' = a6 + 1 /\ UNCHANGED <<a1, a2, a3, a4, a5, a7, a8, a9, a10, a11, a12, a13, a14, a15, a17, a18>>
    BY <1>7 DEF Backup!Change, Backup!backupVars, Backup!uploadVars
  <2>2. a6' \in Nat /\ a7' <= a6'
    BY <1>1, <2>1
  <2>3. (\A v : S(v) => S1(v)) /\ (Wt => Wt1)
    BY <2>1
  <2> HIDE DEF S, S1, Wt, Wt1, RC, FS
  <2>4. QED
    BY <1>1, <1>2, <1>3, <2>1, <2>2, <2>3
<1>8. CASE Backup!Begin
  <2>1. /\ a3 = "idle" /\ a2 < MaxRuns /\ (a1 => \A r \in RS : ~ Up(r)) /\ a2' = a2 + 1 /\ a3' = "media"
        /\ a4' = Others \cup {"halo"} /\ a5' = {} /\ a7' = 0
        /\ UNCHANGED <<a1, a6, a9, a10, a11, a12, a13, a14, a15, a17, a18>>
    BY <1>8 DEF Backup!Begin, Backup!uploadVars, Backup!Uploading, Backup!Runs, Backup!Halo
  <2>2. a2' \in 0 .. MaxRuns /\ a2' # 0 /\ a7' \in Nat /\ a7' <= a6'
    BY <1>1, <2>1, BackupAssumption
  <2>3. \A v : S(v) => S1(v)
    BY <2>1
  <2>4. a1 => \A r \in RS : OW1(r)
    BY <1>5, <2>1
  <2>5. a1 => Wt1
    BY <1>2, <2>1, <2>4
  <2> HIDE DEF S, S1, Wt, Wt1, RC, FS
  <2>6. QED
    BY <1>1, <1>2, <1>3, <2>1, <2>2, <2>3, <2>5
<1>9. ASSUME NEW s \in Src, NEW v \in Nat, Backup!Archive(s, v), a3 \in Busy \ {"recorded"},
             a3' \in Busy \ {"recorded"}, a3 = "collect" => a3' = "collect",
             s # "media" => a3' = "collect", s = "halo" => v >= a7, a4' \subseteq a4,
             UNCHANGED <<a1, a2, a6, a7, a9, a11, a12, a13, a14, a15, a17, a18>>
      PROVE  Backup!SavedInv'
  <2> DEFINE file == [source |-> s, run |-> a2, version |-> v]
  <2>1. a2 \in RS
    BY <1>1, <1>9
  <2>2. file \in FS /\ file.source = s /\ file.version = v
    BY <2>1
  <2>3. (a5' = a5 \cup {file} /\ a10' = a10 \cup {file}) \/ UNCHANGED <<a5, a10>>
    BY <1>9 DEF Backup!Archive, Backup!File
  <2> HIDE DEF file
  <2>4. a5' \subseteq a10' /\ a10' \subseteq FS /\ a10 \subseteq a10' /\ a5' \subseteq a5 \cup {file}
    BY <1>1, <2>2, <2>3
  <2>5. \A x : S(x) => S1(x)
    BY <1>4, <1>9, <2>4
  <2>6. a1 => \A r \in RS : OW1(r)
    BY <1>5, <1>6, <1>9
  <2>7. a1 => Wt1
    BY <1>2, <1>9, <2>6
  <2>8. \A f \in a5' : f.source # "media" => a3' \in {"collect", "recorded"}
    BY <1>2, <1>9, <2>2, <2>4
  <2>9. \A f \in a5' : f.source = "halo" => f.version >= a7'
    BY <1>2, <1>9, <2>2, <2>4
  <2>10. a3' # "idle" /\ a2' # 0
    BY <1>1, <1>9
  <2> HIDE DEF S, S1, Wt, Wt1, RC, FS
  <2>11. QED
    BY <1>1, <1>2, <1>3, <1>9, <2>4, <2>5, <2>7, <2>8, <2>9, <2>10
<1>10. CASE Backup!DumpMedia
  <2>1. /\ a3 = "media" /\ a3' = "time" /\ Backup!Archive("media", 0)
        /\ UNCHANGED <<a1, a2, a4, a6, a7, a9, a11, a12, a13, a14, a15, a17, a18>>
    BY <1>10 DEF Backup!DumpMedia, Backup!uploadVars, Backup!Media
  <2>2. "media" \in Src /\ 0 \in Nat /\ "media" # "halo"
    OBVIOUS
  <2> HIDE DEF Src
  <2>3. QED
    BY <1>9, <2>1, <2>2
<1>11. ASSUME NEW s \in Others, Backup!Collect(s) PROVE Backup!SavedInv'
  <2>1. /\ a3 = "collect" /\ a3' = a3 /\ Backup!Archive(s, 0) /\ s # "halo" /\ a4' \subseteq a4
        /\ UNCHANGED <<a1, a2, a6, a7, a9, a11, a12, a13, a14, a15, a17, a18>>
    BY <1>11 DEF Backup!Collect, Backup!uploadVars, Backup!Halo
  <2>2. s \in Src /\ 0 \in Nat
    OBVIOUS
  <2> HIDE DEF Src
  <2>3. QED
    BY <1>9, <2>1, <2>2
<1>12. CASE Backup!CollectHalo
  <2>1. /\ a3 = "collect" /\ a3' = a3 /\ Backup!Archive("halo", a6) /\ a4' \subseteq a4
        /\ UNCHANGED <<a1, a2, a6, a7, a9, a11, a12, a13, a14, a15, a17, a18>>
    BY <1>12 DEF Backup!CollectHalo, Backup!Archive, Backup!uploadVars, Backup!Halo
  <2>2. "halo" \in Src /\ a6 \in Nat /\ a6 >= a7
    BY <1>1
  <2> HIDE DEF Src
  <2>3. QED
    BY <1>9, <2>1, <2>2
<1>13. CASE Backup!ReadTime
  <2>1. /\ a3 = "time" /\ a3' = "clean" /\ a7' \in {0, a6} /\ a9' = a12.halo
        /\ UNCHANGED <<a1, a2, a4, a5, a6, a10, a11, a12, a13, a14, a15, a17, a18>>
    BY <1>13 DEF Backup!ReadTime, Backup!uploadVars
  <2>2. a7' \in Nat /\ a7' <= a6' /\ a12.halo \in Nat
    BY <1>1, <2>1
  <2>3. \A v : S(v) => S1(v)
    BY <2>1
  <2>4. a1 => \A r \in RS : OW1(r)
    BY <1>5, <1>6, <2>1
  <2>5. a1 => Wt1
    BY <1>2, <2>1, <2>4
  <2>6. \A f \in a5' : f.source = "media"
    BY <1>2, <2>1
  <2> HIDE DEF S, S1, Wt, Wt1, RC, FS
  <2>7. QED
    BY <1>1, <1>2, <1>3, <2>1, <2>2, <2>3, <2>5, <2>6
<1>14. CASE Backup!Clean
  <2>1. /\ a3 = "clean" /\ a3' = "collect" /\ a10' = {f \in a10 : f.source = "media"}
        /\ a18' = a18 \cup {f \in a10 \ a11 : f.source = "halo"}
        /\ UNCHANGED <<a1, a2, a4, a5, a6, a7, a9, a11, a12, a13, a14, a15, a17>>
    BY <1>14 DEF Backup!Clean, Backup!uploadVars, Backup!Halo, Backup!Media
  <2>2. a5' \subseteq a10' /\ a10' \subseteq FS /\ a18' \subseteq FS
    BY <1>1, <1>2, <2>1
  <2>3. \A v : S(v) => S1(v)
    <3>1. \A f \in a10 \cup a11 \cup a18 : f.source = "halo" => f \in a11' \cup a18'
      BY <2>1
    <3>2. QED
      BY <3>1
  <2>4. a1 => \A r \in RS : OW1(r)
    BY <1>5, <1>6, <2>1
  <2>5. a1 => Wt1
    BY <1>2, <2>1, <2>4
  <2> HIDE DEF S, S1, Wt, Wt1, RC, FS
  <2>6. QED
    BY <1>1, <1>2, <1>3, <2>1, <2>2, <2>3, <2>5
<1>15. CASE Backup!Record
  <2> DEFINE h == IF ~ a8 THEN a9 ELSE IF Backup!Archived("halo") THEN a7 ELSE 0
  <2>1. /\ a3 = "collect" /\ a3' = "recorded"
        /\ a12' = [run |-> a2, files |-> a5, sync |-> "pending", halo |-> h]
        /\ UNCHANGED <<a1, a2, a4, a5, a6, a7, a9, a10, a11, a13, a14, a15, a17, a18>>
    BY <1>15 DEF Backup!Record, Backup!uploadVars, Backup!Halo
  <2>2. h = a9 \/ h = 0 \/ (h = a7 /\ Backup!Archived("halo"))
    OBVIOUS
  <2> HIDE DEF h
  <2>3. \A v : S(v) => S1(v)
    BY <2>1
  <2>4. S(h)
    <3>1. Backup!Archived("halo") => \E f \in a5 : f.source = "halo"
      BY DEF Backup!Archived
    <3>2. Backup!Archived("halo") => S(a7)
      BY <1>1, <1>2, <3>1
    <3>3. S(0)
      OBVIOUS
    <3> HIDE DEF S
    <3>4. QED
      BY <1>2, <2>2, <3>2, <3>3
  <2>5. h \in Nat /\ a5 \subseteq FS
    BY <1>1, <2>2
  <2>6. a12' \in RC /\ a12'.halo = h /\ a12'.files = a5 /\ a12'.sync = "pending"
    BY <1>1, <2>1, <2>5
  <2>7. a1 => \A r \in RS : OW1(r)
    BY <1>5, <1>6, <2>1
  <2>8. a1 => Wt1
    BY <2>1, <2>6, <2>7
  <2> HIDE DEF S, S1, Wt, Wt1, RC, FS
  <2>9. QED
    BY <1>1, <1>2, <1>3, <2>1, <2>3, <2>4, <2>6, <2>8
<1>16. CASE Backup!Launch
  <2>1. /\ a3 = "recorded" /\ a3' = "idle" /\ a12' = [a12 EXCEPT !.sync = "uploading"]
        /\ a14' \in {a14, [a14 EXCEPT ![a2] = "begun"]} /\ a5' = {} /\ a7' = 0 /\ a9' = 0
        /\ UNCHANGED <<a1, a2, a4, a6, a10, a11, a13, a15, a17, a18>>
    BY <1>16 DEF Backup!Launch
  <2>2. a12' \in RC /\ a12'.halo = a12.halo /\ a12'.files = a12.files /\ a12'.sync = "uploading"
    BY <1>1, <2>1
  <2>3. a14' \in [RS -> At] /\ \A r \in RS : a14'[r] = a14[r] \/ (r = a2 /\ a14'[r] = "begun")
    <3>1. CASE a14' = a14
      BY <1>1, <3>1
    <3>2. CASE a14' = [a14 EXCEPT ![a2] = "begun"]
      <4>1. "begun" \in At
        OBVIOUS
      <4> HIDE DEF At
      <4>2. QED
        BY <1>1, <3>2, <4>1
    <3>3. QED
      BY <2>1, <3>1, <3>2
  <2>4. \A v : S(v) => S1(v)
    BY <2>1
  <2>5. S1(0) /\ 0 \in Nat /\ 0 <= a6'
    BY <1>1, <2>1
  <2>6. a1 => Wt1
    <3>1. SUFFICES ASSUME a1 PROVE \A r \in RS : OW1(r)
      BY <2>1, <2>2
    <3>2. SUFFICES ASSUME NEW r \in RS PROVE OW1(r)
      OBVIOUS
    <3>3. ~ Up(r) /\ a12.files = a5
      BY <1>2, <1>6, <2>1, <3>1
    <3>4. a14'[r] \in {"none", "over"} \/ (r = a2' /\ a14'[r] = "begun")
      BY <2>1, <2>3, <3>3
    <3>5. a12'.files \subseteq a10'
      BY <1>1, <2>1, <2>2, <3>3
    <3>6. QED
      BY <2>1, <3>4, <3>5
  <2> HIDE DEF S, S1, Wt, Wt1, RC, FS, At
  <2>7. QED
    BY <1>1, <1>2, <1>3, <2>1, <2>2, <2>3, <2>4, <2>5, <2>6
\* A step of an upload: the backup stays as it is.
<1>17. ASSUME NEW x \in RS, UNCHANGED <<a1, a2, a3, a4, a5, a6, a7, a9, a10>>,
              a11 \subseteq a11', a11' \subseteq FS, a18 \subseteq a18', a18' \subseteq FS,
              a12' \in RC, a17' \in [RS -> RC], a15' \in [RS -> BOOLEAN],
              a14' \in [RS -> At], a13' \in [RS -> SUBSET FS],
              S1(a12'.halo), \A r \in RS : S1(a17'[r].halo), a1 => Wt1
       PROVE  Backup!SavedInv'
  <2>1. \A v : S(v) => S1(v)
    BY <1>4, <1>17
  <2> HIDE DEF S, S1, Wt, Wt1, RC, FS, At
  <2>2. QED
    BY <1>1, <1>2, <1>3, <1>17, <2>1
<1>18. ASSUME NEW x \in RS, Backup!List(x) PROVE Backup!SavedInv'
  <2>1. /\ a14[x] = "begun" /\ a13' = [a13 EXCEPT ![x] = a10] /\ a14' = [a14 EXCEPT ![x] = "sends"]
        /\ UNCHANGED <<a1, a2, a3, a4, a5, a6, a7, a9, a10, a11, a12, a15, a17, a18>>
    BY <1>18 DEF Backup!List, Backup!backupVars
  <2>2. /\ a13' \in [RS -> SUBSET FS] /\ a13'[x] = a10 /\ \A r \in RS \ {x} : a13'[r] = a13[r]
    BY <1>1, <2>1
  <2>3. /\ a14' \in [RS -> At] /\ a14'[x] = "sends" /\ \A r \in RS \ {x} : a14'[r] = a14[r]
    BY <1>1, <2>1
  <2>4. \A v : S(v) => S1(v)
    BY <2>1
  <2>5. a1 => Wt1
    <3>1. SUFFICES ASSUME a1, NEW r \in RS PROVE OW1(r)
      BY <1>2, <2>1
    <3>2. OW(r) /\ OW(x)
      BY <1>2, <3>1
    <3>3. CASE r = x
      BY <2>1, <2>2, <2>3, <3>2, <3>3
    <3>4. CASE r # x
      BY <2>1, <2>2, <2>3, <3>2, <3>4
    <3>5. QED
      BY <3>3, <3>4
  <2> HIDE DEF S, S1, Wt, Wt1, RC, FS, At
  <2>6. QED
    BY <1>1, <1>2, <1>17, <2>1, <2>2, <2>3, <2>4, <2>5
<1>19. ASSUME NEW x \in RS, NEW f \in a13[x],
              Backup!Send(x, f) \/ Backup!SendFails(x, f) \/ Backup!PassOver(x, f)
       PROVE  Backup!SavedInv'
  <2>1. /\ a13' = [a13 EXCEPT ![x] = @ \ {f}] /\ f \in FS
        /\ UNCHANGED <<a1, a2, a3, a4, a5, a6, a7, a9, a10, a12, a14, a17>>
        /\ \/ f \in a10 /\ a11' = a11 \cup {f} /\ UNCHANGED <<a15, a18>>
           \/ /\ a15' = [a15 EXCEPT ![x] = TRUE] /\ a18' = a18 \cup {y \in {f} : y.source = "halo"}
              /\ UNCHANGED a11
           \/ f \notin a10 /\ UNCHANGED <<a11, a15, a18>>
    <3>1. f \in FS
      BY <1>1
    <3>2. QED
      BY <1>19, <3>1 DEF Backup!Send, Backup!SendFails, Backup!PassOver, Backup!Unlisted, Backup!backupVars, Backup!Halo
  <2>2. /\ a13' \in [RS -> SUBSET FS] /\ a13'[x] = a13[x] \ {f} /\ \A r \in RS \ {x} : a13'[r] = a13[r]
    BY <1>1, <2>1
  <2>3. a11 \subseteq a11' /\ a11' \subseteq FS /\ a18 \subseteq a18' /\ a18' \subseteq FS
    BY <1>1, <2>1
  <2>4. a15' \in [RS -> BOOLEAN] /\ \A r \in RS : (a15[r] => a15'[r]) /\ (r # x => a15'[r] = a15[r])
    <3>1. a15' = a15 \/ a15' = [a15 EXCEPT ![x] = TRUE]
      BY <2>1
    <3>2. QED
      BY <1>1, <3>1
  <2>5. \A v : S(v) => S1(v)
    BY <1>4, <2>1, <2>3
  <2>6. a1 => Wt1
    <3>1. SUFFICES ASSUME a1, NEW r \in RS PROVE OW1(r)
      BY <1>2, <2>1, <2>3
    <3>2. OW(r)
      BY <1>2, <3>1
    <3>3. a14[r] = "read" => a15'[r] \/ a17[r].files \subseteq a11'
      BY <2>3, <2>4, <3>2
    <3>4. a14[r] = "sends" => a13'[r] \subseteq a10 /\ (a15'[r] \/ a12.files \subseteq a13'[r] \cup a11')
      <4>1. SUFFICES ASSUME a14[r] = "sends"
                     PROVE a13'[r] \subseteq a10 /\ (a15'[r] \/ a12.files \subseteq a13'[r] \cup a11')
        OBVIOUS
      <4>2. a13[r] \subseteq a10 /\ (a15[r] \/ a12.files \subseteq a13[r] \cup a11)
        BY <3>2, <4>1
      <4>3. a13'[r] \subseteq a13[r]
        BY <2>2
      <4>4. CASE r # x \/ a15[r]
        BY <2>2, <2>3, <2>4, <4>2, <4>3, <4>4
      <4>5. CASE r = x /\ ~ a15[r]
        <5>1. f \in a10 /\ a12.files \subseteq a13[x] \cup a11
          BY <4>2, <4>5
        <5>2. f \in a11' \/ a15'[x]
          <6>1. a15' = [a15 EXCEPT ![x] = TRUE] => a15'[x]
            BY <1>1
          <6>2. QED
            BY <2>1, <5>1, <6>1
        <5>3. QED
          BY <2>2, <2>3, <4>2, <4>3, <4>5, <5>1, <5>2
      <4>6. QED
        BY <4>4, <4>5
    <3>5. QED
      BY <2>1, <3>2, <3>3, <3>4
  <2> HIDE DEF S, S1, Wt, Wt1, RC, FS, At
  <2>7. QED
    BY <1>1, <1>2, <1>17, <2>1, <2>2, <2>3, <2>4, <2>5, <2>6
<1>20. ASSUME NEW x \in RS, Backup!ReadStatus(x) PROVE Backup!SavedInv'
  <2>1. /\ a14[x] = "sends" /\ a13[x] = {} /\ a17' = [a17 EXCEPT ![x] = a12]
        /\ a14' = [a14 EXCEPT ![x] = "read"]
        /\ UNCHANGED <<a1, a2, a3, a4, a5, a6, a7, a9, a10, a11, a12, a13, a15, a18>>
    BY <1>20 DEF Backup!ReadStatus, Backup!backupVars
  <2>2. /\ a14' \in [RS -> At] /\ a14'[x] = "read" /\ \A r \in RS \ {x} : a14'[r] = a14[r]
    BY <1>1, <2>1
  <2>3. \A v : S(v) => S1(v)
    BY <2>1
  <2> HIDE DEF RC
  <2>4. /\ a17' \in [RS -> RC] /\ a17'[x] = a12 /\ \A r \in RS \ {x} : a17'[r] = a17[r]
    BY <1>1, <2>1
  <2>5. a1 => Wt1
    <3>1. SUFFICES ASSUME a1, NEW r \in RS PROVE OW1(r)
      BY <1>2, <2>1
    <3>2. OW(r) /\ OW(x)
      BY <1>2, <3>1
    <3>3. CASE r = x
      BY <2>1, <2>2, <2>4, <3>2, <3>3
    <3>4. CASE r # x
      BY <2>1, <2>2, <2>4, <3>2, <3>4
    <3>5. QED
      BY <3>3, <3>4
  <2> HIDE DEF S, S1, Wt, Wt1, RC, FS, At
  <2>6. \A r \in RS : S1(a17'[r].halo)
    BY <1>2, <2>3, <2>4
  <2>7. QED
    BY <1>1, <1>2, <1>17, <2>1, <2>2, <2>3, <2>4, <2>5, <2>6
<1>21. ASSUME NEW x \in RS, Backup!WriteStatus(x) PROVE Backup!SavedInv'
  <2>1. /\ a14[x] = "read" /\ a14' = [a14 EXCEPT ![x] = "over"]
        /\ a12' = [a17[x] EXCEPT !.sync = IF a15[x] THEN "failed" ELSE "success"]
        /\ a17' = [a17 EXCEPT ![x] = Backup!NoStatus] /\ a15' = [a15 EXCEPT ![x] = FALSE]
        /\ UNCHANGED <<a1, a2, a3, a4, a5, a6, a7, a9, a10, a11, a13, a18>>
    BY <1>21 DEF Backup!WriteStatus, Backup!backupVars
  <2>2. /\ a14' \in [RS -> At] /\ a14'[x] = "over" /\ \A r \in RS \ {x} : a14'[r] = a14[r]
    BY <1>1, <2>1
  <2>3. \A v : S(v) => S1(v)
    BY <2>1
  <2>4. a17[x] \in RC /\ Backup!NoStatus \in RC /\ Backup!NoStatus.halo = 0
    BY <1>1, BackupAssumption DEF Backup!NoStatus
  <2>5. a12' \in RC /\ a12'.halo = a17[x].halo /\ a12'.files = a17[x].files
    BY <2>1, <2>4
  <2>6. a12'.sync = "success" => ~ a15[x]
    <3>1. a12'.sync = (IF a15[x] THEN "failed" ELSE "success")
      BY <2>1, <2>4
    <3>2. QED
      BY <3>1
  <2>7. a15' \in [RS -> BOOLEAN]
    BY <1>1, <2>1
  <2>8. a1 => Wt1
    <3>1. SUFFICES ASSUME a1 PROVE Wt1
      OBVIOUS
    <3>2. OW(x) /\ \A r \in RS : OW(r)
      BY <1>2, <3>1
    <3>3. a3 = "idle" /\ x = a2
      BY <2>1, <3>2
    <3>4. \A r \in RS : OW1(r)
      <4>1. SUFFICES ASSUME NEW r \in RS PROVE OW1(r)
        OBVIOUS
      <4>2. a14'[r] \in {"none", "over"}
        BY <2>2, <3>2, <3>3
      <4>3. QED
        BY <4>2
    <3>5. a12'.sync = "success" => a12'.files \subseteq a11'
      BY <2>1, <2>5, <2>6, <3>2
    <3>6. QED
      BY <2>1, <3>3, <3>4, <3>5
  <2>9. S1(0)
    OBVIOUS
  <2> HIDE DEF S, S1, Wt, Wt1, RC, FS, At
  <2>10. a17' \in [RS -> RC] /\ \A r \in RS : S1(a17'[r].halo)
    <3>1. a17' \in [RS -> RC] /\ a17'[x] = Backup!NoStatus /\ \A r \in RS \ {x} : a17'[r] = a17[r]
      BY <1>1, <2>1, <2>4
    <3>2. QED
      BY <1>2, <2>3, <2>4, <2>9, <3>1
  <2>11. QED
    BY <1>1, <1>2, <1>17, <2>1, <2>2, <2>3, <2>5, <2>7, <2>8, <2>10
<1>22. QED
  BY <1>7, <1>8, <1>10, <1>11, <1>12, <1>13, <1>14, <1>15, <1>16, <1>18, <1>19, <1>20, <1>21
  DEF Backup!Next, Backup!Runs

(* The machines together: only the one that the first state names moves.      *)

HostInv ==
  /\ part = "failover" => Failover!HeldInv
  /\ part = "proxy" => Proxy!SwitchInv
  /\ part = "backup" => Backup!SavedInv
  /\ part = "drift" => Drift!DriftInv
ContentInv ==
  /\ part = "clips" => Clips!LinkInv
  /\ part = "search" => Search!FollowInv
  /\ part = "digest" => Digest!OnceInv

\* A step of another kind leaves an invariant as it was.
LEMMA FailoverStays ==
  Failover!HeldInv /\ UNCHANGED <<a1, a2, a3, a4, a5, a6, a7, a8>> => Failover!HeldInv'
BY DEF Failover!HeldInv, Failover!OwnersTypeOK, Failover!OneLives, Failover!Alive, Failover!Counted,
   Failover!LastLeaves, Failover!StoppedLate, Failover!Holders, Failover!Leaving, Failover!Started
LEMMA ProxyStays ==
  Proxy!SwitchInv /\ UNCHANGED <<a1, a2, a3, a4, a5, a6, a7, a8, a9, a10, a11, a12>> => Proxy!SwitchInv'
BY DEF Proxy!SwitchInv, Proxy!SwitchTypeOK, Proxy!Locked, Proxy!MarkIsServed, Proxy!FlagFollows,
   Proxy!Actors, Proxy!Places
LEMMA BackupStays == Backup!SavedInv /\ UNCHANGED slots => Backup!SavedInv'
BY DEF slots, Backup!SavedInv, Backup!BackupTypeOK, Backup!AllSighted, Backup!Sighted, Backup!MadeInTime,
   Backup!Waited, Backup!OnTheWay, Backup!Uploading
LEMMA DriftStays ==
  Drift!DriftInv /\ UNCHANGED <<a1, a2, a3, a4, a5, a6, a7, a8, a9, a10, a11>> => Drift!DriftInv'
BY DEF Drift!DriftInv, Drift!DriftTypeOK, Drift!NoneAhead
LEMMA SearchStays ==
  Search!FollowInv /\ UNCHANGED <<a1, a2, a3, a4, a5, a6, a7, a8, a9, a10, a11, a12, a13>> => Search!FollowInv'
BY DEF Search!FollowInv, Search!SyncTypeOK, Search!InOrder, Search!Settled, Search!Excused, Search!NewSince,
   Search!Sending, Search!Ahead, Search!Left
LEMMA DigestStays ==
  Digest!OnceInv /\ UNCHANGED <<a1, a2, a3, a4, a5, a6, a7, a8, a9, a10, a11, a12, a13>> => Digest!OnceInv'
<1> SUFFICES ASSUME Digest!OnceInv, UNCHANGED <<a1, a2, a3, a4, a5, a6, a7, a8, a9, a10, a11, a12, a13>>
             PROVE  Digest!OnceInv'
  OBVIOUS
<1>1. Digest!Told' = Digest!Told /\ Digest!Computing' = Digest!Computing
  BY DEF Digest!Told, Digest!Computing
<1>2. Digest!Today' = Digest!Today
  BY <1>1 DEF Digest!Today
<1>3. Digest!DigestTypeOK'
  BY DEF Digest!OnceInv, Digest!DigestTypeOK
<1>4. Digest!ToldIsKnown'
  BY <1>1, <1>2 DEF Digest!OnceInv, Digest!ToldIsKnown
<1>5. Digest!ArticleOnce'
  BY DEF Digest!OnceInv, Digest!ArticleOnce
<1>6. QED
  BY <1>3, <1>4, <1>5 DEF Digest!OnceInv

LEMMA HostStep == HostInv /\ [ServicesNext]_serviceVars => HostInv'
<1> SUFFICES ASSUME HostInv, [ServicesNext]_serviceVars PROVE HostInv'
  OBVIOUS
<1>1. part' = part
  BY DEF ServicesNext, serviceVars
<1>2. CASE part = "failover"
  <2>1. Failover!Next \/ UNCHANGED <<a1, a2, a3, a4, a5, a6, a7, a8>>
    BY <1>2 DEF ServicesNext, serviceVars, slots
  <2>2. QED
    BY <1>1, <1>2, <2>1, FailoverStep, FailoverStays DEF HostInv
<1>3. CASE part = "proxy"
  <2>1. Proxy!Next \/ UNCHANGED <<a1, a2, a3, a4, a5, a6, a7, a8, a9, a10, a11, a12>>
    BY <1>3 DEF ServicesNext, serviceVars, slots
  <2>2. QED
    BY <1>1, <1>3, <2>1, ProxyStep, ProxyStays DEF HostInv
<1>4. CASE part = "backup"
  <2>1. Backup!Next \/ UNCHANGED slots
    BY <1>4 DEF ServicesNext, serviceVars
  <2>2. QED
    BY <1>1, <1>4, <2>1, BackupStep, BackupStays DEF HostInv
<1>5. CASE part = "drift"
  <2>1. Drift!Next \/ UNCHANGED <<a1, a2, a3, a4, a5, a6, a7, a8, a9, a10, a11>>
    BY <1>5 DEF ServicesNext, serviceVars, slots
  <2>2. QED
    BY <1>1, <1>5, <2>1, DriftStep, DriftStays DEF HostInv
<1>6. QED
  BY <1>1, <1>2, <1>3, <1>4, <1>5 DEF HostInv
LEMMA ContentStep == ContentInv /\ [ServicesNext]_serviceVars => ContentInv'
<1> SUFFICES ASSUME ContentInv, [ServicesNext]_serviceVars PROVE ContentInv'
  OBVIOUS
<1>1. part' = part
  BY DEF ServicesNext, serviceVars
<1>2. CASE part = "clips"
  <2>1. Clips!Next \/ UNCHANGED <<a1, a2, a3, a4, a5, a6, a7, a8, a9, a10, a11, a12>>
    BY <1>2 DEF ServicesNext, serviceVars, slots
  <2>2. QED
    BY <1>1, <1>2, <2>1, LinkStep DEF ContentInv
<1>3. CASE part = "search"
  <2>1. Search!Next \/ UNCHANGED <<a1, a2, a3, a4, a5, a6, a7, a8, a9, a10, a11, a12, a13>>
    BY <1>3 DEF ServicesNext, serviceVars, slots
  <2>2. QED
    BY <1>1, <1>3, <2>1, SearchStep, SearchStays DEF ContentInv
<1>4. CASE part = "digest"
  <2>1. Digest!Next \/ UNCHANGED <<a1, a2, a3, a4, a5, a6, a7, a8, a9, a10, a11, a12, a13>>
    BY <1>4 DEF ServicesNext, serviceVars, slots
  <2>2. QED
    BY <1>1, <1>4, <2>1, DigestStep, DigestStays DEF ContentInv
<1>5. QED
  BY <1>1, <1>2, <1>3, <1>4 DEF ContentInv

(* Whatever the host does and whatever fails: a worker that somebody holds is  *)
(* not stopped, the node that is flagged is the one that is served, an archive  *)
(* that is recorded as saved exists, and a change that was found is told       *)
(* (network_ops, sys_ops).                                                  *)
THEOREM HostIsKept == ServicesSpec => []HostKept
<1>1. ServicesInit => HostInv
  BY FailoverInit, ProxyInit, BackupInit, DriftInit DEF ServicesInit, HostInv
<1>2. HostInv => HostKept
  <2>1. Failover!HeldInv => Failover!HeldIsKept
    BY DEF Failover!HeldInv, Failover!OneLives, Failover!StoppedLate, Failover!HeldIsKept
  <2>2. Proxy!SwitchInv => Proxy!FlagIsServed
    <3>1. Nobody \notin Proxy!Actors
      BY ProxyAssumption DEF Proxy!Actors
    <3>2. QED
      BY <3>1 DEF Proxy!SwitchInv, Proxy!Locked, Proxy!FlagFollows, Proxy!FlagIsServed
  <2>3. Backup!SavedInv => Backup!SavedIsThere
    BY DEF Backup!SavedInv, Backup!AllSighted, Backup!Sighted, Backup!Waited, Backup!SavedIsThere
  <2>4. Drift!DriftInv => Drift!DriftIsTold
    BY DEF Drift!DriftInv, Drift!NoneAhead, Drift!DriftIsTold
  <2>5. QED
    BY <2>1, <2>2, <2>3, <2>4 DEF HostInv, HostKept
<1>3. QED
  BY <1>1, <1>2, HostStep, PTL DEF ServicesSpec

(* However calls overlap and whatever a service refuses: a link that is given   *)
(* leads to a private note, the index has what the mark has passed, and an      *)
(* article is told once (content_ops).                                       *)
THEOREM ContentIsKept == ServicesSpec => []ContentKept
<1>1. ServicesInit => ContentInv
  BY LinkInit, SearchInit, DigestInit DEF ServicesInit, ContentInv
<1>2. ContentInv => ContentKept
  <2>1. Clips!LinkInv => Clips!LinksArePrivate
    BY DEF Clips!LinkInv, Clips!Kept, Clips!LinksArePrivate
  <2>2. Search!FollowInv => Search!IndexFollows
    BY DEF Search!FollowInv, Search!Settled, Search!Excused, Search!IndexFollows
  <2>3. Digest!OnceInv => Digest!ArticleOnce
    BY DEF Digest!OnceInv
  <2>4. QED
    BY <2>1, <2>2, <2>3 DEF ContentInv, ContentKept
<1>3. QED
  BY <1>1, <1>2, ContentStep, PTL DEF ServicesSpec

(* UserSessions: a1 is issued, a2 family, a3 access, a4 refresh, a5 request,   *)
(* a6 asked, a7 given, a8 current, a9 waits, a10 leaving, a11 raced and a12    *)
(* lost.                                                                    *)

LEMMA UsersInit == Users!Init => Users!PairsInv
<1> SUFFICES ASSUME Users!Init PROVE Users!PairsInv
  OBVIOUS
<1>1. /\ a1 = 0 /\ a2 = [p \in 1 .. MaxPairs |-> 0] /\ a3 = {} /\ a4 = {}
      /\ a5 = [r \in Refreshes |-> "none"]
      /\ a6 = [r \in Refreshes |-> 0] /\ a7 = [r \in Refreshes |-> 0]
      /\ a8 = Users!LoggedOut /\ a9 = NoRequest /\ a10 = 0
  BY DEF Users!Init, Users!Pairs, Users!Nothing
<1>2. MaxPairs \in Nat /\ NoRequest \notin Refreshes
  BY UsersAssumption
<1>3. Users!UsersTypeOK
  BY <1>1, <1>2 DEF Users!UsersTypeOK, Users!Issued, Users!Pairs, Users!Nothing
<1>4. Users!OneOfEach
  BY <1>1 DEF Users!OneOfEach, Users!Issued, Users!Alone
<1>5. Users!Holds /\ \A r \in Refreshes : Users!Handled(r)
  BY <1>1 DEF Users!Holds, Users!Handled
<1>6. QED
  BY <1>1, <1>3, <1>4, <1>5 DEF Users!PairsInv

LEMMA UsersStep == ASSUME Users!PairsInv, Users!Next PROVE Users!PairsInv'
<1> DEFINE Places == {"none", "sent", "read", "done", "refused"}
           Fam(r) == a2[a6[r]]
           Fine(p) == a10 = a8.family \/ a8.family \in a12 \/ p \in a4
<1>1. /\ a1 \in 0 .. MaxPairs /\ a2 \in [1 .. MaxPairs -> 0 .. MaxPairs]
      /\ a3 \subseteq 1 .. a1 /\ a4 \subseteq 1 .. a1 /\ \A p \in 1 .. a1 : a2[p] \in 1 .. p
      /\ a5 \in [Refreshes -> Places]
      /\ a6 \in [Refreshes -> (1 .. a1) \cup {0}] /\ a7 \in [Refreshes -> (1 .. a1) \cup {0}]
      /\ a9 \in Refreshes \cup {NoRequest} /\ a10 \in (1 .. a1) \cup {0}
  BY DEF Users!PairsInv, Users!UsersTypeOK, Users!Issued, Users!Pairs, Users!Nothing
<1>2. /\ \A p, q \in a3 : a2[p] = a2[q] => p = q
      /\ \A p, q \in a4 : a2[p] = a2[q] /\ a2[p] \notin a11 => p = q
  <2>1. \A f \in 1 .. a1 :
          /\ \A p, q \in a3 : a2[p] = f /\ a2[q] = f => p = q
          /\ f \notin a11 => \A p, q \in a4 : a2[p] = f /\ a2[q] = f => p = q
    BY <1>1 DEF Users!PairsInv, Users!OneOfEach, Users!Alone, Users!Family, Users!Issued
  <2>2. \A p \in a3 \cup a4 : a2[p] \in 1 .. a1
    BY <1>1
  <2>3. QED
    BY <2>1, <2>2
<1>3. \A r \in Refreshes : a5[r] # "none" =>
        /\ a6[r] # 0 /\ (a9 # r => Fam(r) \in a12)
        /\ a5[r] = "done" => a7[r] # 0 /\ a2[a7[r]] = Fam(r)
  BY DEF Users!PairsInv, Users!Handled, Users!About, Users!Nothing
<1>4. a9 # NoRequest => a5[a9] # "none"
  BY DEF Users!PairsInv
<1>5. a8 # Users!LoggedOut =>
        /\ a8.pair \in 1 .. a1 /\ a8 = [family |-> a2[a8.pair], pair |-> a8.pair]
        /\ a9 = NoRequest \/ Fam(a9) # a8.family => Fine(a8.pair)
        /\ a9 # NoRequest /\ Fam(a9) = a8.family =>
             a6[a9] = a8.pair /\ (a5[a9] = "done" => Fine(a7[a9]))
  BY DEF Users!PairsInv, Users!Holds, Users!About, Users!Good, Users!Issued
<1>6. NoRequest \notin Refreshes /\ MaxPairs \in Nat
  BY UsersAssumption
<1>7. ASSUME a1' \in 0 .. MaxPairs, a2' \in [1 .. MaxPairs -> 0 .. MaxPairs],
             a3' \subseteq 1 .. a1', a4' \subseteq 1 .. a1', \A p \in 1 .. a1' : a2'[p] \in 1 .. p,
             a5' \in [Refreshes -> Places],
             a6' \in [Refreshes -> (1 .. a1') \cup {0}], a7' \in [Refreshes -> (1 .. a1') \cup {0}],
             a9' \in Refreshes \cup {NoRequest}, a10' \in (1 .. a1') \cup {0},
             \A p, q \in a3' : a2'[p] = a2'[q] => p = q,
             \A p, q \in a4' : a2'[p] = a2'[q] /\ a2'[p] \notin a11' => p = q,
             \A r \in Refreshes : a5'[r] # "none" =>
               /\ a6'[r] # 0 /\ (a9' # r => a2'[a6'[r]] \in a12')
               /\ a5'[r] = "done" => a7'[r] # 0 /\ a2'[a7'[r]] = a2'[a6'[r]],
             a9' # NoRequest => a5'[a9'] # "none",
             a8' # Users!LoggedOut =>
               /\ a8'.pair \in 1 .. a1' /\ a8' = [family |-> a2'[a8'.pair], pair |-> a8'.pair]
               /\ a9' = NoRequest \/ a2'[a6'[a9']] # a8'.family =>
                    a10' = a8'.family \/ a8'.family \in a12' \/ a8'.pair \in a4'
               /\ a9' # NoRequest /\ a2'[a6'[a9']] = a8'.family =>
                    /\ a6'[a9'] = a8'.pair
                    /\ a5'[a9'] = "done" => a10' = a8'.family \/ a8'.family \in a12' \/ a7'[a9'] \in a4'
      PROVE  Users!PairsInv'
  <2>1. Users!UsersTypeOK'
    BY <1>7 DEF Users!UsersTypeOK, Users!Issued, Users!Pairs, Users!Nothing
  <2>2. Users!OneOfEach'
    BY <1>7 DEF Users!OneOfEach, Users!Alone, Users!Family, Users!Issued
  <2>3. (\A r \in Refreshes : Users!Handled(r))'
    BY <1>7 DEF Users!Handled, Users!About, Users!Nothing
  <2>4. Users!Holds'
    BY <1>7, Zenon DEF Users!Holds, Users!About, Users!Good, Users!Issued, Users!LoggedOut, Users!Nothing
  <2>5. QED
    BY <1>7, <2>1, <2>2, <2>3, <2>4 DEF Users!PairsInv
<1> DEFINE I == 1 .. a1
<1>8. /\ \A r \in Refreshes : a6[r] # 0 => a6[r] \in I /\ Fam(r) \in I /\ a2[Fam(r)] \in I
      /\ \A p \in I : a2[p] \in I
  BY <1>1
<1>9. /\ Users!LoggedOut.family = 0
      /\ a8 # Users!LoggedOut => a8.family \in I /\ a8.family = a2[a8.pair]
  BY <1>5, <1>8 DEF Users!LoggedOut, Users!Nothing
<1> HIDE DEF Fam, Fine, Places, I
\* A login: its family is new.
<1>10. CASE Users!Login
  <2>1. /\ a1 < MaxPairs /\ a1' = a1 + 1 /\ a2' = [a2 EXCEPT ![a1 + 1] = a1 + 1]
        /\ a3' = a3 \cup {a1 + 1} /\ a4' = a4 \cup {a1 + 1}
        /\ a8' = [family |-> a1 + 1, pair |-> a1 + 1]
        /\ UNCHANGED <<a5, a6, a7, a9, a10, a11, a12>>
    BY <1>10 DEF Users!Login, Users!Issue, Users!requestVars
  <2>2. /\ a1 + 1 \in 1 .. MaxPairs /\ a1' \in 0 .. MaxPairs /\ 1 .. a1' = I \cup {a1 + 1} /\ a1 + 1 \notin I
        /\ \A p \in I : p \in 1 .. MaxPairs /\ a2[p] # a1 + 1
    BY <1>1, <1>6, <2>1 DEF I
  <2>3. /\ a2' \in [1 .. MaxPairs -> 0 .. MaxPairs] /\ a2'[a1 + 1] = a1 + 1
        /\ \A p \in I : a2'[p] = a2[p]
    BY <1>1, <2>1, <2>2
  <2>4. /\ a3' \subseteq 1 .. a1' /\ a4' \subseteq 1 .. a1' /\ \A p \in 1 .. a1' : a2'[p] \in 1 .. p
        /\ a6' \in [Refreshes -> (1 .. a1') \cup {0}] /\ a7' \in [Refreshes -> (1 .. a1') \cup {0}]
        /\ a10' \in (1 .. a1') \cup {0}
    <3>1. a1 + 1 \in 1 .. (a1 + 1)
      BY <1>1
    <3>2. QED
      BY <1>1, <2>1, <2>2, <2>3, <3>1 DEF I
  <2>5. /\ \A p, q \in a3' : a2'[p] = a2'[q] => p = q
        /\ \A p, q \in a4' : a2'[p] = a2'[q] /\ a2'[p] \notin a11' => p = q
    BY <1>1, <1>2, <2>1, <2>2, <2>3 DEF I
  <2>6. \A r \in Refreshes : a6[r] # 0 => a2'[a6[r]] = Fam(r)
    BY <1>8, <2>3 DEF Fam
  <2>7. \A r \in Refreshes : a7[r] # 0 => a2'[a7[r]] = a2[a7[r]]
    BY <1>1, <2>3 DEF I
  <2>8. \A r \in Refreshes : a5'[r] # "none" =>
          /\ a6'[r] # 0 /\ (a9' # r => a2'[a6'[r]] \in a12')
          /\ a5'[r] = "done" => a7'[r] # 0 /\ a2'[a7'[r]] = a2'[a6'[r]]
    BY <1>3, <2>1, <2>6, <2>7
  <2>9. a9 # NoRequest => a2'[a6[a9]] # a1 + 1
    BY <1>1, <1>3, <1>4, <1>8, <2>2, <2>6
  <2>10. QED
    BY <1>1, <1>4, <1>7, <2>1, <2>2, <2>3, <2>4, <2>5, <2>8, <2>9
<1>11. CASE Users!Logout
  <2>0. \/ a3' = a3 \ Users!Family(a8.family) /\ a4' = a4 \ Users!Family(a8.family) /\ a12' = a12
        \/ a3' = a3 /\ a4' = a4 /\ a12' = a12 \cup {a8.family}
    BY <1>11, Zenon DEF Users!Logout, Users!Revoke
  <2>1. /\ a8 # Users!LoggedOut /\ a10' = a8.family
        /\ UNCHANGED <<a1, a2, a5, a6, a7, a8, a9, a11>>
        /\ a3' \subseteq a3 /\ a4' \subseteq a4 /\ a12 \subseteq a12'
    <3>1. a3' \subseteq a3 /\ a4' \subseteq a4 /\ a12 \subseteq a12'
      BY <2>0
    <3>2. QED
      BY <1>11, <3>1, Zenon DEF Users!Logout, Users!requestVars
  <2>2. a10' \in I
    BY <1>9, <2>1
  <2>3. \A r \in Refreshes : a5'[r] # "none" =>
          /\ a6'[r] # 0 /\ (a9' # r => a2'[a6'[r]] \in a12')
          /\ a5'[r] = "done" => a7'[r] # 0 /\ a2'[a7'[r]] = a2'[a6'[r]]
    BY <1>3, <2>1 DEF Fam
  <2>4. QED
    BY <1>1, <1>2, <1>4, <1>5, <1>7, <2>1, <2>2, <2>3 DEF Fam, I
<1>12. CASE Users!Forget
  <2>1. /\ a10 # 0 /\ a10' = 0 /\ a8' = IF a8.family = a10 THEN Users!LoggedOut ELSE a8
        /\ UNCHANGED <<a1, a2, a3, a4, a5, a6, a7, a9, a11, a12>>
    BY <1>12 DEF Users!Forget, Users!serverVars, Users!requestVars, Users!Nothing
  <2>2. a8' # Users!LoggedOut => a8' = a8 /\ a10 # a8.family
    BY <2>1
  <2>3. \A r \in Refreshes : a5'[r] # "none" =>
          /\ a6'[r] # 0 /\ (a9' # r => a2'[a6'[r]] \in a12')
          /\ a5'[r] = "done" => a7'[r] # 0 /\ a2'[a7'[r]] = a2'[a6'[r]]
    BY <1>3, <2>1 DEF Fam
  <2>4. QED
    BY <1>1, <1>2, <1>4, <1>5, <1>7, <2>1, <2>2, <2>3 DEF Fam, Fine
\* The answer is read, or nobody reads it: the request is over.
<1>13. ASSUME NEW r \in Refreshes, Users!Free(r), UNCHANGED <<a1, a2, a3, a4, a10, a11, a12>>,
              (a9' = a9 /\ a9 # r) \/ (a9 = r /\ a9' = NoRequest),
              a8' # Users!LoggedOut =>
                /\ a8'.pair \in 1 .. a1' /\ a8' = [family |-> a2'[a8'.pair], pair |-> a8'.pair]
                /\ a9' = NoRequest \/ Fam(a9) # a8'.family =>
                     a10' = a8'.family \/ a8'.family \in a12' \/ a8'.pair \in a4'
                /\ a9' # NoRequest /\ Fam(a9) = a8'.family =>
                     /\ a6[a9'] = a8'.pair
                     /\ a5[a9'] = "done" => a10' = a8'.family \/ a8'.family \in a12' \/ a7[a9'] \in a4'
       PROVE  Users!PairsInv'
  <2>1. /\ a5' = [a5 EXCEPT ![r] = "none"] /\ a6' = [a6 EXCEPT ![r] = 0] /\ a7' = [a7 EXCEPT ![r] = 0]
    BY <1>13 DEF Users!Free, Users!Nothing
  <2>2. /\ a5' \in [Refreshes -> Places]
        /\ a6' \in [Refreshes -> (1 .. a1') \cup {0}] /\ a7' \in [Refreshes -> (1 .. a1') \cup {0}]
    BY <1>1, <1>13, <2>1 DEF Places
  <2>3. /\ a5'[r] = "none"
        /\ \A q \in Refreshes : q # r => a5'[q] = a5[q] /\ a6'[q] = a6[q] /\ a7'[q] = a7[q]
    BY <1>1, <2>1
  <2>4. \A q \in Refreshes : a5'[q] # "none" =>
          /\ a6'[q] # 0 /\ (a9' # q => a2'[a6'[q]] \in a12')
          /\ a5'[q] = "done" => a7'[q] # 0 /\ a2'[a7'[q]] = a2'[a6'[q]]
    BY <1>3, <1>13, <2>3 DEF Fam
  <2>5. a9' # NoRequest => a9' = a9 /\ a9 # r /\ a9 \in Refreshes
    BY <1>1, <1>13
  <2>6. a9' # NoRequest =>
          a5'[a9'] = a5[a9] /\ a6'[a9'] = a6[a9] /\ a7'[a9'] = a7[a9] /\ a2'[a6'[a9']] = Fam(a9)
    BY <1>13, <2>3, <2>5 DEF Fam
  <2>7. a9' # NoRequest => a5'[a9'] # "none"
    BY <1>4, <2>5, <2>6
  <2>8. a8' # Users!LoggedOut =>
          /\ a8'.pair \in 1 .. a1' /\ a8' = [family |-> a2'[a8'.pair], pair |-> a8'.pair]
          /\ a9' = NoRequest \/ a2'[a6'[a9']] # a8'.family =>
               a10' = a8'.family \/ a8'.family \in a12' \/ a8'.pair \in a4'
          /\ a9' # NoRequest /\ a2'[a6'[a9']] = a8'.family =>
               /\ a6'[a9'] = a8'.pair
               /\ a5'[a9'] = "done" => a10' = a8'.family \/ a8'.family \in a12' \/ a7'[a9'] \in a4'
    BY <1>13, <2>5, <2>6
  <2>9. QED
    BY <1>1, <1>2, <1>7, <1>13, <2>2, <2>4, <2>5, <2>7, <2>8
<1>14. ASSUME NEW r \in Refreshes, Users!Updated(r) PROVE Users!PairsInv'
  <2>1. /\ a9 = r /\ a5[r] = "done" /\ a9' = NoRequest /\ Users!Free(r)
        /\ a8' = IF a8.family = Fam(r) THEN [a8 EXCEPT !.pair = a7[r]] ELSE a8
        /\ UNCHANGED <<a1, a2, a3, a4, a10, a11, a12>>
    BY <1>14 DEF Users!Updated, Users!serverVars, Fam
  <2>2. /\ a6[r] # 0 /\ Fam(r) \in I /\ a7[r] # 0 /\ a7[r] \in I /\ a2[a7[r]] = Fam(r)
    BY <1>1, <1>3, <1>8, <2>1 DEF I
  <2>3. CASE a8.family = Fam(r)
    <3>1. a8 # Users!LoggedOut
      BY <1>1, <1>9, <2>2, <2>3 DEF I
    <3>2. a8 = [family |-> Fam(r), pair |-> a8.pair] /\ a8' = [a8 EXCEPT !.pair = a7[r]]
      BY <1>5, <2>1, <2>3, <3>1
    <3>3. a8' = [family |-> Fam(r), pair |-> a7[r]]
      BY <3>2
    <3>4. Fine(a7[r])
      BY <1>1, <1>5, <1>6, <2>1, <2>3, <3>1
    <3>5. a8'.family = Fam(r) /\ a8'.pair = a7[r]
      BY <3>3
    <3>6. QED
      BY <1>13, <2>1, <2>2, <2>3, <3>3, <3>4, <3>5 DEF I, Fine
  <2>4. CASE a8.family # Fam(r)
    <3>1. a8' = a8
      BY <2>1, <2>4
    <3>2. a8 # Users!LoggedOut => Fine(a8.pair)
      BY <1>5, <2>1, <2>4
    <3>3. QED
      BY <1>5, <1>13, <2>1, <3>1, <3>2 DEF Fine
  <2>5. QED
    BY <2>3, <2>4
<1>15. ASSUME NEW r \in Refreshes, Users!Cleared(r) PROVE Users!PairsInv'
  <2>1. /\ a9 = r /\ a9' = NoRequest /\ Users!Free(r)
        /\ a8' = IF a8 = [family |-> Fam(r), pair |-> a6[r]] THEN Users!LoggedOut ELSE a8
        /\ UNCHANGED <<a1, a2, a3, a4, a10, a11, a12>>
    BY <1>15 DEF Users!Cleared, Users!serverVars, Fam
  <2>2. ASSUME a8' # Users!LoggedOut PROVE a8' = a8 /\ Fine(a8.pair)
    <3>1. a8' = a8 /\ a8 # [family |-> Fam(r), pair |-> a6[r]]
      BY <2>1, <2>2
    <3>2. a8 = [family |-> a8.family, pair |-> a8.pair]
      BY <1>5, <1>9, <2>2, <3>1
    <3>3. Fam(r) # a8.family
      BY <1>1, <1>5, <1>6, <2>1, <2>2, <3>1, <3>2
    <3>4. QED
      BY <1>5, <2>1, <2>2, <3>1, <3>3
  <2>3. QED
    BY <1>5, <1>13, <2>1, <2>2 DEF Fine
<1>16. ASSUME NEW r \in Refreshes, Users!Unheard(r) PROVE Users!PairsInv'
  <2>1. a9 # r /\ a9' = a9 /\ a8' = a8 /\ Users!Free(r) /\ UNCHANGED <<a1, a2, a3, a4, a10, a11, a12>>
    BY <1>16 DEF Users!Unheard, Users!serverVars
  <2>2. QED
    BY <1>5, <1>13, <2>1 DEF Fine
<1>17. ASSUME NEW r \in Refreshes, Users!GiveUp(r) PROVE Users!PairsInv'
  <2>1. /\ a9 = r /\ a9' = NoRequest /\ a12' = a12 \cup {Fam(r)}
        /\ UNCHANGED <<a1, a2, a3, a4, a5, a6, a7, a8, a10, a11>>
    BY <1>17 DEF Users!GiveUp, Users!serverVars, Users!requestVars, Fam
  <2>2. \A q \in Refreshes : a5'[q] # "none" =>
          /\ a6'[q] # 0 /\ (a9' # q => a2'[a6'[q]] \in a12')
          /\ a5'[q] = "done" => a7'[q] # 0 /\ a2'[a7'[q]] = a2'[a6'[q]]
    BY <1>3, <2>1 DEF Fam
  <2>3. a8 # Users!LoggedOut => Fine(a8.pair) \/ a8.family = Fam(r)
    BY <1>5, <2>1
  <2>4. QED
    BY <1>1, <1>2, <1>5, <1>7, <2>1, <2>2, <2>3 DEF Fine
<1>18. ASSUME NEW r \in Refreshes, Users!Refresh(r) PROVE Users!PairsInv'
  <2>1. /\ a9 = NoRequest /\ a8 # Users!LoggedOut /\ a9' = r
        /\ a5' = [a5 EXCEPT ![r] = "sent"] /\ a6' = [a6 EXCEPT ![r] = a8.pair]
        /\ UNCHANGED <<a1, a2, a3, a4, a7, a8, a10, a11, a12>>
    BY <1>18 DEF Users!Refresh, Users!serverVars
  <2>2. a8.pair \in I /\ a8.pair # 0 /\ a8.family = a2[a8.pair]
    BY <1>1, <1>5, <1>9, <2>1 DEF I
  <2>3. a5' \in [Refreshes -> Places] /\ a6' \in [Refreshes -> (1 .. a1') \cup {0}]
    BY <1>1, <2>1, <2>2 DEF Places, I
  <2>4. /\ a5'[r] = "sent" /\ a6'[r] = a8.pair
        /\ \A q \in Refreshes : q # r => a5'[q] = a5[q] /\ a6'[q] = a6[q]
    BY <1>1, <2>1
  <2>5. \A q \in Refreshes : a5'[q] # "none" =>
          /\ a6'[q] # 0 /\ (a9' # q => a2'[a6'[q]] \in a12')
          /\ a5'[q] = "done" => a7'[q] # 0 /\ a2'[a7'[q]] = a2'[a6'[q]]
    BY <1>3, <1>6, <2>1, <2>2, <2>4 DEF Fam
  <2>6. a2'[a6'[a9']] = a8'.family /\ a6'[a9'] = a8'.pair /\ a5'[a9'] = "sent"
    BY <2>1, <2>2, <2>4
  <2>7. a9' # NoRequest /\ a9' \in Refreshes
    BY <1>6, <2>1
  <2>8. a8' # Users!LoggedOut =>
          /\ a8'.pair \in 1 .. a1' /\ a8' = [family |-> a2'[a8'.pair], pair |-> a8'.pair]
          /\ a9' = NoRequest \/ a2'[a6'[a9']] # a8'.family =>
               a10' = a8'.family \/ a8'.family \in a12' \/ a8'.pair \in a4'
          /\ a9' # NoRequest /\ a2'[a6'[a9']] = a8'.family =>
               /\ a6'[a9'] = a8'.pair
               /\ a5'[a9'] = "done" => a10' = a8'.family \/ a8'.family \in a12' \/ a7'[a9'] \in a4'
    BY <1>5, <2>1, <2>6, <2>7
  <2>9. QED
    BY <1>1, <1>2, <1>7, <2>1, <2>3, <2>5, <2>6, <2>7, <2>8
<1>19. ASSUME NEW r \in Refreshes, Users!ReadToken(r) PROVE Users!PairsInv'
  <2>1. /\ a5[r] = "sent" /\ UNCHANGED <<a1, a2, a6, a7, a8, a9, a10, a11, a12>>
        /\ \/ a6[r] \in a4 /\ a5' = [a5 EXCEPT ![r] = "read"] /\ a3' = a3 /\ a4' = a4
           \/ /\ a5' = [a5 EXCEPT ![r] = "refused"]
              /\ a3' = a3 \ Users!Family(Fam(r)) /\ a4' = a4 \ Users!Family(Fam(r))
    BY <1>19 DEF Users!ReadToken, Users!Revoke, Fam
  <2>2. a5' \in [Refreshes -> Places] /\ a5'[r] \in {"read", "refused"} /\ \A q \in Refreshes : q # r => a5'[q] = a5[q]
    BY <1>1, <2>1 DEF Places
  <2>3. a3' \subseteq a3 /\ a4' \subseteq a4 /\ \A p \in a4 : p \in a4' \/ a2[p] = Fam(r)
    BY <2>1 DEF Users!Family
  <2>4. \A q \in Refreshes : a5'[q] # "none" =>
          /\ a6'[q] # 0 /\ (a9' # q => a2'[a6'[q]] \in a12')
          /\ a5'[q] = "done" => a7'[q] # 0 /\ a2'[a7'[q]] = a2'[a6'[q]]
    BY <1>3, <2>1, <2>2 DEF Fam
  <2>5. a9' # NoRequest => a5'[a9'] # "none"
    BY <1>1, <1>4, <2>1, <2>2
  <2>6. a9 # r => Fam(r) \in a12
    BY <1>3, <2>1
  <2>7. ASSUME a8 # Users!LoggedOut, NEW p \in I, a2[p] = a8.family, Fine(p), a9 = r => Fam(r) # a8.family
        PROVE  a10 = a8.family \/ a8.family \in a12 \/ p \in a4'
    BY <2>3, <2>6, <2>7 DEF Fine
  <2>8. ASSUME a8 # Users!LoggedOut, a9 = NoRequest \/ Fam(a9) # a8.family
        PROVE  a10 = a8.family \/ a8.family \in a12 \/ a8.pair \in a4'
    <3>1. Fine(a8.pair) /\ a8.pair \in I /\ a2[a8.pair] = a8.family
      BY <1>5, <1>9, <2>8 DEF I
    <3>2. a9 = r => Fam(r) # a8.family
      BY <1>6, <2>8
    <3>3. QED
      BY <2>7, <2>8, <3>1, <3>2
  <2>9. ASSUME a8 # Users!LoggedOut, a9 # NoRequest, Fam(a9) = a8.family
        PROVE  /\ a6[a9] = a8.pair
               /\ a5'[a9] = "done" => a10 = a8.family \/ a8.family \in a12 \/ a7[a9] \in a4'
    <3>1. a6[a9] = a8.pair /\ a9 \in Refreshes /\ (a5[a9] = "done" => Fine(a7[a9]))
      BY <1>1, <1>5, <2>9
    <3>2. ASSUME a5'[a9] = "done" PROVE a10 = a8.family \/ a8.family \in a12 \/ a7[a9] \in a4'
      <4>1. a9 # r /\ a5[a9] = "done"
        BY <2>2, <3>1, <3>2
      <4>2. a7[a9] \in I /\ a2[a7[a9]] = a8.family
        BY <1>1, <1>3, <2>9, <3>1, <4>1 DEF I
      <4>3. QED
        BY <2>7, <2>9, <3>1, <4>1, <4>2
    <3>3. QED
      BY <3>1, <3>2
  <2>10. QED
    <3>1. a8' # Users!LoggedOut =>
          /\ a8'.pair \in 1 .. a1' /\ a8' = [family |-> a2'[a8'.pair], pair |-> a8'.pair]
          /\ a9' = NoRequest \/ a2'[a6'[a9']] # a8'.family =>
               a10' = a8'.family \/ a8'.family \in a12' \/ a8'.pair \in a4'
          /\ a9' # NoRequest /\ a2'[a6'[a9']] = a8'.family =>
               /\ a6'[a9'] = a8'.pair
               /\ a5'[a9'] = "done" => a10' = a8'.family \/ a8'.family \in a12' \/ a7'[a9'] \in a4'
      BY <1>5, <2>1, <2>8, <2>9 DEF Fam
    <3>2. QED
      BY <1>1, <1>2, <1>7, <2>1, <2>2, <2>3, <2>4, <2>5, <3>1
<1>20. ASSUME NEW r \in Refreshes, Users!Rotate(r) PROVE Users!PairsInv'
  <2>1. /\ a5[r] = "read" /\ a5' = [a5 EXCEPT ![r] = "done"]
        /\ a1 < MaxPairs /\ a1' = a1 + 1 /\ a2' = [a2 EXCEPT ![a1 + 1] = Fam(r)]
        /\ a7' = [a7 EXCEPT ![r] = a1 + 1]
        /\ a4' = (a4 \ {a6[r]}) \cup {a1 + 1}
        /\ a3' = (a3 \ Users!Family(Fam(r))) \cup {a1 + 1}
        /\ a11' = IF a6[r] \in a4 THEN a11 ELSE a11 \cup {Fam(r)}
        /\ UNCHANGED <<a6, a8, a9, a10, a12>>
    BY <1>20 DEF Users!Rotate, Users!Rotated, Users!Issue, Fam
  <2>2. /\ a1 + 1 \in 1 .. MaxPairs /\ a1' \in 0 .. MaxPairs /\ 1 .. a1' = I \cup {a1 + 1} /\ a1 + 1 \notin I
        /\ a1 + 1 # 0 /\ \A p \in I : p \in 1 .. MaxPairs
    BY <1>1, <1>6, <2>1 DEF I
  <2>3. a6[r] \in I /\ Fam(r) \in I /\ a6[r] # 0
    BY <1>3, <1>8, <2>1
  <2>4. /\ a2' \in [1 .. MaxPairs -> 0 .. MaxPairs] /\ a2'[a1 + 1] = Fam(r)
        /\ \A p \in I : a2'[p] = a2[p]
    BY <1>1, <2>1, <2>2, <2>3 DEF I
  <2>5. \A p \in 1 .. a1' : a2'[p] \in 1 .. p
    <3>1. Fam(r) \in 1 .. (a1 + 1)
      BY <1>1, <2>3 DEF I
    <3>2. QED
      BY <1>1, <2>2, <2>4, <3>1 DEF I
  <2>6. /\ a3' \subseteq 1 .. a1' /\ a4' \subseteq 1 .. a1'
        /\ a6' \in [Refreshes -> (1 .. a1') \cup {0}] /\ a10' \in (1 .. a1') \cup {0}
    BY <1>1, <2>1, <2>2 DEF I
  <2>7. /\ a5' \in [Refreshes -> Places] /\ a7' \in [Refreshes -> (1 .. a1') \cup {0}]
        /\ a5'[r] = "done" /\ a7'[r] = a1 + 1
        /\ \A q \in Refreshes : q # r => a5'[q] = a5[q] /\ a7'[q] = a7[q]
    BY <1>1, <2>1, <2>2 DEF Places, I
  <2>8. \A p, q \in a3' : a2'[p] = a2'[q] => p = q
    <3>1. \A p \in a3' : p = a1 + 1 \/ (p \in a3 /\ p \in I /\ a2[p] # Fam(r))
      BY <1>1, <2>1 DEF Users!Family, I
    <3>2. QED
      BY <1>2, <2>4, <3>1
  <2>9. \A p, q \in a4' : a2'[p] = a2'[q] /\ a2'[p] \notin a11' => p = q
    <3>1. \A p \in a4' : p = a1 + 1 \/ (p \in a4 /\ p \in I /\ p # a6[r])
      BY <1>1, <2>1 DEF I
    <3>2. a11 \subseteq a11' /\ (a6[r] \in a4 \/ Fam(r) \in a11')
      BY <2>1
    <3>3. \A p \in a4 : p # a6[r] /\ a2[p] = Fam(r) => Fam(r) \in a11'
      BY <1>2, <3>2 DEF Fam
    <3>4. QED
      BY <1>2, <2>4, <3>1, <3>2, <3>3
  <2>10. \A q \in Refreshes : a6[q] # 0 => a2'[a6[q]] = Fam(q)
    BY <1>8, <2>4 DEF Fam
  <2>11. \A q \in Refreshes : a7[q] # 0 => a2'[a7[q]] = a2[a7[q]]
    BY <1>1, <2>4 DEF I
  <2>12. \A q \in Refreshes : a5'[q] # "none" =>
          /\ a6'[q] # 0 /\ (a9' # q => a2'[a6'[q]] \in a12')
          /\ a5'[q] = "done" => a7'[q] # 0 /\ a2'[a7'[q]] = a2'[a6'[q]]
    <3>1. ASSUME NEW q \in Refreshes, a5'[q] # "none"
          PROVE  /\ a6'[q] # 0 /\ (a9' # q => a2'[a6'[q]] \in a12')
                 /\ a5'[q] = "done" => a7'[q] # 0 /\ a2'[a7'[q]] = a2'[a6'[q]]
      <4>1. a5[q] # "none" /\ a6[q] # 0 /\ (a9 # q => Fam(q) \in a12)
        BY <1>3, <2>1, <2>7, <3>1
      <4>2. a2'[a6'[q]] = Fam(q) /\ a6'[q] # 0 /\ (a9' # q => a2'[a6'[q]] \in a12')
        BY <2>1, <2>10, <4>1
      <4>3. CASE q = r
        BY <2>2, <2>4, <2>7, <4>2, <4>3
      <4>4. CASE q # r
        BY <1>3, <2>7, <2>11, <3>1, <4>2, <4>4
      <4>5. QED
        BY <4>2, <4>3, <4>4
    <3>2. QED
      BY <3>1
  <2>13. a9' # NoRequest => a5'[a9'] # "none" /\ a9 \in Refreshes /\ a6[a9] # 0
    BY <1>1, <1>3, <1>4, <2>1, <2>7
  <2>14. ASSUME a8 # Users!LoggedOut
         PROVE  /\ a8.pair \in 1 .. a1' /\ a2'[a8.pair] = a2[a8.pair]
                /\ a9 = NoRequest \/ Fam(a9) # a8.family =>
                     a10 = a8.family \/ a8.family \in a12 \/ a8.pair \in a4'
                /\ a9 # NoRequest /\ Fam(a9) = a8.family =>
                     /\ a6[a9] = a8.pair
                     /\ a5'[a9] = "done" => a10 = a8.family \/ a8.family \in a12 \/ a7'[a9] \in a4'
    <3>1. a8.pair \in I /\ a8.pair \in 1 .. a1' /\ a2'[a8.pair] = a2[a8.pair]
      BY <1>5, <2>2, <2>4, <2>14 DEF I
    <3>2. ASSUME a9 = NoRequest \/ Fam(a9) # a8.family
          PROVE  a10 = a8.family \/ a8.family \in a12 \/ a8.pair \in a4'
      <4>1. Fine(a8.pair)
        BY <1>5, <2>14, <3>2
      <4>2. a8.pair = a6[r] => a8.family = Fam(r) /\ a9 # r
        BY <1>6, <1>9, <2>14, <3>2 DEF Fam
      <4>3. a8.pair = a6[r] => a8.family \in a12
        BY <1>3, <2>1, <4>2
      <4>4. QED
        BY <2>1, <4>1, <4>3 DEF Fine
    <3>3. ASSUME a9 # NoRequest, Fam(a9) = a8.family, a5'[a9] = "done"
          PROVE  a10 = a8.family \/ a8.family \in a12 \/ a7'[a9] \in a4'
      <4>1. CASE a9 = r
        BY <2>1, <2>7, <4>1
      <4>2. CASE a9 # r
        <5>1. a9 \in Refreshes /\ a5[a9] = "done" /\ a7'[a9] = a7[a9]
          BY <1>1, <2>7, <3>3, <4>2
        <5>2. Fine(a7[a9]) /\ a2[a7[a9]] = a8.family
          BY <1>3, <1>5, <2>14, <3>3, <5>1
        <5>3. Fam(r) \in a12
          BY <1>3, <2>1, <4>2
        <5>4. a7[a9] = a6[r] => a8.family \in a12
          BY <5>2, <5>3 DEF Fam
        <5>5. QED
          BY <2>1, <5>1, <5>2, <5>4 DEF Fine
      <4>3. QED
        BY <4>1, <4>2
    <3>4. QED
      BY <1>5, <2>14, <3>1, <3>2, <3>3
  <2>15. QED
    <3>1. a8' # Users!LoggedOut =>
          /\ a8'.pair \in 1 .. a1' /\ a8' = [family |-> a2'[a8'.pair], pair |-> a8'.pair]
          /\ a9' = NoRequest \/ a2'[a6'[a9']] # a8'.family =>
               a10' = a8'.family \/ a8'.family \in a12' \/ a8'.pair \in a4'
          /\ a9' # NoRequest /\ a2'[a6'[a9']] = a8'.family =>
               /\ a6'[a9'] = a8'.pair
               /\ a5'[a9'] = "done" => a10' = a8'.family \/ a8'.family \in a12' \/ a7'[a9'] \in a4'
      <4>1. a9 # NoRequest => a2'[a6[a9]] = Fam(a9)
        BY <2>1, <2>10, <2>13
      <4>2. QED
        BY <1>5, <2>1, <2>14, <4>1
    <3>2. QED
      BY <1>1, <1>7, <2>1, <2>2, <2>4, <2>5, <2>6, <2>7, <2>8, <2>9, <2>12, <2>13, <3>1
<1>21. QED
  BY <1>10, <1>11, <1>12, <1>14, <1>15, <1>16, <1>17, <1>18, <1>19, <1>20, Zenon DEF Users!Next
LEMMA UsersHold == ASSUME Users!PairsInv PROVE Users!TokensAgree
<1>1. \A S : Users!Cardinality(S) = Cardinality(S)
  BY Zenon DEF Users!Cardinality, Cardinality, Users!IsFiniteSet, IsFiniteSet
<1>2. ASSUME NEW S, \A p, q \in S : p = q PROVE Users!Cardinality(S) <= 1
  <2>1. CASE S = {}
    <3>1. Cardinality(S) = 0
      BY <2>1, FS_EmptySet
    <3>2. Users!Cardinality(S) = 0
      BY <1>1, <3>1, Zenon
    <3>3. QED
      BY <3>2
  <2>2. CASE S # {}
    <3>1. PICK p : S = {p}
      BY <1>2, <2>2
    <3>2. Cardinality({p}) = 1
      BY FS_Singleton
    <3>3. Users!Cardinality(S) = 1
      BY <1>1, <3>1, <3>2, Zenon
    <3>4. QED
      BY <3>3
  <2>3. QED
    BY <2>1, <2>2
<1>3. ASSUME NEW f \in 1 .. a1
      PROVE  /\ Users!Cardinality(a3 \cap Users!Family(f)) <= 1
             /\ f \notin a11 => Users!Cardinality(a4 \cap Users!Family(f)) <= 1
  <2>1. Users!Alone(a3, f) /\ (f \notin a11 => Users!Alone(a4, f))
    BY DEF Users!PairsInv, Users!OneOfEach, Users!Issued
  <2>2. Users!Cardinality(a3 \cap Users!Family(f)) <= 1
    BY <1>2, <2>1 DEF Users!Alone
  <2>3. ASSUME f \notin a11 PROVE Users!Cardinality(a4 \cap Users!Family(f)) <= 1
    BY <1>2, <2>1, <2>3 DEF Users!Alone
  <2>4. QED
    BY <2>2, <2>3
<1>4. ASSUME a8 # Users!LoggedOut
      PROVE  /\ a8.family = a2[a8.pair]
             /\ a9 # NoRequest \/ a10 # 0 \/ a8.family \in a12 \/ a8.pair \in a4
  <2>1. /\ a8.pair \in 1 .. a1 /\ a8 = [family |-> a2[a8.pair], pair |-> a8.pair]
        /\ a9 = NoRequest => a10 = a8.family \/ a8.family \in a12 \/ a8.pair \in a4
    BY <1>4 DEF Users!PairsInv, Users!Holds, Users!Good, Users!Issued
  <2>2. a2[a8.pair] \in 1 .. a8.pair /\ a1 \in Nat
    BY <2>1, UsersAssumption DEF Users!PairsInv, Users!UsersTypeOK, Users!Issued
  <2>3. a8.family = a2[a8.pair] /\ a8.family # 0
    BY <2>1, <2>2
  <2>4. QED
    BY <2>1, <2>3
<1>5. QED
  BY <1>3, <1>4, Zenon DEF Users!TokensAgree, Users!Nothing

LEMMA UsersStay ==
  ASSUME Users!PairsInv, UNCHANGED slots PROVE Users!PairsInv'
<1>1. UNCHANGED <<a1, a2, a3, a4, a5, a6, a7, a8, a9, a10, a11, a12>>
  BY DEF slots
<1>2. Users!UsersTypeOK'
  BY <1>1, Zenon DEF Users!PairsInv, Users!UsersTypeOK, Users!Issued
<1>3. Users!OneOfEach'
  BY <1>1 DEF Users!PairsInv, Users!OneOfEach, Users!Alone, Users!Family, Users!Issued
<1>4. Users!Holds'
  BY <1>1 DEF Users!PairsInv, Users!Holds, Users!About, Users!Good, Users!Issued
<1>5. (\A r \in Refreshes : Users!Handled(r))'
  BY <1>1 DEF Users!PairsInv, Users!Handled, Users!About
<1>6. QED
  BY <1>1, <1>2, <1>3, <1>4, <1>5 DEF Users!PairsInv
(* AgentDoor: a1 is active, a2 made, a3 status, a4 title, a5 lock, a6 locks,   *)
(* a7 holder, a8 req, a9 log, a10 task, a11 row, a12 told, a13 stream, a14      *)
(* refining and a16 owned.                                                  *)

LEMMA DoorInit == Door!Init => Door!DoorInv
<1> SUFFICES ASSUME Door!Init PROVE Door!DoorInv
  OBVIOUS
<1>1. /\ a1 = 1 /\ a2 = 1 /\ a3 = [c \in 1 .. MaxConvs |-> "chatting"]
      /\ a9 = [c \in 1 .. MaxConvs |-> <<>>]
  BY DEF Door!Init, Door!Convs
<1>12. /\ a5 = [c \in 1 .. MaxConvs |-> 0] /\ a6 = 0 /\ a7 = [n \in Door!Locks |-> Nobody]
  BY DEF Door!Init, Door!Convs
<1>13. a8 = [r \in Messages |-> [pc |-> "new", kind |-> "say", conv |-> 0, lock |-> 0]]
  BY DEF Door!Init
<1>14. /\ a10 = [r \in Messages |-> Door!NoTask] /\ a11 = [r \in Messages |-> "none"]
       /\ a12 = [r \in Messages |-> <<>>] /\ a13 = [r \in Messages |-> "none"]
  BY DEF Door!Init
<1>15. a14 = {} /\ a16 = {} /\ a4 = [c \in 1 .. MaxConvs |-> ""]
  BY DEF Door!Init, Door!Convs
<1>2. MaxConvs \in Nat \ {0} /\ Nobody \notin Messages
  BY DoorAssumption
<1>3. Door!Cardinality({c \in 1 .. MaxConvs : a5[c] # 0}) = 0
  <2>1. {c \in 1 .. MaxConvs : a5[c] # 0} = {}
    BY <1>12
  <2>2. Door!Cardinality({}) = Cardinality({})
    BY Zenon DEF Door!Cardinality, Cardinality, Door!IsFiniteSet, IsFiniteSet
  <2>3. QED
    BY <2>1, <2>2, FS_EmptySet
<1>4. Door!ConvsTypeOK
  BY <1>1, <1>2 DEF Door!ConvsTypeOK, Door!Convs
<1>5. Door!LocksTypeOK
  BY <1>12, <1>3 DEF Door!LocksTypeOK, Door!Convs
<1>6. Door!ReqTypeOK
  BY <1>1, <1>12, <1>13 DEF Door!ReqTypeOK, Door!Places, Door!Kinds
<1>7. Door!TasksTypeOK /\ Door!TitlesTypeOK
  <2>1. Door!NoTask \in [pc : {"none", "run", "push", "excuse", "save", "over"},
                         verdict : Door!Verdicts \cup {""}, slow : BOOLEAN]
    BY DEF Door!NoTask
  <2>2. Door!TasksTypeOK
    <3>1. a10 \in [Messages -> [pc : {"none", "run", "push", "excuse", "save", "over"},
                              verdict : Door!Verdicts \cup {""}, slow : BOOLEAN]]
      BY <1>14, <2>1
    <3>2. a12 \in [Messages -> Seq(Door!Verdicts)]
      BY <1>14
    <3>3. /\ a11 \in [Messages -> Door!Verdicts \cup {"none", "delivering", "done"}]
          /\ a13 \in [Messages -> Door!Verdicts \cup {"none", "open", "lost", "done"}]
      BY <1>14
    <3>4. QED
      BY <3>1, <3>2, <3>3 DEF Door!TasksTypeOK
  <2>3. QED
    BY <1>15, <2>2 DEF Door!TitlesTypeOK, Door!Convs
<1>8. Door!LocksAgree /\ Door!OpenConvs /\ Door!TitlesAgree
  <2>1. Door!LocksAgree
    BY <1>12, <1>13 DEF Door!LocksAgree, Door!At, Door!Convs, Door!Inside
  <2>2. Door!OpenConvs
    BY <1>1, <1>2 DEF Door!OpenConvs, Door!Convs
  <2>3. Door!TitlesAgree
    BY <1>15 DEF Door!TitlesAgree
  <2>4. QED
    BY <2>1, <2>2, <2>3
<1>9. Door!LogsAgree
  <2>1. \A c \in 1 .. MaxConvs : Len(a9[c]) = 0
    BY <1>1
  <2>2. \A r \in Messages : a8[r].pc = "new"
    BY <1>13
  <2>3. QED
    BY <2>1, <2>2 DEF Door!LogsAgree, Door!Convs, Door!At
<1>10. Door!TasksAgree
  BY <1>14 DEF Door!TasksAgree, Door!Before, Door!NoTask, Door!Verdicts
<1>11. QED
  BY <1>4, <1>5, <1>6, <1>7, <1>8, <1>9, <1>10 DEF Door!DoorInv, Door!DoorTypeOK

\* A request goes on, and nobody else does.
LEMMA DoorMove ==
  ASSUME NEW C, NEW L, a8 \in [Messages -> [pc : Door!Places, kind : Door!Kinds, conv : C, lock : L]],
         NEW r \in Messages, NEW p \in Door!Places, a8' = [a8 EXCEPT ![r].pc = p]
  PROVE  /\ a8' \in [Messages -> [pc : Door!Places, kind : Door!Kinds, conv : C, lock : L]]
         /\ a8'[r].pc = p /\ a8'[r].conv = a8[r].conv /\ a8'[r].lock = a8[r].lock
         /\ a8'[r].kind = a8[r].kind
         /\ \A q \in Messages : q # r => a8'[q] = a8[q]
<1>1. a8[r] \in [pc : Door!Places, kind : Door!Kinds, conv : C, lock : L]
  OBVIOUS
<1>2. a8' = [a8 EXCEPT ![r] = [a8[r] EXCEPT !.pc = p]]
  OBVIOUS
<1>3. [a8[r] EXCEPT !.pc = p] \in [pc : Door!Places, kind : Door!Kinds, conv : C, lock : L]
  BY <1>1
<1>4. a8'[r] = [a8[r] EXCEPT !.pc = p]
  BY <1>2
<1>5. QED
  BY <1>1, <1>2, <1>3, <1>4

\* What the tasks are about, while requests go on.
LEMMA TasksStay ==
  ASSUME Door!TasksTypeOK, Door!TasksAgree, UNCHANGED <<a10, a11, a12, a13>>,
         \A r \in Messages : a8[r].pc \in Door!Gone => a8'[r].pc \in Door!Gone
  PROVE  Door!TasksTypeOK' /\ Door!TasksAgree'
<1>1. Door!TasksTypeOK'
  BY Zenon DEF Door!TasksTypeOK
<1>2. \A r \in Messages : Door!Before(r)' <=> Door!Before(r)
  BY DEF Door!Before
<1>3. Door!TasksAgree'
  BY <1>2, Zenon DEF Door!TasksAgree, Door!Before
<1>4. QED
  BY <1>1, <1>3

LEMMA TitlesStay ==
  ASSUME Door!TitlesTypeOK, Door!TitlesAgree, UNCHANGED <<a4, a14, a16>>,
         \A r \in Messages : a8[r].pc # "new" => a8'[r].pc # "new" /\ a8'[r].conv = a8[r].conv
  PROVE  Door!TitlesTypeOK' /\ Door!TitlesAgree'
<1>1. Door!TitlesTypeOK'
  BY Zenon DEF Door!TitlesTypeOK
<1>2. \A r \in a14 : r \in Messages /\ a8[r].pc # "new" /\ a8[r].conv \notin a16
  BY DEF Door!TitlesTypeOK, Door!TitlesAgree, Door!At
<1>3. Door!TitlesAgree'
  BY <1>2 DEF Door!TitlesAgree, Door!At
<1>4. QED
  BY <1>1, <1>3

LEMMA ConvsStay ==
  ASSUME Door!ConvsTypeOK, Door!OpenConvs, UNCHANGED <<a1, a2, a3, a9>>
  PROVE  Door!ConvsTypeOK' /\ Door!OpenConvs'
BY Zenon DEF Door!ConvsTypeOK, Door!OpenConvs

LEMMA LogsStay ==
  ASSUME Door!LogsAgree, UNCHANGED a9, a9 \in [1 .. MaxConvs -> Seq(Messages)],
         \A r \in Messages :
           /\ a8[r].pc \in Door!Gone \cup {"loop"} =>
                a8'[r].pc \in Door!Gone \cup {"loop"} /\ a8'[r].conv = a8[r].conv
           /\ a8'[r].pc = "loop" => a8[r].pc = "loop"
  PROVE  Door!LogsAgree'
<1>1. /\ \A c \in 1 .. MaxConvs : \A i, j \in 1 .. Len(a9[c]) : i < j /\ a9[c][i] = a9[c][j] => j = i + 1
      /\ \A c \in 1 .. MaxConvs : \A i \in 1 .. Len(a9[c]) :
           a8[a9[c][i]].conv = c /\ a8[a9[c][i]].pc \in Door!Gone \cup {"loop"}
      /\ \A r \in Messages : a8[r].pc = "loop" =>
           \A i \in 1 .. Len(a9[a8[r].conv]) : a9[a8[r].conv][i] = r <=> i = Len(a9[a8[r].conv])
  BY DEF Door!LogsAgree, Door!LogOf, Door!At, Door!Convs
<1>2. \A c \in 1 .. MaxConvs : \A i \in 1 .. Len(a9[c]) : a9[c][i] \in Messages
  OBVIOUS
<1>3. \A c \in 1 .. MaxConvs : \A i \in 1 .. Len(a9'[c]) :
        a8'[a9'[c][i]].conv = c /\ a8'[a9'[c][i]].pc \in Door!Gone \cup {"loop"}
  BY <1>1, <1>2
<1>4. \A r \in Messages : a8'[r].pc = "loop" =>
        \A i \in 1 .. Len(a9'[a8'[r].conv]) : a9'[a8'[r].conv][i] = r <=> i = Len(a9'[a8'[r].conv])
  <2>1. ASSUME NEW r \in Messages, a8'[r].pc = "loop" PROVE a8[r].pc = "loop" /\ a8'[r].conv = a8[r].conv
    BY <2>1
  <2>2. QED
    BY <1>1, <2>1
<1>5. QED
  BY <1>1, <1>3, <1>4 DEF Door!LogsAgree, Door!LogOf, Door!At, Door!Convs

LEMMA LocksStay ==
  ASSUME Door!LocksTypeOK, Door!LocksAgree, UNCHANGED <<a5, a6, a7>>,
         \A r \in Messages : a8'[r].pc # "new" => a8'[r].conv # 0,
         \A r \in Messages :
           a8'[r].pc \in Door!Inside \cup {"wait"} => a8'[r].lock # 0 /\ a8'[r].lock = a5[a8'[r].conv],
         \A r \in Messages :
           a8'[r].pc \in Door!Inside => a8[r].pc \in Door!Inside /\ a8'[r].lock = a8[r].lock
  PROVE  Door!LocksTypeOK' /\ Door!LocksAgree'
<1>1. Door!LocksTypeOK'
  BY Zenon DEF Door!LocksTypeOK, Door!Locks
<1>2. /\ \A c, d \in 1 .. MaxConvs : a5[c] # 0 /\ a5[c] = a5[d] => c = d
      /\ \A r \in Messages : a8[r].pc \in Door!Inside => a7[a8[r].lock] = r
  BY DEF Door!LocksAgree, Door!Convs
<1>3. Door!LocksAgree'
  BY <1>2 DEF Door!LocksAgree, Door!Convs, Door!At
<1>4. QED
  BY <1>1, <1>3

LEMMA DoorParts ==
  ASSUME Door!DoorInv
  PROVE  /\ Door!ConvsTypeOK /\ Door!LocksTypeOK /\ Door!ReqTypeOK /\ Door!TasksTypeOK /\ Door!TitlesTypeOK
         /\ Door!LocksAgree /\ Door!LogsAgree /\ Door!OpenConvs /\ Door!TasksAgree /\ Door!TitlesAgree
BY Zenon DEF Door!DoorInv, Door!DoorTypeOK

LEMMA DoorFacts ==
  ASSUME Door!DoorInv
  PROVE  /\ a2 \in 1 .. MaxConvs /\ a1 \in 1 .. a2 /\ a9 \in [1 .. MaxConvs -> Seq(Messages)]
         /\ a5 \in [1 .. MaxConvs -> 0 .. a6]
         /\ a8 \in [Messages -> [pc : Door!Places, kind : Door!Kinds, conv : 0 .. a2, lock : 0 .. a6]]
         /\ \A r \in Messages :
              /\ a8[r].pc # "new" => a8[r].conv \in 1 .. MaxConvs
              /\ a8[r].pc \in Door!Inside \cup {"wait"} => a8[r].lock # 0 /\ a8[r].lock = a5[a8[r].conv]
              /\ a8[r].pc \in Door!Inside => a7[a8[r].lock] = r
         /\ \A c, d \in 1 .. MaxConvs : a5[c] # 0 /\ a5[c] = a5[d] => c = d
<1>1. /\ a2 \in 1 .. MaxConvs /\ a1 \in 1 .. a2 /\ a9 \in [1 .. MaxConvs -> Seq(Messages)]
      /\ a5 \in [1 .. MaxConvs -> 0 .. a6]
      /\ a8 \in [Messages -> [pc : Door!Places, kind : Door!Kinds, conv : 0 .. a2, lock : 0 .. a6]]
  BY DoorParts, Zenon DEF Door!ConvsTypeOK, Door!LocksTypeOK, Door!ReqTypeOK, Door!Convs
<1>2. /\ \A r \in Messages :
           /\ a8[r].pc # "new" => a8[r].conv # 0
           /\ a8[r].pc \in Door!Inside \cup {"wait"} => a8[r].lock # 0 /\ a8[r].lock = a5[a8[r].conv]
           /\ a8[r].pc \in Door!Inside => a7[a8[r].lock] = r
      /\ \A c, d \in 1 .. MaxConvs : a5[c] # 0 /\ a5[c] = a5[d] => c = d
  BY DoorParts, Zenon DEF Door!LocksAgree, Door!At, Door!Convs
<1>3. \A r \in Messages : a8[r].conv \in 0 .. a2
  <2>1. \A r \in Messages : a8[r] \in [pc : Door!Places, kind : Door!Kinds, conv : 0 .. a2, lock : 0 .. a6]
    BY <1>1
  <2>2. QED
    BY <2>1
<1>4. \A n \in 0 .. a2 : n # 0 => n \in 1 .. MaxConvs
  BY <1>1, DoorAssumption
<1>5. \A r \in Messages : a8[r].pc # "new" => a8[r].conv \in 1 .. MaxConvs
  BY <1>2, <1>3, <1>4, Zenon
<1>6. QED
  BY <1>1, <1>2, <1>5, Zenon

\* A step of a request that touches nothing else.
LEMMA DoorGoesOn ==
  ASSUME Door!DoorInv, NEW r \in Messages,
         UNCHANGED <<a1, a2, a3, a4, a5, a6, a7, a9, a10, a11, a12, a13, a14, a16>>,
         a8' \in [Messages -> [pc : Door!Places, kind : Door!Kinds, conv : 0 .. a2, lock : 0 .. a6]],
         \A q \in Messages : q # r => a8'[q] = a8[q],
         a8'[r].pc # "new" => a8'[r].conv # 0,
         a8[r].pc # "new" => a8'[r].pc # "new" /\ a8'[r].conv = a8[r].conv,
         a8[r].pc \in Door!Gone \cup {"loop"} => a8'[r].pc \in Door!Gone,
         a8'[r].pc = "wait" => a8'[r].lock # 0 /\ a8'[r].lock = a5[a8'[r].conv],
         a8'[r].pc \in Door!Inside => a8[r].pc \in Door!Inside /\ a8'[r].lock = a8[r].lock,
         a8'[r].pc # "loop"
  PROVE  Door!DoorInv'
<1>1. Door!ConvsTypeOK' /\ Door!OpenConvs'
  BY DoorParts, ConvsStay
<1>2. Door!ReqTypeOK'
  BY Zenon DEF Door!ReqTypeOK
<1>3. Door!TasksTypeOK' /\ Door!TasksAgree'
  <2>1. \A q \in Messages : a8[q].pc \in Door!Gone => a8'[q].pc \in Door!Gone
    OBVIOUS
  <2>2. QED
    BY <2>1, DoorParts, TasksStay
<1>4. Door!TitlesTypeOK' /\ Door!TitlesAgree'
  <2>1. \A q \in Messages : a8[q].pc # "new" => a8'[q].pc # "new" /\ a8'[q].conv = a8[q].conv
    OBVIOUS
  <2>2. QED
    BY <2>1, DoorParts, TitlesStay
<1>5. Door!LogsAgree'
  <2>1. \A q \in Messages :
          /\ a8[q].pc \in Door!Gone \cup {"loop"} =>
               a8'[q].pc \in Door!Gone \cup {"loop"} /\ a8'[q].conv = a8[q].conv
          /\ a8'[q].pc = "loop" => a8[q].pc = "loop"
    BY DEF Door!Gone
  <2>2. QED
    BY <2>1, DoorParts, DoorFacts, LogsStay
<1>6. Door!LocksTypeOK' /\ Door!LocksAgree'
  <2>5. /\ \A q \in Messages : a8[q].pc # "new" => a8[q].conv # 0
        /\ \A q \in Messages :
             a8[q].pc \in Door!Inside \cup {"wait"} => a8[q].lock # 0 /\ a8[q].lock = a5[a8[q].conv]
    BY DoorParts, Zenon DEF Door!LocksAgree, Door!At
  <2>1. \A q \in Messages : a8'[q].pc # "new" => a8'[q].conv # 0
    BY <2>5
  <2>2. \A q \in Messages :
          a8'[q].pc \in Door!Inside \cup {"wait"} => a8'[q].lock # 0 /\ a8'[q].lock = a5[a8'[q].conv]
    <3>1. CASE a8'[r].pc \in Door!Inside
      <4>1. a8[r].pc # "new" /\ a8'[r].conv = a8[r].conv
        BY <3>1 DEF Door!Inside
      <4>2. QED
        BY <2>5, <3>1, <4>1
    <3>2. CASE a8'[r].pc \notin Door!Inside
      BY <2>5, <3>2
    <3>3. QED
      BY <3>1, <3>2
  <2>3. \A q \in Messages :
          a8'[q].pc \in Door!Inside => a8[q].pc \in Door!Inside /\ a8'[q].lock = a8[q].lock
    OBVIOUS
  <2>4. QED
    BY <2>1, <2>2, <2>3, DoorParts, LocksStay
<1>7. QED
  BY <1>1, <1>2, <1>3, <1>4, <1>5, <1>6, Zenon DEF Door!DoorInv, Door!DoorTypeOK

LEMMA DoorWaits ==
  ASSUME Door!DoorInv, NEW r \in Messages,
         Door!Bind(r) \/ Door!Peek(r) \/ (Door!Guard(r) /\ a5[a8[r].conv] # 0) \/ Door!Raises(r) \/ Door!Reply(r)
  PROVE  Door!DoorInv'
<1>1. UNCHANGED <<a1, a2, a3, a4, a5, a6, a7, a9, a10, a11, a12, a13, a14, a16>>
  BY DEF Door!Bind, Door!Peek, Door!Guard, Door!Raises, Door!Reply, Door!convVars, Door!titleVars,
         Door!lockVars, Door!taskVars
<1> DEFINE Reqs == [pc : Door!Places, kind : Door!Kinds, conv : 0 .. a2, lock : 0 .. a6]
<1>2. a8 \in [Messages -> Reqs] /\ a8[r] \in Reqs /\ a1 \in 0 .. a2 /\ a1 # 0
  BY DoorFacts, DoorAssumption
<1>3. ASSUME NEW v \in Reqs, a8' = [a8 EXCEPT ![r] = v],
             v.pc # "new" => v.conv # 0,
             a8[r].pc # "new" => v.pc # "new" /\ v.conv = a8[r].conv,
             a8[r].pc \in Door!Gone \cup {"loop"} => v.pc \in Door!Gone,
             v.pc = "wait" => v.lock # 0 /\ v.lock = a5[v.conv],
             v.pc \in Door!Inside => a8[r].pc \in Door!Inside /\ v.lock = a8[r].lock,
             v.pc # "loop"
      PROVE  Door!DoorInv'
  <2>1. a8' \in [Messages -> Reqs] /\ a8'[r] = v /\ \A q \in Messages : q # r => a8'[q] = a8[q]
    BY <1>2, <1>3
  <2>2. QED
    BY <1>1, <1>3, <2>1, DoorGoesOn
<1>4. a8[r].pc # "new" => a8[r].conv # 0 /\ a8[r].conv \in 1 .. MaxConvs
  BY DoorFacts, DoorParts DEF Door!LocksAgree, Door!At
<1>5. CASE Door!Bind(r)
  <2>1. PICK k \in Door!Kinds : a8' = [a8 EXCEPT ![r] = [a8[r] EXCEPT !.pc = "bound", !.kind = k, !.conv = a1]]
    BY <1>5 DEF Door!Bind
  <2>2. a8[r].pc = "new"
    BY <1>5 DEF Door!Bind, Door!At
  <2> DEFINE v == [a8[r] EXCEPT !.pc = "bound", !.kind = k, !.conv = a1]
  <2>3. v \in Reqs /\ v.pc = "bound" /\ v.conv = a1
    BY <1>2, <2>1 DEF Door!Places
  <2>4. a8' = [a8 EXCEPT ![r] = v]
    BY <2>1
  <2> HIDE DEF v
  <2>5. QED
    BY <1>2, <1>3, <2>2, <2>3, <2>4 DEF Door!Gone, Door!Inside
<1>6. CASE Door!Peek(r)
  <2> DEFINE n == a5[a8[r].conv]
             p == IF n = 0 THEN "guard" ELSE "wait"
             v == [a8[r] EXCEPT !.lock = n, !.pc = p]
  <2>1. a8[r].pc = "bound" /\ a8' = [a8 EXCEPT ![r] = v]
    BY <1>6 DEF Door!Peek, Door!At
  <2>2. n \in 0 .. a6
    BY <1>4, <2>1, DoorFacts
  <2> HIDE DEF n
  <2>3. p \in {"guard", "wait"} /\ (p = "wait" => n # 0)
    OBVIOUS
  <2> HIDE DEF p
  <2>4. v \in Reqs /\ v.pc = p /\ v.conv = a8[r].conv /\ v.lock = n
    BY <1>2, <2>2, <2>3 DEF Door!Places
  <2> HIDE DEF v
  <2>5. QED
    BY <1>3, <1>4, <2>1, <2>3, <2>4 DEF Door!Gone, Door!Inside, n
<1>7. CASE Door!Guard(r) /\ a5[a8[r].conv] # 0
  <2> DEFINE n == a5[a8[r].conv]
             v == [a8[r] EXCEPT !.lock = n, !.pc = "wait"]
  <2>1. a8[r].pc = "guard" /\ a8' = [a8 EXCEPT ![r] = v] /\ n # 0
    BY <1>7 DEF Door!Guard, Door!At
  <2>2. n \in 0 .. a6
    BY <1>4, <2>1, DoorFacts
  <2> HIDE DEF n
  <2>4. v \in Reqs /\ v.pc = "wait" /\ v.conv = a8[r].conv /\ v.lock = n
    BY <1>2, <2>2 DEF Door!Places
  <2> HIDE DEF v
  <2>5. QED
    BY <1>3, <1>4, <2>1, <2>4 DEF Door!Gone, Door!Inside, n
<1>8. CASE Door!Raises(r) \/ Door!Reply(r)
  <2>1. PICK p \in {"leave", "replied"} :
          /\ a8' = [a8 EXCEPT ![r].pc = p] /\ a8[r].pc \in {"loop", "answered"}
          /\ p = "leave" => a8[r].pc = "loop"
    BY <1>8 DEF Door!Raises, Door!Reply, Door!To, Door!At
  <2> DEFINE v == [a8[r] EXCEPT !.pc = p]
  <2>2. a8' = [a8 EXCEPT ![r] = v]
    BY <1>2, <2>1
  <2>3. v \in Reqs /\ v.pc = p /\ v.conv = a8[r].conv /\ v.lock = a8[r].lock
    BY <1>2, <2>1 DEF Door!Places, Door!Gone
  <2> HIDE DEF v
  <2>4. QED
    BY <1>3, <1>4, <2>1, <2>2, <2>3 DEF Door!Gone, Door!Inside
<1>9. QED
  BY <1>5, <1>6, <1>7, <1>8

\* There are no more locks than conversations.
LEMMA LocksBound ==
  ASSUME Door!DoorInv
  PROVE  /\ \A S : Door!Cardinality(S) = Cardinality(S)
         /\ IsFiniteSet({c \in 1 .. MaxConvs : a5[c] # 0})
         /\ a6 = Cardinality({c \in 1 .. MaxConvs : a5[c] # 0}) /\ a6 \in 0 .. MaxConvs
         /\ a7 \in [1 .. 2 * MaxConvs -> Messages \cup {Nobody}]
<1> DEFINE S == {c \in 1 .. MaxConvs : a5[c] # 0}
<1>1. \A T : Door!Cardinality(T) = Cardinality(T)
  BY Zenon DEF Door!Cardinality, Cardinality, Door!IsFiniteSet, IsFiniteSet
<1>2. IsFiniteSet(1 .. MaxConvs) /\ Cardinality(1 .. MaxConvs) = MaxConvs
  BY DoorAssumption, FS_Interval
<1>3. S \in SUBSET (1 .. MaxConvs)
  OBVIOUS
<1>4. IsFiniteSet(S) /\ Cardinality(S) <= MaxConvs /\ Cardinality(S) \in Nat
  <2> HIDE DEF S
  <2>1. QED
    BY <1>2, <1>3, FS_Subset, FS_CardinalityType
<1>5. a6 = Door!Cardinality(S) /\ a7 \in [1 .. 2 * MaxConvs -> Messages \cup {Nobody}]
  BY DoorParts, Zenon DEF Door!LocksTypeOK, Door!Convs, Door!Locks
<1> HIDE DEF S
<1>6. a6 = Cardinality(S) /\ a6 \in 0 .. MaxConvs
  BY <1>1, <1>4, <1>5, DoorAssumption
<1>7. QED
  BY <1>1, <1>4, <1>5, <1>6 DEF S

\* The first who comes to a conversation makes its lock, under the guard.
LEMMA DoorNewLock ==
  ASSUME Door!DoorInv, NEW r \in Messages, Door!Guard(r), a5[a8[r].conv] = 0
  PROVE  Door!DoorInv'
<1> DEFINE b == a8[r].conv
           Reqs == [pc : Door!Places, kind : Door!Kinds, conv : 0 .. a2, lock : 0 .. (a6 + 1)]
           v == [a8[r] EXCEPT !.lock = a6 + 1, !.pc = "wait"]
<1>1. /\ a8[r].pc = "guard" /\ a6' = a6 + 1 /\ a5' = [a5 EXCEPT ![b] = a6 + 1]
      /\ a8' = [a8 EXCEPT ![r] = v]
      /\ UNCHANGED <<a1, a2, a3, a4, a7, a9, a10, a11, a12, a13, a14, a16>>
  BY DEF Door!Guard, Door!NewLock, Door!At, Door!convVars, Door!titleVars, Door!taskVars
<1>2. a6 \in Nat /\ a6 + 1 \in 1 .. (a6 + 1) /\ 0 .. a6 \subseteq 0 .. (a6 + 1)
  <2>1. a6 \in 0 .. MaxConvs
    BY LocksBound, Zenon
  <2>2. a6 \in Nat
    BY <2>1
  <2>3. QED
    BY <2>2
<1>3. b \in 1 .. MaxConvs /\ a5[b] = 0 /\ a5 \in [1 .. MaxConvs -> 0 .. a6]
  BY <1>1, DoorFacts
<1>4. a8 \in [Messages -> Reqs] /\ a8[r] \in Reqs
  <2>1. \A q \in Messages :
          a8[q] \in [pc : Door!Places, kind : Door!Kinds, conv : 0 .. a2, lock : 0 .. a6]
    BY DoorFacts
  <2>2. \A q \in Messages : a8[q] \in Reqs
    BY <1>2, <2>1
  <2>3. a8 = [q \in Messages |-> a8[q]]
    BY DoorFacts
  <2> HIDE DEF Reqs
  <2>4. QED
    BY <2>2, <2>3
<1>5. v \in Reqs /\ v.pc = "wait" /\ v.conv = b /\ v.lock = a6 + 1
  <2>1. "wait" \in Door!Places
    BY DEF Door!Places
  <2>2. a6 + 1 \in 0 .. (a6 + 1)
    BY <1>2
  <2>3. QED
    BY <1>4, <2>1, <2>2
<1> HIDE DEF b, v
<1>6. a8' \in [Messages -> Reqs] /\ a8'[r] = v /\ \A q \in Messages : q # r => a8'[q] = a8[q]
  BY <1>1, <1>4, <1>5
<1>7. Door!ConvsTypeOK' /\ Door!OpenConvs'
  BY <1>1, DoorParts, ConvsStay
<1>8. Door!ReqTypeOK'
  BY <1>1, <1>6, Zenon DEF Door!ReqTypeOK
<1>9. Door!TasksTypeOK' /\ Door!TasksAgree'
  <2>1. \A q \in Messages : a8[q].pc \in Door!Gone => a8'[q].pc \in Door!Gone
    BY <1>1, <1>6 DEF Door!Gone
  <2>2. QED
    BY <1>1, <2>1, DoorParts, TasksStay
<1>10. Door!TitlesTypeOK' /\ Door!TitlesAgree'
  <2>1. \A q \in Messages : a8[q].pc # "new" => a8'[q].pc # "new" /\ a8'[q].conv = a8[q].conv
    BY <1>5, <1>6 DEF b
  <2>2. QED
    BY <1>1, <2>1, DoorParts, TitlesStay
<1>11. Door!LogsAgree'
  <2>1. \A q \in Messages :
          /\ a8[q].pc \in Door!Gone \cup {"loop"} =>
               a8'[q].pc \in Door!Gone \cup {"loop"} /\ a8'[q].conv = a8[q].conv
          /\ a8'[q].pc = "loop" => a8[q].pc = "loop"
    BY <1>1, <1>5, <1>6 DEF Door!Gone
  <2>2. QED
    BY <1>1, <2>1, DoorParts, DoorFacts, LogsStay
<1>12. /\ a5' \in [1 .. MaxConvs -> 0 .. a6'] /\ a5'[b] = a6 + 1
       /\ \A c \in 1 .. MaxConvs : c # b => a5'[c] = a5[c] /\ a5[c] \in 0 .. a6
  BY <1>1, <1>2, <1>3
<1>13. Door!LocksTypeOK'
  <2> DEFINE S == {c \in 1 .. MaxConvs : a5[c] # 0}
             T == {c \in 1 .. MaxConvs : a5'[c] # 0}
  <2>1. T = S \cup {b} /\ b \notin S
    BY <1>2, <1>3, <1>12
  <2>2. IsFiniteSet(S) /\ a6 = Cardinality(S) /\ Door!Cardinality(T) = Cardinality(T)
    BY LocksBound
  <2> HIDE DEF S, T
  <2>3. Cardinality(T) = a6 + 1
    BY <2>1, <2>2, FS_AddElement
  <2>4. a6' = Door!Cardinality(T)
    BY <1>1, <2>2, <2>3
  <2>5. a7' \in [Door!Locks -> Messages \cup {Nobody}]
    BY <1>1, DoorParts, Zenon DEF Door!LocksTypeOK
  <2>6. QED
    BY <1>12, <2>4, <2>5, Zenon DEF Door!LocksTypeOK, Door!Convs, Door!Locks, T
<1>14. Door!LocksAgree'
  <2>1. \A c, d \in 1 .. MaxConvs : a5'[c] # 0 /\ a5'[c] = a5'[d] => c = d
    <3>1. \A n \in 0 .. a6 : n # a6 + 1
      BY <1>2
    <3>2. \A c, d \in 1 .. MaxConvs : a5[c] # 0 /\ a5[c] = a5[d] => c = d
      BY DoorFacts, Zenon
    <3>3. QED
      BY <1>12, <3>1, <3>2
  <2>2. \A q \in Messages : a8'[q].pc # "new" => a8'[q].conv # 0
    BY <1>3, <1>5, <1>6, DoorParts DEF Door!LocksAgree, Door!At
  <2>3. \A q \in Messages :
          a8'[q].pc \in Door!Inside \cup {"wait"} => a8'[q].lock # 0 /\ a8'[q].lock = a5'[a8'[q].conv]
    <3>1. ASSUME NEW q \in Messages, q # r, a8'[q].pc \in Door!Inside \cup {"wait"}
          PROVE  a8'[q].lock # 0 /\ a8'[q].lock = a5'[a8'[q].conv]
      <4>1. a8'[q] = a8[q] /\ a8[q].lock # 0 /\ a8[q].lock = a5[a8[q].conv]
        BY <1>6, <3>1, DoorFacts
      <4>2. a8[q].conv \in 1 .. MaxConvs
        BY <3>1, <4>1, DoorFacts DEF Door!Inside
      <4>3. QED
        BY <1>3, <1>12, <4>1, <4>2
    <3>2. a8'[r].lock # 0 /\ a8'[r].lock = a5'[a8'[r].conv]
      BY <1>2, <1>5, <1>6, <1>12
    <3>3. QED
      BY <3>1, <3>2
  <2>4. \A q \in Messages : a8'[q].pc \in Door!Inside => a7'[a8'[q].lock] = q
    BY <1>1, <1>5, <1>6, DoorFacts DEF Door!Inside
  <2>5. QED
    BY <2>1, <2>2, <2>3, <2>4, Zenon DEF Door!LocksAgree, Door!At, Door!Convs
<1>15. QED
  BY <1>7, <1>8, <1>9, <1>10, <1>11, <1>13, <1>14, Zenon DEF Door!DoorInv, Door!DoorTypeOK

\* Of those who are in a conversation, one has its lock.
LEMMA DoorHolder ==
  ASSUME Door!DoorInv, NEW r \in Messages, a8[r].pc \in Door!Inside \cup {"wait"}
  PROVE  /\ a8[r].lock \in 1 .. 2 * MaxConvs /\ a8[r].conv \in 1 .. MaxConvs
         /\ \A q \in Messages : a8[q].pc \in Door!Inside /\ q # r =>
              /\ a8[r].pc \in Door!Inside => a8[q].conv # a8[r].conv /\ a8[q].lock # a8[r].lock
              /\ a7[a8[r].lock] = Nobody => a8[q].lock # a8[r].lock
<1>1. a6 \in 0 .. MaxConvs /\ MaxConvs \in Nat /\ Nobody \notin Messages
  BY LocksBound, DoorAssumption, Zenon
<1>2. a8[r].lock \in 0 .. a6 /\ a8[r].lock # 0
  <2>1. a8[r] \in [pc : Door!Places, kind : Door!Kinds, conv : 0 .. a2, lock : 0 .. a6]
    BY DoorFacts
  <2>2. QED
    BY <2>1, DoorFacts
<1>3. \A n \in 0 .. a6 : n # 0 => n \in 1 .. 2 * MaxConvs
  BY <1>1
<1>4. \A q \in Messages : a8[q].pc \in Door!Inside =>
        a8[q].lock = a5[a8[q].conv] /\ a7[a8[q].lock] = q
  BY DoorFacts
<1>5. a8[r].lock = a5[a8[r].conv] /\ (a8[r].pc \in Door!Inside => a7[a8[r].lock] = r)
  BY DoorFacts
<1>6. a8[r].conv \in 1 .. MaxConvs
  BY DoorFacts DEF Door!Inside
<1>7. QED
  BY <1>1, <1>2, <1>3, <1>4, <1>5, <1>6

LEMMA DoorEnter ==
  ASSUME Door!DoorInv, NEW r \in Messages, Door!Enter(r) PROVE Door!DoorInv'
<1> DEFINE b == a8[r].conv
           n == a8[r].lock
           titled == a8[r].kind \in {"say", "task"} /\ a4[b] = ""
           p == IF a8[r].kind = "other" THEN "leave" ELSE "route"
<1>1. /\ a8[r].pc = "wait" /\ a7[n] = Nobody /\ a7' = [a7 EXCEPT ![n] = r]
      /\ a8' = [a8 EXCEPT ![r].pc = p]
      /\ a4' = IF titled THEN [a4 EXCEPT ![b] = "first"] ELSE a4
      /\ a14' = IF titled THEN a14 \cup {r} ELSE a14
      /\ UNCHANGED <<a1, a2, a3, a5, a6, a9, a10, a11, a12, a13, a16>>
  BY DEF Door!Enter, Door!To, Door!At, Door!convVars, Door!taskVars
<1>2. p \in {"leave", "route"} /\ p \in Door!Places
  BY DEF Door!Places, Door!Inside
<1> HIDE DEF p
<1>3. /\ a8' \in [Messages -> [pc : Door!Places, kind : Door!Kinds, conv : 0 .. a2, lock : 0 .. a6]]
      /\ a8'[r].pc = p /\ a8'[r].conv = b /\ a8'[r].lock = n
      /\ \A q \in Messages : q # r => a8'[q] = a8[q]
  BY <1>1, <1>2, DoorFacts, DoorMove
<1>4. /\ n \in 1 .. 2 * MaxConvs /\ b \in 1 .. MaxConvs
      /\ \A q \in Messages : a8[q].pc \in Door!Inside /\ q # r => a8[q].lock # n
  BY <1>1, DoorHolder
<1>5. n # 0 /\ n = a5[b]
  BY <1>1, DoorFacts
<1> HIDE DEF b, n
<1>6. Door!ConvsTypeOK' /\ Door!OpenConvs'
  BY <1>1, DoorParts, ConvsStay
<1>7. Door!ReqTypeOK'
  BY <1>1, <1>3, Zenon DEF Door!ReqTypeOK
<1>8. Door!TasksTypeOK' /\ Door!TasksAgree'
  <2>1. \A q \in Messages : a8[q].pc \in Door!Gone => a8'[q].pc \in Door!Gone
    BY <1>1, <1>3 DEF Door!Gone
  <2>2. QED
    BY <1>1, <2>1, DoorParts, TasksStay
<1>9. Door!LogsAgree'
  <2>1. \A q \in Messages :
          /\ a8[q].pc \in Door!Gone \cup {"loop"} =>
               a8'[q].pc \in Door!Gone \cup {"loop"} /\ a8'[q].conv = a8[q].conv
          /\ a8'[q].pc = "loop" => a8[q].pc = "loop"
    BY <1>1, <1>2, <1>3 DEF Door!Gone
  <2>2. QED
    BY <1>1, <2>1, DoorParts, DoorFacts, LogsStay
<1>10. a7' \in [1 .. 2 * MaxConvs -> Messages \cup {Nobody}] /\ a7'[n] = r
       /\ \A m \in 1 .. 2 * MaxConvs : m # n => a7'[m] = a7[m]
  BY <1>1, <1>4, LocksBound
<1>11. Door!LocksTypeOK'
  BY <1>1, <1>10, DoorParts, Zenon DEF Door!LocksTypeOK, Door!Locks
<1>12. Door!LocksAgree'
  <2>1. \A q \in Messages : a8'[q].pc # "new" => a8'[q].conv # 0
    BY <1>3, <1>4, DoorParts DEF Door!LocksAgree, Door!At
  <2>2. \A q \in Messages :
          a8'[q].pc \in Door!Inside \cup {"wait"} => a8'[q].lock # 0 /\ a8'[q].lock = a5'[a8'[q].conv]
    BY <1>1, <1>3, <1>5, DoorFacts
  <2>3. ASSUME NEW q \in Messages, a8'[q].pc \in Door!Inside PROVE a7'[a8'[q].lock] = q
    <3>1. CASE q = r
      BY <1>3, <1>10, <3>1
    <3>2. CASE q # r
      <4>1. a8'[q] = a8[q] /\ a8[q].lock # n /\ a7[a8[q].lock] = q
        BY <1>3, <1>4, <2>3, <3>2, DoorFacts
      <4>2. a8[q].lock \in 1 .. 2 * MaxConvs
        BY <2>3, <4>1, DoorHolder
      <4>3. QED
        BY <1>10, <4>1, <4>2
    <3>3. QED
      BY <3>1, <3>2
  <2>4. \A c, d \in 1 .. MaxConvs : a5'[c] # 0 /\ a5'[c] = a5'[d] => c = d
    BY <1>1, DoorFacts, Zenon
  <2>5. QED
    BY <2>1, <2>2, <2>3, <2>4, Zenon DEF Door!LocksAgree, Door!At, Door!Convs
<1>13. Door!TitlesTypeOK' /\ Door!TitlesAgree'
  <2>1. /\ a4 \in [1 .. MaxConvs -> {"", "first", "refined", "own"}] /\ a14 \subseteq Messages
        /\ a16 \subseteq 1 .. MaxConvs
    BY DoorParts, Zenon DEF Door!TitlesTypeOK, Door!Convs
  <2>2. /\ \A c \in a16 : a4[c] = "own"
        /\ \A q \in a14 : a8[q].pc # "new" /\ a8[q].conv \notin a16
    BY DoorParts, Zenon DEF Door!TitlesAgree, Door!At
  <2>3. \A q \in a14 : a8'[q].pc # "new" /\ a8'[q].conv \notin a16
    BY <1>1, <1>2, <1>3, <2>1, <2>2 DEF b
  <2>4. CASE titled
    <3>1. b \notin a16 /\ a4' = [a4 EXCEPT ![b] = "first"] /\ a14' = a14 \cup {r}
      BY <1>1, <2>2, <2>4
    <3>2. /\ a4' \in [1 .. MaxConvs -> {"", "first", "refined", "own"}]
          /\ \A c \in a16 : a4'[c] = "own"
      BY <2>1, <2>2, <3>1
    <3>3. \A q \in a14' : a8'[q].pc # "new" /\ a8'[q].conv \notin a16
      BY <1>2, <1>3, <2>3, <3>1
    <3>4. a14' \subseteq Messages
      BY <2>1, <3>1
    <3>5. QED
      BY <1>1, <2>1, <3>2, <3>3, <3>4 DEF Door!TitlesTypeOK, Door!TitlesAgree, Door!At, Door!Convs
  <2>5. CASE ~ titled
    <3>1. a4' = a4 /\ a14' = a14
      BY <1>1, <2>5
    <3>2. QED
      BY <1>1, <2>1, <2>2, <2>3, <3>1 DEF Door!TitlesTypeOK, Door!TitlesAgree, Door!At, Door!Convs
  <2>6. QED
    BY <2>4, <2>5
<1>14. QED
  BY <1>6, <1>7, <1>8, <1>9, <1>11, <1>12, <1>13, Zenon DEF Door!DoorInv, Door!DoorTypeOK

LEMMA DoorLeave ==
  ASSUME Door!DoorInv, NEW r \in Messages, Door!Leave(r) PROVE Door!DoorInv'
<1> DEFINE n == a8[r].lock
<1>1. /\ a8[r].pc = "leave" /\ a7' = [a7 EXCEPT ![n] = Nobody]
      /\ a8' = [a8 EXCEPT ![r].pc = "answered"]
      /\ UNCHANGED <<a1, a2, a3, a4, a5, a6, a9, a10, a11, a12, a13, a14, a16>>
  BY DEF Door!Leave, Door!To, Door!At, Door!convVars, Door!taskVars, Door!titleVars
<1>2. "answered" \in Door!Places
  BY DEF Door!Places, Door!Gone
<1>3. /\ a8' \in [Messages -> [pc : Door!Places, kind : Door!Kinds, conv : 0 .. a2, lock : 0 .. a6]]
      /\ a8'[r].pc = "answered" /\ a8'[r].conv = a8[r].conv
      /\ \A q \in Messages : q # r => a8'[q] = a8[q]
  BY <1>1, <1>2, DoorFacts, DoorMove
<1>4. /\ n \in 1 .. 2 * MaxConvs
      /\ \A q \in Messages : a8[q].pc \in Door!Inside /\ q # r => a8[q].lock # n
  BY <1>1, DoorHolder DEF Door!Inside
<1> HIDE DEF n
<1>6. Door!ConvsTypeOK' /\ Door!OpenConvs'
  BY <1>1, DoorParts, ConvsStay
<1>7. Door!ReqTypeOK'
  BY <1>1, <1>3, Zenon DEF Door!ReqTypeOK
<1>8. Door!TasksTypeOK' /\ Door!TasksAgree'
  <2>1. \A q \in Messages : a8[q].pc \in Door!Gone => a8'[q].pc \in Door!Gone
    BY <1>1, <1>3 DEF Door!Gone
  <2>2. QED
    BY <1>1, <2>1, DoorParts, TasksStay
<1>9. Door!LogsAgree'
  <2>1. \A q \in Messages :
          /\ a8[q].pc \in Door!Gone \cup {"loop"} =>
               a8'[q].pc \in Door!Gone \cup {"loop"} /\ a8'[q].conv = a8[q].conv
          /\ a8'[q].pc = "loop" => a8[q].pc = "loop"
    BY <1>1, <1>3 DEF Door!Gone
  <2>2. QED
    BY <1>1, <2>1, DoorParts, DoorFacts, LogsStay
<1>10. a7' \in [1 .. 2 * MaxConvs -> Messages \cup {Nobody}]
       /\ \A m \in 1 .. 2 * MaxConvs : m # n => a7'[m] = a7[m]
  BY <1>1, <1>4, LocksBound
<1>11. Door!LocksTypeOK'
  BY <1>1, <1>10, DoorParts, Zenon DEF Door!LocksTypeOK, Door!Locks
<1>12. Door!LocksAgree'
  <2>1. \A q \in Messages : a8'[q].pc # "new" => a8'[q].conv # 0
    BY <1>1, <1>3, DoorParts DEF Door!LocksAgree, Door!At
  <2>2. \A q \in Messages :
          a8'[q].pc \in Door!Inside \cup {"wait"} => a8'[q].lock # 0 /\ a8'[q].lock = a5'[a8'[q].conv]
    BY <1>1, <1>3, DoorFacts DEF Door!Inside
  <2>3. ASSUME NEW q \in Messages, a8'[q].pc \in Door!Inside PROVE a7'[a8'[q].lock] = q
    <3>1. q # r
      BY <1>3, <2>3 DEF Door!Inside
    <3>2. a8'[q] = a8[q] /\ a8[q].lock # n /\ a7[a8[q].lock] = q
      BY <1>3, <1>4, <2>3, <3>1, DoorFacts
    <3>3. a8[q].lock \in 1 .. 2 * MaxConvs
      BY <2>3, <3>2, DoorHolder
    <3>4. QED
      BY <1>10, <3>2, <3>3
  <2>4. \A c, d \in 1 .. MaxConvs : a5'[c] # 0 /\ a5'[c] = a5'[d] => c = d
    BY <1>1, DoorFacts, Zenon
  <2>5. QED
    BY <2>1, <2>2, <2>3, <2>4, Zenon DEF Door!LocksAgree, Door!At, Door!Convs
<1>13. Door!TitlesTypeOK' /\ Door!TitlesAgree'
  <2>1. \A q \in Messages : a8[q].pc # "new" => a8'[q].pc # "new" /\ a8'[q].conv = a8[q].conv
    BY <1>3
  <2>2. QED
    BY <1>1, <2>1, DoorParts, TitlesStay
<1>14. QED
  BY <1>6, <1>7, <1>8, <1>9, <1>11, <1>12, <1>13, Zenon DEF Door!DoorInv, Door!DoorTypeOK

\* A step of the one who is inside.
LEMMA DoorInside ==
  ASSUME Door!DoorInv, NEW r \in Messages, a8[r].pc \in {"route", "loop"}, NEW p \in {"loop", "leave"},
         a8' = [a8 EXCEPT ![r].pc = p], UNCHANGED <<a4, a5, a6, a7, a14, a16>>
  PROVE  /\ Door!LocksTypeOK' /\ Door!LocksAgree' /\ Door!TitlesTypeOK' /\ Door!TitlesAgree'
         /\ \A q \in Messages : a8[q].pc \in Door!Gone => a8'[q].pc \in Door!Gone
         /\ a8' \in [Messages -> [pc : Door!Places, kind : Door!Kinds, conv : 0 .. a2, lock : 0 .. a6]]
         /\ a8'[r].pc = p /\ a8'[r].conv = a8[r].conv /\ \A q \in Messages : q # r => a8'[q] = a8[q]
         /\ a8[r].conv \in 1 .. a2
         /\ \A q \in Messages : q # r /\ a8[q].pc = "loop" => a8[q].conv # a8[r].conv
<1>1. p \in Door!Places /\ p \in Door!Inside /\ a8[r].pc \in Door!Inside
  BY DEF Door!Places, Door!Gone, Door!Inside
<1>2. /\ a8' \in [Messages -> [pc : Door!Places, kind : Door!Kinds, conv : 0 .. a2, lock : 0 .. a6]]
      /\ a8'[r].pc = p /\ a8'[r].conv = a8[r].conv /\ a8'[r].lock = a8[r].lock
      /\ \A q \in Messages : q # r => a8'[q] = a8[q]
  <2>1. a8 \in [Messages -> [pc : Door!Places, kind : Door!Kinds, conv : 0 .. a2, lock : 0 .. a6]]
    BY DoorFacts
  <2>2. QED
    BY <1>1, <2>1, DoorMove
<1>3. Door!LocksTypeOK' /\ Door!LocksAgree'
  <2>1. \A q \in Messages : a8'[q].pc # "new" => a8'[q].conv # 0
    BY <1>2, DoorParts DEF Door!LocksAgree, Door!At
  <2>2. \A q \in Messages :
          a8'[q].pc \in Door!Inside \cup {"wait"} => a8'[q].lock # 0 /\ a8'[q].lock = a5[a8'[q].conv]
    BY <1>1, <1>2, DoorFacts
  <2>3. \A q \in Messages :
          a8'[q].pc \in Door!Inside => a8[q].pc \in Door!Inside /\ a8'[q].lock = a8[q].lock
    BY <1>1, <1>2
  <2>4. QED
    BY <2>1, <2>2, <2>3, DoorParts, LocksStay
<1>4. Door!TitlesTypeOK' /\ Door!TitlesAgree'
  <2>1. \A q \in Messages : a8[q].pc # "new" => a8'[q].pc # "new" /\ a8'[q].conv = a8[q].conv
    BY <1>2
  <2>2. QED
    BY <2>1, DoorParts, TitlesStay
<1>5. \A q \in Messages : a8[q].pc \in Door!Gone => a8'[q].pc \in Door!Gone
  BY <1>2 DEF Door!Gone
<1>6. a8[r].conv \in 1 .. a2
  <2>1. a8[r].conv \in 0 .. a2 /\ a8[r].conv \in 1 .. MaxConvs /\ a2 \in 1 .. MaxConvs
    <3>1. a8[r] \in [pc : Door!Places, kind : Door!Kinds, conv : 0 .. a2, lock : 0 .. a6]
      BY DoorFacts
    <3>2. QED
      BY <3>1, DoorFacts
  <2>2. QED
    BY <2>1, DoorAssumption
<1>7. \A q \in Messages : q # r /\ a8[q].pc = "loop" => a8[q].conv # a8[r].conv
  BY <1>1, DoorHolder DEF Door!Inside
<1>8. QED
  BY <1>2, <1>3, <1>4, <1>5, <1>6, <1>7

LEMMA DoorSays ==
  ASSUME Door!DoorInv, NEW r \in Messages, Door!Ask(r) \/ Door!Answer(r) PROVE Door!DoorInv'
<1> DEFINE b == a8[r].conv
<1>1. PICK p \in {"loop", "leave"} :
        /\ a8' = [a8 EXCEPT ![r].pc = p] /\ a9' = [a9 EXCEPT ![b] = Append(a9[b], r)]
        /\ p = "loop" => a8[r].pc = "route"
        /\ p = "leave" => a8[r].pc = "loop"
  BY DEF Door!Ask, Door!Answer, Door!To, Door!At
<1>2. /\ UNCHANGED <<a1, a2, a4, a5, a6, a7, a10, a11, a12, a13, a14, a16>>
      /\ a3' = a3 \/ \E s \in {"working", "chatting"} : a3' = [a3 EXCEPT ![b] = s]
  <2>1. CASE Door!Ask(r)
    BY <2>1 DEF Door!Ask, Door!titleVars, Door!lockVars, Door!taskVars
  <2>2. CASE Door!Answer(r)
    BY <2>2 DEF Door!Answer, Door!titleVars, Door!lockVars, Door!taskVars
  <2>3. QED
    BY <2>1, <2>2
<1>3. a8[r].pc \in {"route", "loop"}
  BY <1>1
<1>4. /\ Door!LocksTypeOK' /\ Door!LocksAgree' /\ Door!TitlesTypeOK' /\ Door!TitlesAgree'
      /\ \A q \in Messages : a8[q].pc \in Door!Gone => a8'[q].pc \in Door!Gone
      /\ a8' \in [Messages -> [pc : Door!Places, kind : Door!Kinds, conv : 0 .. a2, lock : 0 .. a6]]
      /\ a8'[r].pc = p /\ a8'[r].conv = b /\ \A q \in Messages : q # r => a8'[q] = a8[q]
      /\ b \in 1 .. a2
      /\ \A q \in Messages : q # r /\ a8[q].pc = "loop" => a8[q].conv # b
  BY <1>1, <1>2, <1>3, DoorInside
<1> HIDE DEF b
<1>5. Door!ReqTypeOK'
  BY <1>2, <1>4, Zenon DEF Door!ReqTypeOK
<1>6. Door!TasksTypeOK' /\ Door!TasksAgree'
  BY <1>2, <1>4, DoorParts, TasksStay
<1>7. b \in 1 .. MaxConvs
  <2>1. b \in 1 .. a2 /\ a2 \in 1 .. MaxConvs /\ MaxConvs \in Nat
    BY <1>4, DoorFacts, DoorAssumption
  <2>2. QED
    BY <2>1
<1>8. /\ a9 \in [1 .. MaxConvs -> Seq(Messages)] /\ a9[b] \in Seq(Messages)
      /\ a9' \in [1 .. MaxConvs -> Seq(Messages)] /\ a9'[b] = Append(a9[b], r)
      /\ \A c \in 1 .. MaxConvs : c # b => a9'[c] = a9[c]
  BY <1>1, <1>7, DoorFacts
<1>9. /\ Len(a9[b]) \in Nat /\ Len(a9'[b]) = Len(a9[b]) + 1 /\ a9'[b][Len(a9[b]) + 1] = r
      /\ \A i \in 1 .. Len(a9[b]) : a9'[b][i] = a9[b][i]
  BY <1>8
<1>10. Door!ConvsTypeOK' /\ Door!OpenConvs'
  <2>1. /\ a2 \in 1 .. MaxConvs /\ a1 \in 1 .. a2
        /\ a3 \in [1 .. MaxConvs -> {"chatting", "working", "archived"}]
        /\ a3[a1] # "archived" /\ \A c \in 1 .. MaxConvs : c > a2 => a3[c] = "chatting"
    BY DoorParts, Zenon DEF Door!ConvsTypeOK, Door!OpenConvs, Door!Convs
  <2>2. /\ a3' \in [1 .. MaxConvs -> {"chatting", "working", "archived"}]
        /\ \A c \in 1 .. MaxConvs : a3'[c] = a3[c] \/ (c = b /\ a3'[c] \in {"working", "chatting"})
    BY <1>2, <1>7, <2>1
  <2>3. a1 \in 1 .. MaxConvs /\ ~ (b > a2)
    BY <1>4, <2>1, DoorAssumption
  <2>4. a3'[a1] # "archived" /\ \A c \in 1 .. MaxConvs : c > a2 => a3'[c] = "chatting"
    BY <2>1, <2>2, <2>3
  <2>5. Door!OpenConvs'
    BY <1>2, <2>4 DEF Door!OpenConvs, Door!Convs
  <2>6. Door!ConvsTypeOK'
    BY <1>2, <1>8, <2>1, <2>2, Zenon DEF Door!ConvsTypeOK, Door!Convs
  <2>7. QED
    BY <2>5, <2>6
<1>11. /\ \A c \in 1 .. MaxConvs : \A i, j \in 1 .. Len(a9[c]) : i < j /\ a9[c][i] = a9[c][j] => j = i + 1
       /\ \A c \in 1 .. MaxConvs : \A i \in 1 .. Len(a9[c]) :
            a8[a9[c][i]].conv = c /\ a8[a9[c][i]].pc \in Door!Gone \cup {"loop"}
       /\ \A q \in Messages : a8[q].pc = "loop" =>
            \A i \in 1 .. Len(a9[a8[q].conv]) : a9[a8[q].conv][i] = q <=> i = Len(a9[a8[q].conv])
  BY DoorParts, Zenon DEF Door!LogsAgree, Door!LogOf, Door!At, Door!Convs
<1>12. \A c \in 1 .. MaxConvs : \A i \in 1 .. Len(a9[c]) : a9[c][i] \in Messages
  BY <1>8
\* Who answers has asked last; who asks has not spoken.
<1>13. \A i \in 1 .. Len(a9[b]) : a9[b][i] = r => p = "leave" /\ i = Len(a9[b])
  <2>1. CASE p = "loop"
    BY <1>1, <1>7, <1>11, <2>1 DEF Door!Gone
  <2>2. CASE p = "leave"
    BY <1>1, <1>11, <2>2 DEF b
  <2>3. QED
    BY <2>1, <2>2
<1>14. \A i \in 1 .. Len(a9'[b]) : i \in 1 .. Len(a9[b]) \/ i = Len(a9[b]) + 1
  BY <1>9
<1>15. \A c \in 1 .. MaxConvs : \A i, j \in 1 .. Len(a9'[c]) : i < j /\ a9'[c][i] = a9'[c][j] => j = i + 1
  <2>1. ASSUME NEW i \in 1 .. Len(a9'[b]), NEW j \in 1 .. Len(a9'[b]), i < j, a9'[b][i] = a9'[b][j]
        PROVE  j = i + 1
    <3>1. i \in 1 .. Len(a9[b])
      BY <1>9, <2>1
    <3>2. CASE j = Len(a9[b]) + 1
      BY <1>9, <1>13, <2>1, <3>1, <3>2
    <3>3. CASE j # Len(a9[b]) + 1
      <4>1. j \in 1 .. Len(a9[b])
        BY <1>14, <3>3
      <4>2. a9[b][i] = a9[b][j]
        BY <1>9, <2>1, <3>1, <4>1
      <4>3. QED
        BY <1>7, <1>11, <2>1, <3>1, <4>1, <4>2
    <3>4. QED
      BY <3>2, <3>3
  <2>2. ASSUME NEW c \in 1 .. MaxConvs, c # b
        PROVE  \A i, j \in 1 .. Len(a9'[c]) : i < j /\ a9'[c][i] = a9'[c][j] => j = i + 1
    <3>1. a9'[c] = a9[c]
      BY <1>8, <2>2
    <3>2. QED
      BY <1>11, <3>1
  <2>3. QED
    BY <2>1, <2>2
<1>16. \A c \in 1 .. MaxConvs : \A i \in 1 .. Len(a9'[c]) :
         a8'[a9'[c][i]].conv = c /\ a8'[a9'[c][i]].pc \in Door!Gone \cup {"loop"}
  <2>1. /\ a8'[r].conv = b /\ a8'[r].pc \in Door!Gone \cup {"loop"}
    BY <1>4 DEF Door!Gone
  <2>2. ASSUME NEW c \in 1 .. MaxConvs, NEW i \in 1 .. Len(a9[c])
        PROVE  a8'[a9[c][i]].conv = c /\ a8'[a9[c][i]].pc \in Door!Gone \cup {"loop"}
    <3>1. a9[c][i] \in Messages /\ a8[a9[c][i]].conv = c /\ a8[a9[c][i]].pc \in Door!Gone \cup {"loop"}
      BY <1>11, <1>12
    <3>2. CASE a9[c][i] = r
      BY <2>1, <3>1, <3>2 DEF b
    <3>3. CASE a9[c][i] # r
      BY <1>4, <3>1, <3>3
    <3>4. QED
      BY <3>2, <3>3
  <2>3. ASSUME NEW i \in 1 .. Len(a9'[b])
        PROVE  a8'[a9'[b][i]].conv = b /\ a8'[a9'[b][i]].pc \in Door!Gone \cup {"loop"}
    <3>1. CASE i \in 1 .. Len(a9[b])
      BY <1>7, <1>9, <2>2, <3>1
    <3>2. CASE i = Len(a9[b]) + 1
      BY <1>9, <2>1, <3>2
    <3>3. QED
      BY <1>14, <3>1, <3>2
  <2>4. ASSUME NEW c \in 1 .. MaxConvs, c # b
        PROVE  \A i \in 1 .. Len(a9'[c]) :
                 a8'[a9'[c][i]].conv = c /\ a8'[a9'[c][i]].pc \in Door!Gone \cup {"loop"}
    BY <1>8, <2>2, <2>4
  <2>5. QED
    BY <2>3, <2>4
<1>17. \A q \in Messages : a8'[q].pc = "loop" =>
         \A i \in 1 .. Len(a9'[a8'[q].conv]) : a9'[a8'[q].conv][i] = q <=> i = Len(a9'[a8'[q].conv])
  <2>1. ASSUME NEW q \in Messages, q # r, a8'[q].pc = "loop"
        PROVE  \A i \in 1 .. Len(a9'[a8'[q].conv]) : a9'[a8'[q].conv][i] = q <=> i = Len(a9'[a8'[q].conv])
    <3>1. a8'[q] = a8[q] /\ a8[q].pc = "loop" /\ a8[q].conv # b
      BY <1>4, <2>1
    <3>2. a8[q].conv \in 1 .. MaxConvs
      BY <3>1, DoorFacts
    <3>3. a9'[a8'[q].conv] = a9[a8[q].conv]
      BY <1>8, <3>1, <3>2
    <3>4. QED
      BY <1>11, <3>1, <3>3
  <2>2. ASSUME a8'[r].pc = "loop", NEW i \in 1 .. Len(a9'[b]) PROVE a9'[b][i] = r <=> i = Len(a9'[b])
    BY <1>4, <1>9, <1>13, <1>14, <2>2
  <2>3. QED
    BY <1>4, <2>1, <2>2
<1>18. Door!LogsAgree'
  BY <1>15, <1>16, <1>17, Zenon DEF Door!LogsAgree, Door!LogOf, Door!At, Door!Convs
<1>19. QED
  BY <1>4, <1>5, <1>6, <1>10, <1>18, Zenon DEF Door!DoorInv, Door!DoorTypeOK

\* /new and /stop.
LEMMA DoorEnds ==
  ASSUME Door!DoorInv, NEW r \in Messages, Door!New(r) \/ Door!StopIt(r) PROVE Door!DoorInv'
<1> DEFINE b == a8[r].conv
<1>1. /\ a8' = [a8 EXCEPT ![r].pc = "leave"] /\ a8[r].pc = "route"
      /\ UNCHANGED <<a4, a5, a6, a7, a9, a10, a11, a12, a13, a14, a16>>
      /\ \/ a1' = a1 /\ a2' = a2 /\ a3' = (IF a3[b] = "working" THEN [a3 EXCEPT ![b] = "chatting"] ELSE a3)
         \/ a2 < MaxConvs /\ a2' = a2 + 1 /\ a1' = a2 + 1 /\ a3' = [a3 EXCEPT ![b] = "archived"]
  BY DEF Door!New, Door!StopIt, Door!To, Door!At, Door!titleVars, Door!lockVars, Door!taskVars
<1>2. /\ Door!LocksTypeOK' /\ Door!LocksAgree' /\ Door!TitlesTypeOK' /\ Door!TitlesAgree'
      /\ \A q \in Messages : a8[q].pc \in Door!Gone => a8'[q].pc \in Door!Gone
      /\ a8' \in [Messages -> [pc : Door!Places, kind : Door!Kinds, conv : 0 .. a2, lock : 0 .. a6]]
      /\ a8'[r].pc = "leave" /\ a8'[r].conv = b /\ \A q \in Messages : q # r => a8'[q] = a8[q]
      /\ b \in 1 .. a2
  BY <1>1, DoorInside
<1> HIDE DEF b
<1>3. /\ a2 \in 1 .. MaxConvs /\ a1 \in 1 .. a2
      /\ a3 \in [1 .. MaxConvs -> {"chatting", "working", "archived"}]
      /\ a9 \in [1 .. MaxConvs -> Seq(Messages)]
      /\ a3[a1] # "archived" /\ \A c \in 1 .. MaxConvs : c > a2 => a3[c] = "chatting"
  BY DoorParts, Zenon DEF Door!ConvsTypeOK, Door!OpenConvs, Door!Convs
<1>4. /\ b \in 1 .. MaxConvs /\ ~ (b > a2) /\ a1 \in 1 .. MaxConvs
      /\ 0 .. a2 \subseteq 0 .. (a2 + 1) /\ MaxConvs \in Nat /\ a2 \in Nat
  BY <1>2, <1>3, DoorAssumption
<1>5. Door!ConvsTypeOK' /\ Door!OpenConvs' /\ 0 .. a2 \subseteq 0 .. a2'
  <2>1. CASE a1' = a1 /\ a2' = a2 /\ a3' = (IF a3[b] = "working" THEN [a3 EXCEPT ![b] = "chatting"] ELSE a3)
    <3>1. /\ a3' \in [1 .. MaxConvs -> {"chatting", "working", "archived"}]
          /\ \A c \in 1 .. MaxConvs : a3'[c] = a3[c] \/ (c = b /\ a3'[c] = "chatting")
      <4>1. CASE a3[b] = "working"
        BY <1>3, <1>4, <2>1, <4>1
      <4>2. CASE a3[b] # "working"
        BY <1>3, <1>4, <2>1, <4>2
      <4>3. QED
        BY <4>1, <4>2
    <3>2. a3'[a1] # "archived" /\ \A c \in 1 .. MaxConvs : c > a2 => a3'[c] = "chatting"
      BY <1>3, <1>4, <3>1
    <3>3. Door!OpenConvs' /\ Door!ConvsTypeOK'
      BY <1>1, <1>3, <2>1, <3>1, <3>2 DEF Door!OpenConvs, Door!ConvsTypeOK, Door!Convs
    <3>4. QED
      BY <2>1, <3>3
  <2>2. CASE a2 < MaxConvs /\ a2' = a2 + 1 /\ a1' = a2 + 1 /\ a3' = [a3 EXCEPT ![b] = "archived"]
    <3>1. /\ a3' \in [1 .. MaxConvs -> {"chatting", "working", "archived"}]
          /\ \A c \in 1 .. MaxConvs : c # b => a3'[c] = a3[c]
      BY <1>3, <1>4, <2>2
    <3>2. /\ a2 + 1 \in 1 .. MaxConvs /\ a2 + 1 \in 1 .. (a2 + 1) /\ a2 + 1 > a2
          /\ \A c \in 1 .. MaxConvs : c > a2 + 1 => c > a2
      BY <1>3, <1>4, <2>2
    <3>3. a3'[a2 + 1] # "archived" /\ \A c \in 1 .. MaxConvs : c > a2 + 1 => a3'[c] = "chatting"
      BY <1>3, <1>4, <3>1, <3>2
    <3>4. Door!OpenConvs' /\ Door!ConvsTypeOK'
      BY <1>1, <1>3, <2>2, <3>1, <3>2, <3>3 DEF Door!OpenConvs, Door!ConvsTypeOK, Door!Convs
    <3>5. QED
      BY <1>4, <2>2, <3>4
  <2>3. QED
    BY <1>1, <2>1, <2>2
<1>6. Door!ReqTypeOK'
  <2>1. \A q \in Messages :
          a8'[q] \in [pc : Door!Places, kind : Door!Kinds, conv : 0 .. a2, lock : 0 .. a6]
    BY <1>2
  <2>2. \A q \in Messages :
          a8'[q] \in [pc : Door!Places, kind : Door!Kinds, conv : 0 .. a2', lock : 0 .. a6']
    BY <1>1, <1>5, <2>1
  <2>3. a8' = [q \in Messages |-> a8'[q]]
    BY <1>2
  <2> DEFINE R == [pc : Door!Places, kind : Door!Kinds, conv : 0 .. a2', lock : 0 .. a6']
  <2>4. a8' \in [Messages -> R]
    <3> HIDE DEF R
    <3>1. \A q \in Messages : a8'[q] \in R
      BY <2>2 DEF R
    <3>2. QED
      BY <2>3, <3>1
  <2>5. QED
    BY <2>4, Zenon DEF Door!ReqTypeOK
<1>7. Door!TasksTypeOK' /\ Door!TasksAgree'
  BY <1>1, <1>2, DoorParts, TasksStay
<1>8. Door!LogsAgree'
  <2>1. \A q \in Messages :
          /\ a8[q].pc \in Door!Gone \cup {"loop"} =>
               a8'[q].pc \in Door!Gone \cup {"loop"} /\ a8'[q].conv = a8[q].conv
          /\ a8'[q].pc = "loop" => a8[q].pc = "loop"
    BY <1>1, <1>2 DEF Door!Gone
  <2>2. QED
    BY <1>1, <2>1, DoorParts, DoorFacts, LogsStay
<1>9. QED
  BY <1>2, <1>5, <1>6, <1>7, <1>8, Zenon DEF Door!DoorInv, Door!DoorTypeOK

\* A task is given to its thread.
LEMMA DoorAccept ==
  ASSUME Door!DoorInv, NEW r \in Messages, Door!Accept(r) PROVE Door!DoorInv'
<1>1. /\ a8' = [a8 EXCEPT ![r].pc = "leave"] /\ a8[r].pc = "route" /\ a10' = [a10 EXCEPT ![r].pc = "run"]
      /\ UNCHANGED <<a1, a2, a3, a4, a5, a6, a7, a9, a11, a12, a13, a14, a16>>
  BY DEF Door!Accept, Door!To, Door!At, Door!convVars, Door!titleVars, Door!lockVars
<1>2. /\ Door!LocksTypeOK' /\ Door!LocksAgree' /\ Door!TitlesTypeOK' /\ Door!TitlesAgree'
      /\ \A q \in Messages : a8[q].pc \in Door!Gone => a8'[q].pc \in Door!Gone
      /\ a8' \in [Messages -> [pc : Door!Places, kind : Door!Kinds, conv : 0 .. a2, lock : 0 .. a6]]
      /\ a8'[r].pc = "leave" /\ a8'[r].conv = a8[r].conv /\ \A q \in Messages : q # r => a8'[q] = a8[q]
  BY <1>1, DoorInside
<1>3. Door!ConvsTypeOK' /\ Door!OpenConvs'
  BY <1>1, DoorParts, ConvsStay
<1>4. Door!ReqTypeOK'
  BY <1>1, <1>2, Zenon DEF Door!ReqTypeOK
<1>5. Door!LogsAgree'
  <2>1. \A q \in Messages :
          /\ a8[q].pc \in Door!Gone \cup {"loop"} =>
               a8'[q].pc \in Door!Gone \cup {"loop"} /\ a8'[q].conv = a8[q].conv
          /\ a8'[q].pc = "loop" => a8[q].pc = "loop"
    BY <1>1, <1>2 DEF Door!Gone
  <2>2. QED
    BY <1>1, <2>1, DoorParts, DoorFacts, LogsStay
<1> DEFINE Tasks == [pc : {"none", "run", "push", "excuse", "save", "over"},
                     verdict : Door!Verdicts \cup {""}, slow : BOOLEAN]
<1>6. /\ a10 \in [Messages -> Tasks]
      /\ a11 \in [Messages -> Door!Verdicts \cup {"none", "delivering", "done"}]
      /\ a12 \in [Messages -> Seq(Door!Verdicts)]
      /\ a13 \in [Messages -> Door!Verdicts \cup {"none", "open", "lost", "done"}]
  BY DoorParts, Zenon DEF Door!TasksTypeOK
<1>7. \A q \in Messages :
        /\ a10[q].pc # "none" => a8[q].pc \in Door!Gone
        /\ a12[q] = <<>> \/ (a10[q].pc \in {"save", "over"} /\ a12[q] = <<a10[q].verdict>>)
        /\ a11[q] \in Door!Verdicts \/ a13[q] \in Door!Verdicts => a10[q].pc \notin {"none", "run", "push"}
        /\ a11[q] \in Door!Verdicts => a11[q] = a10[q].verdict
        /\ a13[q] \in Door!Verdicts => a13[q] = a10[q].verdict
        /\ a10[q].pc \notin {"none", "run"} => a10[q].verdict \in Door!Verdicts
  BY DoorParts, Zenon DEF Door!TasksAgree, Door!Before
<1>8. a10[r].pc = "none"
  BY <1>1, <1>7 DEF Door!Gone
<1>9. /\ a10' \in [Messages -> Tasks] /\ a10'[r].pc = "run" /\ \A q \in Messages : q # r => a10'[q] = a10[q]
  <2>1. a10[r] \in Tasks /\ a10' = [a10 EXCEPT ![r] = [a10[r] EXCEPT !.pc = "run"]]
    BY <1>1, <1>6
  <2>2. [a10[r] EXCEPT !.pc = "run"] \in Tasks /\ [a10[r] EXCEPT !.pc = "run"].pc = "run"
    BY <2>1
  <2>3. QED
    BY <1>6, <2>1, <2>2
<1>10. Door!TasksTypeOK'
  BY <1>1, <1>6, <1>9, Zenon DEF Door!TasksTypeOK
<1>11. Door!TasksAgree'
  <2>1. ASSUME NEW q \in Messages
        PROVE  /\ a10'[q].pc # "none" => a8'[q].pc \in Door!Gone
               /\ a12'[q] = <<>> \/ (a10'[q].pc \in {"save", "over"} /\ a12'[q] = <<a10'[q].verdict>>)
               /\ a11'[q] \in Door!Verdicts \/ a13'[q] \in Door!Verdicts => a10'[q].pc \notin {"none", "run", "push"}
               /\ a11'[q] \in Door!Verdicts => a11'[q] = a10'[q].verdict
               /\ a13'[q] \in Door!Verdicts => a13'[q] = a10'[q].verdict
               /\ a10'[q].pc \notin {"none", "run"} => a10'[q].verdict \in Door!Verdicts
    <3>1. CASE q = r
      <4>1. a12[r] = <<>> /\ a11[r] \notin Door!Verdicts /\ a13[r] \notin Door!Verdicts
        BY <1>7, <1>8
      <4>2. a8'[r].pc \in Door!Gone
        BY <1>2 DEF Door!Gone
      <4>3. a12'[r] = a12[r] /\ a11'[r] = a11[r] /\ a13'[r] = a13[r]
        BY <1>1
      <4>4. a10'[r].pc = "run"
        BY <1>9
      <4>5. QED
        BY <3>1, <4>1, <4>2, <4>3, <4>4
    <3>2. CASE q # r
      <4>1. a10'[q] = a10[q] /\ a12'[q] = a12[q] /\ a11'[q] = a11[q] /\ a13'[q] = a13[q]
        BY <1>1, <1>9, <3>2
      <4>2. QED
        BY <1>2, <1>7, <4>1
    <3>3. QED
      BY <3>1, <3>2
  <2>2. QED
    BY <2>1, Zenon DEF Door!TasksAgree, Door!Before
<1>12. QED
  BY <1>2, <1>3, <1>4, <1>5, <1>10, <1>11, Zenon DEF Door!DoorInv, Door!DoorTypeOK

DoorTasks == [pc : {"none", "run", "push", "excuse", "save", "over"},
              verdict : Door!Verdicts \cup {""}, slow : BOOLEAN]

LEMMA DoorTaskFacts ==
  ASSUME Door!DoorInv
  PROVE  /\ a10 \in [Messages -> DoorTasks]
         /\ a11 \in [Messages -> Door!Verdicts \cup {"none", "delivering", "done"}]
         /\ a12 \in [Messages -> Seq(Door!Verdicts)]
         /\ a13 \in [Messages -> Door!Verdicts \cup {"none", "open", "lost", "done"}]
         /\ \A q \in Messages :
              /\ a10[q].pc # "none" => a8[q].pc \in Door!Gone
              /\ a12[q] = <<>> \/ (a10[q].pc \in {"save", "over"} /\ a12[q] = <<a10[q].verdict>>)
              /\ a11[q] \in Door!Verdicts \/ a13[q] \in Door!Verdicts => a10[q].pc \notin {"none", "run", "push"}
              /\ a11[q] \in Door!Verdicts => a11[q] = a10[q].verdict
              /\ a13[q] \in Door!Verdicts => a13[q] = a10[q].verdict
              /\ a10[q].pc \notin {"none", "run"} => a10[q].verdict \in Door!Verdicts
<1>1. Door!TasksTypeOK /\ Door!TasksAgree
  BY DoorParts, Zenon
<1>2. QED
  BY <1>1, Zenon DEF Door!TasksTypeOK, Door!TasksAgree, Door!Before, DoorTasks

\* A step of a task, of its row or of its stream.
LEMMA DoorTaskStep ==
  ASSUME Door!DoorInv, NEW r \in Messages,
         UNCHANGED <<a1, a2, a3, a4, a5, a6, a7, a8, a9, a14, a16>>,
         NEW t \in DoorTasks, a10' = [a10 EXCEPT ![r] = t],
         NEW w \in Door!Verdicts \cup {"none", "delivering", "done"}, a11' = [a11 EXCEPT ![r] = w],
         NEW u \in Seq(Door!Verdicts), a12' = [a12 EXCEPT ![r] = u],
         NEW s \in Door!Verdicts \cup {"none", "open", "lost", "done"}, a13' = [a13 EXCEPT ![r] = s],
         t.pc # "none" => a10[r].pc # "none",
         u = <<>> \/ (t.pc \in {"save", "over"} /\ u = <<t.verdict>>),
         w \in Door!Verdicts \/ s \in Door!Verdicts => t.pc \notin {"none", "run", "push"},
         w \in Door!Verdicts => w = t.verdict,
         s \in Door!Verdicts => s = t.verdict,
         t.pc \notin {"none", "run"} => t.verdict \in Door!Verdicts
  PROVE  Door!DoorInv'
<1>1. /\ Door!ConvsTypeOK' /\ Door!OpenConvs'
  BY DoorParts, ConvsStay
<1>2. Door!ReqTypeOK' /\ Door!LocksTypeOK' /\ Door!TitlesTypeOK'
  BY DoorParts, Zenon DEF Door!ReqTypeOK, Door!LocksTypeOK, Door!TitlesTypeOK
<1>3. Door!LocksAgree'
  BY DoorParts, Zenon DEF Door!LocksAgree, Door!At
<1>4. Door!LogsAgree' /\ Door!TitlesAgree'
  <2>1. Door!LogsAgree'
    BY DoorParts, DoorFacts, LogsStay
  <2>2. Door!TitlesAgree'
    BY DoorParts, TitlesStay
  <2>3. QED
    BY <2>1, <2>2
<1>5. /\ a10' \in [Messages -> DoorTasks] /\ a10'[r] = t /\ \A q \in Messages : q # r => a10'[q] = a10[q]
  BY DoorTaskFacts
<1>6. /\ a11' \in [Messages -> Door!Verdicts \cup {"none", "delivering", "done"}] /\ a11'[r] = w
      /\ \A q \in Messages : q # r => a11'[q] = a11[q]
  BY DoorTaskFacts
<1>7. /\ a12' \in [Messages -> Seq(Door!Verdicts)] /\ a12'[r] = u
      /\ \A q \in Messages : q # r => a12'[q] = a12[q]
  BY DoorTaskFacts
<1>8. /\ a13' \in [Messages -> Door!Verdicts \cup {"none", "open", "lost", "done"}] /\ a13'[r] = s
      /\ \A q \in Messages : q # r => a13'[q] = a13[q]
  BY DoorTaskFacts
<1>9. Door!TasksTypeOK'
  BY <1>5, <1>6, <1>7, <1>8, Zenon DEF Door!TasksTypeOK, DoorTasks
<1>10. ASSUME NEW q \in Messages
       PROVE  /\ a10'[q].pc # "none" => a8'[q].pc \in Door!Gone
              /\ a12'[q] = <<>> \/ (a10'[q].pc \in {"save", "over"} /\ a12'[q] = <<a10'[q].verdict>>)
              /\ a11'[q] \in Door!Verdicts \/ a13'[q] \in Door!Verdicts => a10'[q].pc \notin {"none", "run", "push"}
              /\ a11'[q] \in Door!Verdicts => a11'[q] = a10'[q].verdict
              /\ a13'[q] \in Door!Verdicts => a13'[q] = a10'[q].verdict
              /\ a10'[q].pc \notin {"none", "run"} => a10'[q].verdict \in Door!Verdicts
  <2>1. CASE q = r
    <3>1. a10[r].pc # "none" => a8'[r].pc \in Door!Gone
      BY DoorTaskFacts
    <3>2. QED
      BY <1>5, <1>6, <1>7, <1>8, <2>1, <3>1, Zenon
  <2>2. CASE q # r
    <3>1. a10'[q] = a10[q] /\ a12'[q] = a12[q] /\ a11'[q] = a11[q] /\ a13'[q] = a13[q] /\ a8'[q] = a8[q]
      BY <1>5, <1>6, <1>7, <1>8, <2>2
    <3>2. QED
      BY <3>1, DoorTaskFacts
  <2>3. QED
    BY <2>1, <2>2
<1>11. Door!TasksAgree'
  BY <1>10, Zenon DEF Door!TasksAgree, Door!Before
<1>12. QED
  BY <1>1, <1>2, <1>3, <1>4, <1>9, <1>11, Zenon DEF Door!DoorInv, Door!DoorTypeOK

LEMMA DoorRuns ==
  ASSUME Door!DoorInv, NEW r \in Messages,
         \/ Door!Progress(r) \/ Door!Execute(r) \/ Door!Breaks(r) \/ Door!Push(r) \/ Door!PushFails(r)
         \/ Door!Save(r) \/ Door!LateLog(r) \/ Door!Open(r) \/ Door!Poll(r)
  PROVE  Door!DoorInv'
<1> DEFINE t == a10[r]
<1>1. /\ t \in DoorTasks /\ a11[r] \in Door!Verdicts \cup {"none", "delivering", "done"}
      /\ a12[r] \in Seq(Door!Verdicts) /\ a13[r] \in Door!Verdicts \cup {"none", "open", "lost", "done"}
      /\ a12[r] = <<>> \/ (t.pc \in {"save", "over"} /\ a12[r] = <<t.verdict>>)
      /\ a11[r] \in Door!Verdicts \/ a13[r] \in Door!Verdicts => t.pc \notin {"none", "run", "push"}
      /\ a11[r] \in Door!Verdicts => a11[r] = t.verdict
      /\ a13[r] \in Door!Verdicts => a13[r] = t.verdict
      /\ t.pc \notin {"none", "run"} => t.verdict \in Door!Verdicts
  BY DoorTaskFacts
<1>2. /\ a10 = [a10 EXCEPT ![r] = t] /\ a11 = [a11 EXCEPT ![r] = a11[r]]
      /\ a12 = [a12 EXCEPT ![r] = a12[r]] /\ a13 = [a13 EXCEPT ![r] = a13[r]]
  BY DoorTaskFacts
<1>3. /\ UNCHANGED <<a1, a2, a3, a4, a5, a6, a7, a8, a9, a14, a16>>
  BY DEF Door!Progress, Door!Execute, Door!Breaks, Door!Push, Door!PushFails, Door!Save, Door!LateLog,
         Door!Open, Door!Poll, Door!Untouched, Door!convVars, Door!titleVars, Door!lockVars
<1>4. Door!Verdicts = {"succeeded", "partial", "failed"}
  BY DEF Door!Verdicts
<1> HIDE DEF t
<1>5. ASSUME NEW x \in DoorTasks, a10' = [a10 EXCEPT ![r] = x],
             NEW w \in Door!Verdicts \cup {"none", "delivering", "done"}, a11' = [a11 EXCEPT ![r] = w],
             NEW u \in Seq(Door!Verdicts), a12' = [a12 EXCEPT ![r] = u],
             NEW s \in Door!Verdicts \cup {"none", "open", "lost", "done"}, a13' = [a13 EXCEPT ![r] = s],
             x.pc # "none" => t.pc # "none",
             u = <<>> \/ (x.pc \in {"save", "over"} /\ u = <<x.verdict>>),
             w \in Door!Verdicts \/ s \in Door!Verdicts => x.pc \notin {"none", "run", "push"},
             w \in Door!Verdicts => w = x.verdict,
             s \in Door!Verdicts => s = x.verdict,
             x.pc \notin {"none", "run"} => x.verdict \in Door!Verdicts
      PROVE  Door!DoorInv'
  BY <1>3, <1>5, DoorTaskStep, Zenon DEF t
<1>6. CASE Door!Progress(r)
  <2>1. a11' = [a11 EXCEPT ![r] = "delivering"] /\ a10' = a10 /\ a12' = a12 /\ a13' = a13
    BY <1>6 DEF Door!Progress, Door!Untouched
  <2>2. "delivering" \notin Door!Verdicts
    BY <1>4
  <2>3. QED
    BY <1>1, <1>2, <1>5, <2>1, <2>2
<1>7. CASE Door!Execute(r)
  <2>1. PICK v \in Door!Verdicts, s \in BOOLEAN :
          a10' = [a10 EXCEPT ![r] = [pc |-> "push", verdict |-> v, slow |-> s]]
    BY <1>7 DEF Door!Execute
  <2>2. t.pc = "run" /\ a11' = a11 /\ a12' = a12 /\ a13' = a13
    BY <1>7 DEF Door!Execute, Door!Untouched, t
  <2> DEFINE x == [pc |-> "push", verdict |-> v, slow |-> s]
  <2>3. x \in DoorTasks /\ x.pc = "push" /\ x.verdict \in Door!Verdicts /\ a10' = [a10 EXCEPT ![r] = x]
    BY <2>1 DEF DoorTasks
  <2> HIDE DEF x
  <2>4. a11[r] \notin Door!Verdicts /\ a13[r] \notin Door!Verdicts /\ a12[r] = <<>>
    BY <1>1, <2>2
  <2>5. QED
    BY <1>1, <1>2, <1>5, <2>2, <2>3, <2>4
<1>8. CASE Door!Breaks(r)
  <2> DEFINE x == [t EXCEPT !.pc = "excuse", !.verdict = "failed"]
  <2>1. a10' = [a10 EXCEPT ![r] = x] /\ t.pc \in {"run", "push"} /\ a12' = a12 /\ a13' = a13
    BY <1>8 DEF Door!Breaks, Door!Untouched, t
  <2>2. x \in DoorTasks /\ x.pc = "excuse" /\ x.verdict = "failed" /\ "failed" \in Door!Verdicts
    BY <1>1, <1>4 DEF DoorTasks
  <2>3. a11' = [a11 EXCEPT ![r] = "failed"] \/ a11' = a11
    BY <1>8 DEF Door!Breaks
  <2> HIDE DEF x
  <2>4. a11[r] \notin Door!Verdicts /\ a13[r] \notin Door!Verdicts /\ a12[r] = <<>>
    BY <1>1, <2>1
  <2>7. /\ a12' = [a12 EXCEPT ![r] = a12[r]] /\ a13' = [a13 EXCEPT ![r] = a13[r]] /\ t.pc # "none"
        /\ a11[r] \in Door!Verdicts \cup {"none", "delivering", "done"} /\ a12[r] \in Seq(Door!Verdicts)
        /\ a13[r] \in Door!Verdicts \cup {"none", "open", "lost", "done"}
    BY <1>1, <1>2, <2>1
  <2>5. CASE a11' = [a11 EXCEPT ![r] = "failed"]
    BY <1>5, <2>1, <2>2, <2>4, <2>5, <2>7
  <2>6. CASE a11' = a11
    <3>1. a11' = [a11 EXCEPT ![r] = a11[r]]
      BY <1>2, <2>6
    <3>2. QED
      BY <1>5, <2>1, <2>2, <2>4, <2>7, <3>1
  <2>8. QED
    BY <2>3, <2>5, <2>6
<1>9. CASE Door!Push(r) \/ Door!PushFails(r)
  <2> DEFINE p == IF t.pc = "push" THEN "save" ELSE "over"
             x == [t EXCEPT !.pc = p]
  <2>1. a10' = [a10 EXCEPT ![r] = x] /\ t.pc \in {"push", "excuse"} /\ a11' = a11 /\ a13' = a13
    BY <1>9 DEF Door!Push, Door!PushFails, Door!Untouched, t
  <2>2. p \in {"save", "over"}
    OBVIOUS
  <2> HIDE DEF p
  <2>3. x \in DoorTasks /\ x.pc = p /\ x.verdict = t.verdict
    BY <1>1, <2>2 DEF DoorTasks
  <2>4. a12' = [a12 EXCEPT ![r] = Append(a12[r], t.verdict)] \/ a12' = a12
    BY <1>9 DEF Door!Push, Door!PushFails, Door!Untouched, t
  <2> HIDE DEF x
  <2>5. a12[r] = <<>>
    BY <1>1, <2>1
  <2>6. /\ a11' = [a11 EXCEPT ![r] = a11[r]] /\ a13' = [a13 EXCEPT ![r] = a13[r]] /\ t.pc # "none"
        /\ a11[r] \in Door!Verdicts \cup {"none", "delivering", "done"}
        /\ a13[r] \in Door!Verdicts \cup {"none", "open", "lost", "done"}
        /\ x.pc \in {"save", "over"} /\ x.verdict \in Door!Verdicts
        /\ a11[r] \in Door!Verdicts => a11[r] = x.verdict
        /\ a13[r] \in Door!Verdicts => a13[r] = x.verdict
    BY <1>1, <1>2, <2>1, <2>2, <2>3
  <2>7. CASE a12' = a12
    <3>1. a12' = [a12 EXCEPT ![r] = <<>>] /\ <<>> \in Seq(Door!Verdicts)
      BY <1>2, <2>5, <2>7
    <3>2. QED
      BY <1>5, <2>1, <2>3, <2>6, <3>1
  <2>8. CASE a12' = [a12 EXCEPT ![r] = Append(a12[r], t.verdict)]
    <3>1. a12' = [a12 EXCEPT ![r] = <<t.verdict>>]
      BY <2>5, <2>8
    <3>2. <<t.verdict>> \in Seq(Door!Verdicts)
      BY <1>1, <2>1
    <3>3. QED
      BY <1>5, <2>1, <2>3, <2>6, <3>1, <3>2
  <2>9. QED
    BY <2>4, <2>7, <2>8
<1>10. CASE Door!Save(r)
  <2> DEFINE x == [t EXCEPT !.pc = "over"]
  <2>1. a10' = [a10 EXCEPT ![r] = x] /\ t.pc = "save" /\ a12' = a12 /\ a13' = a13
    BY <1>10 DEF Door!Save, Door!Untouched, t
  <2>2. x \in DoorTasks /\ x.pc = "over" /\ x.verdict = t.verdict /\ t.verdict \in Door!Verdicts
    BY <1>1, <2>1 DEF DoorTasks
  <2>3. a11' = [a11 EXCEPT ![r] = t.verdict] \/ a11' = a11
    BY <1>10 DEF Door!Save, t
  <2> HIDE DEF x
  <2>4. /\ a12' = [a12 EXCEPT ![r] = a12[r]] /\ a13' = [a13 EXCEPT ![r] = a13[r]] /\ t.pc # "none"
        /\ a12[r] = <<>> \/ (x.pc \in {"save", "over"} /\ a12[r] = <<x.verdict>>)
        /\ a13[r] \in Door!Verdicts => a13[r] = x.verdict
        /\ a11[r] \in Door!Verdicts => a11[r] = x.verdict
    BY <1>1, <1>2, <2>1, <2>2
  <2>7. /\ a11[r] \in Door!Verdicts \cup {"none", "delivering", "done"} /\ a12[r] \in Seq(Door!Verdicts)
        /\ a13[r] \in Door!Verdicts \cup {"none", "open", "lost", "done"}
        /\ x.verdict \in Door!Verdicts \cup {"none", "delivering", "done"} /\ x.verdict \in Door!Verdicts
        /\ x.pc \notin {"none", "run", "push"}
    BY <1>1, <2>2
  <2>5. CASE a11' = a11
    <3>1. a11' = [a11 EXCEPT ![r] = a11[r]]
      BY <1>2, <2>5
    <3>2. QED
      BY <1>5, <2>1, <2>2, <2>4, <2>7, <3>1
  <2>8. CASE a11' = [a11 EXCEPT ![r] = t.verdict]
    <3>1. a11' = [a11 EXCEPT ![r] = x.verdict]
      BY <2>2, <2>8
    <3>2. QED
      BY <1>5, <2>1, <2>2, <2>4, <2>7, <3>1
  <2>6. QED
    BY <2>3, <2>5, <2>8
<1>11. CASE Door!LateLog(r)
  <2>1. a11' = [a11 EXCEPT ![r] = "done"] /\ a10' = a10 /\ a12' = a12 /\ a13' = a13
    BY <1>11 DEF Door!LateLog, Door!Untouched
  <2>2. "done" \notin Door!Verdicts
    BY <1>4
  <2>3. QED
    BY <1>1, <1>2, <1>5, <2>1, <2>2
<1>12. CASE Door!Open(r)
  <2>1. PICK s \in {"open", "lost"} : a13' = [a13 EXCEPT ![r] = s]
    BY <1>12 DEF Door!Open
  <2>2. a10' = a10 /\ a11' = a11 /\ a12' = a12 /\ s \notin Door!Verdicts
    BY <1>4, <1>12 DEF Door!Open
  <2>3. QED
    BY <1>1, <1>2, <1>5, <2>1, <2>2
<1>13. CASE Door!Poll(r)
  <2>1. /\ a13' = [a13 EXCEPT ![r] = a11[r]] /\ a10' = a10 /\ a11' = a11 /\ a12' = a12
        /\ a11[r] \in {"done"} \cup Door!Verdicts
    BY <1>13 DEF Door!Poll, Door!Final
  <2>2. QED
    BY <1>1, <1>2, <1>5, <2>1
<1>14. QED
  BY <1>6, <1>7, <1>8, <1>9, <1>10, <1>11, <1>12, <1>13

\* A title is refined, or posted by the user.
LEMMA DoorTitles ==
  ASSUME Door!DoorInv,
         (\E r \in Messages : Door!Refine(r)) \/ (\E c \in Door!Convs : Door!PostTitle(c))
  PROVE  Door!DoorInv'
<1>1. UNCHANGED <<a1, a2, a3, a5, a6, a7, a8, a9, a10, a11, a12, a13>>
  BY DEF Door!Refine, Door!PostTitle, Door!convVars, Door!lockVars, Door!taskVars
<1>2. Door!ConvsTypeOK' /\ Door!OpenConvs'
  BY <1>1, DoorParts, ConvsStay
<1>3. Door!ReqTypeOK' /\ Door!LocksTypeOK'
  BY <1>1, DoorParts, Zenon DEF Door!ReqTypeOK, Door!LocksTypeOK
<1>4. Door!LocksAgree'
  BY <1>1, DoorParts, Zenon DEF Door!LocksAgree, Door!At
<1>5. Door!LogsAgree'
  BY <1>1, DoorParts, DoorFacts, LogsStay
<1>6. Door!TasksTypeOK' /\ Door!TasksAgree'
  BY <1>1, DoorParts, TasksStay
<1>7. /\ a4 \in [1 .. MaxConvs -> {"", "first", "refined", "own"}]
      /\ a14 \subseteq Messages /\ a16 \subseteq 1 .. MaxConvs
      /\ \A c \in a16 : a4[c] = "own"
      /\ \A r \in a14 : a8[r].pc # "new" /\ a8[r].conv \notin a16 /\ a8[r].conv \in 1 .. MaxConvs
  <2>1. /\ a4 \in [1 .. MaxConvs -> {"", "first", "refined", "own"}]
        /\ a14 \subseteq Messages /\ a16 \subseteq 1 .. MaxConvs
        /\ \A c \in a16 : a4[c] = "own"
        /\ \A r \in a14 : a8[r].pc # "new" /\ a8[r].conv \notin a16
    BY DoorParts, Zenon DEF Door!TitlesTypeOK, Door!TitlesAgree, Door!At, Door!Convs
  <2>2. QED
    BY <2>1, DoorFacts
<1>8. /\ a4' \in [1 .. MaxConvs -> {"", "first", "refined", "own"}]
      /\ a14' \subseteq Messages /\ a16' \subseteq 1 .. MaxConvs
      /\ \A c \in a16' : a4'[c] = "own"
      /\ \A r \in a14' : a8[r].pc # "new" /\ a8[r].conv \notin a16'
  <2>1. CASE \E r \in Messages : Door!Refine(r)
    <3>1. PICK r \in Messages : Door!Refine(r)
      BY <2>1
    <3>2. /\ r \in a14 /\ a14' = a14 \ {r} /\ a16' = a16
          /\ a4' = [a4 EXCEPT ![a8[r].conv] = "refined"] \/ a4' = a4
      BY <3>1 DEF Door!Refine
    <3>3. a4' \in [1 .. MaxConvs -> {"", "first", "refined", "own"}] /\ \A c \in a16 : a4'[c] = a4[c]
      BY <1>7, <3>2
    <3>4. QED
      BY <1>7, <3>2, <3>3
  <2>2. CASE \E c \in Door!Convs : Door!PostTitle(c)
    <3>1. PICK c \in 1 .. MaxConvs : Door!PostTitle(c)
      BY <2>2 DEF Door!Convs
    <3>2. /\ a4' = [a4 EXCEPT ![c] = "own"] /\ a14' = a14
          /\ a16' = IF \E r \in a14 : a8[r].conv = c THEN a16 ELSE a16 \cup {c}
      BY <3>1 DEF Door!PostTitle
    <3>3. /\ a4' \in [1 .. MaxConvs -> {"", "first", "refined", "own"}]
          /\ a4'[c] = "own" /\ \A d \in 1 .. MaxConvs : d # c => a4'[d] = a4[d]
      BY <1>7, <3>2
    <3>4. QED
      BY <1>7, <3>2, <3>3
  <2>3. QED
    BY <2>1, <2>2
<1>9. Door!TitlesTypeOK' /\ Door!TitlesAgree'
  BY <1>1, <1>8 DEF Door!TitlesTypeOK, Door!TitlesAgree, Door!At, Door!Convs
<1>10. QED
  BY <1>2, <1>3, <1>4, <1>5, <1>6, <1>9, Zenon DEF Door!DoorInv, Door!DoorTypeOK

LEMMA DoorStays ==
  ASSUME Door!DoorInv, UNCHANGED slots PROVE Door!DoorInv'
<1>1. UNCHANGED <<a1, a2, a3, a4, a5, a6, a7, a8, a9, a10, a11, a12, a13, a14, a16>>
  BY DEF slots
<1>2. Door!ConvsTypeOK' /\ Door!OpenConvs'
  BY <1>1, DoorParts, ConvsStay
<1>3. Door!ReqTypeOK' /\ Door!LocksTypeOK'
  BY <1>1, DoorParts, Zenon DEF Door!ReqTypeOK, Door!LocksTypeOK
<1>4. Door!LocksAgree'
  BY <1>1, DoorParts, Zenon DEF Door!LocksAgree, Door!At
<1>5. Door!LogsAgree'
  BY <1>1, DoorParts, DoorFacts, LogsStay
<1>6. Door!TasksTypeOK' /\ Door!TasksAgree'
  BY <1>1, DoorParts, TasksStay
<1>7. Door!TitlesTypeOK' /\ Door!TitlesAgree'
  BY <1>1, DoorParts, TitlesStay
<1>8. QED
  BY <1>2, <1>3, <1>4, <1>5, <1>6, <1>7, Zenon DEF Door!DoorInv, Door!DoorTypeOK

LEMMA DoorStep ==
  ASSUME Door!DoorInv, Door!Next PROVE Door!DoorInv'
<1>1. ASSUME NEW r \in Messages, Door!Guard(r) PROVE Door!DoorInv'
  <2>1. CASE a5[a8[r].conv] # 0
    BY <1>1, <2>1, DoorWaits, Zenon
  <2>2. CASE a5[a8[r].conv] = 0
    BY <1>1, <2>2, DoorNewLock, Zenon
  <2>3. QED
    BY <2>1, <2>2
<1>2. QED
  BY <1>1, DoorWaits, DoorEnter, DoorLeave, DoorSays, DoorEnds, DoorAccept, DoorRuns, DoorTitles, Zenon
     DEF Door!Next

LEMMA DoorHolds ==
  ASSUME Door!DoorInv PROVE Door!DoorKept
<1>1. a9 \in [1 .. MaxConvs -> Seq(Messages)]
  BY DoorFacts
<1>2. \A c \in Door!Convs : \A i \in 1 .. Len(a9[c]) - 1 :
        a9[c][i] # a9[c][i + 1] => \A j \in i + 2 .. Len(a9[c]) : a9[c][j] # a9[c][i]
  <2>1. ASSUME NEW c \in Door!Convs, NEW i \in 1 .. Len(a9[c]) - 1, NEW j \in i + 2 .. Len(a9[c]),
               a9[c][j] = a9[c][i]
        PROVE  FALSE
    <3>1. Len(a9[c]) \in Nat
      BY <1>1 DEF Door!Convs
    <3>2. i \in 1 .. Len(a9[c]) /\ j \in 1 .. Len(a9[c]) /\ i < j /\ j # i + 1
      BY <3>1
    <3>3. \A d \in Door!Convs : \A k, l \in 1 .. Len(a9[d]) : k < l /\ a9[d][k] = a9[d][l] => l = k + 1
      BY DoorParts, Zenon DEF Door!LogsAgree
    <3>4. QED
      BY <2>1, <3>2, <3>3
  <2>2. QED
    BY <2>1
<1>3. a3[a1] # "archived" /\ \A c \in a16 : a4[c] = "own"
  BY DoorParts, Zenon DEF Door!OpenConvs, Door!TitlesAgree
<1>4. ASSUME NEW r \in Messages
      PROVE  /\ Len(a12[r]) <= 1
             /\ Door!Saved(r) /\ a12[r] # <<>> => a12[r] = <<a11[r]>>
             /\ a13[r] \in Door!Verdicts => a13[r] = a10[r].verdict
  <2>1. /\ a12[r] = <<>> \/ a12[r] = <<a10[r].verdict>>
        /\ a11[r] \in Door!Verdicts => a11[r] = a10[r].verdict
        /\ a13[r] \in Door!Verdicts => a13[r] = a10[r].verdict
    BY DoorTaskFacts
  <2>2. Len(a12[r]) <= 1
    <3>1. Len(<<>>) = 0 /\ Len(<<a10[r].verdict>>) = 1
      OBVIOUS
    <3>2. Len(a12[r]) \in {0, 1}
      BY <2>1, <3>1, Zenon
    <3>3. 0 <= 1 /\ 1 <= 1
      OBVIOUS
    <3>4. QED
      BY <3>2, <3>3, Zenon
  <2>3. QED
    BY <2>1, <2>2 DEF Door!Saved
<1>5. QED
  BY <1>2, <1>3, <1>4, Zenon DEF Door!DoorKept
(* SessionStore: a1 is cache, a2 row, a3 stored, a4 archive, a5 active, a6     *)
(* made, a7 goals, a8 failed, a9 said, a10 unsaved, a11 replaced, a12 doubtful, *)
(* a13 torn and a14 spoken.                                                  *)

MemoryRows(n) == [status : Memory!States \cup {"absent"}, goal : 0 .. n]

LEMMA MemoryTypes ==
  ASSUME Memory!MemoryInv
  PROVE  /\ a14 \in Nat /\ a7 \in 0 .. MaxGoals /\ a7 \in Nat /\ a6 \subseteq Keys
         /\ a1 \in [Keys -> Memory!Sessions \cup {Memory!Absent}]
         /\ a2 \in [Keys -> MemoryRows(a7)] /\ a3 \in [Keys -> Seq(1 .. a14)]
         /\ a4 \in [1 .. MaxGoals -> Nat] /\ a9 \in [Keys -> SUBSET (1 .. a14)]
         /\ \A g \in 1 .. MaxGoals : g > a7 => a4[g] = 0
         /\ Memory!Absent \notin Memory!Sessions
         /\ MaxGoals \in Nat /\ Keys \subseteq Nat /\ 1 \in Keys /\ MaxSaid \in Nat
<1>1. /\ a14 \in Nat /\ a7 \in 0 .. MaxGoals /\ a6 \subseteq Keys
      /\ a1 \in [Keys -> Memory!Sessions \cup {Memory!Absent}]
      /\ a2 \in [Keys -> MemoryRows(a7)] /\ a3 \in [Keys -> Seq(1 .. a14)]
      /\ a4 \in [1 .. MaxGoals -> Nat] /\ a9 \in [Keys -> SUBSET (1 .. a14)]
      /\ \A g \in 1 .. MaxGoals : g > a7 => a4[g] = 0
  BY Zenon DEF Memory!MemoryInv, Memory!StoreTypeOK, MemoryRows
<1>2. MaxGoals \in Nat /\ Keys \subseteq Nat /\ 1 \in Keys /\ MaxSaid \in Nat
  BY MemoryAssumption
<1>3. a7 \in Nat
  BY <1>1, <1>2
<1>4. Memory!Absent \notin Memory!Sessions
  BY DEF Memory!Absent, Memory!Sessions, Memory!States
<1>5. QED
  BY <1>1, <1>2, <1>3, <1>4, Zenon

\* What get_or_create returns.
LEMMA GotCached == ASSUME NEW k \in Keys, a1[k] # Memory!Absent PROVE Memory!Got(k) = a1[k]
BY DEF Memory!Got, Memory!Cached
LEMMA GotNew ==
  ASSUME NEW k \in Keys, a1[k] = Memory!Absent, a2[k].status = "absent" PROVE Memory!Got(k) = Memory!New
BY DEF Memory!Got, Memory!Cached
LEMMA GotRow ==
  ASSUME NEW k \in Keys, a1[k] = Memory!Absent, a2[k].status # "absent"
  PROVE  \E s \in {a2[k].status, "chatting"} :
           Memory!Got(k) = [status |-> s, goal |-> a2[k].goal, msgs |-> a3[k]] /\ s # "archived"
<1>1. CASE a2[k].status = "archived"
  BY <1>1 DEF Memory!Got, Memory!Cached, Memory!Restored
<1>2. CASE a2[k].status # "archived"
  BY <1>2 DEF Memory!Got, Memory!Cached, Memory!Restored
<1>3. QED
  BY <1>1, <1>2

LEMMA GoalIs ==
  ASSUME NEW k \in Keys, a2[k].status = "absent" => a2[k].goal = 0
  PROVE  Memory!GoalOf(k) = IF a1[k] # Memory!Absent THEN a1[k].goal ELSE a2[k].goal
<1>1. CASE a1[k] # Memory!Absent
  BY <1>1, GotCached DEF Memory!GoalOf
<1>2. CASE a1[k] = Memory!Absent /\ a2[k].status = "absent"
  BY <1>2, GotNew DEF Memory!GoalOf, Memory!New, Memory!NoGoal
<1>3. CASE a1[k] = Memory!Absent /\ a2[k].status # "absent"
  BY <1>3, GotRow DEF Memory!GoalOf
<1>4. QED
  BY <1>1, <1>2, <1>3
LEMMA GoalWillBe ==
  ASSUME NEW k \in Keys, a2'[k].status = "absent" => a2'[k].goal = 0
  PROVE  Memory!GoalOf(k)' = IF a1'[k] # Memory!Absent THEN a1'[k].goal ELSE a2'[k].goal
<1>1. CASE a1'[k] # Memory!Absent
  BY <1>1 DEF Memory!GoalOf, Memory!Got, Memory!Cached
<1>2. CASE a1'[k] = Memory!Absent /\ a2'[k].status = "absent"
  BY <1>2 DEF Memory!GoalOf, Memory!Got, Memory!Cached, Memory!New, Memory!NoGoal
<1>3. CASE a1'[k] = Memory!Absent /\ a2'[k].status # "absent"
  <2>1. Memory!Got(k)' \in {Memory!Restored(k)', [Memory!Restored(k)' EXCEPT !.status = "chatting"]}
    BY <1>3 DEF Memory!Got, Memory!Cached
  <2>2. Memory!Got(k)'.goal = a2'[k].goal
    BY <2>1 DEF Memory!Restored
  <2>3. QED
    BY <1>3, <2>2 DEF Memory!GoalOf
<1>4. QED
  BY <1>1, <1>2, <1>3

LEMMA MemoryFacts ==
  ASSUME Memory!MemoryInv, NEW k \in Keys
  PROVE  /\ Memory!Got(k) \in Memory!Sessions
         /\ a2[k].status = "absent" => a2[k].goal = 0
         /\ Memory!GoalOf(k) = Memory!Got(k).goal
         /\ Memory!GoalOf(k) = IF a1[k] # Memory!Absent THEN a1[k].goal ELSE a2[k].goal
         /\ Memory!GoalOf(k) \in 0 .. a7 /\ a2[k].goal \in 0 .. a7
         /\ Memory!GoalOf(k) # a2[k].goal => {Memory!GoalOf(k), a2[k].goal} \subseteq a12 \cup {0}
         /\ Memory!Remembers(a3[k], k)
         /\ k \notin a13 => Memory!Remembers(Memory!Got(k).msgs, k)
         /\ k \notin a13 /\ a2[k].status = "absent" => a3[k] = <<>>
         /\ k \notin a6 => a1[k] = Memory!Absent /\ a2[k] = Memory!Row(Memory!Absent) /\ a9[k] = {} /\ a3[k] = <<>>
<1>1. /\ Memory!MessagesKept(k) /\ Memory!GoalKept(k)
      /\ k \notin a6 => a1[k] = Memory!Absent /\ a2[k] = Memory!Row(Memory!Absent) /\ a9[k] = {} /\ a3[k] = <<>>
  BY Zenon DEF Memory!MemoryInv, Memory!Unused
<1>2. /\ a2[k].status = "absent" => a2[k].goal = 0
      /\ Memory!GoalOf(k) # a2[k].goal => {Memory!GoalOf(k), a2[k].goal} \subseteq a12 \cup {0}
  BY <1>1 DEF Memory!GoalKept, Memory!NoGoal
<1>3. /\ Memory!Remembers(a3[k], k)
      /\ k \notin a13 => /\ a1[k] # Memory!Absent => Memory!Remembers(a1[k].msgs, k)
                         /\ a2[k].status = "absent" => a3[k] = <<>>
  BY <1>1, Zenon DEF Memory!MessagesKept, Memory!Cached
<1>4. /\ a1[k] \in Memory!Sessions \cup {Memory!Absent} /\ a2[k] \in MemoryRows(a7) /\ a3[k] \in Seq(1 .. a14)
      /\ 0 \in 0 .. a7 /\ a14 \in Nat
  BY MemoryTypes
<1>5. CASE a1[k] # Memory!Absent
  <2>1. Memory!Got(k) = a1[k] /\ a1[k] \in Memory!Sessions
    BY <1>4, <1>5, GotCached
  <2>2. a1[k].goal \in 0 .. a7
    BY <2>1 DEF Memory!Sessions
  <2>3. a2[k].goal \in 0 .. a7
    BY <1>4 DEF MemoryRows
  <2>4. QED
    BY <1>1, <1>2, <1>3, <1>5, <2>1, <2>2, <2>3 DEF Memory!GoalOf
<1>6. CASE a1[k] = Memory!Absent /\ a2[k].status = "absent"
  <2>1. Memory!Got(k) = Memory!New
    BY <1>6, GotNew
  <2>2. Memory!New \in Memory!Sessions
    BY <1>4 DEF Memory!New, Memory!Sessions, Memory!States, Memory!NoGoal
  <2>3. Memory!New.msgs = <<>> /\ Memory!New.goal = 0
    BY DEF Memory!New, Memory!NoGoal
  <2>4. k \notin a13 => Memory!Remembers(Memory!Got(k).msgs, k)
    BY <1>3, <1>6, <2>1, <2>3
  <2>5. a2[k].goal = 0
    BY <1>2, <1>6
  <2>6. QED
    BY <1>1, <1>2, <1>3, <1>4, <1>6, <2>1, <2>2, <2>3, <2>4, <2>5 DEF Memory!GoalOf
<1>7. CASE a1[k] = Memory!Absent /\ a2[k].status # "absent"
  <2>1. PICK s \in {a2[k].status, "chatting"} :
          Memory!Got(k) = [status |-> s, goal |-> a2[k].goal, msgs |-> a3[k]] /\ s # "archived"
    BY <1>7, GotRow
  <2>2. s \in Memory!States /\ a2[k].goal \in 0 .. a7
    BY <1>4, <1>7 DEF MemoryRows, Memory!States
  <2>3. Memory!Got(k) \in Memory!Sessions /\ Memory!Got(k).goal = a2[k].goal /\ Memory!Got(k).msgs = a3[k]
    BY <1>4, <2>1, <2>2 DEF Memory!Sessions
  <2>4. k \notin a13 => Memory!Remembers(Memory!Got(k).msgs, k)
    BY <1>3, <2>3
  <2>5. QED
    BY <1>1, <1>2, <1>3, <1>7, <2>2, <2>3, <2>4 DEF Memory!GoalOf
<1>8. QED
  BY <1>5, <1>6, <1>7

\* A step that says nothing: the messages of a conversation are those it had.
LEMMA MessagesStay ==
  ASSUME Memory!MemoryInv, UNCHANGED <<a3, a9, a10, a14>>, a13 \subseteq a13', a6 \subseteq a6',
         \A k \in Keys :
           /\ \/ a1'[k] = Memory!Absent
              \/ /\ k \in a6'
                 /\ \/ a1'[k].msgs = Memory!Got(k).msgs
                    \/ a1'[k].msgs = a3[k]
                    \/ a1'[k].msgs = <<>> /\ a2[k].status = "absent"
           /\ a2'[k].status = "absent" => a2[k].status = "absent"
           /\ k \notin a6' => a2'[k] = a2[k]
  PROVE  \A k \in Keys : Memory!MessagesKept(k)' /\ (k \notin a6' => Memory!Unused(k)')
<1> SUFFICES ASSUME NEW k \in Keys
             PROVE  Memory!MessagesKept(k)' /\ (k \notin a6' => Memory!Unused(k)')
  OBVIOUS
<1>1. \A s : Memory!Remembers(s, k) => Memory!Remembers(s, k)'
  BY DEF Memory!Remembers, Memory!InOrder, Memory!ToSet
<1>2. Memory!Remembers(a3[k], k)'
  BY <1>1, MemoryFacts
<1>3. k \notin a13' => (a2'[k].status = "absent" => a3'[k] = <<>>)
  BY MemoryFacts
<1>4. k \notin a13' /\ a1'[k] # Memory!Absent => Memory!Remembers(a1[k].msgs, k)'
  <2>1. ASSUME k \notin a13', a1'[k] # Memory!Absent PROVE Memory!Remembers(a1'[k].msgs, k)
    <3>1. /\ \/ a1'[k].msgs = Memory!Got(k).msgs
             \/ a1'[k].msgs = a3[k]
             \/ a1'[k].msgs = <<>> /\ a2[k].status = "absent"
          /\ k \notin a13
      BY <2>1
    <3>2. Memory!Remembers(Memory!Got(k).msgs, k) /\ Memory!Remembers(a3[k], k)
      BY <3>1, MemoryFacts
    <3>3. a2[k].status = "absent" => a3[k] = <<>>
      BY <3>1, MemoryFacts
    <3>4. QED
      BY <3>1, <3>2, <3>3
  <2>2. QED
    BY <1>1, <2>1 DEF Memory!Remembers, Memory!InOrder, Memory!ToSet
<1>5. Memory!MessagesKept(k)'
  BY <1>2, <1>3, <1>4 DEF Memory!MessagesKept, Memory!Cached
<1>6. k \notin a6' => Memory!Unused(k)'
  <2>1. ASSUME k \notin a6' PROVE /\ a1'[k] = Memory!Absent /\ a2'[k] = Memory!Row(Memory!Absent)
                                  /\ a9'[k] = {} /\ a3'[k] = <<>>
    BY <2>1, MemoryFacts
  <2>2. QED
    BY <2>1 DEF Memory!Unused
<1>7. QED
  BY <1>5, <1>6

LEMMA GoalsFacts ==
  ASSUME Memory!MemoryInv
  PROVE  /\ \A k, n \in Keys : k # n =>
              \A g \in 1 .. a7 : ~ (g \in {Memory!GoalOf(k), a2[k].goal} /\ g \in {Memory!GoalOf(n), a2[n].goal})
         /\ \A g \in 1 .. a7 : g \notin a12 =>
              /\ a4[g] = 0 \/ (a4[g] = 1 /\ \A k \in Keys : g \notin {Memory!GoalOf(k), a2[k].goal})
              /\ a4[g] = 1 \/ g \in a11 \/ \E k \in Keys : Memory!GoalOf(k) = g
<1>1. Memory!GoalsAgree
  BY Zenon DEF Memory!MemoryInv
<1>2. a7 \in Nat
  BY MemoryTypes
<1>3. \A g \in 1 .. a7 : g # 0
  BY <1>2
<1>4. QED
  BY <1>1, <1>3 DEF Memory!GoalsAgree, Memory!GoalsOf, Memory!NoGoal

LEMMA GoalsNext ==
  ASSUME a7' \in Nat,
         \A k \in Keys : Memory!GoalOf(k)' \in 0 .. a7' /\ a2'[k].goal \in 0 .. a7',
         \A k \in Keys : a2'[k].status = "absent" => a2'[k].goal = 0,
         \A k \in Keys :
           Memory!GoalOf(k)' # a2'[k].goal => {Memory!GoalOf(k)', a2'[k].goal} \subseteq a12' \cup {0},
         \A k, n \in Keys : k # n =>
           \A g \in 1 .. a7' :
             ~ (g \in {Memory!GoalOf(k)', a2'[k].goal} /\ g \in {Memory!GoalOf(n)', a2'[n].goal}),
         \A g \in 1 .. a7' : g \notin a12' =>
           /\ a4'[g] = 0 \/ (a4'[g] = 1 /\ \A k \in Keys : g \notin {Memory!GoalOf(k)', a2'[k].goal})
           /\ a4'[g] = 1 \/ g \in a11' \/ \E k \in Keys : Memory!GoalOf(k)' = g
  PROVE  Memory!GoalsAgree' /\ \A k \in Keys : Memory!GoalKept(k)'
<1>1. \A k \in Keys : Memory!GoalKept(k)'
  BY DEF Memory!GoalKept, Memory!NoGoal
<1>2. \A n \in 0 .. a7' : n # 0 => n \in 1 .. a7'
  OBVIOUS
<1>3. \A k, n \in Keys : k # n => Memory!GoalsOf(k)' \cap Memory!GoalsOf(n)' = {}
  BY <1>2 DEF Memory!GoalsOf, Memory!NoGoal
<1>4. \A g \in 1 .. a7' : \A k \in Keys : g \in Memory!GoalsOf(k)' => g \in {Memory!GoalOf(k)', a2'[k].goal}
  BY DEF Memory!GoalsOf
<1>5. \A g \in (1 .. a7') \ a12' :
        /\ a4'[g] = 0 \/ (a4'[g] = 1 /\ \A k \in Keys : g \notin Memory!GoalsOf(k)')
        /\ a4'[g] = 1 \/ g \in a11' \/ \E k \in Keys : Memory!GoalOf(k)' = g
  BY <1>4
<1>6. Memory!GoalsAgree'
  BY <1>3, <1>5 DEF Memory!GoalsAgree
<1>7. QED
  BY <1>1, <1>6

\* A step that sets no goal: a conversation keeps its goal, or gives it up.
LEMMA GoalsShrink ==
  ASSUME Memory!MemoryInv, NEW k \in Keys, NEW d,
         a7' = a7, a11' = a11, a12 \subseteq a12',
         {Memory!GoalOf(k)', a2'[k].goal, d} \subseteq {Memory!GoalOf(k), a2[k].goal, 0},
         \A n \in Keys : n # k => Memory!GoalOf(n)' = Memory!GoalOf(n) /\ a2'[n].goal = a2[n].goal,
         \A n \in Keys : a2'[n].status = "absent" => a2'[n].goal = 0,
         Memory!GoalOf(k)' # a2'[k].goal => {Memory!GoalOf(k)', a2'[k].goal} \subseteq a12' \cup {0},
         d = 0 => a4' = a4, d # 0 => a4' = [a4 EXCEPT ![d] = a4[d] + 1],
         d # 0 /\ d \notin a12' => d = Memory!GoalOf(k) /\ Memory!GoalOf(k)' # d /\ a2'[k].goal # d,
         Memory!GoalOf(k) \in a12' \cup {0} \/ Memory!GoalOf(k) = d \/ Memory!GoalOf(k) = Memory!GoalOf(k)'
  PROVE  /\ Memory!GoalsAgree' /\ \A n \in Keys : Memory!GoalKept(n)'
         /\ a4' \in [1 .. MaxGoals -> Nat] /\ \A g \in 1 .. MaxGoals : g > a7 => a4'[g] = 0
<1> DEFINE C(n) == Memory!GoalOf(n)
           W(n) == a2[n].goal
           c == Memory!GoalOf(k)'
           w == a2'[k].goal
<1>1. /\ a7 \in Nat /\ a7 \in 0 .. MaxGoals /\ MaxGoals \in Nat /\ a4 \in [1 .. MaxGoals -> Nat]
      /\ \A g \in 1 .. MaxGoals : g > a7 => a4[g] = 0
  BY MemoryTypes
<1>2. \A n \in Keys : C(n) \in 0 .. a7 /\ W(n) \in 0 .. a7 /\ (C(n) # W(n) => {C(n), W(n)} \subseteq a12 \cup {0})
  BY MemoryFacts
<1>3. /\ \A m, n \in Keys : m # n => \A g \in 1 .. a7 : ~ (g \in {C(m), W(m)} /\ g \in {C(n), W(n)})
      /\ \A g \in 1 .. a7 : g \notin a12 =>
           /\ a4[g] = 0 \/ (a4[g] = 1 /\ \A n \in Keys : g \notin {C(n), W(n)})
           /\ a4[g] = 1 \/ g \in a11 \/ \E n \in Keys : C(n) = g
  BY GoalsFacts
<1>4. {c, w, d} \subseteq {C(k), W(k), 0}
  OBVIOUS
<1>5. d # 0 /\ d \notin a12' => d = C(k) /\ c # d /\ w # d
  OBVIOUS
<1>6. C(k) \in a12' \cup {0} \/ C(k) = d \/ C(k) = c
  OBVIOUS
<1>7. /\ d # 0 => d \in 1 .. a7
      /\ 1 .. a7 \subseteq 1 .. MaxGoals /\ \A g \in 1 .. MaxGoals : g \in 1 .. a7 <=> ~ (g > a7)
  BY <1>1, <1>2, <1>4
<1>8. /\ a4' \in [1 .. MaxGoals -> Nat]
      /\ \A g \in 1 .. MaxGoals : g # d => a4'[g] = a4[g]
      /\ d # 0 => a4'[d] = a4[d] + 1
  <2>1. CASE d = 0
    <3>1. a4' = a4 /\ 0 \notin 1 .. MaxGoals
      BY <2>1
    <3>2. QED
      BY <1>1, <2>1, <3>1
  <2>2. CASE d # 0
    <3>1. a4' = [a4 EXCEPT ![d] = a4[d] + 1] /\ d \in 1 .. MaxGoals
      BY <1>7, <2>2, Zenon
    <3>2. a4[d] + 1 \in Nat
      BY <1>1, <3>1
    <3>3. QED
      BY <1>1, <3>1, <3>2
  <2>3. QED
    BY <2>1, <2>2
<1>9. \A g \in 1 .. MaxGoals : g > a7 => a4'[g] = 0
  BY <1>1, <1>7, <1>8
<1> DEFINE C1(n) == Memory!GoalOf(n)'
           W1(n) == a2'[n].goal
<1>10. /\ C1(k) = c /\ W1(k) = w /\ \A n \in Keys : n # k => C1(n) = C(n) /\ W1(n) = W(n)
       /\ a12 \subseteq a12' /\ a11' = a11 /\ a7' = a7 /\ (c # w => {c, w} \subseteq a12' \cup {0})
  OBVIOUS
<1> HIDE DEF C, W, C1, W1, c, w
<1>11. \A n \in Keys : C1(n) \in 0 .. a7 /\ W1(n) \in 0 .. a7
  <2>1. 0 \in 0 .. a7
    BY <1>1
  <2>2. QED
    BY <1>2, <1>4, <1>10, <2>1
<1>12. \A n \in Keys : C1(n) # W1(n) => {C1(n), W1(n)} \subseteq a12' \cup {0}
  BY <1>2, <1>10
<1>13. \A n \in Keys : \A g \in 1 .. a7 : g \in {C1(n), W1(n)} => g \in {C(n), W(n)}
  <2>1. \A g \in 1 .. a7 : g # 0
    BY <1>1
  <2>2. QED
    BY <1>4, <1>10, <2>1
<1>14. \A m, n \in Keys : m # n => \A g \in 1 .. a7 : ~ (g \in {C1(m), W1(m)} /\ g \in {C1(n), W1(n)})
  BY <1>3, <1>13
<1>15. ASSUME NEW g \in 1 .. a7, g \notin a12'
       PROVE  /\ a4'[g] = 0 \/ (a4'[g] = 1 /\ \A n \in Keys : g \notin {C1(n), W1(n)})
              /\ a4'[g] = 1 \/ g \in a11' \/ \E n \in Keys : C1(n) = g
  <2>1. /\ g \notin a12 /\ g # 0 /\ g \in 1 .. MaxGoals
        /\ a4[g] = 0 \/ (a4[g] = 1 /\ \A n \in Keys : g \notin {C(n), W(n)})
        /\ a4[g] = 1 \/ g \in a11 \/ \E n \in Keys : C(n) = g
    BY <1>1, <1>3, <1>7, <1>10, <1>15
  <2>2. CASE g = d
    <3>1. g = C(k) /\ c # g /\ w # g
      BY <1>5, <1>15, <2>1, <2>2
    <3>2. a4'[g] = 1
      BY <1>8, <2>1, <2>2, <3>1
    <3>3. \A n \in Keys : g \notin {C1(n), W1(n)}
      BY <1>3, <1>10, <3>1
    <3>4. QED
      BY <3>2, <3>3
  <2>3. CASE g # d
    <3>1. a4'[g] = a4[g]
      BY <1>8, <2>1, <2>3
    <3>2. \A n \in Keys : C(n) = g => C1(n) = g
      BY <1>6, <1>10, <1>15, <2>1, <2>3
    <3>3. QED
      BY <1>10, <1>13, <2>1, <3>1, <3>2
  <2>4. QED
    BY <2>2, <2>3
<1>16. Memory!GoalsAgree' /\ \A n \in Keys : Memory!GoalKept(n)'
  BY <1>1, <1>10, <1>11, <1>12, <1>14, <1>15, GoalsNext DEF C1, W1
<1>17. QED
  BY <1>8, <1>9, <1>16

LEMMA MemoryGoesOn ==
  ASSUME Memory!MemoryInv, NEW k \in Keys, k \in a6,
         NEW x \in Memory!Sessions \cup {Memory!Absent}, a1' = [a1 EXCEPT ![k] = x],
         NEW y \in MemoryRows(a7), a2' = [a2 EXCEPT ![k] = y],
         UNCHANGED <<a3, a6, a7, a9, a10, a11, a14>>, a12 \subseteq a12', a13 \subseteq a13',
         \/ x = Memory!Absent \/ x.msgs = Memory!Got(k).msgs \/ x.msgs = a3[k]
         \/ x.msgs = <<>> /\ a2[k].status = "absent",
         y.status = "absent" => y = a2[k],
         NEW d, {Memory!GoalOf(k)', y.goal, d} \subseteq {Memory!GoalOf(k), a2[k].goal, 0},
         Memory!GoalOf(k)' # y.goal => {Memory!GoalOf(k)', y.goal} \subseteq a12' \cup {0},
         d = 0 => a4' = a4, d # 0 => a4' = [a4 EXCEPT ![d] = a4[d] + 1],
         d # 0 /\ d \notin a12' => d = Memory!GoalOf(k) /\ Memory!GoalOf(k)' # d /\ y.goal # d,
         Memory!GoalOf(k) \in a12' \cup {0} \/ Memory!GoalOf(k) = d \/ Memory!GoalOf(k) = Memory!GoalOf(k)'
  PROVE  Memory!MemoryInv'
<1>1. /\ a1 \in [Keys -> Memory!Sessions \cup {Memory!Absent}] /\ a2 \in [Keys -> MemoryRows(a7)]
  BY MemoryTypes
<1>2. /\ a1' \in [Keys -> Memory!Sessions \cup {Memory!Absent}] /\ a2' \in [Keys -> MemoryRows(a7)]
      /\ a1'[k] = x /\ a2'[k] = y
      /\ \A n \in Keys : n # k => a1'[n] = a1[n] /\ a2'[n] = a2[n]
  BY <1>1
<1>3. \A n \in Keys : a2'[n].status = "absent" => a2'[n] = a2[n]
  BY <1>2
<1>4. \A n \in Keys : a2[n].status = "absent" => a2[n].goal = 0
  BY MemoryFacts
<1>5. \A n \in Keys : a2'[n].status = "absent" => a2'[n].goal = 0
  BY <1>3, <1>4
<1>6. \A n \in Keys : n # k => Memory!GoalOf(n)' = Memory!GoalOf(n) /\ a2'[n].goal = a2[n].goal
  BY <1>2, <1>4, <1>5, GoalIs, GoalWillBe
<1>8. /\ Memory!GoalsAgree' /\ \A n \in Keys : Memory!GoalKept(n)'
      /\ a4' \in [1 .. MaxGoals -> Nat] /\ \A g \in 1 .. MaxGoals : g > a7 => a4'[g] = 0
  BY <1>2, <1>5, <1>6, GoalsShrink
<1>9. \A n \in Keys :
        /\ \/ a1'[n] = Memory!Absent
           \/ /\ n \in a6'
              /\ \/ a1'[n].msgs = Memory!Got(n).msgs
                 \/ a1'[n].msgs = a3[n]
                 \/ a1'[n].msgs = <<>> /\ a2[n].status = "absent"
        /\ a2'[n].status = "absent" => a2[n].status = "absent"
        /\ n \notin a6' => a2'[n] = a2[n]
  <2>1. ASSUME NEW n \in Keys, n # k, a1'[n] # Memory!Absent PROVE n \in a6' /\ a1'[n].msgs = Memory!Got(n).msgs
    <3>1. a1'[n] = a1[n] /\ a1[n] # Memory!Absent
      BY <1>2, <2>1
    <3>2. n \in a6 /\ Memory!Got(n) = a1[n]
      BY <3>1, MemoryFacts, GotCached
    <3>3. QED
      BY <3>1, <3>2
  <2>2. QED
    BY <1>2, <1>3, <2>1
<1>10. \A n \in Keys : Memory!MessagesKept(n)' /\ (n \notin a6' => Memory!Unused(n)')
  BY <1>9, MessagesStay
<1>11. Memory!StoreTypeOK'
  <2>1. Memory!Sessions' = Memory!Sessions
    BY DEF Memory!Sessions
  <2>2. QED
    BY <1>2, <1>8, <2>1, MemoryTypes, Zenon DEF Memory!StoreTypeOK, MemoryRows
<1>12. QED
  BY <1>8, <1>10, <1>11, Zenon DEF Memory!MemoryInv

LEMMA MemoryDone == ASSUME Memory!MemoryInv, NEW k \in Keys, Memory!MarkDone(k) PROVE Memory!MemoryInv'
<1> DEFINE s == Memory!Got(k)
           x == [s EXCEPT !.goal = 0, !.status = "chatting"]
           g == Memory!GoalOf(k)
<1>1. /\ s \in Memory!Sessions /\ g = s.goal /\ g \in 0 .. a7 /\ a2[k] \in MemoryRows(a7) /\ a7 \in Nat
      /\ g # a2[k].goal => {g, a2[k].goal} \subseteq a12 \cup {0}
      /\ a2 = [a2 EXCEPT ![k] = a2[k]]
  BY MemoryFacts, MemoryTypes
<1> HIDE DEF s
<1>2. x \in Memory!Sessions /\ x.msgs = s.msgs /\ x.goal = 0
  <2>1. s \in [status : Memory!States, goal : 0 .. a7, msgs : Seq(1 .. a14)]
    BY <1>1 DEF Memory!Sessions
  <2>2. "chatting" \in Memory!States /\ 0 \in 0 .. a7
    BY <1>1 DEF Memory!States
  <2>3. x \in [status : Memory!States, goal : 0 .. a7, msgs : Seq(1 .. a14)]
    BY <2>1, <2>2
  <2>4. QED
    BY <2>1, <2>3 DEF Memory!Sessions
<1>3. g = 0 => [s EXCEPT !.status = "chatting"] = x
  BY <1>1 DEF Memory!Sessions
<1> USE DEF s
<1>4. k \in a6 /\ UNCHANGED <<a3, a6, a7, a9, a10, a11, a14>> /\ Memory!Done(k, s)
  BY DEF Memory!MarkDone
<1> DEFINE y == [status |-> "chatting", goal |-> 0]
<1>5. y \in MemoryRows(a7) /\ y.goal = 0 /\ y.status = "chatting" /\ Memory!Row(x) = y
  BY <1>1, <1>2 DEF MemoryRows, Memory!States, Memory!Row, Memory!Sessions
<1>6. \/ /\ g # 0 /\ a4' = [a4 EXCEPT ![g] = a4[g] + 1] /\ Memory!Persist(k, x)
      \/ /\ g = 0 /\ a4' = a4 /\ Memory!Persist(k, x)
      \/ /\ g # 0 /\ a12' = a12 \cup {g} /\ a2' = [a2 EXCEPT ![k] = y] /\ a4' = a4 /\ a13' = a13
         /\ a1' = [a1 EXCEPT ![k] = x]
  <2>1. \/ /\ g # 0 /\ a4' = [a4 EXCEPT ![g] = a4[g] + 1] /\ Memory!Persist(k, x)
        \/ /\ g = 0 /\ a4' = a4 /\ Memory!Persist(k, [s EXCEPT !.status = "chatting"])
        \/ /\ g # 0 /\ a12' = a12 \cup {g} /\ a2' = [a2 EXCEPT ![k] = y] /\ a4' = a4 /\ a13' = a13
           /\ a1' = [a1 EXCEPT ![k] = x]
    BY <1>1, <1>4 DEF Memory!Done, Memory!NoGoal
  <2> HIDE DEF x, y, g, s
  <2>2. QED
    BY <1>3, <2>1
<1> HIDE DEF x, y, g
<1>7. Memory!Persist(k, x) =>
        /\ a1' = [a1 EXCEPT ![k] = x]
        /\ \/ a2' = [a2 EXCEPT ![k] = y] /\ a12' = a12 /\ a13' = a13
           \/ a2' = a2 /\ a12 \subseteq a12' /\ g \in a12' /\ a13 \subseteq a13'
  BY <1>1, <1>5 DEF Memory!Persist, Memory!Tear
<1> HIDE DEF s
<1>8. x # Memory!Absent /\ x \in Memory!Sessions \cup {Memory!Absent} /\ x.msgs = Memory!Got(k).msgs /\ x.goal = 0
  BY <1>2, MemoryTypes DEF s
<1>9. ASSUME NEW v \in MemoryRows(a7), a1' = [a1 EXCEPT ![k] = x], a2' = [a2 EXCEPT ![k] = v],
             v.status = "absent" => v = a2[k], v.goal \in {a2[k].goal, 0}, v.goal \in a12' \cup {0},
             a12 \subseteq a12', a13 \subseteq a13',
             NEW d \in {0, g}, d = 0 => a4' = a4, d # 0 => a4' = [a4 EXCEPT ![d] = a4[d] + 1],
             d # 0 /\ d \notin a12' => v.goal # d, g \in a12' \cup {0} \/ g = d
      PROVE  Memory!MemoryInv'
  <2>1. UNCHANGED <<a3, a6, a7, a9, a10, a11, a14>>
    BY <1>4
  <2>2. a1'[k] = x /\ a2'[k] = v
    BY <1>9, MemoryTypes
  <2>3. v.status = "absent" => v.goal = 0
    BY <1>9, MemoryFacts
  <2>4. Memory!GoalOf(k)' = 0
    BY <1>8, <2>2, <2>3, GoalWillBe
  <2>5. /\ {Memory!GoalOf(k)', v.goal, d} \subseteq {Memory!GoalOf(k), a2[k].goal, 0}
        /\ Memory!GoalOf(k)' # v.goal => {Memory!GoalOf(k)', v.goal} \subseteq a12' \cup {0}
        /\ d # 0 /\ d \notin a12' => d = Memory!GoalOf(k) /\ Memory!GoalOf(k)' # d /\ v.goal # d
        /\ Memory!GoalOf(k) \in a12' \cup {0} \/ Memory!GoalOf(k) = d \/ Memory!GoalOf(k) = Memory!GoalOf(k)'
    BY <1>9, <2>4 DEF g
  <2>6. /\ k \in a6 /\ x \in Memory!Sessions \cup {Memory!Absent}
        /\ x = Memory!Absent \/ x.msgs = Memory!Got(k).msgs \/ x.msgs = a3[k]
             \/ (x.msgs = <<>> /\ a2[k].status = "absent")
    BY <1>4, <1>8, Zenon
  <2>7. QED
    BY <1>9, <2>1, <2>5, <2>6, MemoryGoesOn, Zenon
<1>10. ASSUME NEW d \in {0, g}, d = 0 => a4' = a4, d # 0 => a4' = [a4 EXCEPT ![d] = a4[d] + 1],
              g = d \/ g \in a12', a12 \subseteq a12', a13 \subseteq a13', a1' = [a1 EXCEPT ![k] = x],
              a2' = [a2 EXCEPT ![k] = y] \/ (a2' = a2 /\ g \in a12')
       PROVE  Memory!MemoryInv'
  <2>1. CASE a2' = [a2 EXCEPT ![k] = y]
    BY <1>5, <1>9, <1>10, <2>1
  <2>2. CASE a2' = a2 /\ g \in a12'
    <3>1. a2' = [a2 EXCEPT ![k] = a2[k]]
      BY <1>1, <2>2
    <3>2. a2[k].goal \in a12' \cup {0}
      BY <1>1, <1>10, <2>2
    <3>3. QED
      BY <1>1, <1>9, <1>10, <2>2, <3>1, <3>2
  <2>3. QED
    BY <1>10, <2>1, <2>2
<1>11. CASE g # 0 /\ a4' = [a4 EXCEPT ![g] = a4[g] + 1] /\ Memory!Persist(k, x)
  BY <1>7, <1>10, <1>11
<1>12. CASE g = 0 /\ a4' = a4 /\ Memory!Persist(k, x)
  BY <1>7, <1>10, <1>12
<1>13. CASE /\ g # 0 /\ a12' = a12 \cup {g} /\ a2' = [a2 EXCEPT ![k] = y] /\ a4' = a4 /\ a13' = a13
            /\ a1' = [a1 EXCEPT ![k] = x]
  BY <1>10, <1>13
<1>14. QED
  BY <1>6, <1>11, <1>12, <1>13

LEMMA MemoryExpire == ASSUME Memory!MemoryInv, NEW k \in Keys, Memory!Expire(k) PROVE Memory!MemoryInv'
<1>1. /\ a1[k] # Memory!Absent /\ a1[k].goal = 0 /\ a1' = [a1 EXCEPT ![k] = Memory!Absent]
      /\ \/ a2' = IF a2[k] = Memory!Row(Memory!Absent) THEN a2 ELSE [a2 EXCEPT ![k].status = "archived"]
         \/ a2' = a2
      /\ UNCHANGED <<a3, a4, a6, a7, a9, a10, a11, a12, a13, a14>>
  BY DEF Memory!Expire, Memory!Idle, Memory!Cached, Memory!NoGoal
<1>2. k \in a6 /\ Memory!GoalOf(k) = 0
  BY <1>1, MemoryFacts
<1>3. a2 \in [Keys -> MemoryRows(a7)] /\ a2[k] \in MemoryRows(a7)
  BY MemoryTypes
<1>4. PICK y \in MemoryRows(a7) :
        /\ a2' = [a2 EXCEPT ![k] = y] /\ y.goal = a2[k].goal
        /\ y.status = "absent" => y = a2[k]
  <2>1. CASE a2' = a2
    <3>1. a2' = [a2 EXCEPT ![k] = a2[k]]
      BY <1>3, <2>1
    <3>2. QED
      BY <1>3, <3>1
  <2>2. CASE a2' = [a2 EXCEPT ![k].status = "archived"]
    <3> DEFINE y == [a2[k] EXCEPT !.status = "archived"]
    <3>1. y \in MemoryRows(a7) /\ y.goal = a2[k].goal /\ y.status = "archived"
      BY <1>3 DEF MemoryRows, Memory!States
    <3>2. a2' = [a2 EXCEPT ![k] = y]
      BY <2>2
    <3> HIDE DEF y
    <3>3. QED
      BY <3>1, <3>2
  <2>3. QED
    BY <1>1, <2>1, <2>2
<1>5. /\ a1'[k] = Memory!Absent /\ a2'[k] = y
  BY <1>1, <1>3, <1>4, MemoryTypes
<1>6. y.status = "absent" => y.goal = 0
  BY <1>4, MemoryFacts
<1>7. Memory!GoalOf(k)' = y.goal
  BY <1>5, <1>6, GoalWillBe
<1>8. {Memory!GoalOf(k)', y.goal, 0} \subseteq {Memory!GoalOf(k), a2[k].goal, 0}
  BY <1>4, <1>7
<1>9. QED
  BY <1>1, <1>2, <1>4, <1>7, <1>8, MemoryGoesOn

LEMMA MemoryExpireGoal ==
  ASSUME Memory!MemoryInv, NEW k \in Keys, Memory!ExpireGoal(k) PROVE Memory!MemoryInv'
<1> DEFINE s == IF a2[k].status = "absent" THEN Memory!New ELSE [Memory!Restored(k) EXCEPT !.status = "chatting"]
           x == [s EXCEPT !.goal = 0]
           y == [status |-> "archived", goal |-> 0]
<1>1. /\ a1[k] # Memory!Absent /\ a1[k].goal # 0
      /\ a1' = [a1 EXCEPT ![k] = x] /\ a2' = [a2 EXCEPT ![k] = y]
      /\ a4' = IF s.goal = 0 THEN a4 ELSE [a4 EXCEPT ![s.goal] = @ + 1]
      /\ UNCHANGED <<a3, a6, a7, a9, a10, a11, a12, a13, a14>>
  BY DEF Memory!ExpireGoal, Memory!Idle, Memory!Cached, Memory!NoGoal
<1>2. /\ k \in a6 /\ Memory!GoalOf(k) = a1[k].goal
      /\ a2[k].status = "absent" => a2[k].goal = 0
      /\ Memory!GoalOf(k) # a2[k].goal => {Memory!GoalOf(k), a2[k].goal} \subseteq a12 \cup {0}
  BY <1>1, MemoryFacts
<1>3. a2[k] \in MemoryRows(a7) /\ a3[k] \in Seq(1 .. a14) /\ 0 \in 0 .. a7 /\ a14 \in Nat
  BY MemoryTypes
<1>4. /\ s.goal = a2[k].goal
      /\ x = [status |-> "chatting", goal |-> 0, msgs |-> IF a2[k].status = "absent" THEN <<>> ELSE a3[k]]
  BY <1>2 DEF Memory!New, Memory!Restored, Memory!NoGoal
<1> HIDE DEF s
<1>5. /\ x \in Memory!Sessions /\ x.goal = 0
      /\ x.msgs = a3[k] \/ (x.msgs = <<>> /\ a2[k].status = "absent")
  <2>1. <<>> \in Seq(1 .. a14)
    BY <1>3
  <2>2. QED
    BY <1>3, <1>4, <2>1 DEF Memory!Sessions, Memory!States
<1>6. y \in MemoryRows(a7) /\ y.goal = 0 /\ y.status # "absent"
  BY <1>3 DEF MemoryRows, Memory!States
<1> HIDE DEF x, y
<1>7. a1'[k] = x /\ a2'[k] = y /\ x # Memory!Absent
  BY <1>1, <1>5, MemoryTypes
<1>8. Memory!GoalOf(k)' = 0
  BY <1>5, <1>6, <1>7, GoalWillBe
<1>9. PICK d : d = a2[k].goal
  OBVIOUS
<1>10. /\ d = 0 => a4' = a4
       /\ d # 0 => a4' = [a4 EXCEPT ![d] = a4[d] + 1]
  BY <1>1, <1>4, <1>9
<1>11. /\ {Memory!GoalOf(k)', y.goal, d} \subseteq {Memory!GoalOf(k), a2[k].goal, 0}
       /\ d # 0 /\ d \notin a12' => d = Memory!GoalOf(k) /\ Memory!GoalOf(k)' # d /\ y.goal # d
       /\ Memory!GoalOf(k) \in a12' \cup {0} \/ Memory!GoalOf(k) = d \/ Memory!GoalOf(k) = Memory!GoalOf(k)'
  BY <1>1, <1>2, <1>6, <1>8, <1>9
<1>12. /\ x \in Memory!Sessions \cup {Memory!Absent}
       /\ \/ x = Memory!Absent \/ x.msgs = Memory!Got(k).msgs \/ x.msgs = a3[k]
          \/ x.msgs = <<>> /\ a2[k].status = "absent"
       /\ y.status = "absent" => y = a2[k]
       /\ Memory!GoalOf(k)' # y.goal => {Memory!GoalOf(k)', y.goal} \subseteq a12' \cup {0}
  BY <1>5, <1>6, <1>8
<1>13. /\ a1' = [a1 EXCEPT ![k] = x] /\ a2' = [a2 EXCEPT ![k] = y] /\ k \in a6
       /\ UNCHANGED <<a3, a6, a7, a9, a10, a11, a14>> /\ a12 \subseteq a12' /\ a13 \subseteq a13'
  BY <1>1, <1>2
<1>14. QED
  <2>1. UNCHANGED <<a3, a6, a7, a9, a10, a11, a14>>
    BY <1>13
  <2>2. x = Memory!Absent \/ x.msgs = Memory!Got(k).msgs \/ x.msgs = a3[k]
           \/ (x.msgs = <<>> /\ a2[k].status = "absent")
    BY <1>12, Zenon
  <2>3. QED
    BY <1>6, <1>10, <1>11, <1>12, <1>13, <2>1, <2>2, MemoryGoesOn, ZenonT(60)

LEMMA MemoryStop == ASSUME Memory!MemoryInv, Memory!Stop PROVE Memory!MemoryInv'
<1>1. /\ a1' = [k \in Keys |-> Memory!Absent]
      /\ UNCHANGED <<a2, a3, a4, a6, a7, a9, a10, a11, a12, a13, a14>>
  BY DEF Memory!Stop, Memory!storeVars
<1>2. \A k \in Keys : Memory!MessagesKept(k)' /\ (k \notin a6' => Memory!Unused(k)')
  BY <1>1, MessagesStay
<1>3. \A k \in Keys :
        /\ a2[k].status = "absent" => a2[k].goal = 0
        /\ Memory!GoalOf(k) # a2[k].goal => {Memory!GoalOf(k), a2[k].goal} \subseteq a12 \cup {0}
        /\ a2[k].goal \in 0 .. a7
  BY MemoryFacts
<1>4. \A k \in Keys : Memory!GoalOf(k)' = a2[k].goal
  BY <1>1, <1>3, GoalWillBe
<1>5. a7 \in Nat
  BY MemoryTypes
<1>6. ASSUME NEW g \in 1 .. a7, g \notin a12
      PROVE  /\ a4[g] = 0 \/ (a4[g] = 1 /\ \A k \in Keys : g \notin {Memory!GoalOf(k)', a2[k].goal})
             /\ a4[g] = 1 \/ g \in a11 \/ \E k \in Keys : Memory!GoalOf(k)' = g
  <2>1. /\ a4[g] = 0 \/ (a4[g] = 1 /\ \A k \in Keys : g \notin {Memory!GoalOf(k), a2[k].goal})
        /\ a4[g] = 1 \/ g \in a11 \/ \E k \in Keys : Memory!GoalOf(k) = g
    BY <1>6, GoalsFacts
  <2>2. \A k \in Keys : Memory!GoalOf(k) = g => Memory!GoalOf(k)' = g
    BY <1>3, <1>4, <1>5, <1>6
  <2>3. QED
    BY <1>4, <2>1, <2>2
<1>7. \A k, n \in Keys : k # n =>
        \A g \in 1 .. a7 : ~ (g \in {Memory!GoalOf(k)', a2[k].goal} /\ g \in {Memory!GoalOf(n)', a2[n].goal})
  BY <1>4, GoalsFacts
<1>8. Memory!GoalsAgree' /\ \A k \in Keys : Memory!GoalKept(k)'
  BY <1>1, <1>3, <1>4, <1>5, <1>6, <1>7, GoalsNext
<1>9. Memory!StoreTypeOK'
  <2>1. Memory!Sessions' = Memory!Sessions
    BY <1>1 DEF Memory!Sessions
  <2>2. a1' \in [Keys -> Memory!Sessions \cup {Memory!Absent}]
    BY <1>1
  <2>3. QED
    BY <1>1, <2>1, <2>2, MemoryTypes, Zenon DEF Memory!StoreTypeOK, MemoryRows
<1>10. QED
  BY <1>2, <1>8, <1>9, Zenon DEF Memory!MemoryInv

LEMMA MemoryReset ==
  ASSUME Memory!MemoryInv, NEW k \in Keys, NEW n \in Keys, Memory!Reset(k, n) PROVE Memory!MemoryInv'
<1> DEFINE s == Memory!Got(k)
           old == [s EXCEPT !.status = "archived"]
           g == Memory!GoalOf(k)
<1>1. /\ s \in Memory!Sessions /\ g = s.goal /\ g \in 0 .. a7 /\ a7 \in Nat /\ a14 \in Nat
      /\ g # a2[k].goal => {g, a2[k].goal} \subseteq a12 \cup {0}
      /\ a1 \in [Keys -> Memory!Sessions \cup {Memory!Absent}] /\ a2 \in [Keys -> MemoryRows(a7)]
      /\ a6 \subseteq Keys /\ Memory!Absent \notin Memory!Sessions
  BY MemoryFacts, MemoryTypes
<1>2. /\ k \in a6 /\ n \notin a6 /\ k # n /\ a6' = a6 \cup {n}
      /\ a1' = [a1 EXCEPT ![k] = old, ![n] = Memory!New]
      /\ UNCHANGED <<a3, a4, a7, a9, a10, a11, a14>>
  BY DEF Memory!Reset, Memory!Fresh
<1>3. /\ \/ a2' = [a2 EXCEPT ![k] = Memory!Row(old), ![n] = Memory!Row(Memory!New)]
         \/ a2' = [a2 EXCEPT ![k] = Memory!Row(old)]
         \/ a2' = [a2 EXCEPT ![n] = Memory!Row(Memory!New)] /\ old.goal \in a12'
      /\ a12 \subseteq a12' /\ a13 \subseteq a13'
  BY DEF Memory!Reset, Memory!Tear
<1> HIDE DEF s
<1>4. /\ old \in Memory!Sessions /\ old.msgs = s.msgs /\ old.goal = g /\ old.status = "archived"
      /\ Memory!Row(old) = [status |-> "archived", goal |-> g]
  BY <1>1 DEF Memory!Sessions, Memory!States, Memory!Row
<1>5. /\ Memory!New \in Memory!Sessions /\ Memory!New.msgs = <<>> /\ Memory!New.goal = 0
      /\ Memory!Row(Memory!New) = [status |-> "chatting", goal |-> 0]
  BY <1>1 DEF Memory!Sessions, Memory!States, Memory!New, Memory!Row, Memory!NoGoal
<1> HIDE DEF old, g
<1>6. /\ a1' \in [Keys -> Memory!Sessions \cup {Memory!Absent}]
      /\ a1'[k] = old /\ a1'[n] = Memory!New /\ \A m \in Keys : m # k /\ m # n => a1'[m] = a1[m]
  BY <1>1, <1>2, <1>4, <1>5
<1>7. Memory!Row(old) \in MemoryRows(a7) /\ Memory!Row(Memory!New) \in MemoryRows(a7)
  BY <1>1, <1>4, <1>5 DEF MemoryRows, Memory!States
<1>8. /\ a2' \in [Keys -> MemoryRows(a7)]
      /\ a2'[k] = Memory!Row(old) \/ (a2'[k] = a2[k] /\ g \in a12')
      /\ a2'[n] = Memory!Row(Memory!New) \/ a2'[n] = a2[n]
      /\ \A m \in Keys : m # k /\ m # n => a2'[m] = a2[m]
  BY <1>1, <1>2, <1>3, <1>4, <1>7
<1>9. a1[n] = Memory!Absent /\ a2[n] = [status |-> "absent", goal |-> 0]
  BY <1>2, MemoryFacts DEF Memory!Row, Memory!Absent, Memory!NoGoal
<1>10. \A m \in Keys : a2[m].status = "absent" => a2[m].goal = 0
  BY MemoryFacts
<1>11. \A m \in Keys : a2'[m].status = "absent" => a2[m].status = "absent" /\ a2'[m].goal = 0
  BY <1>4, <1>5, <1>8, <1>9, <1>10
<1>12. Memory!GoalOf(k)' = g
  BY <1>1, <1>4, <1>6, <1>11, GoalWillBe
<1>13. \A m \in Keys : m # k => Memory!GoalOf(m)' = Memory!GoalOf(m) /\ a2'[m].goal = a2[m].goal
  <2>1. /\ Memory!GoalOf(n) = 0 /\ a2[n].goal = 0 /\ a2'[n].goal = 0
    BY <1>5, <1>8, <1>9, GoalIs
  <2>2. Memory!GoalOf(n)' = 0
    BY <1>1, <1>5, <1>6, <1>11, GoalWillBe
  <2>3. ASSUME NEW m \in Keys, m # k, m # n
        PROVE  Memory!GoalOf(m)' = Memory!GoalOf(m) /\ a2'[m].goal = a2[m].goal
    BY <1>6, <1>8, <1>10, <1>11, <2>3, GoalIs, GoalWillBe
  <2>4. QED
    BY <2>1, <2>2, <2>3
<1>14. /\ {Memory!GoalOf(k)', a2'[k].goal, 0} \subseteq {Memory!GoalOf(k), a2[k].goal, 0}
       /\ Memory!GoalOf(k)' # a2'[k].goal => {Memory!GoalOf(k)', a2'[k].goal} \subseteq a12' \cup {0}
       /\ Memory!GoalOf(k) = Memory!GoalOf(k)'
  <2>1. a2'[k].goal \in {g, a2[k].goal} /\ (a2'[k].goal # g => a2'[k] = a2[k])
    BY <1>4, <1>8
  <2>2. QED
    BY <1>1, <1>3, <1>12, <2>1 DEF g
<1>15. /\ Memory!GoalsAgree' /\ \A m \in Keys : Memory!GoalKept(m)'
       /\ a4' \in [1 .. MaxGoals -> Nat] /\ \A h \in 1 .. MaxGoals : h > a7 => a4'[h] = 0
  BY <1>2, <1>3, <1>11, <1>13, <1>14, GoalsShrink
<1>16. \A m \in Keys :
         /\ \/ a1'[m] = Memory!Absent
            \/ /\ m \in a6'
               /\ \/ a1'[m].msgs = Memory!Got(m).msgs
                  \/ a1'[m].msgs = a3[m]
                  \/ a1'[m].msgs = <<>> /\ a2[m].status = "absent"
         /\ a2'[m].status = "absent" => a2[m].status = "absent"
         /\ m \notin a6' => a2'[m] = a2[m]
  <2>1. ASSUME NEW m \in Keys, m # k, m # n, a1'[m] # Memory!Absent
        PROVE  m \in a6' /\ a1'[m].msgs = Memory!Got(m).msgs
    <3>1. a1'[m] = a1[m] /\ a1[m] # Memory!Absent
      BY <1>6, <2>1
    <3>2. m \in a6 /\ Memory!Got(m) = a1[m]
      BY <3>1, MemoryFacts, GotCached
    <3>3. QED
      BY <1>2, <3>1, <3>2
  <2>2. k \in a6' /\ n \in a6' /\ a1'[k].msgs = Memory!Got(k).msgs
    BY <1>2, <1>4, <1>6 DEF s
  <2>3. QED
    BY <1>5, <1>6, <1>8, <1>9, <1>11, <2>1, <2>2
<1>17. \A m \in Keys : Memory!MessagesKept(m)' /\ (m \notin a6' => Memory!Unused(m)')
  BY <1>2, <1>3, <1>16, MessagesStay
<1>18. Memory!StoreTypeOK'
  <2>1. Memory!Sessions' = Memory!Sessions /\ a6' \subseteq Keys
    BY <1>1, <1>2 DEF Memory!Sessions
  <2>2. QED
    BY <1>2, <1>6, <1>8, <1>15, <2>1, MemoryTypes, Zenon DEF Memory!StoreTypeOK, MemoryRows
<1>19. QED
  BY <1>15, <1>17, <1>18, Zenon DEF Memory!MemoryInv

LEMMA MemorySetGoal ==
  ASSUME Memory!MemoryInv, NEW k \in Keys, Memory!SetGoal(k) PROVE Memory!MemoryInv'
<1> DEFINE s == Memory!Got(k)
           N == a7 + 1
           x == [s EXCEPT !.goal = N, !.status = "working"]
           g == Memory!GoalOf(k)
<1>1. /\ s \in Memory!Sessions /\ g = s.goal /\ g \in 0 .. a7 /\ a7 \in Nat /\ a14 \in Nat /\ MaxGoals \in Nat
      /\ g # a2[k].goal => {g, a2[k].goal} \subseteq a12 \cup {0}
      /\ a1 \in [Keys -> Memory!Sessions \cup {Memory!Absent}] /\ a2 \in [Keys -> MemoryRows(a7)]
      /\ a4 \in [1 .. MaxGoals -> Nat] /\ \A h \in 1 .. MaxGoals : h > a7 => a4[h] = 0
  BY MemoryFacts, MemoryTypes
<1>2. /\ k \in a6 /\ a7 < MaxGoals /\ a7' = N /\ a11' = a11 \cup ({g} \ {0})
      /\ Memory!Persist(k, x) /\ UNCHANGED <<a3, a4, a6, a9, a10, a14>>
  BY <1>1 DEF Memory!SetGoal, Memory!NoGoal
<1> HIDE DEF s
<1>3. /\ x.msgs = s.msgs /\ x.goal = N /\ Memory!Row(x) = [status |-> "working", goal |-> N]
      /\ x \in [status : Memory!States, goal : 0 .. N, msgs : Seq(1 .. a14)]
  <2>1. s \in [status : Memory!States, goal : 0 .. a7, msgs : Seq(1 .. a14)]
    BY <1>1 DEF Memory!Sessions
  <2>2. N \in 0 .. N /\ "working" \in Memory!States
    BY <1>1 DEF Memory!States
  <2> HIDE DEF N
  <2>3. QED
    BY <2>1, <2>2 DEF Memory!Row
<1> HIDE DEF x
<1>4. /\ a1' = [a1 EXCEPT ![k] = x] /\ a12 \subseteq a12' /\ a13 \subseteq a13'
      /\ \/ a2' = [a2 EXCEPT ![k] = Memory!Row(x)]
         \/ a2' = a2 /\ {g, N} \subseteq a12'
  BY <1>1, <1>2, <1>3 DEF Memory!Persist, Memory!Tear, s
<1>5. /\ N \in Nat /\ N \in 1 .. MaxGoals /\ N \in 0 .. MaxGoals /\ 0 .. a7 \subseteq 0 .. N /\ N \notin 0 .. a7
      /\ N # 0 /\ 1 .. N = (1 .. a7) \cup {N} /\ a4[N] = 0
  BY <1>1, <1>2
<1> HIDE DEF N, g
<1>6. /\ Memory!Sessions \subseteq Memory!Sessions' /\ MemoryRows(a7) \subseteq MemoryRows(N)
      /\ Memory!Row(x) \in MemoryRows(N) /\ x \in Memory!Sessions' /\ x # Memory!Absent
  <2>1. Memory!Sessions' = [status : Memory!States, goal : 0 .. N, msgs : Seq(1 .. a14)]
    BY <1>2 DEF Memory!Sessions
  <2>2. Memory!Sessions \subseteq Memory!Sessions' /\ MemoryRows(a7) \subseteq MemoryRows(N)
    BY <1>5, <2>1 DEF Memory!Sessions, MemoryRows
  <2>3. Memory!Row(x) \in MemoryRows(N)
    BY <1>3, <1>5 DEF MemoryRows, Memory!States
  <2>4. x # Memory!Absent
    BY <1>3 DEF Memory!Absent, Memory!States
  <2>5. QED
    BY <1>3, <2>1, <2>2, <2>3, <2>4
<1>7. /\ a1' \in [Keys -> Memory!Sessions' \cup {Memory!Absent}] /\ a1'[k] = x
      /\ \A n \in Keys : n # k => a1'[n] = a1[n]
  BY <1>1, <1>4, <1>6
<1>8. /\ a2' \in [Keys -> MemoryRows(N)]
      /\ a2'[k] = Memory!Row(x) \/ (a2'[k] = a2[k] /\ {g, N} \subseteq a12')
      /\ \A n \in Keys : n # k => a2'[n] = a2[n]
  BY <1>1, <1>4, <1>6
<1>9. /\ \A n \in Keys : a2[n].status = "absent" => a2[n].goal = 0
      /\ \A n \in Keys : Memory!GoalOf(n) \in 0 .. a7 /\ a2[n].goal \in 0 .. a7
      /\ \A n \in Keys : Memory!GoalOf(n) # a2[n].goal => {Memory!GoalOf(n), a2[n].goal} \subseteq a12 \cup {0}
  BY MemoryFacts
<1>10. \A n \in Keys : a2'[n].status = "absent" => a2[n].status = "absent" /\ a2'[n].goal = 0
  BY <1>3, <1>8, <1>9
<1>11. Memory!GoalOf(k)' = N
  BY <1>3, <1>6, <1>7, <1>10, GoalWillBe
<1>12. \A n \in Keys : n # k => Memory!GoalOf(n)' = Memory!GoalOf(n) /\ a2'[n].goal = a2[n].goal
  BY <1>7, <1>8, <1>9, <1>10, GoalIs, GoalWillBe
<1>13. a2'[k].goal = N \/ (a2'[k].goal = a2[k].goal /\ {g, N} \subseteq a12')
  BY <1>3, <1>8
<1> DEFINE C(n) == Memory!GoalOf(n)
           W(n) == a2[n].goal
           C1(n) == Memory!GoalOf(n)'
           W1(n) == a2'[n].goal
<1>14. /\ \A n \in Keys : C(n) \in 0 .. a7 /\ W(n) \in 0 .. a7 /\ (C(n) # W(n) => {C(n), W(n)} \subseteq a12 \cup {0})
       /\ \A n \in Keys : n # k => C1(n) = C(n) /\ W1(n) = W(n)
       /\ C1(k) = N /\ C(k) = g /\ (W1(k) = N \/ (W1(k) = W(k) /\ {g, N} \subseteq a12'))
  BY <1>9, <1>11, <1>12, <1>13 DEF g
<1>15. /\ \A m, n \in Keys : m # n => \A h \in 1 .. a7 : ~ (h \in {C(m), W(m)} /\ h \in {C(n), W(n)})
       /\ \A h \in 1 .. a7 : h \notin a12 =>
            /\ a4[h] = 0 \/ (a4[h] = 1 /\ \A n \in Keys : h \notin {C(n), W(n)})
            /\ a4[h] = 1 \/ h \in a11 \/ \E n \in Keys : C(n) = h
  BY GoalsFacts
<1> HIDE DEF C, W, C1, W1
<1>16. \A n \in Keys : C1(n) \in 0 .. N /\ W1(n) \in 0 .. N
  <2>1. N \in 0 .. N
    BY <1>5
  <2>2. QED
    BY <1>5, <1>14, <2>1
<1>17. \A n \in Keys : C1(n) # W1(n) => {C1(n), W1(n)} \subseteq a12' \cup {0}
  BY <1>4, <1>14
<1>18. \A n \in Keys : n # k => N \notin {C1(n), W1(n)}
  BY <1>5, <1>14
<1>19. \A n \in Keys : \A h \in 1 .. a7 : h \in {C1(n), W1(n)} => h \in {C(n), W(n)}
  BY <1>1, <1>5, <1>14
<1>20. \A m, n \in Keys : m # n => \A h \in 1 .. N : ~ (h \in {C1(m), W1(m)} /\ h \in {C1(n), W1(n)})
  BY <1>5, <1>15, <1>18, <1>19
<1>21. ASSUME NEW h \in 1 .. N, h \notin a12'
       PROVE  /\ a4[h] = 0 \/ (a4[h] = 1 /\ \A n \in Keys : h \notin {C1(n), W1(n)})
              /\ a4[h] = 1 \/ h \in a11' \/ \E n \in Keys : C1(n) = h
  <2>1. CASE h = N
    BY <1>5, <1>14, <2>1
  <2>2. CASE h # N
    <3>1. h \in 1 .. a7 /\ h \notin a12 /\ h # 0
      <4>1. h \in (1 .. a7) \cup {N}
        BY <1>5
      <4>2. h \in 1 .. a7
        BY <2>2, <4>1
      <4>3. \A i \in 1 .. a7 : i # 0
        BY <1>1
      <4>4. QED
        BY <1>4, <1>21, <4>2, <4>3
    <3>2. /\ a4[h] = 0 \/ (a4[h] = 1 /\ \A n \in Keys : h \notin {C(n), W(n)})
          /\ a4[h] = 1 \/ h \in a11 \/ \E n \in Keys : C(n) = h
      BY <1>15, <3>1
    <3>3. g = h => h \in a11'
      BY <1>2, <3>1
    <3>4. \A n \in Keys : C(n) = h => C1(n) = h \/ h \in a11'
      BY <1>14, <3>3
    <3>5. a4[h] = 1 \/ h \in a11' \/ \E n \in Keys : C1(n) = h
      BY <1>2, <3>2, <3>4
    <3>6. a4[h] = 0 \/ (a4[h] = 1 /\ \A n \in Keys : h \notin {C1(n), W1(n)})
      BY <1>19, <3>1, <3>2
    <3>7. QED
      BY <3>5, <3>6
  <2>3. QED
    BY <2>1, <2>2
<1>22. Memory!GoalsAgree' /\ \A n \in Keys : Memory!GoalKept(n)'
  BY <1>2, <1>5, <1>10, <1>16, <1>17, <1>20, <1>21, GoalsNext DEF C1, W1
<1>23. \A n \in Keys :
         /\ \/ a1'[n] = Memory!Absent
            \/ /\ n \in a6'
               /\ \/ a1'[n].msgs = Memory!Got(n).msgs
                  \/ a1'[n].msgs = a3[n]
                  \/ a1'[n].msgs = <<>> /\ a2[n].status = "absent"
         /\ a2'[n].status = "absent" => a2[n].status = "absent"
         /\ n \notin a6' => a2'[n] = a2[n]
  <2>1. ASSUME NEW n \in Keys, n # k, a1'[n] # Memory!Absent
        PROVE  n \in a6' /\ a1'[n].msgs = Memory!Got(n).msgs
    <3>1. a1'[n] = a1[n] /\ a1[n] # Memory!Absent
      BY <1>7, <2>1
    <3>2. n \in a6 /\ Memory!Got(n) = a1[n]
      BY <3>1, MemoryFacts, GotCached
    <3>3. QED
      BY <1>2, <3>1, <3>2
  <2>2. k \in a6' /\ a1'[k].msgs = Memory!Got(k).msgs
    BY <1>2, <1>3, <1>7 DEF s
  <2>3. QED
    BY <1>8, <1>10, <2>1, <2>2
<1>24. \A n \in Keys : Memory!MessagesKept(n)' /\ (n \notin a6' => Memory!Unused(n)')
  BY <1>2, <1>4, <1>23, MessagesStay
<1>25. Memory!StoreTypeOK'
  <2>1. \A h \in 1 .. MaxGoals : h > N => a4[h] = 0
    <3>1. \A h \in 1 .. MaxGoals : h > a7 + 1 => h > a7
      BY <1>1
    <3>2. QED
      BY <1>1, <3>1 DEF N
  <2>2. QED
    BY <1>2, <1>5, <1>7, <1>8, <2>1, MemoryTypes, Zenon DEF Memory!StoreTypeOK, MemoryRows
<1>26. QED
  BY <1>22, <1>24, <1>25, Zenon DEF Memory!MemoryInv

\* A new message is behind those before it.
LEMMA Appended ==
  ASSUME NEW p \in Nat, NEW s \in Seq(1 .. p)
  PROVE  /\ s \in Seq(1 .. (p + 1)) /\ Append(s, p + 1) \in Seq(1 .. (p + 1))
         /\ Memory!InOrder(s) => Memory!InOrder(Append(s, p + 1))
         /\ Memory!ToSet(Append(s, p + 1)) = Memory!ToSet(s) \cup {p + 1}
<1> DEFINE t == Append(s, p + 1)
<1>1. /\ Len(s) \in Nat /\ DOMAIN s = 1 .. Len(s) /\ \A i \in 1 .. Len(s) : s[i] \in 1 .. p
      /\ DOMAIN t = 1 .. (Len(s) + 1) /\ t[Len(s) + 1] = p + 1 /\ \A i \in 1 .. Len(s) : t[i] = s[i]
  OBVIOUS
<1>2. s \in Seq(1 .. (p + 1)) /\ t \in Seq(1 .. (p + 1))
  <2>1. s \in Seq(1 .. (p + 1)) /\ p + 1 \in 1 .. (p + 1)
    <3>1. 1 .. p \subseteq 1 .. (p + 1)
      OBVIOUS
    <3>2. s \in [1 .. Len(s) -> 1 .. (p + 1)]
      BY <1>1, <3>1
    <3>3. QED
      BY <1>1, <3>2
  <2>2. QED
    BY <2>1
<1> HIDE DEF t
<1>3. ASSUME Memory!InOrder(s), NEW i \in DOMAIN t, NEW j \in DOMAIN t, i < j PROVE t[i] < t[j]
  <2>1. CASE j = Len(s) + 1
    <3>1. i \in 1 .. Len(s) /\ t[i] \in 1 .. p
      BY <1>1, <1>3, <2>1
    <3>2. QED
      BY <1>1, <2>1, <3>1
  <2>2. CASE j # Len(s) + 1
    <3>1. i \in DOMAIN s /\ j \in DOMAIN s
      BY <1>1, <1>3, <2>2
    <3>2. s[i] < s[j]
      BY <1>3, <3>1 DEF Memory!InOrder
    <3>3. QED
      BY <1>1, <3>1, <3>2
  <2>3. QED
    BY <2>1, <2>2
<1>4. Memory!ToSet(t) = Memory!ToSet(s) \cup {p + 1}
  <2>1. \A v : v \in Memory!ToSet(t) <=> \E i \in 1 .. (Len(s) + 1) : v = t[i]
    BY <1>1 DEF Memory!ToSet
  <2>2. \A v : v \in Memory!ToSet(s) <=> \E i \in 1 .. Len(s) : v = s[i]
    BY <1>1 DEF Memory!ToSet
  <2>3. \A i \in 1 .. (Len(s) + 1) : i \in 1 .. Len(s) \/ i = Len(s) + 1
    BY <1>1
  <2>4. \A i \in 1 .. Len(s) : i \in 1 .. (Len(s) + 1)
    BY <1>1
  <2>5. Len(s) + 1 \in 1 .. (Len(s) + 1)
    BY <1>1
  <2>6. \A v : v \in Memory!ToSet(t) <=> v \in Memory!ToSet(s) \/ v = p + 1
    <3>1. ASSUME NEW v, v \in Memory!ToSet(t) PROVE v \in Memory!ToSet(s) \/ v = p + 1
      <4>1. PICK i \in 1 .. (Len(s) + 1) : v = t[i]
        BY <2>1, <3>1, Zenon
      <4>2. CASE i \in 1 .. Len(s)
        <5>1. v = s[i]
          BY <1>1, <4>1, <4>2
        <5>2. QED
          BY <2>2, <4>2, <5>1, Zenon
      <4>3. CASE i = Len(s) + 1
        BY <1>1, <4>1, <4>3
      <4>4. QED
        BY <2>3, <4>2, <4>3, Zenon
    <3>2. ASSUME NEW v, v \in Memory!ToSet(s) PROVE v \in Memory!ToSet(t)
      <4>1. PICK i \in 1 .. Len(s) : v = s[i]
        BY <2>2, <3>2, Zenon
      <4>2. i \in 1 .. (Len(s) + 1) /\ v = t[i]
        BY <1>1, <2>4, <4>1
      <4>3. QED
        BY <2>1, <4>2, Zenon
    <3>3. p + 1 \in Memory!ToSet(t)
      BY <1>1, <2>1, <2>5, Zenon
    <3>4. QED
      BY <3>1, <3>2, <3>3, Zenon
  <2>7. QED
    BY <2>6
<1>5. Memory!InOrder(s) => Memory!InOrder(t)
  BY <1>3 DEF Memory!InOrder
<1>6. QED
  BY <1>2, <1>4, <1>5 DEF t

LEMMA MemoryInit == Memory!Init => Memory!MemoryInv
<1> SUFFICES ASSUME Memory!Init PROVE Memory!MemoryInv
  OBVIOUS
<1>1. /\ a1 = [k \in Keys |-> Memory!Absent] /\ a2 = [k \in Keys |-> Memory!Row(Memory!Absent)]
      /\ a3 = [k \in Keys |-> <<>>] /\ a4 = [g \in 1 .. MaxGoals |-> 0] /\ a6 = {1} /\ a7 = 0 /\ a14 = 0
      /\ a9 = [k \in Keys |-> {}]
  BY DEF Memory!Init
<1>2. MaxGoals \in Nat /\ 1 \in Keys
  BY MemoryAssumption
<1>3. Memory!Row(Memory!Absent) = [status |-> "absent", goal |-> 0]
  BY DEF Memory!Row, Memory!Absent, Memory!NoGoal
<1>4. Memory!StoreTypeOK
  BY <1>1, <1>2, <1>3 DEF Memory!StoreTypeOK
<1>5. \A k \in Keys : a1[k] = Memory!Absent /\ a2[k] = [status |-> "absent", goal |-> 0]
  BY <1>1, <1>3
<1>6. \A k \in Keys : Memory!GoalOf(k) = 0
  BY <1>5, GoalIs
<1>7. ASSUME NEW k \in Keys
      PROVE  Memory!MessagesKept(k) /\ Memory!GoalKept(k) /\ (k \notin a6 => Memory!Unused(k))
  <2>1. Memory!Remembers(<<>>, k)
    BY <1>1 DEF Memory!Remembers, Memory!InOrder, Memory!ToSet
  <2>2. Memory!MessagesKept(k)
    BY <1>1, <1>5, <2>1 DEF Memory!MessagesKept, Memory!Cached
  <2>3. Memory!GoalKept(k)
    BY <1>5, <1>6 DEF Memory!GoalKept, Memory!NoGoal
  <2>4. Memory!Unused(k)
    BY <1>1 DEF Memory!Unused
  <2>5. QED
    BY <2>2, <2>3, <2>4
<1>8. Memory!GoalsAgree
  <2>1. \A k \in Keys : Memory!GoalsOf(k) = {}
    BY <1>5, <1>6 DEF Memory!GoalsOf, Memory!NoGoal
  <2>2. 1 .. a7 = {}
    BY <1>1
  <2>3. QED
    BY <2>1, <2>2 DEF Memory!GoalsAgree
<1>9. QED
  BY <1>4, <1>7, <1>8, Zenon DEF Memory!MemoryInv

LEMMA MemoryAdds ==
  ASSUME Memory!MemoryInv, NEW k \in Keys, Memory!AddMessage(k) PROVE Memory!MemoryInv'
<1> DEFINE s == Memory!Got(k)
           N == a14 + 1
           x == [s EXCEPT !.msgs = Append(s.msgs, N)]
           y == [status |-> s.status, goal |-> s.goal]
           g == Memory!GoalOf(k)
<1>1. /\ s \in Memory!Sessions /\ g = s.goal /\ a14 \in Nat
      /\ g # a2[k].goal => {g, a2[k].goal} \subseteq a12 \cup {0}
      /\ a1 \in [Keys -> Memory!Sessions \cup {Memory!Absent}] /\ a2 \in [Keys -> MemoryRows(a7)]
      /\ a3 \in [Keys -> Seq(1 .. a14)] /\ a9 \in [Keys -> SUBSET (1 .. a14)]
      /\ Memory!Remembers(a3[k], k) /\ (k \notin a13 => Memory!Remembers(s.msgs, k))
      /\ k \notin a13 /\ a2[k].status = "absent" => a3[k] = <<>>
  BY MemoryFacts, MemoryTypes
<1>2. s \in [status : Memory!States, goal : 0 .. a7, msgs : Seq(1 .. a14)]
  BY <1>1 DEF Memory!Sessions
<1>3. /\ k \in a6 /\ a14' = N /\ a9' = [a9 EXCEPT ![k] = a9[k] \cup {N}] /\ UNCHANGED <<a4, a6, a7, a11>>
      /\ \/ a3' = [a3 EXCEPT ![k] = Append(a3[k], N)] /\ a10' = a10 /\ Memory!Persist(k, x)
         \/ /\ a3' = a3 /\ a10' = a10 \cup {N} /\ a12' = a12 /\ a13' = a13
            /\ a1' = [a1 EXCEPT ![k] = x] /\ a2' = [a2 EXCEPT ![k] = y]
  BY DEF Memory!AddMessage, Memory!NextMessage, Memory!Message, Memory!Row
<1> HIDE DEF s
<1>4. /\ s.msgs \in Seq(1 .. a14) /\ s.status \in Memory!States /\ s.goal \in 0 .. a7 /\ y \in MemoryRows(a7)
      /\ y.status # "absent" /\ y.goal = g
  BY <1>1, <1>2 DEF MemoryRows, Memory!States
<1>5. Append(s.msgs, N) \in Seq(1 .. N)
  BY <1>1, <1>4, Appended
<1>6. /\ x \in [status : Memory!States, goal : 0 .. a7, msgs : Seq(1 .. N)]
      /\ x.msgs = Append(s.msgs, N) /\ x.goal = g /\ Memory!Row(x) = y
  <2> DEFINE v == Append(s.msgs, N)
  <2>1. v \in Seq(1 .. N)
    BY <1>5
  <2> HIDE DEF v, N
  <2>2. [s EXCEPT !.msgs = v] = [status |-> s.status, goal |-> s.goal, msgs |-> v]
    BY <1>2
  <2>3. x = [status |-> s.status, goal |-> s.goal, msgs |-> v]
    BY <2>2 DEF v
  <2> HIDE DEF x
  <2>4. QED
    BY <1>1, <1>4, <2>1, <2>3 DEF Memory!Row, v
<1> HIDE DEF x, y
<1>7. /\ a1' = [a1 EXCEPT ![k] = x] /\ a12 \subseteq a12' /\ a13 \subseteq a13'
      /\ \/ a2' = [a2 EXCEPT ![k] = y]
         \/ a2' = a2 /\ g \in a12' /\ (a2[k].status = "absent" => k \in a13')
      /\ \/ a3' = [a3 EXCEPT ![k] = Append(a3[k], N)] /\ a10' = a10
         \/ a3' = a3 /\ a10' = a10 \cup {N}
  <2>1. ASSUME Memory!Persist(k, x)
        PROVE  /\ a1' = [a1 EXCEPT ![k] = x] /\ a12 \subseteq a12' /\ a13 \subseteq a13'
               /\ \/ a2' = [a2 EXCEPT ![k] = y]
                  \/ a2' = a2 /\ g \in a12' /\ (a2[k].status = "absent" => k \in a13')
    BY <1>6, <2>1 DEF Memory!Persist, Memory!Tear
  <2>2. QED
    BY <1>3, <2>1
<1> HIDE DEF g
<1>8. /\ 1 .. a14 \subseteq 1 .. N /\ N \in 1 .. N /\ N \in Nat /\ Seq(1 .. a14) \subseteq Seq(1 .. N)
  <2>1. 1 .. a14 \subseteq 1 .. N /\ N \in 1 .. N /\ N \in Nat
    BY <1>1
  <2>2. \A q \in Seq(1 .. a14) : q \in Seq(1 .. N)
    BY <1>1, Appended
  <2>3. QED
    BY <2>1, <2>2
<1>9. /\ Memory!Sessions' = [status : Memory!States, goal : 0 .. a7, msgs : Seq(1 .. N)]
      /\ Memory!Sessions \subseteq Memory!Sessions' /\ x \in Memory!Sessions' /\ x # Memory!Absent
  <2>1. Memory!Sessions' = [status : Memory!States, goal : 0 .. a7, msgs : Seq(1 .. N)]
    BY <1>3 DEF Memory!Sessions
  <2>2. x # Memory!Absent
    BY <1>6 DEF Memory!Absent, Memory!States
  <2> HIDE DEF N
  <2>3. Memory!Sessions \subseteq Memory!Sessions'
    BY <1>8, <2>1 DEF Memory!Sessions
  <2>4. QED
    BY <1>6, <2>1, <2>2, <2>3
<1>10. /\ a1' \in [Keys -> Memory!Sessions' \cup {Memory!Absent}] /\ a1'[k] = x
       /\ \A n \in Keys : n # k => a1'[n] = a1[n]
  BY <1>1, <1>7, <1>9
<1>11. /\ a2' \in [Keys -> MemoryRows(a7)]
       /\ a2'[k] = y \/ (a2'[k] = a2[k] /\ g \in a12' /\ (a2[k].status = "absent" => k \in a13'))
       /\ \A n \in Keys : n # k => a2'[n] = a2[n]
  BY <1>1, <1>4, <1>7
<1>12. /\ a3' \in [Keys -> Seq(1 .. N)] /\ \A n \in Keys : n # k => a3'[n] = a3[n]
       /\ (a3'[k] = Append(a3[k], N) /\ a10' = a10) \/ (a3'[k] = a3[k] /\ a10' = a10 \cup {N})
  <2>1. a3 \in [Keys -> Seq(1 .. N)] /\ a3[k] \in Seq(1 .. a14)
    BY <1>1, <1>8
  <2>2. Append(a3[k], N) \in Seq(1 .. N)
    BY <1>1, <2>1, Appended
  <2> HIDE DEF N
  <2>3. QED
    BY <1>7, <2>1, <2>2
<1>13. /\ a9' \in [Keys -> SUBSET (1 .. N)] /\ a9'[k] = a9[k] \cup {N}
       /\ \A n \in Keys : n # k => a9'[n] = a9[n]
  <2> HIDE DEF N
  <2>1. QED
    BY <1>1, <1>3, <1>8
<1>14. \A n \in Keys : a2'[n].status = "absent" => a2'[n] = a2[n] /\ a2'[n].goal = 0
  <2>1. \A n \in Keys : a2[n].status = "absent" => a2[n].goal = 0
    BY MemoryFacts
  <2>2. QED
    BY <1>4, <1>11, <2>1
\* The goals are as they were.
<1>15. Memory!GoalOf(k)' = g
  BY <1>6, <1>9, <1>10, <1>14, GoalWillBe
<1>16. \A n \in Keys : n # k => Memory!GoalOf(n)' = Memory!GoalOf(n) /\ a2'[n].goal = a2[n].goal
  <2>1. \A n \in Keys : a2[n].status = "absent" => a2[n].goal = 0
    BY MemoryFacts
  <2>2. QED
    BY <1>10, <1>11, <1>14, <2>1, GoalIs, GoalWillBe
<1>17. /\ {Memory!GoalOf(k)', a2'[k].goal, 0} \subseteq {Memory!GoalOf(k), a2[k].goal, 0}
       /\ Memory!GoalOf(k)' # a2'[k].goal => {Memory!GoalOf(k)', a2'[k].goal} \subseteq a12' \cup {0}
       /\ Memory!GoalOf(k) = Memory!GoalOf(k)'
  <2>1. a2'[k].goal = g \/ a2'[k].goal = a2[k].goal
    BY <1>4, <1>11
  <2>2. QED
    BY <1>1, <1>7, <1>15, <2>1 DEF g
<1>18. /\ Memory!GoalsAgree' /\ \A n \in Keys : Memory!GoalKept(n)'
       /\ a4' \in [1 .. MaxGoals -> Nat] /\ \A h \in 1 .. MaxGoals : h > a7 => a4'[h] = 0
  BY <1>3, <1>7, <1>14, <1>16, <1>17, GoalsShrink
\* The messages: the new one is behind the others.
<1> DEFINE Kept(t) == /\ Memory!InOrder(t) /\ a9'[k] \ a10' \subseteq Memory!ToSet(t)
                      /\ Memory!ToSet(t) \subseteq a9'[k]
<1>19. ASSUME NEW q \in Seq(1 .. a14), Memory!Remembers(q, k)
       PROVE  Kept(Append(q, N)) /\ (a10' = a10 \cup {N} => Kept(q))
  <2>1. /\ Memory!InOrder(q) => Memory!InOrder(Append(q, N))
        /\ Memory!ToSet(Append(q, N)) = Memory!ToSet(q) \cup {N}
    BY <1>1, Appended
  <2>2. Memory!InOrder(q) /\ a9[k] \ a10 \subseteq Memory!ToSet(q) /\ Memory!ToSet(q) \subseteq a9[k]
    BY <1>19 DEF Memory!Remembers
  <2>3. a10 \subseteq a10'
    BY <1>7
  <2> HIDE DEF N
  <2>4. QED
    BY <1>13, <2>1, <2>2, <2>3
<1> HIDE DEF Kept
<1>20. /\ Kept(a3'[k]) /\ (k \notin a13' => Kept(x.msgs))
       /\ k \notin a13' /\ a2'[k].status = "absent" => a3'[k] = <<>>
  <2>1. Kept(a3'[k])
    BY <1>1, <1>12, <1>19
  <2>2. k \notin a13' => Kept(x.msgs)
    BY <1>1, <1>4, <1>6, <1>7, <1>19
  <2>3. ASSUME k \notin a13', a2'[k].status = "absent" PROVE FALSE
    BY <1>4, <1>11, <2>3
  <2>4. QED
    BY <2>1, <2>2, <2>3
<1>21. Memory!MessagesKept(k)'
  BY <1>10, <1>20 DEF Kept, Memory!MessagesKept, Memory!Cached, Memory!Remembers, Memory!InOrder, Memory!ToSet
<1>22. ASSUME NEW n \in Keys, n # k PROVE Memory!MessagesKept(n)' /\ (n \notin a6' => Memory!Unused(n)')
  <2>1. Memory!MessagesKept(n) /\ (n \notin a6 => Memory!Unused(n))
    BY Zenon DEF Memory!MemoryInv
  <2>2. a1'[n] = a1[n] /\ a2'[n] = a2[n] /\ a3'[n] = a3[n] /\ a9'[n] = a9[n] /\ a10 \subseteq a10' /\ a13 \subseteq a13'
    BY <1>7, <1>10, <1>11, <1>12, <1>13, <1>22
  <2>3. n \notin a6' => Memory!Unused(n)'
    BY <1>3, <2>1, <2>2 DEF Memory!Unused
  <2>4. Memory!MessagesKept(n)'
    BY <2>1, <2>2 DEF Memory!MessagesKept, Memory!Cached, Memory!Remembers, Memory!InOrder, Memory!ToSet
  <2>5. QED
    BY <2>3, <2>4
<1>23. \A n \in Keys : Memory!MessagesKept(n)' /\ (n \notin a6' => Memory!Unused(n)')
  BY <1>3, <1>21, <1>22
<1>24. Memory!StoreTypeOK'
  <2>1. a14' \in Nat /\ a14' = N
    BY <1>3, <1>8
  <2> HIDE DEF N
  <2>2. QED
    BY <1>3, <1>10, <1>11, <1>12, <1>13, <1>18, <2>1, MemoryTypes, Zenon DEF Memory!StoreTypeOK, MemoryRows
<1>25. QED
  BY <1>18, <1>23, <1>24, Zenon DEF Memory!MemoryInv

LEMMA MemoryStep == ASSUME Memory!MemoryInv, Memory!Next PROVE Memory!MemoryInv'
BY MemoryAdds, MemorySetGoal, MemoryDone, MemoryExpire, MemoryExpireGoal, MemoryReset, MemoryStop, Zenon
   DEF Memory!Next

LEMMA MemoryStays == ASSUME Memory!MemoryInv, UNCHANGED slots PROVE Memory!MemoryInv'
<1>1. UNCHANGED <<a1, a2, a3, a4, a5, a6, a7, a8, a9, a10, a11, a12, a13, a14>>
  BY DEF slots
<1>2. \A k \in Keys : Memory!GoalOf(k)' = Memory!GoalOf(k)
  BY <1>1 DEF Memory!GoalOf, Memory!Got, Memory!Cached, Memory!Restored
<1>3. Memory!StoreTypeOK'
  BY <1>1, Zenon DEF Memory!MemoryInv, Memory!StoreTypeOK, Memory!Sessions
<1>4. ASSUME NEW k \in Keys PROVE Memory!MessagesKept(k)' /\ Memory!GoalKept(k)' /\ (k \notin a6' => Memory!Unused(k)')
  <2>1. Memory!MessagesKept(k) /\ Memory!GoalKept(k) /\ (k \notin a6 => Memory!Unused(k))
    BY Zenon DEF Memory!MemoryInv
  <2>2. Memory!MessagesKept(k)'
    BY <1>1, <2>1 DEF Memory!MessagesKept, Memory!Cached, Memory!Remembers, Memory!InOrder, Memory!ToSet
  <2>3. Memory!GoalKept(k)'
    BY <1>1, <1>2, <2>1 DEF Memory!GoalKept
  <2>4. k \notin a6' => Memory!Unused(k)'
    BY <1>1, <2>1 DEF Memory!Unused
  <2>5. QED
    BY <2>2, <2>3, <2>4
<1>5. Memory!GoalsAgree'
  <2>1. \A k \in Keys : Memory!GoalsOf(k)' = Memory!GoalsOf(k)
    BY <1>1, <1>2 DEF Memory!GoalsOf
  <2>2. Memory!GoalsAgree
    BY Zenon DEF Memory!MemoryInv
  <2>3. QED
    BY <1>1, <1>2, <2>1, <2>2 DEF Memory!GoalsAgree
<1>6. QED
  BY <1>3, <1>4, <1>5, Zenon DEF Memory!MemoryInv

LEMMA MemoryHolds == ASSUME Memory!MemoryInv PROVE Memory!MemoryOfUser
<1>1. \A k \in Keys \ a13 : Memory!Remembers(Memory!Got(k).msgs, k)
  BY MemoryFacts
<1>2. \A g \in 1 .. a7 : g \notin a12 =>
        /\ a4[g] = 0 \/ a4[g] = 1
        /\ a4[g] = 1 \/ g \in a11 \/ \E k \in Keys : Memory!GoalOf(k) = g
  BY GoalsFacts
<1>3. 0 <= 1 /\ 1 <= 1
  OBVIOUS
<1>4. \A g \in 1 .. a7 : g \notin a12 =>
        /\ a4[g] <= 1
        /\ a4[g] = 1 \/ g \in a11 \/ \E k \in Keys : Memory!GoalOf(k) = g
  BY <1>2, <1>3, Zenon
<1>5. QED
  BY <1>1, <1>4, Zenon DEF Memory!MemoryOfUser

-------------------------------------------------------------------------------
(* The conversations and their users: one machine of them at a time.          *)
SessionsInv ==
  /\ part = "door" => Door!DoorInv
  /\ part = "memory" => Memory!MemoryInv
  /\ part = "users" => Users!PairsInv

LEMMA SessionsStep == SessionsInv /\ [ServicesNext]_serviceVars => SessionsInv'
<1> SUFFICES ASSUME SessionsInv, [ServicesNext]_serviceVars PROVE SessionsInv'
  OBVIOUS
<1>1. part' = part
  BY DEF ServicesNext, serviceVars
<1>2. CASE part = "door"
  <2>1. Door!Next \/ UNCHANGED slots
    BY <1>2 DEF ServicesNext, serviceVars
  <2>2. Door!DoorInv
    BY <1>2 DEF SessionsInv
  <2>3. Door!DoorInv'
    BY <2>1, <2>2, DoorStep, DoorStays
  <2>4. QED
    BY <1>1, <1>2, <2>3 DEF SessionsInv
<1>3. CASE part = "memory"
  <2>1. Memory!Next \/ UNCHANGED slots
    BY <1>3 DEF ServicesNext, serviceVars
  <2>2. Memory!MemoryInv
    BY <1>3 DEF SessionsInv
  <2>3. Memory!MemoryInv'
    BY <2>1, <2>2, MemoryStep, MemoryStays
  <2>4. QED
    BY <1>1, <1>3, <2>3 DEF SessionsInv
<1>4. CASE part = "users"
  <2>1. Users!Next \/ UNCHANGED slots
    BY <1>4 DEF ServicesNext, serviceVars
  <2>2. Users!PairsInv
    BY <1>4 DEF SessionsInv
  <2>3. Users!PairsInv'
    BY <2>1, <2>2, UsersStep, UsersStay
  <2>4. QED
    BY <1>1, <1>4, <2>3 DEF SessionsInv
<1>5. QED
  BY <1>1, <1>2, <1>3, <1>4 DEF SessionsInv

(* However the messages of a user and the refreshes of his tokens overlap, and   *)
(* whichever write of a session fails: a conversation is that of its user and   *)
(* his messages are answered one after the other, what it remembers is what was  *)
(* said, and the client's tokens are those of its session (agent, session,      *)
(* services/user_session).                                                   *)
THEOREM SessionsAreKept == ServicesSpec => []SessionsKept
<1>1. ServicesInit => SessionsInv
  BY DoorInit, MemoryInit, UsersInit DEF ServicesInit, SessionsInv
<1>2. SessionsInv => SessionsKept
  BY DoorHolds, MemoryHolds, UsersHold DEF SessionsInv, SessionsKept
<1>3. QED
  BY <1>1, <1>2, SessionsStep, PTL DEF ServicesSpec
================================================================================
