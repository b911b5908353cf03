----------------------------- MODULE MemoryDistill -----------------------------
(***************************************************************************)
(* How messages become the profile of the user (memory_engine): they are    *)
(* stored, once a day distilled by a model or by rules into a cache, into    *)
(* new rows and into persona.md, and marked; the user confirms what the      *)
(* profile holds as pending.                                                *)
(*                                                                          *)
(* The server distils in a thread of its own, under the lock under which it  *)
(* stores messages.  What a message says is one fact; rows of one fact and   *)
(* kind are one.  One write to the store may fail and give a distillation    *)
(* up, or the server stop anywhere.  The tool skills/ops_memory_distiller,   *)
(* another process over the same files, is left out (README).                *)
(***************************************************************************)
EXTENDS FiniteSets, SequencesExt

CONSTANTS Facts,
          Own,         \* facts of one user's messages; the others are another's
          MinCount,    \* messages a distillation needs: 5 in the code
          MaxPending   \* entries of the pending section: 50 in the code

VARIABLES rows,     \* conversations: facts said by users, and products of the rules
          cache,    \* the newest row of distilled_cache, which nothing reads
          persona,  \* persona.md
          worker,   \* the thread that distils
          user,     \* a command /memory_persona
          extracted, confirmed, broken   \* history; broken: stopped or failed

memoryVars == <<rows, cache, persona, worker, user, extracted, confirmed, broken>>
memoryHistory == <<extracted, confirmed, broken>>

Kinds == {"said", "product"}
AtRest == [pc |-> "idle", taken |-> {}, facts |-> {}, rules |-> FALSE, done |-> FALSE,
         read |-> [manual |-> {}, auto |-> {}, pending |-> <<>>]]
NoCommand == [pc |-> "idle", list |-> <<>>, at |-> 0, read |-> AtRest.read]

MemoryInit ==
  /\ rows = [f \in Facts |-> [k \in Kinds |-> "none"]]
  /\ cache = "none"
  /\ persona = AtRest.read
  /\ worker = AtRest
  /\ user = NoCommand
  /\ extracted = [f \in Facts |-> 0]
  /\ confirmed = {} /\ broken = FALSE

-------------------------------------------------------------------------------
(* AgentMemory._lock: the thread holds it for the whole distillation.        *)
EngineFree == worker.pc = "idle"

(* after_reply, and remember: what is not noise is stored. *)
Say(f) ==
  /\ EngineFree /\ rows[f]["said"] = "none"
  /\ rows' = [rows EXCEPT ![f]["said"] = "fresh"]
  /\ UNCHANGED <<cache, persona, worker, user, memoryHistory>>

(* A row is older than the window of a distillation, and out of its reach.   *)
AgeRow(f, k) ==
  /\ rows[f][k] = "fresh"
  /\ rows' = [rows EXCEPT ![f][k] = "old"]
  /\ UNCHANGED <<cache, persona, worker, user, memoryHistory>>

-------------------------------------------------------------------------------
(* daily_distill.                                                           *)

Distilling(pc) == worker.pc = pc
GoTo(pc) == worker' = [worker EXCEPT !.pc = pc]

Fresh == {r \in Facts \X Kinds : rows[r[1]][r[2]] = "fresh"}

(* get_unprocessed_messages: products are among them. *)
Take ==
  /\ Distilling("idle")
  /\ Cardinality(Fresh) >= MinCount
  /\ worker' = [AtRest EXCEPT !.pc = "extract", !.taken = Fresh]
  /\ UNCHANGED <<rows, cache, persona, user, memoryHistory>>

(* The model gets what the user who spoke most has said, or all if nobody    *)
(* has spoken; if it fails, or there is none, the rules repeat every message. *)
Spoken(taken) == {r[1] : r \in {r \in taken : r[2] = "said"}}
OfMain(spoken) ==
  {said \in {spoken \cap Own, spoken \ Own} : 2 * Cardinality(said) >= Cardinality(spoken)}
Extract ==
  /\ Distilling("extract")
  /\ LET spoken == Spoken(worker.taken)
         every == {r[1] : r \in worker.taken}
     IN  \E rules \in BOOLEAN, main \in OfMain(spoken) :
           LET given == IF rules \/ spoken = {} THEN every ELSE main
           IN  /\ worker' = [worker EXCEPT !.pc = "cache", !.rules = rules, !.facts = given]
               /\ extracted' = [f \in Facts |->
                    IF f \in given \cap spoken THEN extracted[f] + 1 ELSE extracted[f]]
  /\ UNCHANGED <<rows, cache, persona, user, confirmed, broken>>

(* save_distill_cache, INSERT OR REPLACE. *)
SaveCache ==
  /\ Distilling("cache")
  /\ cache' = "pending"
  /\ GoTo("store")
  /\ UNCHANGED <<rows, persona, user, extracted, confirmed, broken>>

(* _vectorize_and_store: only the rules make what it looks for. *)
Stored(facts) == [f \in Facts |-> [k \in Kinds |->
  IF k = "product" /\ f \in facts THEN "fresh" ELSE rows[f][k]]]
Store ==
  /\ Distilling("store")
  /\ LET facts == IF worker.rules THEN worker.facts ELSE {}
     IN  \E some \in SUBSET facts :
           /\ rows' = Stored(some)
           /\ worker' = [worker EXCEPT !.pc = "status", !.done = some = facts]
  /\ UNCHANGED <<cache, persona, user, memoryHistory>>
MarkCache ==
  /\ Distilling("status")
  /\ \E marks \in {worker.done, FALSE} :
       cache' = IF marks THEN "vectorized" ELSE "failed"
  /\ GoTo("mark")
  /\ UNCHANGED <<rows, persona, user, memoryHistory>>

(* mark_distilled: also what others than the main user have said. *)
Mark ==
  /\ Distilling("mark")
  /\ rows' = [f \in Facts |-> [k \in Kinds |->
       IF <<f, k>> \in worker.taken THEN "distilled" ELSE rows[f][k]]]
  /\ GoTo("persona")
  /\ UNCHANGED <<cache, persona, user, memoryHistory>>

-------------------------------------------------------------------------------
(* persona.md: read and written under a lock of the process.                 *)

(* What the model finds stable is auto; what it is not sure of is pending.   *)
ReadUnlocked ==
  /\ Distilling("persona")
  /\ worker' = [worker EXCEPT !.pc = "write", !.read = persona]
  /\ UNCHANGED <<rows, cache, persona, user, memoryHistory>>
ReadPersona == user.pc # "write" /\ ReadUnlocked

Newest(list) == IF Len(list) > MaxPending THEN Tail(list) ELSE list
Appended(list, f) == IF f \in ToSet(list) THEN list ELSE Newest(Append(list, f))
WritePersona ==
  /\ Distilling("write")
  /\ LET facts == IF worker.rules THEN {} ELSE worker.facts
         read == worker.read
     IN  \/ \E unsure \in SUBSET facts :
              persona' = [manual |-> read.manual,
                          auto |-> IF facts \ unsure = {} THEN read.auto ELSE facts \ unsure,
                          pending |-> FoldLeft(Appended, read.pending, SetToSeq(unsure))]
         \/ UNCHANGED persona
  /\ worker' = AtRest
  /\ UNCHANGED <<rows, cache, user, memoryHistory>>

(* /memory_persona lists the pending entries; confirm takes a number.        *)
List ==
  /\ user.pc = "idle" /\ persona.pending # <<>>
  /\ user' = [NoCommand EXCEPT !.pc = "listed", !.list = persona.pending]
  /\ UNCHANGED <<rows, cache, persona, worker, memoryHistory>>
Choose ==
  /\ user.pc = "listed" /\ ~ Distilling("write")
  /\ \E i \in DOMAIN user.list :
       user' = IF i > Len(persona.pending) THEN NoCommand
               ELSE [user EXCEPT !.pc = "write", !.at = i, !.read = persona]
  /\ UNCHANGED <<rows, cache, persona, worker, memoryHistory>>
Confirm ==
  /\ user.pc = "write"
  /\ LET f == user.read.pending[user.at]
     IN  /\ persona' = [user.read EXCEPT !.manual = @ \cup {f},
                                         !.pending = RemoveAt(user.read.pending, user.at)]
         /\ confirmed' = confirmed \cup {f}
  /\ user' = NoCommand
  /\ UNCHANGED <<rows, cache, worker, extracted, broken>>

-------------------------------------------------------------------------------
(* A write to the store fails, and the thread gives up until tomorrow.        *)
GiveUp ==
  /\ worker.pc \in {"cache", "status", "mark"}
  /\ ~ broken /\ broken' = TRUE
  /\ worker' = AtRest
  /\ UNCHANGED <<rows, cache, persona, user, extracted, confirmed>>

(* The server stops, and starts again; writing the file is atomic. *)
Stop ==
  /\ ~ broken /\ broken' = TRUE
  /\ worker' = AtRest /\ user' = NoCommand
  /\ UNCHANGED <<rows, cache, persona, extracted, confirmed>>

MemoryNext ==
  \/ \E f \in Facts : Say(f) \/ \E k \in Kinds : AgeRow(f, k)
  \/ Take \/ Extract \/ SaveCache \/ Store \/ MarkCache \/ Mark
  \/ ReadPersona \/ WritePersona
  \/ List \/ Choose \/ Confirm
  \/ GiveUp \/ Stop
MemorySpec == MemoryInit /\ [][MemoryNext]_memoryVars

-------------------------------------------------------------------------------
(* What the user has confirmed stays in the profile, whatever is distilled    *)
(* meanwhile, and no message is distilled twice, unless the server stopped   *)
(* or a write failed before it was marked.                                  *)
MemoryKept ==
  /\ confirmed \subseteq persona.manual
  /\ ~ broken => \A f \in Facts : extracted[f] <= 1
===============================================================================
