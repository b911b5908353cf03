----------------------------- MODULE SessionStore -----------------------------
(***************************************************************************)
(* The conversations of one user in memory and in SQLite (session.py,        *)
(* SessionManager): a cache in front of the tables sessions, messages,        *)
(* goal_archive and active_conversations.                                   *)
(*                                                                          *)
(* A step is one method, which holds the manager's lock; any of its writes    *)
(* may find the database locked three times and is then given up, and the     *)
(* method goes on.  The process may stop between two methods.  Departures:     *)
(* titles, states shared by skills and counters of tokens are written with     *)
(* the row and not modelled; messages have distinct times, so that the         *)
(* restored order is the one of the insertions.                             *)
(***************************************************************************)
EXTENDS Naturals, Sequences, SequencesExt

CONSTANTS Keys,      \* bound: conversations, a set 1 .. n; 1 is the key of the user
          MaxSaid,   \* bound: messages
          MaxGoals,  \* bound: goals
          MaxFailed  \* bound: writes that are given up

VARIABLES cache,     \* _cache: status, goal and messages of a conversation, or Absent
          row,       \* table sessions: status and goal, or Absent
          stored,    \* table messages, in the order of their time
          archive,   \* table goal_archive: how often each goal is in it
          active,    \* table active_conversations
          made,      \* keys in use
          goals,     \* goals that were set
          failed,    \* writes that were given up
          spoken,    \* messages so far
          said,      \* history: messages that add_message was called with
          unsaved,   \* history: messages whose row was given up
          replaced,  \* history: goals given up for a newer one, or with their session
          doubtful,  \* history: goals of rows that were given up
          torn       \* history: conversations whose first row was given up

storeVars == <<row, stored, archive, active>>
vars == <<cache, storeVars, made, goals, failed, spoken, said, unsaved, replaced, doubtful, torn>>

NoGoal == 0
Absent == [status |-> "absent", goal |-> NoGoal, msgs |-> <<>>]
Row(s) == [status |-> s.status, goal |-> s.goal]
New == [status |-> "chatting", goal |-> NoGoal, msgs |-> <<>>]
Cached(k) == cache[k] # Absent

Init ==
  /\ cache = [k \in Keys |-> Absent] /\ row = [k \in Keys |-> Row(Absent)]
  /\ stored = [k \in Keys |-> <<>>] /\ archive = [g \in 1 .. MaxGoals |-> 0] /\ active = 1
  /\ made = {1} /\ goals = 0 /\ failed = 0
  /\ spoken = 0 /\ said = [k \in Keys |-> {}] /\ unsaved = {} /\ replaced = {} /\ doubtful = {} /\ torn = {}

-------------------------------------------------------------------------------
(* _restore_from_db, and get_or_create, whose write for a conversation that   *)
(* was archived or is new goes before that of its caller.                    *)
Restored(k) == [status |-> row[k].status, goal |-> row[k].goal, msgs |-> stored[k]]
Got(k) ==
  CASE Cached(k) -> cache[k]
    [] ~ Cached(k) /\ row[k].status = "absent" -> New
    [] ~ Cached(k) /\ row[k].status = "archived" -> [Restored(k) EXCEPT !.status = "chatting"]
    [] OTHER -> Restored(k)

Tear(k) == torn' = IF row[k].status = "absent" THEN torn \cup {k} ELSE torn
Fails(n) == failed + n <= MaxFailed /\ failed' = failed + n
(* _persist_session, for the state s of a conversation: done, or given up.    *)
Persist(k, s) ==
  /\ cache' = [cache EXCEPT ![k] = s]
  /\ \/ row' = [row EXCEPT ![k] = Row(s)] /\ UNCHANGED <<failed, doubtful, torn>>
     \/ Fails(1) /\ doubtful' = doubtful \cup {Got(k).goal, s.goal} /\ Tear(k) /\ UNCHANGED row

Message(k, m) == Append(Got(k).msgs, m)
NextMessage == spoken + 1
(* add_message: the row of the message and the row of the session. *)
AddMessage(k) ==
  /\ k \in made /\ spoken < MaxSaid /\ spoken' = NextMessage
  /\ said' = [said EXCEPT ![k] = @ \cup {NextMessage}]
  /\ \/ /\ stored' = [stored EXCEPT ![k] = Append(@, NextMessage)]
        /\ Persist(k, [Got(k) EXCEPT !.msgs = Message(k, NextMessage)])
        /\ UNCHANGED unsaved
     \/ /\ Fails(1) /\ unsaved' = unsaved \cup {NextMessage}
        /\ cache' = [cache EXCEPT ![k] = [Got(k) EXCEPT !.msgs = Message(k, NextMessage)]]
        /\ row' = [row EXCEPT ![k] = Row(Got(k))]
        /\ UNCHANGED <<stored, doubtful, torn>>
  /\ UNCHANGED <<archive, active, made, goals, replaced>>

SetGoal(k) ==
  /\ k \in made /\ goals < MaxGoals /\ goals' = goals + 1
  /\ replaced' = replaced \cup ({Got(k).goal} \ {NoGoal})
  /\ Persist(k, [Got(k) EXCEPT !.goal = goals + 1, !.status = "working"])
  /\ UNCHANGED <<stored, archive, active, made, spoken, said, unsaved>>

(* mark_done of a conversation in state s. *)
Done(k, s) ==
  /\ \/ /\ s.goal # NoGoal /\ archive' = [archive EXCEPT ![s.goal] = @ + 1]
        /\ Persist(k, [s EXCEPT !.goal = NoGoal, !.status = "chatting"])
     \/ /\ s.goal = NoGoal /\ UNCHANGED archive
        /\ Persist(k, [s EXCEPT !.status = "chatting"])
     \/ /\ s.goal # NoGoal /\ Fails(1) /\ doubtful' = doubtful \cup {s.goal}
        /\ cache' = [cache EXCEPT ![k] = [s EXCEPT !.goal = NoGoal, !.status = "chatting"]]
        /\ row' = [row EXCEPT ![k] = [status |-> "chatting", goal |-> NoGoal]]
        /\ UNCHANGED <<archive, torn>>
MarkDone(k) ==
  /\ k \in made /\ Done(k, Got(k))
  /\ UNCHANGED <<stored, active, made, goals, spoken, said, unsaved, replaced>>

-------------------------------------------------------------------------------
(* cleanup_expired: a conversation that does not work leaves the cache.  One   *)
(* with a goal is fetched back by mark_done, and stays in it.                 *)
Idle(k) == Cached(k) /\ cache[k].status # "working"
Expire(k) ==
  /\ Idle(k) /\ cache[k].goal = NoGoal
  /\ cache' = [cache EXCEPT ![k] = Absent]
  /\ \/ /\ row' = IF row[k] = Row(Absent) THEN row ELSE [row EXCEPT ![k].status = "archived"]
        /\ UNCHANGED failed
     \/ Fails(1) /\ UNCHANGED row
  /\ UNCHANGED <<stored, archive, active, made, goals, spoken, said, unsaved, replaced, doubtful, torn>>
(* The goal that is archived is that of the row. *)
ExpireGoal(k) ==
  /\ Idle(k) /\ cache[k].goal # NoGoal
  /\ LET s == IF row[k].status = "absent" THEN New ELSE [Restored(k) EXCEPT !.status = "chatting"]
     IN  /\ cache' = [cache EXCEPT ![k] = [s EXCEPT !.goal = NoGoal]]
         /\ archive' = IF s.goal = NoGoal THEN archive ELSE [archive EXCEPT ![s.goal] = @ + 1]
         /\ row' = [row EXCEPT ![k] = [status |-> "archived", goal |-> NoGoal]]
  /\ UNCHANGED <<stored, active, made, goals, failed, spoken, said, unsaved, replaced, doubtful, torn>>

(* reset_session: the conversation is archived with its goal, and another is  *)
(* made; the last of three writes has no second try and raises.              *)
Fresh(n) == n \in Keys \ made /\ \A m \in Keys \ made : n <= m
Reset(k, n) ==
  /\ k \in made /\ Fresh(n) /\ made' = made \cup {n}
  /\ LET old == [Got(k) EXCEPT !.status = "archived"]
     IN  /\ cache' = [cache EXCEPT ![k] = old, ![n] = New]
         /\ \/ /\ row' = [row EXCEPT ![k] = Row(old), ![n] = Row(New)] /\ active' = n
               /\ UNCHANGED <<failed, doubtful, torn>>
            \/ /\ row' = [row EXCEPT ![k] = Row(old), ![n] = Row(New)]
               /\ Fails(1) /\ UNCHANGED <<active, doubtful, torn>>
            \/ /\ row' = [row EXCEPT ![k] = Row(old)]
               /\ Fails(1) /\ Tear(n) /\ active' = n /\ UNCHANGED doubtful
            \/ /\ row' = [row EXCEPT ![n] = Row(New)]
               /\ Fails(1) /\ Tear(k) /\ active' = n /\ doubtful' = doubtful \cup {old.goal}
  /\ UNCHANGED <<stored, archive, goals, spoken, said, unsaved, replaced>>

(* The process stops, and another one starts with an empty cache. *)
Stop ==
  /\ cache' = [k \in Keys |-> Absent]
  /\ UNCHANGED <<storeVars, made, goals, failed, spoken, said, unsaved, replaced, doubtful, torn>>

Next ==
  \/ \E k \in Keys : AddMessage(k) \/ SetGoal(k) \/ MarkDone(k) \/ Expire(k) \/ ExpireGoal(k)
  \/ \E k, n \in Keys : Reset(k, n)
  \/ Stop
Spec == Init /\ [][Next]_vars

-------------------------------------------------------------------------------
(* Whatever expires, is archived, reset or restarted: what was said in a     *)
(* conversation is read again in its order, all but what the database        *)
(* refused, or all if it refused the conversation itself; a goal is archived *)
(* once at most, and one that was set is in the archive, or still the goal   *)
(* of a conversation, unless a newer one took its place or a write about it  *)
(* was given up.                                                            *)
GoalOf(k) == Got(k).goal
InOrder(s) == \A i, j \in DOMAIN s : i < j => s[i] < s[j]
Remembers(s, k) == InOrder(s) /\ said[k] \ unsaved \subseteq ToSet(s) /\ ToSet(s) \subseteq said[k]
MemoryOfUser ==
  /\ \A k \in Keys \ torn : Remembers(Got(k).msgs, k)
  /\ \A g \in 1 .. goals :
       g \notin doubtful =>
         /\ archive[g] <= 1
         /\ archive[g] = 1 \/ g \in replaced \/ \E k \in Keys : GoalOf(k) = g

-------------------------------------------------------------------------------
(* What keeps it so.  The rows have what was said even when the cache has       *)
(* forgotten it, and only a conversation of which nothing was kept has no row;   *)
(* the goal of the cache is that of the row unless a write of it failed, and a   *)
(* goal belongs to one conversation and is not archived while it does.         *)
States == {"chatting", "working", "archived"}
Sessions == [status : States, goal : 0 .. goals, msgs : Seq(1 .. spoken)]
StoreTypeOK ==
  /\ spoken \in Nat /\ goals \in 0 .. MaxGoals /\ made \subseteq Keys
  /\ cache \in [Keys -> Sessions \cup {Absent}]
  /\ row \in [Keys -> [status : States \cup {"absent"}, goal : 0 .. goals]]
  /\ stored \in [Keys -> Seq(1 .. spoken)] /\ archive \in [1 .. MaxGoals -> Nat]
  /\ said \in [Keys -> SUBSET (1 .. spoken)]
  /\ \A g \in 1 .. MaxGoals : g > goals => archive[g] = 0
Unused(k) == cache[k] = Absent /\ row[k] = Row(Absent) /\ said[k] = {} /\ stored[k] = <<>>
MessagesKept(k) ==
  /\ Remembers(stored[k], k)
  /\ k \notin torn =>
       /\ Cached(k) => Remembers(cache[k].msgs, k)
       /\ row[k].status = "absent" => stored[k] = <<>>
GoalKept(k) ==
  /\ row[k].status = "absent" => row[k].goal = NoGoal
  /\ GoalOf(k) # row[k].goal => {GoalOf(k), row[k].goal} \subseteq doubtful \cup {NoGoal}
GoalsOf(k) == {GoalOf(k), row[k].goal} \ {NoGoal}
GoalsAgree ==
  /\ \A k, n \in Keys : k # n => GoalsOf(k) \cap GoalsOf(n) = {}
  /\ \A g \in (1 .. goals) \ doubtful :
       /\ archive[g] = 0 \/ (archive[g] = 1 /\ \A k \in Keys : g \notin GoalsOf(k))
       /\ archive[g] = 1 \/ g \in replaced \/ \E k \in Keys : GoalOf(k) = g
MemoryInv ==
  /\ StoreTypeOK /\ GoalsAgree
  /\ \A k \in Keys : MessagesKept(k) /\ GoalKept(k) /\ (k \notin made => Unused(k))
================================================================================
