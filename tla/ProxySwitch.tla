------------------------------ MODULE ProxySwitch ------------------------------
(***************************************************************************)
(* The nodes of the outbound proxy (features/network_ops/socks5_service):    *)
(* their table, the switch of the host to another node, by hand or by the     *)
(* worker that probes every three minutes.                                  *)
(*                                                                          *)
(* A step is one transaction, one answer of the helper script or one probe.   *)
(* _socks5_lock is held from the call of the helper to the mark in the table. *)
(* Departures: the host has the helper; reading a node's command is the       *)
(* choice of its protocol; the worker is not stopped (FailoverOwners).        *)
(***************************************************************************)
EXTENDS Naturals

CONSTANTS Callers,     \* requests that switch by hand
          Worker, Nobody,
          Nodes,       \* IDs, in the order in which the list gives them
          MaxEdits,    \* bound: rows added, changed, deleted
          MaxLost      \* bound: answers of the helper that never come

VARIABLES kind,        \* protocol of each row; "free" and "gone": no row
          edits,
          active,      \* the row with is_active = 1, 0 if there is none
          served,      \* the node that the service of the host runs
          lost, unsure,\* answers that never came; history: since the last that did
          switcher,    \* who holds the lock
          goal,        \* the node that each switch was asked for
          at,          \* where each caller, and the worker, is
          failures, backoff, tried  \* counters of the worker, failed_round_node_ids

tableVars == <<kind, edits, active>>
switchVars == <<served, lost, unsure, switcher>>
workerVars == <<failures, backoff, tried>>
vars == <<tableVars, switchVars, goal, at, workerVars>>

Actors == Callers \cup {Worker}
Rows == {n \in Nodes : kind[n] \notin {"free", "gone"}}
Naive(n) == n \in Rows /\ kind[n] = "naive"

Init ==
  /\ kind \in [Nodes -> {"naive", "brook", "free"}] /\ kind[1] = "naive" /\ edits = 0
  /\ active = 1 /\ served = 1 /\ lost = 0 /\ unsure = FALSE /\ switcher = Nobody
  /\ goal = [a \in Actors |-> 0] /\ at = [a \in Actors |-> "wait"]
  /\ failures = 0 /\ backoff = FALSE /\ tried = {}

-------------------------------------------------------------------------------
(* The table.                                                               *)

Edit(n, k) == edits < MaxEdits /\ edits' = edits + 1 /\ kind' = [kind EXCEPT ![n] = k]
Add(n, k) ==
  /\ kind[n] = "free" /\ Edit(n, k)
  /\ UNCHANGED <<active, switchVars, goal, at, workerVars>>
(* update_socks5_proxy leaves the flag alone, and what the host runs. *)
Update(n, k) ==
  /\ n \in Rows /\ Edit(n, k)
  /\ UNCHANGED <<active, switchVars, goal, at, workerVars>>
Delete(n) ==
  /\ n \in Rows /\ Edit(n, "gone")
  /\ active' = IF active = n THEN 0 ELSE active
  /\ UNCHANGED <<switchVars, goal, at, workerVars>>

-------------------------------------------------------------------------------
(* apply_active_proxy_to_vps1: the row is read before the lock is asked for. *)

Ask(c, n) ==
  /\ at[c] = "wait" /\ Naive(n)
  /\ goal' = [goal EXCEPT ![c] = n] /\ at' = [at EXCEPT ![c] = "ask"]
  /\ UNCHANGED <<tableVars, switchVars, workerVars>>
EnterUnlocked(a) ==
  /\ at[a] = "ask" /\ switcher' = a /\ at' = [at EXCEPT ![a] = "helper"]
  /\ UNCHANGED <<tableVars, served, lost, unsure, goal, workerVars>>
Enter(a) ==
  /\ at[a] = "ask" /\ switcher = Nobody
  /\ switcher' = a /\ at' = [at EXCEPT ![a] = "helper"]
  /\ UNCHANGED <<tableVars, served, lost, unsure, goal, workerVars>>

Back(a) == switcher' = Nobody /\ at' = [at EXCEPT ![a] = "wait"]
Failed(a) == tried' = IF a = Worker THEN tried \cup {goal[a]} ELSE tried
(* The helper has replaced the configuration and restarted the service ... *)
Helped(a) ==
  /\ at[a] = "helper" /\ served' = goal[a] /\ unsure' = FALSE
  /\ at' = [at EXCEPT ![a] = "mark"]
  /\ UNCHANGED <<tableVars, lost, switcher, goal, workerVars>>
(* ... or put the old one back, or was never called ... *)
Refused(a) ==
  /\ at[a] = "helper" /\ Back(a) /\ Failed(a)
  /\ UNCHANGED <<tableVars, served, lost, unsure, goal, failures, backoff>>
(* ... or was killed after 15 seconds, with the new one in place or not. *)
Lost(a) ==
  /\ at[a] = "helper" /\ lost < MaxLost /\ lost' = lost + 1
  /\ served' \in {served, goal[a]} /\ unsure' = TRUE /\ Back(a) /\ Failed(a)
  /\ UNCHANGED <<tableVars, goal, failures, backoff>>
(* _update_db_is_active flags one row, if it is there, and clears all others. *)
Mark(a) ==
  /\ at[a] = "mark" /\ active' = (IF goal[a] \in Rows THEN goal[a] ELSE 0)
  /\ failures' = 0 /\ backoff' = FALSE /\ Back(a)
  /\ UNCHANGED <<kind, edits, served, lost, unsure, goal, tried>>

-------------------------------------------------------------------------------
(* failover_worker_loop.                                                    *)

To(place) == at' = [at EXCEPT ![Worker] = place]
BackoffOver ==
  /\ backoff /\ backoff' = FALSE
  /\ UNCHANGED <<tableVars, switchVars, goal, at, failures, tried>>
Wake ==
  /\ at[Worker] = "wait" /\ ~ backoff /\ To("probe")
  /\ UNCHANGED <<tableVars, switchVars, goal, workerVars>>
ProbeWorks ==
  /\ at[Worker] = "probe" /\ To("wait") /\ failures' = 0 /\ tried' = {}
  /\ UNCHANGED <<tableVars, switchVars, goal, backoff>>
ProbeFails ==
  /\ at[Worker] = "probe" /\ failures' = failures + 1
  /\ tried' = tried \cup ({active} \ {0})
  /\ To(IF failures + 1 >= 2 THEN "choose" ELSE "wait")
  /\ UNCHANGED <<tableVars, switchVars, goal, backoff>>

Candidates == {n \in Nodes \ tried : Naive(n)}
First(N) == CHOOSE n \in N : \A m \in N : n <= m
(* Between the list and the switch, which reads the row anew, a row may go.   *)
Choose ==
  /\ at[Worker] = "choose" /\ Candidates # {}
  /\ goal' = [goal EXCEPT ![Worker] = First(Candidates)] /\ To("chosen")
  /\ UNCHANGED <<tableVars, switchVars, workerVars>>
(* No node is left: fifteen minutes without a probe. *)
Exhausted ==
  /\ at[Worker] = "choose" /\ Candidates = {}
  /\ backoff' = TRUE /\ failures' = 0 /\ tried' = {} /\ To("wait")
  /\ UNCHANGED <<tableVars, switchVars, goal>>
Switch ==
  /\ at[Worker] = "chosen"
  /\ \/ Naive(goal[Worker]) /\ To("ask") /\ UNCHANGED tried
     \/ ~ Naive(goal[Worker]) /\ To("wait") /\ Failed(Worker)
  /\ UNCHANGED <<tableVars, switchVars, goal, failures, backoff>>

Next ==
  \/ \E n \in Nodes :
       \/ \E k \in {"naive", "brook"} : Add(n, k) \/ Update(n, k)
       \/ Delete(n)
       \/ \E c \in Callers : Ask(c, n)
  \/ \E a \in Actors : Enter(a) \/ Helped(a) \/ Refused(a) \/ Lost(a) \/ Mark(a)
  \/ BackoffOver \/ Wake \/ ProbeWorks \/ ProbeFails \/ Choose \/ Exhausted \/ Switch
Spec == Init /\ [][Next]_vars

-------------------------------------------------------------------------------
(* Whoever switches, by hand or by itself, and whoever edits meanwhile: when  *)
(* no switch is under way the flag in the table is the node that the host     *)
(* runs, unless that row was deleted or the helper never answered; and a     *)
(* worker that backs off does not probe.                                    *)
FlagIsServed ==
  /\ switcher = Nobody /\ ~ unsure => active \in {served, 0}
  /\ backoff => at[Worker] = "wait"
-------------------------------------------------------------------------------

(* What keeps it so.  The lock is with the one who calls the helper or marks   *)
(* its node, and before the mark the host runs what is to be marked.         *)
Places == {"wait", "ask", "helper", "mark", "probe", "choose", "chosen"}
SwitchTypeOK ==
  /\ at \in [Actors -> Places] /\ goal \in [Actors -> Nodes \cup {0}]
  /\ kind \in [Nodes -> {"naive", "brook", "free", "gone"}]
  /\ switcher \in Actors \cup {Nobody} /\ unsure \in BOOLEAN /\ backoff \in BOOLEAN
Locked == \A a \in Actors : at[a] \in {"helper", "mark"} <=> switcher = a
MarkIsServed == \A a \in Actors : at[a] = "mark" => served = goal[a]
FlagFollows == ~ unsure /\ (\A a \in Actors : at[a] # "mark") => active \in {served, 0}
SwitchInv == SwitchTypeOK /\ Locked /\ MarkIsServed /\ FlagFollows /\ (backoff => at[Worker] = "wait")
================================================================================
