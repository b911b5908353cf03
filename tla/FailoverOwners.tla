---------------------------- MODULE FailoverOwners ----------------------------
(***************************************************************************)
(* Who keeps the failover worker of the proxy alive                          *)
(* (features/network_ops/socks5_service: start_failover_worker, its handles,  *)
(* stop_failover_worker): generations of one thread, counted by their owners. *)
(*                                                                          *)
(* A step is one holding of _failover_worker_lock, one join or one step of    *)
(* the thread.  A generation is its stop event; what its thread does between   *)
(* two waits is ProxySwitch.                                                *)
(***************************************************************************)
EXTENDS Naturals, FiniteSets

CONSTANTS Owners,      \* calls of start_failover_worker and stop_failover_worker
          Generations  \* bound: generations of the worker, a set 1 .. n

VARIABLES thread,      \* of each generation: none, waits, works, ended
          current,     \* the generation of _failover_stop_event, 0: None
          owners,      \* _failover_worker_owners
          stopped,     \* generations whose event is set
          handle,      \* what each owner's handle is doing
          mine,        \* the generation of each handle
          late,        \* history: owners that came while the last one left
          forced       \* history: generations that stop_failover_worker stopped

vars == <<thread, current, owners, stopped, handle, mine, late, forced>>

Init ==
  /\ thread = [g \in Generations |-> "none"] /\ current = 0 /\ owners = 0
  /\ stopped = {} /\ forced = {} /\ late = {}
  /\ handle = [o \in Owners |-> "none"] /\ mine = [o \in Owners |-> 0]

-------------------------------------------------------------------------------
(* The thread looks at its event when its wait ends, when that is set, and    *)
(* again before it switches or gives an alarm.                              *)

Alive(g) == g \in Generations /\ thread[g] \in {"waits", "works"}
Wake(g) ==
  /\ Alive(g)
  /\ thread' = [thread EXCEPT ![g] = IF g \in stopped THEN "ended" ELSE "works"]
  /\ UNCHANGED <<current, owners, stopped, handle, mine, late, forced>>
Wait(g) ==
  /\ thread[g] = "works" /\ thread' = [thread EXCEPT ![g] = "waits"]
  /\ UNCHANGED <<current, owners, stopped, handle, mine, late, forced>>

-------------------------------------------------------------------------------
(* start_failover_worker joins the living worker, and raises while that is    *)
(* stopping ...                                                             *)

Leaving == {o \in Owners : handle[o] = "leaving" /\ mine[o] = current}
Join(o) ==
  /\ handle[o] = "none" /\ Alive(current) /\ current \notin stopped
  /\ owners' = owners + 1
  /\ handle' = [handle EXCEPT ![o] = "held"] /\ mine' = [mine EXCEPT ![o] = current]
  /\ late' = IF Leaving = {} THEN late ELSE late \cup {o}
  /\ UNCHANGED <<thread, current, stopped, forced>>
(* ... or starts a new one. *)
Start(o, g) ==
  /\ handle[o] = "none" /\ ~ Alive(current)
  /\ thread[g] = "none" /\ \A h \in Generations : h < g => thread[h] # "none"
  /\ owners' = 1 /\ current' = g /\ thread' = [thread EXCEPT ![g] = "waits"]
  /\ handle' = [handle EXCEPT ![o] = "held"] /\ mine' = [mine EXCEPT ![o] = g]
  /\ UNCHANGED <<stopped, late, forced>>

CountDown(o) ==
  /\ owners' = IF owners = 0 THEN 0 ELSE owners - 1
  /\ handle' = [handle EXCEPT ![o] = IF owners <= 1 THEN "leaving" ELSE "released"]
(* A handle counts down the owners of its own generation only. *)
Release(o) ==
  /\ handle[o] = "held"
  /\ \/ mine[o] = current /\ CountDown(o)
     \/ mine[o] # current /\ handle' = [handle EXCEPT ![o] = "released"] /\ UNCHANGED owners
  /\ UNCHANGED <<thread, current, stopped, mine, late, forced>>
(* stop_failover_worker. *)
Force(o) ==
  /\ handle[o] = "none" /\ current # 0
  /\ owners' = 0 /\ handle' = [handle EXCEPT ![o] = "leaving"]
  /\ mine' = [mine EXCEPT ![o] = current] /\ forced' = forced \cup {current}
  /\ UNCHANGED <<thread, current, stopped, late>>

(* _stop_failover_generation: the event, if it is still the current one; then  *)
(* two seconds of waiting ...                                               *)
SetEvent(o) ==
  /\ handle[o] = "leaving"
  /\ \/ mine[o] # current /\ handle' = [handle EXCEPT ![o] = "released"] /\ UNCHANGED stopped
     \/ /\ mine[o] = current /\ stopped' = stopped \cup {current}
        /\ handle' = [handle EXCEPT ![o] = "joining"]
  /\ UNCHANGED <<thread, current, owners, mine, late, forced>>
(* ... after which a worker that has not ended is kept ... *)
TimeOut(o) ==
  /\ handle[o] = "joining" /\ Alive(mine[o])
  /\ handle' = [handle EXCEPT ![o] = "released"]
  /\ UNCHANGED <<thread, current, owners, stopped, mine, late, forced>>
(* ... and one that has ended is forgotten, if no other has followed it. *)
Clear(o) ==
  /\ handle[o] = "joining" /\ ~ Alive(mine[o])
  /\ handle' = [handle EXCEPT ![o] = "released"]
  /\ current' = IF mine[o] = current THEN 0 ELSE current
  /\ UNCHANGED <<thread, owners, stopped, mine, late, forced>>

Next ==
  \/ \E g \in Generations : Wake(g) \/ Wait(g) \/ \E o \in Owners : Start(o, g)
  \/ \E o \in Owners : Join(o) \/ Release(o) \/ Force(o) \/ SetEvent(o) \/ TimeOut(o) \/ Clear(o)
Spec == Init /\ [][Next]_vars

-------------------------------------------------------------------------------
(* Two workers never probe and switch side by side, whatever a stop had to    *)
(* leave behind; and a worker that somebody holds is stopped only by force,  *)
(* or if he came while its last owner was on the way to stop it.            *)
HeldIsKept ==
  /\ \A g, h \in Generations : Alive(g) /\ Alive(h) => g = h
  /\ \A o \in Owners :
       handle[o] = "held" /\ mine[o] \in stopped => mine[o] \in forced \/ o \in late
-------------------------------------------------------------------------------
(* What keeps it so.  Only the current worker lives, and what was stopped or   *)
(* is held has been started; the count of the owners is the number of those    *)
(* who hold the current worker, unless it was forced to stop; and who goes to  *)
(* stop it leaves nobody behind but those who came late.                    *)
Started == {g \in Generations : thread[g] # "none"}
OwnersTypeOK ==
  /\ thread \in [Generations -> {"none", "waits", "works", "ended"}]
  /\ current \in Started \cup {0} /\ owners \in Nat
  /\ stopped \subseteq Started /\ forced \subseteq Started
  /\ handle \in [Owners -> {"none", "held", "leaving", "joining", "released"}]
  /\ mine \in [Owners -> Started \cup {0}]
  /\ \A o \in Owners : handle[o] \in {"held", "leaving", "joining"} => mine[o] # 0
OneLives == \A g \in Generations : Alive(g) => g = current
Holders == {o \in Owners : handle[o] = "held" /\ mine[o] = current}
Counted == current # 0 /\ current \notin forced => owners = Cardinality(Holders)
LastLeaves == current \notin forced /\ Leaving # {} => Holders \subseteq late
StoppedLate ==
  \A o \in Owners : handle[o] = "held" /\ mine[o] \in stopped => mine[o] \in forced \/ o \in late
HeldInv == OwnersTypeOK /\ OneLives /\ Counted /\ LastLeaves /\ StoppedLate
================================================================================
