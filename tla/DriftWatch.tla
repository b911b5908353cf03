------------------------------ MODULE DriftWatch ------------------------------
(***************************************************************************)
(* The watch over changes of the host (features/sys_ops/security_service:     *)
(* Sentinel, sentinel_scan, sentinel_baseline).                              *)
(*                                                                          *)
(* A scan compares the host with a baseline and reports what differs, but one  *)
(* finding of a kind (its module and severity) within four hours.  The         *)
(* baseline and the times of the last findings are files that every scan reads *)
(* at its start and replaces at its end; the timed scan and the user's may      *)
(* overlap, and the process may stop in one.  Departures: a change is there or  *)
(* not; some are findings whatever the baseline says; the sizes of log files,   *)
(* which the second file holds too, are among these.                          *)
(***************************************************************************)
EXTENDS Naturals, FiniteSets

CONSTANTS Scans,       \* scans that may overlap
          Changes,     \* what may change on the host
          Absolute,    \* changes that no baseline accepts
          Kinds,       \* pairs of module and severity
          Kind,        \* the kind of each change: a function
          Period,      \* 4 hours
          MaxTime      \* bound: the clock

VARIABLES now, host,   \* changes that are there
          baseline,    \* baseline.json: there, and the changes it holds
          throttles,   \* state.json: the time of the last finding of each kind, 0: none
          told,        \* findings.jsonl: the time of the last line of each kind
          at, mode,    \* of each scan: where it is; "watch" or "accept"
          base, last,  \* the two files as it has read them
          new,         \* the baseline it will write
          quiet        \* history: findings left out though none of their kind was written

vars == <<now, host, baseline, throttles, told, at, mode, base, last, new, quiet>>

None == [there |-> FALSE, holds |-> {}]
Never == [k \in Kinds |-> 0]
Init ==
  /\ now = Period /\ host = {} /\ baseline = None
  /\ throttles = Never /\ told = Never
  /\ at = [s \in Scans |-> "idle"] /\ mode = [s \in Scans |-> "watch"]
  /\ base = [s \in Scans |-> None] /\ last = [s \in Scans |-> Never]
  /\ new = [s \in Scans |-> {}] /\ quiet = {}

Tick ==
  /\ now < MaxTime /\ now' = now + 1
  /\ UNCHANGED <<host, baseline, throttles, told, at, mode, base, last, new, quiet>>
Change(c) ==
  /\ host' = IF c \in host THEN host \ {c} ELSE host \cup {c}
  /\ UNCHANGED <<now, baseline, throttles, told, at, mode, base, last, new, quiet>>

-------------------------------------------------------------------------------
(* Without a baseline a scan is a baseline run, whatever it was asked to be.   *)
Load(s, m) ==
  /\ at[s] = "idle" /\ at' = [at EXCEPT ![s] = "scan"]
  /\ base' = [base EXCEPT ![s] = baseline] /\ last' = [last EXCEPT ![s] = throttles]
  /\ mode' = [mode EXCEPT ![s] = IF baseline.there THEN m ELSE "accept"]
  /\ UNCHANGED <<now, host, baseline, throttles, told, new, quiet>>

Found(s) == {c \in host : c \in Absolute \/ c \notin base[s].holds}
(* _add_finding: the first of its kind is written, unless one was not long ago. *)
Throttled(s, k) == last[s][k] # 0 /\ now - last[s][k] < Period
Told(s) == {Kind[c] : c \in Found(s)} \ {k \in Kinds : Throttled(s, k)}
Noted(times, K) == [k \in Kinds |-> IF k \in K THEN now ELSE times[k]]
Scanned(s) ==
  /\ at[s] = "scan" /\ at' = [at EXCEPT ![s] = "baseline"]
  /\ new' = [new EXCEPT ![s] = IF mode[s] = "accept" THEN host ELSE {}]
  /\ base' = [base EXCEPT ![s] = None]
(* A run that accepts the host writes nothing, and does not note that it has.   *)
Scan(s) ==
  /\ Scanned(s)
  /\ \/ /\ mode[s] = "watch"
        /\ last' = [last EXCEPT ![s] = Noted(@, Told(s))] /\ told' = Noted(told, Told(s))
        /\ quiet' = quiet \cup {c \in Found(s) : told'[Kind[c]] = 0 \/ now - told'[Kind[c]] >= Period}
     \/ mode[s] = "accept" /\ UNCHANGED <<last, told, quiet>>
  /\ UNCHANGED <<now, host, baseline, throttles, mode>>

SaveBaseline(s) ==
  /\ at[s] = "baseline" /\ at' = [at EXCEPT ![s] = "state"]
  /\ baseline' = IF mode[s] = "accept" THEN [there |-> TRUE, holds |-> new[s]] ELSE baseline
  /\ UNCHANGED <<now, host, throttles, told, mode, base, last, new, quiet>>
Leave(s) ==
  /\ at' = [at EXCEPT ![s] = "idle"] /\ mode' = [mode EXCEPT ![s] = "watch"]
  /\ last' = [last EXCEPT ![s] = Never] /\ new' = [new EXCEPT ![s] = {}]
SaveState(s) ==
  /\ at[s] = "state" /\ throttles' = last[s] /\ Leave(s)
  /\ UNCHANGED <<now, host, baseline, told, base, quiet>>
Stop(s) ==
  /\ at[s] # "idle" /\ Leave(s) /\ base' = [base EXCEPT ![s] = None]
  /\ UNCHANGED <<now, host, baseline, throttles, told, quiet>>

Next ==
  \/ Tick
  \/ \E c \in Changes : Change(c)
  \/ \E s \in Scans :
       \/ \E m \in {"watch", "accept"} : Load(s, m)
       \/ Scan(s) \/ SaveBaseline(s) \/ SaveState(s) \/ Stop(s)
Spec == Init /\ [][Next]_vars

-------------------------------------------------------------------------------
(* Scans that overlap, stop or accept the host never silence the watch: when a *)
(* scan that watches leaves a difference out, a finding of its kind was written *)
(* within the last four hours; and no finding is noted as written that was not. *)
DriftIsTold ==
  /\ quiet = {}
  /\ \A k \in Kinds : throttles[k] <= told[k]
-------------------------------------------------------------------------------

(* What keeps it so: no time is later than that of the last line told.        *)
Times == [Kinds -> Nat]
DriftTypeOK ==
  /\ now \in Nat /\ now >= Period /\ host \subseteq Changes
  /\ throttles \in Times /\ told \in Times /\ last \in [Scans -> Times]
  /\ at \in [Scans -> {"idle", "scan", "baseline", "state"}] /\ mode \in [Scans -> {"watch", "accept"}]
NoneAhead ==
  \A k \in Kinds : throttles[k] <= told[k] /\ told[k] <= now /\ \A s \in Scans : last[s][k] <= told[k]
DriftInv == DriftTypeOK /\ NoneAhead /\ quiet = {}
================================================================================
