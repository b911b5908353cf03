--------------------------- MODULE LeaseContract ---------------------------
(***************************************************************************)
(* What the hub promises about the leases of tasks, whatever happens to    *)
(* the workers and to the network: a lease is offered once, handed to at   *)
(* most one worker, and leaves that worker only by its receipt or with the *)
(* hub; a lease withdrawn from the queue is never handed out; the caller   *)
(* that waits for it is answered once.                                     *)
(***************************************************************************)
CONSTANTS Leases, Workers

VARIABLES
  place,    \* where a lease is: "none", "queued", the worker that holds it,
            \* "reported" by that worker, or "ended" without it
  caller    \* its dispatcher: "idle", "waiting", "answered"

contract == <<place, caller>>

ContractInit ==
  /\ place = [l \in Leases |-> "none"]
  /\ caller = [l \in Leases |-> "idle"]

Offer(l) ==
  /\ place[l] = "none" /\ caller[l] = "idle"
  /\ place' = [place EXCEPT ![l] = "queued"]
  /\ caller' = [caller EXCEPT ![l] = "waiting"]

Give(l, w) ==
  /\ place[l] = "queued"
  /\ place' = [place EXCEPT ![l] = w]
  /\ UNCHANGED caller

\* The receipt of the worker that holds the lease.
Settle(l) ==
  /\ place[l] \in Workers
  /\ place' = [place EXCEPT ![l] = "reported"]
  /\ UNCHANGED caller

\* Some queued leases are taken back.
Withdraw ==
  /\ \E S \in SUBSET {l \in Leases : place[l] = "queued"} :
       place' = [l \in Leases |-> IF l \in S THEN "ended" ELSE place[l]]
  /\ UNCHANGED caller

\* The caller is answered because its lease has ended, or gives up: then the
\* lease is no longer queued.
Answered(l) ==
  /\ caller[l] = "waiting"
  /\ caller' = [caller EXCEPT ![l] = "answered"]
  /\ place' = [place EXCEPT ![l] = IF @ = "queued" THEN "ended" ELSE @]

\* The hub closes (callers are still to be answered), or its process ends.
GoDown ==
  /\ place' = [l \in Leases |-> IF place[l] \in {"none", "reported"} THEN place[l] ELSE "ended"]
  /\ \/ UNCHANGED caller
     \/ caller' = [l \in Leases |-> IF caller[l] = "waiting" THEN "answered" ELSE caller[l]]

ContractNext ==
  \/ \E l \in Leases : Offer(l) \/ Settle(l) \/ Answered(l)
  \/ \E l \in Leases, w \in Workers : Give(l, w)
  \/ Withdraw
  \/ GoDown

ContractSpec == ContractInit /\ [][ContractNext]_contract
=============================================================================
