--------------------------- MODULE MCWorkerHub ---------------------------
(* Instances of WorkerHub for TLC: every lease a batch of its own.          *)
EXTENDS WorkerHub, TLC

CONSTANTS phone
MCPhoneOf == [w \in Workers |-> phone]
MCTargetOf == [l \in Leases |-> phone]
MCSymmetry == Permutations(Workers) \cup Permutations(Leases)
MCBatches == {{l} : l \in Leases}
=============================================================================
