------------------------------ MODULE SearchSync ------------------------------
(***************************************************************************)
(* The search index follows the mails and the articles                       *)
(* (features/content_ops/meili_sync_service: sync_meili).                    *)
(*                                                                          *)
(* Every run reads what is newer than a mark, sends it in batches in the order *)
(* of time, and moves the mark with every batch that the index took; the mark  *)
(* is kept in a file.  The timed job and the command may run it side by side.  *)
(* A step is one reading, one batch or one access to the file.  Departures:    *)
(* a batch is one document; mails and articles, which have a mark each, are     *)
(* two initial states; an article is never changed; the requests that set up   *)
(* the index are left out.                                                  *)
(***************************************************************************)
EXTENDS Naturals, FiniteSets

CONSTANTS Docs,        \* bound: mails or articles, a set of numbers
          Runs,        \* calls of sync_meili
          MaxTime,     \* bound: the clock, in seconds
          MaxRefused   \* bound: batches that the index does not take

VARIABLES source,      \* "mails" or "articles"
          now,
          time,        \* when each document came, or was changed last; 0: not there
          mark,        \* data/meili_sync_state.json
          index,       \* the version of each document in the index: its time
          at,          \* where each run is
          upTo,        \* the mark as the run has it
          batch,       \* documents it has still to send: the version it has read
          seen,        \* history: the last second in which a run has read
          refused,     \* batches refused
          skipped,     \* history: documents refused that the mark has passed, or will
          tied,        \* history: documents that came in a second that a run had read already
          crossed      \* history: documents that a slower run sent in an older version

vars == <<source, now, time, mark, index, at, upTo, batch, seen, refused, skipped, tied, crossed>>

Init ==
  /\ source \in {"mails", "articles"}
  /\ now = 1 /\ time = [d \in Docs |-> 0] /\ mark = 0 /\ index = [d \in Docs |-> 0]
  /\ at = [r \in Runs |-> "idle"] /\ upTo = [r \in Runs |-> 0]
  /\ batch = [r \in Runs |-> [d \in Docs |-> 0]] /\ seen = 0
  /\ refused = 0 /\ skipped = {} /\ tied = {} /\ crossed = {}

-------------------------------------------------------------------------------
Tick ==
  /\ now < MaxTime /\ now' = now + 1
  /\ UNCHANGED <<source, time, mark, index, at, upTo, batch, seen, refused, skipped, tied, crossed>>
(* A mail is fetched, or summarised; an article is fetched. *)
Arrive(d) ==
  /\ time[d] # now /\ source = "articles" => time[d] = 0
  /\ time' = [time EXCEPT ![d] = now]
  /\ tied' = IF seen = now THEN tied \cup {d} ELSE tied
  /\ skipped' = skipped \ {d} /\ crossed' = crossed \ {d}
  /\ UNCHANGED <<source, now, mark, index, at, upTo, batch, seen, refused>>

-------------------------------------------------------------------------------
(* sync_meili.  Mails are newer than the mark; the articles of its second are   *)
(* read again.                                                              *)

Load(r) ==
  /\ at[r] = "idle" /\ at' = [at EXCEPT ![r] = "read"] /\ upTo' = [upTo EXCEPT ![r] = mark]
  /\ UNCHANGED <<source, now, time, mark, index, batch, seen, refused, skipped, tied, crossed>>
NewSince(t) ==
  {d \in Docs : time[d] # 0 /\ (IF source = "mails" THEN time[d] > t ELSE time[d] >= t)}
Read(r) ==
  /\ at[r] = "read" /\ at' = [at EXCEPT ![r] = "send"] /\ seen' = now
  /\ batch' = [batch EXCEPT ![r] = [d \in Docs |-> IF d \in NewSince(upTo[r]) THEN time[d] ELSE 0]]
  /\ UNCHANGED <<source, now, time, mark, index, upTo, refused, skipped, tied, crossed>>

Left(r) == {d \in Docs : batch[r][d] # 0}
IsNext(r, d) ==
  /\ at[r] = "send" /\ d \in Left(r)
  /\ \A e \in Left(r) : batch[r][d] < batch[r][e] \/ (batch[r][d] = batch[r][e] /\ d <= e)
(* The mark will pass it: others follow, or one of its second went before. *)
Passed(r, d) == Left(r) # {d} \/ upTo[r] = batch[r][d]
Sent(r, d) == batch' = [batch EXCEPT ![r][d] = 0]
Take(r, d) ==
  /\ IsNext(r, d) /\ Sent(r, d)
  /\ index' = [index EXCEPT ![d] = batch[r][d]]
  /\ upTo' = [upTo EXCEPT ![r] = batch[r][d]]
  /\ crossed' = IF batch[r][d] < time[d] THEN crossed \cup {d} ELSE crossed \ {d}
  /\ skipped' = skipped \ {d}
  /\ UNCHANGED <<source, now, time, mark, at, seen, refused, tied>>
RefuseMarked(r, d) ==
  /\ IsNext(r, d) /\ Sent(r, d) /\ refused < MaxRefused /\ refused' = refused + 1
  /\ upTo' = [upTo EXCEPT ![r] = batch[r][d]]
  /\ skipped' = IF Passed(r, d) THEN skipped \cup {d} ELSE skipped
  /\ UNCHANGED <<source, now, time, mark, index, at, seen, tied, crossed>>
(* A batch that is refused does not move the mark, but the next one does.     *)
Refuse(r, d) ==
  /\ IsNext(r, d) /\ Sent(r, d) /\ refused < MaxRefused /\ refused' = refused + 1
  /\ skipped' = IF Passed(r, d) THEN skipped \cup {d} ELSE skipped
  /\ UNCHANGED <<source, now, time, mark, index, at, upTo, seen, tied, crossed>>
(* The file is written at the end, or the process stops before.              *)
Save(r) ==
  /\ at[r] = "send" /\ Left(r) = {} /\ at' = [at EXCEPT ![r] = "idle"]
  /\ mark' \in {mark, upTo[r]} /\ upTo' = [upTo EXCEPT ![r] = 0]
  /\ UNCHANGED <<source, now, time, index, batch, seen, refused, skipped, tied, crossed>>

Next ==
  \/ Tick
  \/ \E d \in Docs : Arrive(d)
  \/ \E r \in Runs : Load(r) \/ Read(r) \/ Save(r)
  \/ \E r \in Runs : \E d \in Docs : Take(r, d) \/ Refuse(r, d)
Spec == Init /\ [][Next]_vars

-------------------------------------------------------------------------------
(* However runs overlap and whatever the index refuses: a document that is not *)
(* newer than the mark, and will not be read again, is in the index as it is    *)
(* now; but not a mail of the very second that was read, one that was refused   *)
(* while others of its run were taken, or one that changed while it was sent.  *)
IndexFollows ==
  \A d \in Docs :
    \/ time[d] = 0 \/ d \in NewSince(mark) \/ index[d] = time[d]
    \/ d \in skipped \cup crossed
    \/ source = "mails" /\ d \in tied
-------------------------------------------------------------------------------

(* What keeps it so.  A document is settled for a mark that will read it again, *)
(* and for every mark if it is in the index or excused; a run that sends has    *)
(* settled what it does not still have before it, and goes on in order.        *)
Excused(d) == time[d] = 0 \/ index[d] = time[d] \/ d \in skipped \cup crossed \/ (source = "mails" /\ d \in tied)
Settled(d, t) == Excused(d) \/ d \in NewSince(t)
SyncTypeOK ==
  /\ source \in {"mails", "articles"} /\ now \in Nat \ {0} /\ seen \in 0 .. now
  /\ time \in [Docs -> 0 .. now] /\ mark \in 0 .. seen /\ index \in [Docs -> Nat]
  /\ at \in [Runs -> {"idle", "read", "send"}] /\ upTo \in [Runs -> 0 .. seen]
  /\ batch \in [Runs -> [Docs -> 0 .. seen]]
InOrder(r) ==
  \A d \in Docs : batch[r][d] # 0 => batch[r][d] <= time[d] /\ at[r] = "send" /\ upTo[r] <= batch[r][d]
Ahead(r, d) == d \in NewSince(upTo[r]) /\ \A e \in Left(r) : d \in NewSince(batch[r][e])
Sending(r, d) == Excused(d) \/ batch[r][d] = time[d] \/ Ahead(r, d)
FollowInv ==
  /\ SyncTypeOK /\ \A d \in Docs : Settled(d, mark)
  /\ \A r \in Runs :
       /\ InOrder(r)
       /\ at[r] = "read" => \A d \in Docs : Settled(d, upTo[r])
       /\ at[r] = "send" => \A d \in Docs : Sending(r, d)
================================================================================
