-------------------------------- MODULE Backups --------------------------------
(***************************************************************************)
(* Backups and their upload (features/sys_ops/backup_service: do_backup,      *)
(* do_backup_and_sync, _bdpan_sync_dir and the script it leaves running).     *)
(*                                                                          *)
(* A backup is one job; the upload is a process of its own, and may still run  *)
(* when the next backup removes the archives and rewrites the status file,    *)
(* which the upload reads and writes too.  Halo's database is archived only    *)
(* when it changed since the last archive; the dumps of the media server are   *)
(* never removed.  A step is one archive, one removal of the old ones, one     *)
(* upload of a file, or one reading or writing of the status file.            *)
(* Departures: the sources other than these two are alike; an archive is sound *)
(* or not made; the status file is never found half written.                 *)
(***************************************************************************)
EXTENDS Naturals, FiniteSets

CONSTANTS Others,      \* sources that are archived every time
          MaxRuns,     \* bound: backups
          MaxVersion,  \* bound: changes of Halo's database
          MaxFailures  \* bound: files that fail to upload

VARIABLES patient,     \* the next backup waits for the upload of the last one
          run, phase,  \* the backup under way, or the last one
          left,        \* sources it has not come to
          made,        \* its files
          halo,        \* the version of Halo's database
          seen,        \* its modification time, as the backup read it; 0: not read
          due,         \* halo_should_backup
          previous,    \* halo_last_mtime of the status file, as it was read
          local, cloud,
          status,      \* backup_status.json
          queue,       \* files that the upload of each backup has not come to
          at,          \* where it is: none, begun, sends, sent, read, over
          failed,      \* a file of it has failed
          failures,    \* files that have
          copy,        \* the status file as it has read it
          missed       \* history: archives of Halo that failed, or were removed unsent

backupVars == <<run, phase, left, made, seen, due, previous>>
uploadVars == <<queue, at, failed, failures, copy>>
vars == <<patient, backupVars, halo, local, cloud, status, uploadVars, missed>>

Runs == 1 .. MaxRuns
Halo == "halo"
Media == "media"
File(s, r, v) == [source |-> s, run |-> r, version |-> v]
NoStatus == [run |-> 0, files |-> {}, halo |-> 0, sync |-> "none"]

Init ==
  /\ patient \in BOOLEAN
  /\ run = 0 /\ phase = "idle" /\ left = {} /\ made = {}
  /\ halo = 1 /\ seen = 0 /\ due = TRUE /\ previous = 0
  /\ local = {} /\ cloud = {} /\ status = NoStatus
  /\ queue = [r \in Runs |-> {}] /\ at = [r \in Runs |-> "none"]
  /\ failed = [r \in Runs |-> FALSE] /\ failures = 0 /\ copy = [r \in Runs |-> NoStatus] /\ missed = {}

Change ==
  /\ halo < MaxVersion /\ halo' = halo + 1
  /\ UNCHANGED <<patient, backupVars, local, cloud, status, uploadVars, missed>>

-------------------------------------------------------------------------------
(* do_backup.                                                               *)

Uploading(r) == at[r] \notin {"none", "over"}
Begin ==
  /\ phase = "idle" /\ run < MaxRuns
  /\ patient => \A r \in Runs : ~ Uploading(r)
  /\ run' = run + 1 /\ phase' = "media" /\ left' = Others \cup {Halo} /\ made' = {}
  /\ due' = TRUE /\ seen' = 0
  /\ UNCHANGED <<patient, halo, previous, local, cloud, status, uploadVars, missed>>

Archive(s, v) ==
  \/ made' = made \cup {File(s, run, v)} /\ local' = local \cup {File(s, run, v)}
  \/ UNCHANGED <<made, local>>
DumpMedia ==
  /\ phase = "media" /\ Archive(Media, 0) /\ phase' = "time"
  /\ UNCHANGED <<patient, run, left, halo, seen, due, previous, cloud, status, uploadVars, missed>>

(* The time of Halo's database is read before the database itself; an        *)
(* unreadable time, or status file, means that it is archived.               *)
ReadTime ==
  /\ phase = "time" /\ phase' = "clean"
  /\ seen' \in {0, halo}
  /\ previous' = status.halo
  /\ due' = (seen' = 0 \/ seen' # status.halo)
  /\ UNCHANGED <<patient, run, left, made, halo, local, cloud, status, uploadVars, missed>>
Clean ==
  /\ phase = "clean" /\ phase' = "collect"
  /\ local' = {f \in local : f.source = Media}
  /\ missed' = missed \cup {f \in local \ cloud : f.source = Halo}
  /\ UNCHANGED <<patient, run, left, made, halo, seen, due, previous, cloud, status, uploadVars>>

Collect(s) ==
  /\ phase = "collect" /\ s \in left \ {Halo} /\ left' = left \ {s} /\ Archive(s, 0)
  /\ UNCHANGED <<patient, run, phase, halo, seen, due, previous, cloud, status, uploadVars, missed>>
CollectHalo ==
  /\ phase = "collect" /\ left = {Halo} /\ left' = {}
  /\ IF due THEN Archive(Halo, halo) ELSE UNCHANGED <<made, local>>
  /\ UNCHANGED <<patient, run, phase, halo, seen, due, previous, cloud, status, uploadVars, missed>>

Archived(s) == \E f \in made : f.source = s
(* The status file is written anew.  The time of Halo's database is that of   *)
(* the archive just made, or of the one that made another needless.          *)
Record ==
  /\ phase = "collect" /\ left = {} /\ phase' = "recorded"
  /\ status' = [run |-> run, files |-> made, sync |-> "pending",
                halo |-> IF ~ due THEN previous ELSE IF Archived(Halo) THEN seen ELSE 0]
  /\ UNCHANGED <<patient, run, left, made, halo, seen, due, previous, local, cloud, uploadVars, missed>>

(* do_backup_and_sync: the upload is started, or is not.                     *)
Launch ==
  /\ phase = "recorded" /\ phase' = "idle"
  /\ status' = [status EXCEPT !.sync = "uploading"]
  /\ at' \in {at, [at EXCEPT ![run] = "begun"]}
  /\ made' = {} /\ seen' = 0 /\ due' = TRUE /\ previous' = 0
  /\ UNCHANGED <<patient, run, left, halo, local, cloud, queue, failed, failures, copy, missed>>

-------------------------------------------------------------------------------
(* _bdpan_sync_dir, and the script around it.                                *)

List(r) ==
  /\ at[r] = "begun" /\ queue' = [queue EXCEPT ![r] = local] /\ at' = [at EXCEPT ![r] = "sends"]
  /\ UNCHANGED <<patient, backupVars, halo, local, cloud, status, failed, failures, copy, missed>>
(* Files go in the order of their names: by source, then by time. *)
Rank(f) == (CASE f.source = Media -> 2 [] f.source = Halo -> 1 [] OTHER -> 0) * MaxRuns + f.run
IsNext(r, f) == f \in queue[r] /\ \A g \in queue[r] : Rank(f) <= Rank(g)
Unlisted(r, f) == queue' = [queue EXCEPT ![r] = @ \ {f}]
(* Sent, or in the cloud already. *)
Send(r, f) ==
  /\ IsNext(r, f) /\ f \in local /\ Unlisted(r, f) /\ cloud' = cloud \cup {f}
  /\ UNCHANGED <<patient, backupVars, halo, local, status, at, failed, failures, copy, missed>>
SendFails(r, f) ==
  /\ IsNext(r, f) /\ f \in local /\ Unlisted(r, f) /\ failures < MaxFailures /\ failures' = failures + 1
  /\ failed' = [failed EXCEPT ![r] = TRUE] /\ missed' = missed \cup {x \in {f} : x.source = Halo}
  /\ UNCHANGED <<patient, backupVars, halo, local, cloud, status, at, copy>>
(* The next backup has removed the file: it is passed over. *)
PassOver(r, f) ==
  /\ IsNext(r, f) /\ f \notin local /\ Unlisted(r, f)
  /\ UNCHANGED <<patient, backupVars, halo, local, cloud, status, at, failed, failures, copy, missed>>
ReadStatus(r) ==
  /\ at[r] = "sends" /\ queue[r] = {}
  /\ copy' = [copy EXCEPT ![r] = status] /\ at' = [at EXCEPT ![r] = "read"]
  /\ UNCHANGED <<patient, backupVars, halo, local, cloud, status, queue, failed, failures, missed>>
WriteStatus(r) ==
  /\ at[r] = "read" /\ at' = [at EXCEPT ![r] = "over"]
  /\ status' = [copy[r] EXCEPT !.sync = IF failed[r] THEN "failed" ELSE "success"]
  /\ copy' = [copy EXCEPT ![r] = NoStatus] /\ failed' = [failed EXCEPT ![r] = FALSE]
  /\ UNCHANGED <<patient, backupVars, halo, local, cloud, queue, failures, missed>>

Next ==
  \/ Change \/ Begin \/ DumpMedia \/ ReadTime \/ Clean \/ CollectHalo \/ Record \/ Launch
  \/ \E s \in Others : Collect(s)
  \/ \E r \in Runs : List(r) \/ ReadStatus(r) \/ WriteStatus(r)
  \/ \E r \in Runs : \E f \in queue[r] : Send(r, f) \/ SendFails(r, f) \/ PassOver(r, f)
Spec == Init /\ [][Next]_vars

-------------------------------------------------------------------------------
(* If the status file says that Halo's database of some time is saved, so    *)
(* that no other archive is made of it, then an archive exists that is not    *)
(* older, unless its upload failed or came too late; and where a backup waits  *)
(* for the last upload, "success" means that all its files are in the cloud. *)
SavedIsThere ==
  /\ status.halo # 0 =>
       \E f \in local \cup cloud \cup missed \cup made : f.source = Halo /\ f.version >= status.halo
  /\ patient /\ status.sync = "success" => status.files \subseteq cloud
-------------------------------------------------------------------------------

(* What keeps it so.  An archive of Halo's database is never lost from sight,   *)
(* and whatever speaks of one, the status file, what the backup or an upload   *)
(* has read of it, has one to speak of.  Where a backup waits for the upload,   *)
(* the files of the status file are on their way until one of them fails.     *)
Files == [source : Others \cup {Halo, Media}, run : Runs, version : Nat]
Records == [run : 0 .. MaxRuns, files : SUBSET Files, halo : Nat,
            sync : {"none", "pending", "uploading", "failed", "success"}]
BackupTypeOK ==
  /\ run \in 0 .. MaxRuns /\ phase \in {"idle", "media", "time", "clean", "collect", "recorded"}
  /\ made \subseteq local /\ local \cup cloud \cup missed \subseteq Files
  /\ halo \in Nat /\ seen \in 0 .. halo /\ previous \in Nat /\ patient \in BOOLEAN
  /\ left \subseteq Others \cup {Halo} /\ (phase \in {"media", "time", "clean", "collect", "recorded"} => run # 0)
  /\ status \in Records /\ copy \in [Runs -> Records] /\ failed \in [Runs -> BOOLEAN]
  /\ at \in [Runs -> {"none", "begun", "sends", "read", "over"}] /\ queue \in [Runs -> SUBSET Files]
Sighted(v) == v # 0 => \E f \in local \cup cloud \cup missed : f.source = Halo /\ f.version >= v
AllSighted == Sighted(status.halo) /\ Sighted(previous) /\ \A r \in Runs : Sighted(copy[r].halo)
MadeInTime ==
  /\ phase = "idle" => made = {}
  /\ \A f \in made : f.source # Media => phase \in {"collect", "recorded"}
  /\ \A f \in made : f.source = Halo => f.version >= seen
OnTheWay(r) ==
  /\ Uploading(r) => phase = "idle" /\ r = run
  /\ at[r] = "begun" => status.files \subseteq local
  /\ at[r] = "sends" =>
       queue[r] \subseteq local /\ (failed[r] \/ status.files \subseteq queue[r] \cup cloud)
  /\ at[r] = "read" => failed[r] \/ copy[r].files \subseteq cloud
Waited ==
  patient =>
    /\ \A r \in Runs : OnTheWay(r)
    /\ phase = "recorded" => status.files = made
    /\ status.sync = "success" => status.files \subseteq cloud
SavedInv == BackupTypeOK /\ AllSighted /\ MadeInTime /\ Waited
================================================================================
