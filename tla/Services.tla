-------------------------------- MODULE Services --------------------------------
(***************************************************************************)
(* The life of a task specification and the machines of the services around   *)
(* it, which share nothing, one at a time: the first state says which of them  *)
(* is explored.  Since only one of them runs, they have the variables a1, a2,   *)
(* ... in turn, and what a machine does not need stays 0.                     *)
(***************************************************************************)
EXTENDS TaskSpecs

CONSTANTS Owners, Generations,                        \* FailoverOwners
          Switchers, Worker, Nobody, Nodes, MaxEdits, MaxLost, \* ProxySwitch
          Others, MaxRuns, MaxVersion, MaxFailures,   \* Backups
          Scans, Changes, Absolute, Findings, FindingOf, Period, MaxTime, \* DriftWatch
          Keys, MaxSaid, MaxGoals, MaxFailed,         \* SessionStore
          Refreshes, MaxPairs, NoRequest,             \* UserSessions
          Clippers, MaxNotes, MaxTrouble,             \* WebClips
          Docs, Syncs, MaxRefused,                    \* SearchSync
          Callers, Articles, MaxDigests,              \* RssDigest
          Messages, Orders, MaxConvs, MaxPosts        \* AgentDoor

VARIABLES part,
          a1, a2, a3, a4, a5, a6, a7, a8, a9, a10, a11, a12, a13, a14, a15, a16, a17, a18

Failover == INSTANCE FailoverOwners WITH
  thread <- a1, current <- a2,
  owners <- a3, stopped <- a4, handle <- a5, mine <- a6, late <- a7, forced <- a8
Proxy == INSTANCE ProxySwitch WITH
  Callers <- Switchers, kind <- a1, edits <- a2, active <- a3, served <- a4, lost <- a5,
  unsure <- a6, switcher <- a7, goal <- a8, at <- a9, failures <- a10, backoff <- a11,
  tried <- a12
Backup == INSTANCE Backups WITH
  patient <- a1,
  run <- a2, phase <- a3, left <- a4, made <- a5, halo <- a6, seen <- a7, due <- a8,
  previous <- a9, local <- a10, cloud <- a11, status <- a12, queue <- a13, at <- a14,
  failed <- a15, failures <- a16, copy <- a17, missed <- a18
Drift == INSTANCE DriftWatch WITH
  Kinds <- Findings, Kind <- FindingOf, now <- a1, host <- a2, baseline <- a3, throttles <- a4,
  told <- a5, at <- a6, mode <- a7, base <- a8, last <- a9, new <- a10, quiet <- a11
Memory == INSTANCE SessionStore WITH
  cache <- a1, row <- a2,
  stored <- a3, archive <- a4, active <- a5, made <- a6, goals <- a7, failed <- a8,
  said <- a9, unsaved <- a10, replaced <- a11, doubtful <- a12, torn <- a13, spoken <- a14
Users == INSTANCE UserSessions WITH
  Requests <- Refreshes, issued <- a1, family <- a2,
  access <- a3, refresh <- a4, request <- a5, asked <- a6, given <- a7, current <- a8,
  waits <- a9, leaving <- a10, raced <- a11, lost <- a12
Clips == INSTANCE WebClips WITH
  Calls <- Clippers, page <- a1,
  row <- a2, note <- a3, notes <- a4, at <- a5, got <- a6, mine <- a7, told <- a8,
  tries <- a9, trouble <- a10, default <- a11, loose <- a12
Search == INSTANCE SearchSync WITH
  Runs <- Syncs, source <- a1,
  now <- a2, time <- a3, mark <- a4, index <- a5, at <- a6, upTo <- a7, batch <- a8,
  seen <- a9, refused <- a10, skipped <- a11, tied <- a12, crossed <- a13
Digest == INSTANCE RssDigest WITH
  day <- a1, pubday <- a2,
  pushed <- a3, cache <- a4, fresh <- a5, digest <- a6, made <- a7, at <- a8, role <- a9,
  known <- a10, today <- a11, has <- a12, overlap <- a13
Door == INSTANCE AgentDoor WITH
  Requests <- Messages, Tasks <- Orders, active <- a1, made <- a2, status <- a3, title <- a4, lock <- a5, locks <- a6,
  holder <- a7, req <- a8, log <- a9, task <- a10, row <- a11, told <- a12, stream <- a13,
  refining <- a14, posts <- a15, owned <- a16

\* One kind of finding, for the model checker.
OneFinding == [c \in Changes |-> 1]

Free18 == a18 = 0
Free17 == a17 = 0 /\ Free18
Free16 == a16 = 0 /\ Free17
Free15 == a15 = 0 /\ Free16
Free14 == a14 = 0 /\ Free15
Free13 == a13 = 0 /\ Free14
Free12 == a12 = 0 /\ Free13
Free11 == a11 = 0 /\ Free12
Free10 == a10 = 0 /\ Free11
Free9 == a9 = 0 /\ Free10
Rest18 == <<a18>>
Rest17 == <<a17, Rest18>>
Rest16 == <<a16, Rest17>>
Rest15 == <<a15, Rest16>>
Rest14 == <<a14, Rest15>>
Rest13 == <<a13, Rest14>>
Rest12 == <<a12, Rest13>>
Rest11 == <<a11, Rest12>>
Rest10 == <<a10, Rest11>>
Rest9 == <<a9, Rest10>>

ServicesInit ==
  /\ Init
  /\ \/ part = "specs" /\ a1 = 0 /\ a2 = 0 /\ a3 = 0 /\ a4 = 0 /\ a5 = 0 /\ a6 = 0 /\ a7 = 0 /\ a8 = 0 /\ Free9
     \/ /\ mode = "once" /\ row.content = 1
        /\ \/ part = "failover" /\ Failover!Init /\ Free9
           \/ part = "proxy" /\ Proxy!Init /\ Free13
           \/ part = "backup" /\ Backup!Init
           \/ part = "drift" /\ Drift!Init /\ Free12
           \/ part = "memory" /\ Memory!Init /\ Free15
           \/ part = "users" /\ Users!Init /\ Free13
           \/ part = "clips" /\ Clips!Init /\ Free13
           \/ part = "search" /\ Search!Init /\ Free14
           \/ part = "digest" /\ Digest!Init /\ Free14
           \/ part = "door" /\ Door!Init /\ Free17

slots == <<a1, a2, a3, a4, a5, a6, a7, a8, a9, a10, a11, a12, a13, a14, a15, a16, a17, a18>>
serviceVars == <<part, vars, slots>>

ServicesNext ==
  /\ UNCHANGED part
  /\ \/ part = "specs" /\ Next /\ UNCHANGED slots
     \/ /\ UNCHANGED vars
        /\ \/ part = "failover" /\ Failover!Next /\ UNCHANGED Rest9
           \/ part = "proxy" /\ Proxy!Next /\ UNCHANGED Rest13
           \/ part = "backup" /\ Backup!Next
           \/ part = "drift" /\ Drift!Next /\ UNCHANGED Rest12
           \/ part = "memory" /\ Memory!Next /\ UNCHANGED Rest15
           \/ part = "users" /\ Users!Next /\ UNCHANGED Rest13
           \/ part = "clips" /\ Clips!Next /\ UNCHANGED Rest13
           \/ part = "search" /\ Search!Next /\ UNCHANGED Rest14
           \/ part = "digest" /\ Digest!Next /\ UNCHANGED Rest14
           \/ part = "door" /\ Door!Next /\ UNCHANGED Rest17
ServicesSpec == ServicesInit /\ [][ServicesNext]_serviceVars


ASSUME FailoverAssumption == Generations \subseteq Nat \ {0} /\ IsFiniteSet(Owners)
ASSUME ProxyAssumption ==
  /\ Nodes \subseteq Nat \ {0} /\ 1 \in Nodes
  /\ Worker \notin Switchers /\ Nobody \notin Switchers \cup {Worker}
ASSUME BackupAssumption == {"halo", "media"} \cap Others = {} /\ {MaxRuns, MaxVersion, MaxFailures} \subseteq Nat
ASSUME DriftAssumption ==
  Period \in Nat \ {0} /\ FindingOf \in [Changes -> Findings] /\ MaxTime \in Nat
ASSUME ClipsAssumption == MaxNotes \in Nat /\ MaxTrouble \in Nat
ASSUME SearchAssumption == Docs \subseteq Nat /\ IsFiniteSet(Docs)
ASSUME DigestAssumption == MaxDigests \in Nat
ASSUME UsersAssumption == MaxPairs \in Nat /\ NoRequest \notin Refreshes
ASSUME MemoryAssumption == Keys \subseteq Nat /\ 1 \in Keys /\ {MaxSaid, MaxGoals, MaxFailed} \subseteq Nat
ASSUME DoorAssumption == MaxConvs \in Nat \ {0} /\ MaxPosts \in Nat /\ Nobody \notin Messages /\ Orders \subseteq Messages

-------------------------------------------------------------------------------
(* What the operations of the host promise: a held worker is kept, the node   *)
(* flagged is the node served, what is recorded as saved is there, and drift  *)
(* is told (network_ops, sys_ops).                                          *)
HostKept ==
  /\ part = "failover" => Failover!HeldIsKept
  /\ part = "proxy" => Proxy!FlagIsServed
  /\ part = "backup" => Backup!SavedIsThere
  /\ part = "drift" => Drift!DriftIsTold

(* A conversation is that of its user, whose messages are answered one after   *)
(* the other, and so are the tokens of his sessions (session.py, agent.py,     *)
(* services/user_session).                                                  *)
SessionsKept ==
  /\ part = "door" => Door!DoorKept
  /\ part = "memory" => Memory!MemoryOfUser
  /\ part = "users" => Users!TokensAgree

(* Links are private, the index follows the mails and articles, and an        *)
(* article is told once (content_ops).                                      *)
ContentKept ==
  /\ part = "clips" => Clips!LinksArePrivate
  /\ part = "search" => Search!IndexFollows
  /\ part = "digest" => Digest!ArticleOnce
================================================================================
