------------------------------- MODULE RssDigest -------------------------------
(***************************************************************************)
(* The digest of the day's articles (features/content_ops/rss_service:        *)
(* rss_brief_compute, rss_brief, rss_precompute, rss_push_job).              *)
(*                                                                          *)
(* Two files without a lock: the articles that were chosen today, and the last *)
(* digest, which is used for a quarter of an hour.  Jobs and the command may    *)
(* run side by side.  A step is one access to a file or one message.           *)
(* Departures: five articles at most is a choice of any; scores, V2EX and the   *)
(* state of the nodes are left out; a file is never found half written.        *)
(***************************************************************************)
EXTENDS Naturals, FiniteSets

CONSTANTS Callers,     \* precompute jobs, and push jobs or commands
          Articles,    \* bound: articles of the two days
          MaxDigests   \* bound: digests

VARIABLES day,         \* 1, 2
          pubday,      \* the day of each article, 0: not fetched yet
          pushed,      \* pushed_rss.json: its day and articles
          cache,       \* rss_cache.json: the number of the digest, 0: none
          fresh,       \* the cache is younger than 15 minutes
          digest,      \* articles of every digest
          made,
          at, role,    \* where each caller is, and what it is
          known,       \* articles it may not choose: what pushed_rss.json said
          today,       \* the day on which it started
          has,         \* the digest it has
          overlap      \* history: digests computed while another was, or over midnight

vars == <<day, pubday, pushed, cache, fresh, digest, made, at, role, known, today, has, overlap>>
fileVars == <<pushed, cache, fresh>>
callVars == <<at, role, known, today, has>>

Init ==
  /\ day = 1 /\ pubday = [a \in Articles |-> 0]
  /\ pushed = [day |-> 1, ids |-> {}] /\ cache = 0 /\ fresh = FALSE
  /\ digest = [d \in 1 .. MaxDigests |-> {}] /\ made = 0
  /\ at = [c \in Callers |-> "idle"] /\ role \in [Callers -> {"precompute", "brief"}]
  /\ known = [c \in Callers |-> {}] /\ today = [c \in Callers |-> 1] /\ has = [c \in Callers |-> 0]
  /\ overlap = {}

Computing == {c \in Callers : at[c] = "choose"}

Midnight ==
  /\ day = 1 /\ day' = 2
  /\ UNCHANGED <<pubday, fileVars, digest, made, callVars, overlap>>
Fetched(a) ==
  /\ pubday[a] = 0 /\ pubday' = [pubday EXCEPT ![a] = day]
  /\ UNCHANGED <<day, fileVars, digest, made, callVars, overlap>>
Age ==
  /\ fresh /\ fresh' = FALSE
  /\ UNCHANGED <<day, pubday, pushed, cache, digest, made, callVars, overlap>>

-------------------------------------------------------------------------------
To(c, place) == at' = [at EXCEPT ![c] = place]

(* rss_brief takes a young digest as it is, an empty one too.                 *)
Cached(c) ==
  /\ at[c] = "idle" /\ role[c] # "precompute" /\ fresh
  /\ has' = [has EXCEPT ![c] = cache] /\ To(c, "tell")
  /\ UNCHANGED <<day, pubday, fileVars, digest, made, role, known, today, overlap>>
(* rss_brief_compute: what was chosen today is not chosen again.              *)
Read(c) ==
  /\ at[c] = "idle" /\ (role[c] = "precompute" \/ ~ fresh) /\ To(c, "choose")
  /\ known' = [known EXCEPT ![c] = IF pushed.day = day THEN pushed.ids ELSE {}]
  /\ today' = [today EXCEPT ![c] = day]
  /\ UNCHANGED <<day, pubday, fileVars, digest, made, role, has, overlap>>
Choices(c) == {a \in Articles : pubday[a] = today[c]} \ known[c]
Choose(c) ==
  /\ at[c] = "choose" /\ made < MaxDigests /\ made' = made + 1
  /\ \E A \in SUBSET Choices(c) :
       /\ A # {} /\ digest' = [digest EXCEPT ![made + 1] = A]
       /\ pushed' = [day |-> today[c], ids |-> known[c] \cup A]
  /\ has' = [has EXCEPT ![c] = made + 1] /\ To(c, "cache")
  /\ overlap' = IF Computing # {c} \/ today[c] # day
                THEN overlap \cup {made + 1} ELSE overlap
  /\ UNCHANGED <<day, pubday, cache, fresh, role, known, today>>
Nothing(c) ==
  /\ at[c] = "choose" /\ Choices(c) = {} /\ has' = [has EXCEPT ![c] = 0] /\ To(c, "cache")
  /\ UNCHANGED <<day, pubday, fileVars, digest, made, role, known, today, overlap>>
Cache(c) ==
  /\ at[c] = "cache" /\ cache' = has[c] /\ fresh' = TRUE /\ known' = [known EXCEPT ![c] = {}]
  /\ \/ role[c] = "precompute" /\ To(c, "idle") /\ has' = [has EXCEPT ![c] = 0]
     \/ role[c] = "brief" /\ To(c, "tell") /\ UNCHANGED has
  /\ UNCHANGED <<day, pubday, pushed, digest, made, role, today, overlap>>
(* The owner or the user gets it, or no channel takes it: nothing is undone.   *)
Tell(c) ==
  /\ at[c] = "tell" /\ To(c, "idle") /\ has' = [has EXCEPT ![c] = 0]
  /\ UNCHANGED <<day, pubday, fileVars, digest, made, role, known, today, overlap>>

Next ==
  \/ Midnight \/ Age
  \/ \E a \in Articles : Fetched(a)
  \/ \E c \in Callers : Cached(c) \/ Read(c) \/ Choose(c) \/ Nothing(c) \/ Cache(c) \/ Tell(c)
Spec == Init /\ [][Next]_vars

-------------------------------------------------------------------------------
(* An article is in one digest of a day only, unless two were computed at a    *)
(* time or one over midnight.                                               *)
ArticleOnce ==
  \A d, e \in 1 .. made :
    d < e /\ {d, e} \cap overlap = {} => digest[d] \cap digest[e] = {}
-------------------------------------------------------------------------------

(* What keeps it so.  Of the articles of today, all that were told are in the   *)
(* file, and known to whoever is choosing: but for the digests of the overlap. *)
DigestTypeOK ==
  /\ day \in {1, 2} /\ made \in 0 .. MaxDigests /\ overlap \subseteq 1 .. made
  /\ pushed \in [day : {1, 2}, ids : SUBSET Articles]
  /\ pubday \in [Articles -> 0 .. day] /\ today \in [Callers -> 1 .. day]
  /\ digest \in [1 .. MaxDigests -> SUBSET Articles]
  /\ known \in [Callers -> SUBSET Articles] /\ at \in [Callers -> {"idle", "choose", "cache", "tell"}]
Told == UNION {digest[d] : d \in (1 .. made) \ overlap}
Today == {a \in Told : pubday[a] = day}
ToldIsKnown ==
  /\ \A d \in 1 .. made : \A a \in digest[d] : pubday[a] # 0
  /\ Today # {} => pushed.day = day /\ Today \subseteq pushed.ids
  /\ \A c \in Computing : Today # {} => today[c] = day /\ Today \subseteq known[c]
OnceInv == DigestTypeOK /\ ToldIsKnown /\ ArticleOnce
================================================================================
