------------------------------- MODULE WebClips -------------------------------
(***************************************************************************)
(* A web page that is clipped: its text, the cache of it and the private note  *)
(* that archives it (features/content_ops/content_service: web_clip,          *)
(* _call_url2md, _smart_deliver, the table web_clips; core/utils/hedgedoc:     *)
(* upload_to_hedgedoc).                                                     *)
(*                                                                          *)
(* Several calls clip the same page.  A step is one access to the cache or one *)
(* request: done, refused, or unanswered, and then it may have been done.      *)
(* A note starts with the rights the service gives to all notes.  Departures:  *)
(* one page; a batch of pages, which skips the cache before it uploads, and    *)
(* screenshots are left out; a text is the version of the page; shares with    *)
(* readers, whose failure is only logged, are left out.                       *)
(***************************************************************************)
EXTENDS Naturals, FiniteSets

CONSTANTS Calls,       \* calls of web_clip
          MaxVersion,  \* bound: versions of the page
          MaxNotes,    \* bound: notes
          MaxTrouble   \* bound: requests that are refused or unanswered

VARIABLES page,        \* version of the page
          row,         \* the row of the page in web_clips; version 0: none, or a failure
          note,        \* notes: version, groups that may read, visible, owner, there
          notes,
          at,          \* where each call is
          got,         \* the version it has, and the link that came with it
          mine,        \* the note it is making
          told,        \* the link it answers with, 0: none
          tries,       \* addresses of the service it has tried
          trouble,
          default,     \* the rights the service gives to a note
          loose        \* history: notes whose making or removal was not confirmed

vars == <<page, row, note, notes, at, got, mine, told, tries, trouble, default, loose>>
callVars == <<at, got, mine, told, tries>>
noteVars == <<note, notes, loose>>

Groups == {"everyone", "logged_in"}
NoClip == [version |-> 0, link |-> 0]
NoNote == [version |-> 0, groups |-> {}, visible |-> FALSE, owner |-> "bot", there |-> FALSE]

Init ==
  /\ page = 1 /\ row = NoClip
  /\ note = [n \in 1 .. MaxNotes |-> NoNote] /\ notes = 0 /\ loose = {}
  /\ at = [c \in Calls |-> "look"] /\ got = [c \in Calls |-> NoClip]
  /\ mine = [c \in Calls |-> 0] /\ told = [c \in Calls |-> 0]
  /\ tries = [c \in Calls |-> 0] /\ trouble = 0
  /\ default \in [groups : SUBSET Groups, visible : BOOLEAN]

Change ==
  /\ page < MaxVersion /\ page' = page + 1
  /\ UNCHANGED <<row, noteVars, callVars, trouble, default>>
(* Rows last for a week, or five minutes when the page could not be fetched.   *)
Expire ==
  /\ row # NoClip /\ row' = NoClip
  /\ UNCHANGED <<page, noteVars, callVars, trouble, default>>

To(c, place) == at' = [at EXCEPT ![c] = place]
Spare == trouble < MaxTrouble /\ trouble' = trouble + 1

-------------------------------------------------------------------------------
(* _call_url2md: the cache, which may hold a failure, or the page.           *)

Look(c) ==
  /\ at[c] = "look"
  /\ IF row = NoClip THEN (To(c, "fetch") \/ To(c, "done")) /\ UNCHANGED got
     ELSE To(c, "decide") /\ got' = [got EXCEPT ![c] = row]
  /\ UNCHANGED <<page, row, noteVars, mine, told, tries, trouble, default>>
Fetch(c) ==
  /\ at[c] = "fetch" /\ got' = [got EXCEPT ![c] = [version |-> page, link |-> 0]] /\ To(c, "put")
  /\ UNCHANGED <<page, row, noteVars, mine, told, tries, trouble, default>>
FetchFails(c) ==
  /\ at[c] = "fetch" /\ Spare /\ To(c, "done") /\ row' = NoClip
  /\ UNCHANGED <<page, noteVars, got, mine, told, tries, default>>
(* The row is replaced by what this call has, without a link. *)
Put(c) ==
  /\ at[c] = "put" /\ row' = got[c] /\ To(c, "decide")
  /\ UNCHANGED <<page, noteVars, got, mine, told, tries, trouble, default>>

(* _smart_deliver: a long page, one with pictures or a forced one is archived. *)
Plain(c) ==
  /\ at[c] = "decide" /\ To(c, "done")
  /\ UNCHANGED <<page, row, noteVars, got, mine, told, tries, trouble, default>>
Archived(c) ==
  /\ at[c] = "decide" /\ got[c].link # 0
  /\ told' = [told EXCEPT ![c] = got[c].link] /\ To(c, "done")
  /\ UNCHANGED <<page, row, noteVars, got, mine, tries, trouble, default>>
Upload(c) ==
  /\ at[c] = "decide" /\ got[c].link = 0 /\ To(c, "create")
  /\ UNCHANGED <<page, row, noteVars, got, mine, told, tries, trouble, default>>

-------------------------------------------------------------------------------
(* upload_to_hedgedoc: one or two addresses are tried.                       *)

Made(c) ==
  /\ notes < MaxNotes /\ notes' = notes + 1
  /\ note' = [note EXCEPT ![notes + 1] = [version |-> got[c].version, groups |-> default.groups,
                                           visible |-> default.visible, owner |-> "bot", there |-> TRUE]]
Create(c) ==
  /\ at[c] = "create" /\ Made(c) /\ mine' = [mine EXCEPT ![c] = notes + 1] /\ To(c, "everyone")
  /\ UNCHANGED <<page, row, got, told, tries, trouble, default, loose>>
CreateFails(c) ==
  /\ at[c] = "create" /\ Spare
  /\ \/ UNCHANGED noteVars
     \/ Made(c) /\ loose' = loose \cup {notes + 1}
  /\ tries' = [tries EXCEPT ![c] = @ + 1]
  /\ \/ tries[c] = 0 /\ To(c, "create")
     \/ To(c, "done")
  /\ UNCHANGED <<page, row, got, mine, told, default>>

(* A request about the note: done; or it seems to have failed, done or not.    *)
Done(c, next, after) ==
  /\ note' = [note EXCEPT ![mine[c]] = after] /\ To(c, next) /\ UNCHANGED trouble
Seems(c, next, after) ==
  /\ Spare /\ To(c, next)
  /\ note' \in {note, [note EXCEPT ![mine[c]] = after]}
Ask(c, place, next, failing, after) ==
  /\ at[c] = place
  /\ Done(c, next, after) \/ Seems(c, failing, after)
Steady(c) == UNCHANGED <<page, row, notes, got, told, tries, default>>

Note(c) == note[mine[c]]
(* _restrict_note_to_owner: both groups in turn, then the visibility.         *)
CloseGroup(c, group, next) ==
  /\ Ask(c, group, next, "delete", [Note(c) EXCEPT !.groups = @ \ {group}])
  /\ UNCHANGED <<mine, loose>> /\ Steady(c)
Hide(c) ==
  /\ Ask(c, "hide", "transfer", "delete", [Note(c) EXCEPT !.visible = FALSE])
  /\ UNCHANGED <<mine, loose>> /\ Steady(c)
(* A note that could not be closed is removed, and no link is given.          *)
Delete(c) ==
  /\ \/ at[c] = "delete" /\ Done(c, "done", [Note(c) EXCEPT !.there = FALSE]) /\ UNCHANGED loose
     \/ /\ at[c] = "delete" /\ Seems(c, "done", [Note(c) EXCEPT !.there = FALSE])
        /\ loose' = loose \cup {mine[c]}
  /\ mine' = [mine EXCEPT ![c] = 0] /\ Steady(c)
(* The owner comes last; a failure is only logged.                           *)
Transfer(c) ==
  /\ Ask(c, "transfer", "link", "link", [Note(c) EXCEPT !.owner = "user"])
  /\ UNCHANGED <<mine, loose>> /\ Steady(c)
(* The row is replaced again, with the text of this call and its link.        *)
PutLink(c) ==
  /\ at[c] = "link" /\ To(c, "done")
  /\ told' = [told EXCEPT ![c] = mine[c]]
  /\ row' = [version |-> got[c].version, link |-> mine[c]]
  /\ mine' = [mine EXCEPT ![c] = 0]
  /\ UNCHANGED <<page, noteVars, got, tries, trouble, default>>

Next ==
  \/ Change \/ Expire
  \/ \E c \in Calls :
       \/ Look(c) \/ Fetch(c) \/ FetchFails(c) \/ Put(c) \/ Plain(c) \/ Archived(c) \/ Upload(c)
       \/ Create(c) \/ CreateFails(c)
       \/ CloseGroup(c, "everyone", "logged_in") \/ CloseGroup(c, "logged_in", "hide")
       \/ Hide(c) \/ Delete(c) \/ Transfer(c) \/ PutLink(c)
Spec == Init /\ [][Next]_vars

-------------------------------------------------------------------------------
(* Whatever fails, and whoever clips the page at the same time: a link that    *)
(* was given, or is kept, leads to a note that is there, is nobody's but its   *)
(* owner's and has the text it was given with; and a note that others can read *)
(* is one that a call is still closing, or whose making or removal the service *)
(* did not confirm.                                                         *)
Private(n) == note[n].there /\ note[n].groups = {} /\ ~ note[n].visible
LinksArePrivate ==
  /\ \A c \in Calls : told[c] # 0 => Private(told[c]) /\ note[told[c]].version = got[c].version
  /\ row.link # 0 => Private(row.link) /\ note[row.link].version = row.version
  /\ \A n \in 1 .. notes :
       Private(n) \/ ~ note[n].there \/ n \in loose \/ \E c \in Calls : mine[c] = n
-------------------------------------------------------------------------------

(* What keeps it so.  A note is made by one call at a time, and its rights are   *)
(* taken away in turn; a link is given, or kept, when nobody makes its note any  *)
(* more.                                                                    *)
Notes == 1 .. MaxNotes
Clips == [version : Nat, link : Notes \cup {0}]
ClipsTypeOK ==
  /\ page \in Nat /\ row \in Clips /\ got \in [Calls -> Clips] /\ notes \in 0 .. MaxNotes
  /\ note \in [Notes -> [version : Nat, groups : SUBSET Groups, visible : BOOLEAN,
                         owner : {"bot", "user"}, there : BOOLEAN]]
  /\ at \in [Calls -> {"look", "fetch", "put", "decide", "create", "everyone", "logged_in", "hide",
                       "transfer", "link", "delete", "done"}]
  /\ mine \in [Calls -> 0 .. notes] /\ told \in [Calls -> Notes \cup {0}]
  /\ default \in [groups : SUBSET Groups, visible : BOOLEAN]
OneMaker ==
  /\ \A c, b \in Calls : mine[c] # 0 /\ mine[c] = mine[b] => c = b
  /\ \A c \in Calls : mine[c] # 0 <=>
       at[c] \in {"everyone", "logged_in", "hide", "transfer", "link", "delete"}
Closing(c) ==
  /\ note[mine[c]].there /\ note[mine[c]].version = got[c].version
  /\ at[c] # "everyone" => "everyone" \notin note[mine[c]].groups
  /\ at[c] \in {"hide", "transfer", "link"} => note[mine[c]].groups = {}
  /\ at[c] \in {"transfer", "link"} => ~ note[mine[c]].visible
Kept(link, version) ==
  link # 0 => /\ link \in 1 .. notes /\ Private(link) /\ note[link].version = version
              /\ \A c \in Calls : mine[c] # link
LinkInv ==
  /\ ClipsTypeOK /\ OneMaker
  /\ \A c \in Calls :
       /\ mine[c] # 0 /\ at[c] # "delete" => Closing(c)
       /\ Kept(got[c].link, got[c].version)
       /\ Kept(told[c], got[c].version) /\ (told[c] # 0 => at[c] = "done")
  /\ Kept(row.link, row.version)
  /\ \A n \in 1 .. notes : Private(n) \/ ~ note[n].there \/ n \in loose \/ \E c \in Calls : mine[c] = n
================================================================================
