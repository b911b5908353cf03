----------------------------- MODULE UserSessions -----------------------------
(***************************************************************************)
(* The sessions of a user's device: services/user_session, the three requests *)
(* of features/review_meeting/http_adapter, and the client that keeps the      *)
(* tokens (Android: ApiClient, SecureTokenStorage).                          *)
(*                                                                          *)
(* A login makes a family of tokens; a refresh replaces the pair of access    *)
(* and refresh token by another one, and revokes the family if it is asked     *)
(* with a pair that was replaced already.  The server reads the token before   *)
(* the transaction that replaces it.  The client refreshes under a mutex,      *)
(* gives up when no answer comes, and may log in or out meanwhile.            *)
(* Departures: one device, logged in with "remember me"; an expired refresh    *)
(* token is one that was revoked; the meeting's own tokens are left out.      *)
(***************************************************************************)
EXTENDS Naturals, FiniteSets

CONSTANTS Requests,   \* refreshes that the server may handle side by side
          MaxPairs,   \* bound: pairs of tokens
          NoRequest

VARIABLES issued,     \* pairs of tokens so far; a family is named by its first pair
          family,
          access,     \* pairs whose access token is valid
          refresh,    \* pairs whose refresh token is valid
          request,    \* what the server does with each refresh: none, sent, read, done, refused
          asked,      \* the pair each refresh was asked with
          given,      \* the pair each refresh has made
          current,    \* the client: its pair and the family it belongs to, or LoggedOut
          waits,      \* the refresh the client waits for
          leaving,    \* the family that a logout under way has revoked
          raced,      \* history: families refreshed twice at a time, or while a logout came
          lost        \* history: families for which an answer never came

serverVars == <<issued, family, access, refresh>>
requestVars == <<request, asked, given>>
vars == <<serverVars, requestVars, current, waits, leaving, raced, lost>>

Pairs == 1 .. MaxPairs
Nothing == 0
LoggedOut == [family |-> Nothing, pair |-> Nothing]
Family(f) == {p \in 1 .. issued : family[p] = f}

Init ==
  /\ issued = 0 /\ family = [p \in Pairs |-> Nothing] /\ access = {} /\ refresh = {}
  /\ request = [r \in Requests |-> "none"]
  /\ asked = [r \in Requests |-> Nothing] /\ given = [r \in Requests |-> Nothing]
  /\ current = LoggedOut /\ waits = NoRequest /\ leaving = Nothing
  /\ raced = {} /\ lost = {}

-------------------------------------------------------------------------------
(* The server.                                                              *)

Issue(f) ==
  /\ issued < MaxPairs /\ issued' = issued + 1
  /\ family' = [family EXCEPT ![issued + 1] = f]
Revoke(f) == access' = access \ Family(f) /\ refresh' = refresh \ Family(f)

(* handle_auth: create_session; the client replaces what it had. *)
Login ==
  /\ Issue(issued + 1)
  /\ access' = access \cup {issued + 1} /\ refresh' = refresh \cup {issued + 1}
  /\ current' = [family |-> issued + 1, pair |-> issued + 1]
  /\ UNCHANGED <<requestVars, waits, leaving, raced, lost>>

(* refresh_session reads the row; a token that was used before ends the family *)
(* at once.                                                                 *)
ReadToken(r) ==
  /\ request[r] = "sent"
  /\ \/ /\ asked[r] \in refresh /\ request' = [request EXCEPT ![r] = "read"]
        /\ UNCHANGED <<access, refresh>>
     \/ /\ asked[r] \notin refresh /\ request' = [request EXCEPT ![r] = "refused"]
        /\ Revoke(family[asked[r]])
  /\ UNCHANGED <<issued, family, asked, given, current, waits, leaving, raced, lost>>

Rotated(r, ended) ==
  LET f == family[asked[r]]
  IN  /\ request[r] = "read" /\ request' = [request EXCEPT ![r] = "done"]
      /\ Issue(f) /\ given' = [given EXCEPT ![r] = issued + 1]
      /\ refresh' = (refresh \ {asked[r]}) \cup {issued + 1}
      /\ access' = (access \ ended) \cup {issued + 1}
      /\ raced' = IF asked[r] \in refresh THEN raced ELSE raced \cup {f}
      /\ UNCHANGED <<asked, current, waits, leaving, lost>>
RotateOne(r) == Rotated(r, {asked[r]})
(* One transaction: this refresh token and all access tokens of the family    *)
(* are revoked, and a pair is made; whether the token is still valid is not    *)
(* asked again.                                                             *)
Rotate(r) == Rotated(r, Family(family[asked[r]]))

-------------------------------------------------------------------------------
(* The client.                                                              *)

(* handleUnauthorized, for the pair it holds: others are dropped, or sent     *)
(* again with the newer token.                                              *)
Refresh(r) ==
  /\ waits = NoRequest /\ current # LoggedOut /\ request[r] = "none"
  /\ waits' = r /\ request' = [request EXCEPT ![r] = "sent"]
  /\ asked' = [asked EXCEPT ![r] = current.pair]
  /\ UNCHANGED <<serverVars, given, current, leaving, raced, lost>>
Free(r) ==
  /\ request' = [request EXCEPT ![r] = "none"]
  /\ asked' = [asked EXCEPT ![r] = Nothing] /\ given' = [given EXCEPT ![r] = Nothing]
(* updateTokens: only into the session that asked. *)
Updated(r) ==
  /\ waits = r /\ request[r] = "done" /\ waits' = NoRequest /\ Free(r)
  /\ current' = IF current.family = family[asked[r]] THEN [current EXCEPT !.pair = given[r]] ELSE current
  /\ UNCHANGED <<serverVars, leaving, raced, lost>>
(* clearSession: only the session and the token that were refused. *)
Cleared(r) ==
  /\ waits = r /\ request[r] = "refused" /\ waits' = NoRequest /\ Free(r)
  /\ current' = IF current = [family |-> family[asked[r]], pair |-> asked[r]]
                THEN LoggedOut ELSE current
  /\ UNCHANGED <<serverVars, leaving, raced, lost>>
(* No answer: the tokens are kept, while the server may still be at it. *)
GiveUp(r) ==
  /\ waits = r /\ waits' = NoRequest /\ lost' = lost \cup {family[asked[r]]}
  /\ UNCHANGED <<serverVars, requestVars, current, leaving, raced>>
Unheard(r) ==
  /\ waits # r /\ request[r] \in {"done", "refused"} /\ Free(r)
  /\ UNCHANGED <<serverVars, current, waits, leaving, raced, lost>>

(* logout: the server revokes the family of the access token, if the request  *)
(* arrives; then the client forgets it.                                     *)
Logout ==
  /\ current # LoggedOut /\ leaving = Nothing /\ leaving' = current.family
  /\ \/ Revoke(current.family) /\ UNCHANGED lost
     \/ lost' = lost \cup {current.family} /\ UNCHANGED <<access, refresh>>
  /\ UNCHANGED <<issued, family, requestVars, current, waits, raced>>
Forget ==
  /\ leaving # Nothing /\ leaving' = Nothing
  /\ current' = IF current.family = leaving THEN LoggedOut ELSE current
  /\ UNCHANGED <<serverVars, requestVars, waits, raced, lost>>

Next ==
  \/ Login \/ Logout \/ Forget
  \/ \E r \in Requests :
       \/ ReadToken(r) \/ Rotate(r)
       \/ Refresh(r) \/ Updated(r) \/ Cleared(r) \/ GiveUp(r) \/ Unheard(r)
Spec == Init /\ [][Next]_vars

-------------------------------------------------------------------------------
(* A family has one valid access token at most, however refreshes overlap,    *)
(* and one valid refresh token unless they do; the client never holds a pair   *)
(* of another family than it is logged in to; and as long as every answer     *)
(* reached it and it is not leaving, what it holds can be refreshed.          *)
TokensAgree ==
  /\ \A f \in 1 .. issued :
       /\ Cardinality(access \cap Family(f)) <= 1
       /\ f \notin raced => Cardinality(refresh \cap Family(f)) <= 1
  /\ current # LoggedOut =>
       /\ current.family = family[current.pair]
       /\ waits # NoRequest \/ leaving # Nothing \/ current.family \in lost
            \/ current.pair \in refresh
-------------------------------------------------------------------------------
(* What keeps it so.  Pairs are named in turn, and those of a family go from    *)
(* its first; the server handles what the client waits for, or it was lost; and *)
(* what the client holds, or is about to get, is valid but for the families     *)
(* that were lost or are being left.                                         *)
Issued == 1 .. issued
UsersTypeOK ==
  /\ issued \in 0 .. MaxPairs /\ family \in [Pairs -> 0 .. MaxPairs] /\ access \cup refresh \subseteq Issued
  /\ \A p \in Issued : family[p] \in 1 .. p
  /\ request \in [Requests -> {"none", "sent", "read", "done", "refused"}]
  /\ asked \in [Requests -> Issued \cup {Nothing}] /\ given \in [Requests -> Issued \cup {Nothing}]
  /\ waits \in Requests \cup {NoRequest} /\ leaving \in Issued \cup {Nothing}
Alone(valid, f) == \A p, q \in valid \cap Family(f) : p = q
OneOfEach == \A f \in Issued : Alone(access, f) /\ (f \notin raced => Alone(refresh, f))
About(r) == family[asked[r]]
Handled(r) ==
  request[r] # "none" =>
    /\ asked[r] # Nothing /\ (waits # r => About(r) \in lost)
    /\ request[r] = "done" => given[r] # Nothing /\ family[given[r]] = About(r)
Good(p) == leaving = current.family \/ current.family \in lost \/ p \in refresh
Holds ==
  current # LoggedOut =>
    /\ current.pair \in Issued /\ current = [family |-> family[current.pair], pair |-> current.pair]
    /\ waits = NoRequest \/ About(waits) # current.family => Good(current.pair)
    /\ waits # NoRequest /\ About(waits) = current.family =>
         asked[waits] = current.pair /\ (request[waits] = "done" => Good(given[waits]))
PairsInv ==
  /\ UsersTypeOK /\ OneOfEach /\ Holds
  /\ (waits # NoRequest => request[waits] # "none") /\ \A r \in Requests : Handled(r)
===============================================================================
