------------------------------ MODULE WebSession ------------------------------
(***************************************************************************)
(* The session of one browser: the tabs of the web client, the refresh     *)
(* cookie they share, and the server that rotates it.                      *)
(*                                                                         *)
(* Each tab keeps an access token in memory (stores/auth.ts) and repeats a *)
(* call refused with 401 once, after one refresh its calls share           *)
(* (lib/api.ts).  The store is written through to localStorage, which a    *)
(* tab reads when it loads and never again.  A refresh spends the cookie's *)
(* refresh token and gets the next: the server reads the row first and     *)
(* commits later.  Access token n is the one issued with refresh token n.  *)
(* A step of a tab goes from one await to the next.                        *)
(***************************************************************************)
EXTENDS Naturals, Sequences, FiniteSets

CONSTANTS
  Tabs,         \* tabs of one browser
  Calls,        \* calls a tab may have under way at once
  Users,        \* the people who sign in with this browser
  MaxSessions,  \* bound: token pairs issued
  MaxLost       \* bound: refresh tokens of exchanges whose answer is lost

ASSUME BoundsAssumption == MaxSessions \in Nat /\ MaxLost \in Nat

None == 0        \* no token, no cookie
Nobody == "nobody"
Nothing == "nothing"   \* an unspent refresh token: revoked by nothing
TheLogout == "logout"

ASSUME NamesAssumption == Nothing \notin Tabs /\ TheLogout \notin Tabs

VARIABLES
  sessions,  \* server: per pair issued, whose it is and what revoked its refresh token
  expired,   \* access tokens whose exp has passed
  cookie,    \* browser: the refresh cookie
  stored,    \* browser: localStorage "sentinelbr-auth"
  token,     \* per tab: accessToken of the store
  user,      \* per tab: user of the store
  call,      \* per tab and call: what request<T> awaits
  inFlight,  \* per tab: refreshInFlight is set
  wire,      \* refresh exchanges under way
  leaving,   \* per tab: the logout request
  unheard,   \* history: refresh tokens sent in an exchange whose answer was lost
  crossed    \* history: somebody signed in while the browser was in use, or
             \* the answer of /auth/me came after its tab was signed out

serverVars == <<sessions, expired>>
tabVars == <<token, user, stored>>
vars == <<sessions, expired, cookie, stored, token, user, call,
          inFlight, wire, leaving, unheard, crossed>>

Ids == 1..MaxSessions
Store == [token : Ids \cup {None}, user : Users \cup {Nobody}]
CallState == [phase : {"idle", "sent", "waiting", "resent"},
              me : BOOLEAN, token : Ids \cup {None}]
Exchange == [tab : Tabs, cookie : Ids \cup {None}, heard : BOOLEAN,
             phase : {"sent", "checked", "granted", "denied", "reused"},
             new : Ids \cup {None}]
Exit == [phase : {"off", "sent", "done"}, cookie : Ids \cup {None}]

TypeOK ==
  /\ sessions \in Seq([owner : Users, by : Tabs \cup {Nothing, TheLogout}])
  /\ expired \in SUBSET Ids
  /\ cookie \in Ids \cup {None}
  /\ stored \in Store
  /\ token \in [Tabs -> Ids \cup {None}]
  /\ user \in [Tabs -> Users \cup {Nobody}]
  /\ call \in [Tabs -> [Calls -> CallState]]
  /\ inFlight \in [Tabs -> BOOLEAN]
  /\ wire \in SUBSET Exchange
  /\ leaving \in [Tabs -> Exit]
  /\ unheard \in SUBSET Ids
  /\ crossed \in BOOLEAN

Idle == [phase |-> "idle", me |-> FALSE, token |-> None]
Off == [phase |-> "off", cookie |-> None]

Init ==
  /\ sessions = <<>>
  /\ expired = {}
  /\ cookie = None
  /\ stored = [token |-> None, user |-> Nobody]
  /\ token = [t \in Tabs |-> None]
  /\ user = [t \in Tabs |-> Nobody]
  /\ call = [t \in Tabs |-> [c \in Calls |-> Idle]]
  /\ inFlight = [t \in Tabs |-> FALSE]
  /\ wire = {}
  /\ leaving = [t \in Tabs |-> Off]
  /\ unheard = {}
  /\ crossed = FALSE

-----------------------------------------------------------------------------
(* stores/auth.ts: every setter writes the whole state through.            *)

Put(t, tok, usr) ==
  /\ token' = [token EXCEPT ![t] = tok]
  /\ user' = [user EXCEPT ![t] = usr]
  /\ stored' = [token |-> tok, user |-> usr]

SetAccessToken(t, tok) == Put(t, tok, user[t])

SetUser(t, usr) == Put(t, token[t], usr)

(* Mutation: clearAuth leaves the user.                                    *)
ClearToken(t) == Put(t, None, user[t])

ClearAuth(t) == Put(t, None, Nobody)

(* The server issues a token pair; the answer's Set-Cookie comes with it.  *)
Issued == Len(sessions) + 1

CanIssue == Len(sessions) < MaxSessions

Fresh(u) == [owner |-> u, by |-> Nothing]

Revoked(j) == sessions[j].by # Nothing

Quiet ==
  /\ wire = {}
  /\ \A t \in Tabs : /\ token[t] = None
                     /\ leaving[t] = Off
                     /\ \A c \in Calls : call[t][c] = Idle

-----------------------------------------------------------------------------
(* LoginPage, there while the tab has no token.  That the form waits for   *)
(* its answer is left out: nothing depends on it but its own button.       *)

(* The token is stored, and /auth/me asked for with it, as call c.         *)
LoginOk(t, c, u) ==
  /\ token[t] = None
  /\ CanIssue
  /\ call[t][c] = Idle
  /\ sessions' = Append(sessions, Fresh(u))
  /\ cookie' = Issued
  /\ SetAccessToken(t, Issued)
  /\ call' = [call EXCEPT ![t][c] = [phase |-> "sent", me |-> TRUE, token |-> Issued]]
  /\ crossed' = (crossed \/ ~Quiet)
  /\ UNCHANGED <<expired, inFlight, wire, leaving, unheard>>

-----------------------------------------------------------------------------
(* request<T> and requestBlob.                                             *)

SetCall(t, c, phase, tok) ==
  call' = [call EXCEPT ![t][c] = [phase |-> phase, me |-> @.me, token |-> tok]]

(* The pages of App are mounted only while there is a token.               *)
ProtectedRoute(t) == token[t] # None

StartCall(t, c) ==
  /\ ProtectedRoute(t)
  /\ call[t][c] = Idle
  /\ SetCall(t, c, "sent", token[t])
  /\ UNCHANGED <<serverVars, cookie, tabVars, inFlight, wire, leaving,
                 unheard, crossed>>

(* An answer; the one of /auth/me is stored as the user.                   *)
CallOk(t, c) ==
  /\ call[t][c].phase \in {"sent", "resent"}
  /\ call[t][c].token \notin expired
  /\ IF call[t][c].me THEN SetUser(t, sessions[call[t][c].token].owner)
                      ELSE UNCHANGED tabVars
  /\ call' = [call EXCEPT ![t][c] = Idle]
  /\ crossed' = (crossed \/ (call[t][c].me /\ token[t] = None))
  /\ UNCHANGED <<serverVars, cookie, inFlight, wire, leaving, unheard>>

(* No answer, another status, or a second 401.                             *)
CallFails(t, c) ==
  /\ call[t][c].phase \in {"sent", "resent"}
  /\ call' = [call EXCEPT ![t][c] = Idle]
  /\ UNCHANGED <<serverVars, cookie, tabVars, inFlight, wire, leaving,
                 unheard, crossed>>

(* refreshAccessToken sends the cookie the browser has at that moment.     *)
Refresh(t) ==
  [tab |-> t, cookie |-> cookie, heard |-> TRUE, phase |-> "sent", new |-> None]

(* Mutation: every refused call refreshes for itself.                      *)
RefreshAnyway(t) ==
  /\ inFlight' = [inFlight EXCEPT ![t] = TRUE]
  /\ wire' = wire \cup {Refresh(t)}

(* getOrRefreshToken: join the refresh under way, or start it.             *)
GetOrRefreshToken(t) ==
  /\ inFlight' = [inFlight EXCEPT ![t] = TRUE]
  /\ wire' = IF inFlight[t] THEN wire ELSE wire \cup {Refresh(t)}

(* 401: the call waits for a refresh.                                      *)
CallRefused(t, c) ==
  /\ call[t][c].phase = "sent"
  /\ call[t][c].token \in expired
  /\ SetCall(t, c, "waiting", call[t][c].token)
  /\ GetOrRefreshToken(t)
  /\ UNCHANGED <<serverVars, cookie, tabVars, leaving, unheard, crossed>>

(* The promise of the refresh is settled: its mutex is free (finally), and *)
(* those who wait repeat their request, or throw.                          *)
Resent(k, tok) ==
  IF k.phase = "waiting" THEN [k EXCEPT !.phase = "resent", !.token = tok] ELSE k

Thrown(k) == IF k.phase = "waiting" THEN Idle ELSE k

Settle(m, Woken(_)) ==
  /\ inFlight' = [inFlight EXCEPT ![m.tab] = FALSE]
  /\ call' = [call EXCEPT ![m.tab] = [c \in Calls |-> Woken(@[c])]]

(* The Set-Cookie of the answer; mutation: it is not there.                *)
KeepCookie(m) == cookie' = cookie

TakeCookie(m) == cookie' = m.new

(* ok: the browser takes the new cookie, the tab the new token.            *)
RefreshOk(m) ==
  /\ m.heard /\ m.phase = "granted"
  /\ wire' = wire \ {m}
  /\ TakeCookie(m)
  /\ SetAccessToken(m.tab, m.new)
  /\ Settle(m, LAMBDA k : Resent(k, m.new))
  /\ UNCHANGED <<serverVars, leaving, unheard, crossed>>

(* Not ok: the tab is signed out.                                          *)
RefreshDenied(m) ==
  /\ m.heard /\ m.phase \in {"denied", "reused"}
  /\ wire' = wire \ {m}
  /\ ClearAuth(m.tab)
  /\ Settle(m, Thrown)
  /\ UNCHANGED <<serverVars, cookie, leaving, unheard, crossed>>

(* An exchange nobody listens to goes on at the server, if it got there.   *)
Drop(ms) ==
  /\ wire' = (wire \ ms) \cup
       {[m EXCEPT !.heard = FALSE] : m \in {x \in ms : x.phase \in {"sent", "checked"}}}
  /\ unheard' = unheard \cup ({m.cookie : m \in ms} \ {None})
  /\ ms = {} \/ Cardinality({m \in wire : ~m.heard}) + Cardinality(unheard) < MaxLost

(* catch: no answer signs the tab out as well.                             *)
RefreshLost(m) ==
  /\ m.heard
  /\ Drop({m})
  /\ ClearAuth(m.tab)
  /\ Settle(m, Thrown)
  /\ UNCHANGED <<serverVars, cookie, leaving, crossed>>

-----------------------------------------------------------------------------
(* The server's /auth/refresh.                                             *)

Answer(m, phase, new) ==
  wire' = (wire \ {m}) \cup
            (IF m.heard THEN {[m EXCEPT !.phase = phase, !.new = new]} ELSE {})

Verdict(m) == CASE m.cookie = None -> "denied"
                [] m.cookie # None /\ Revoked(m.cookie) -> "reused"
                [] OTHER -> "checked"

(* It reads revoked_at.                                                    *)
ServerReads(m) ==
  /\ m.phase = "sent"
  /\ IF Verdict(m) = "checked"
     THEN wire' = (wire \ {m}) \cup {[m EXCEPT !.phase = "checked"]}
     ELSE Answer(m, Verdict(m), None)
  /\ UNCHANGED <<serverVars, cookie, tabVars, call, inFlight, leaving,
                 unheard, crossed>>

Revoke(j, by) == [sessions EXCEPT ![j].by = by]

(* It commits the revocation and the next refresh token.                   *)
ServerCommits(m) ==
  /\ m.phase = "checked"
  /\ CanIssue
  /\ sessions' = Append(Revoke(m.cookie, m.tab), Fresh(sessions[m.cookie].owner))
  /\ Answer(m, "granted", Issued)
  /\ UNCHANGED <<expired, cookie, tabVars, call, inFlight, leaving,
                 unheard, crossed>>

(* The user is no longer active, the rate limit is hit, an error.          *)
ServerRefuses(m) ==
  /\ m.phase = "checked"
  /\ Answer(m, "denied", None)
  /\ UNCHANGED <<serverVars, cookie, tabVars, call, inFlight, leaving,
                 unheard, crossed>>

(* (Of a token nobody holds it makes no difference.)                       *)
Expire(n) ==
  /\ n \in DOMAIN sessions
  /\ n \notin expired
  /\ \E t \in Tabs : token[t] = n \/ \E c \in Calls : call[t][c].token = n
  /\ expired' = expired \cup {n}
  /\ UNCHANGED <<sessions, cookie, tabVars, call, inFlight, wire,
                 leaving, unheard, crossed>>

-----------------------------------------------------------------------------
(* logout(): the request, then clearAuth whatever became of it.            *)

Logout(t) ==
  /\ ProtectedRoute(t)
  /\ leaving[t] = Off
  /\ leaving' = [leaving EXCEPT ![t] = [phase |-> "sent", cookie |-> cookie]]
  /\ UNCHANGED <<serverVars, cookie, tabVars, call, inFlight, wire,
                 unheard, crossed>>

(* The server revokes the refresh token it was sent (_revoke_jti).         *)
ServerLogsOut(t) ==
  /\ leaving[t].phase = "sent"
  /\ leaving' = [leaving EXCEPT ![t].phase = "done"]
  /\ sessions' = IF leaving[t].cookie # None /\ ~Revoked(leaving[t].cookie)
                 THEN Revoke(leaving[t].cookie, TheLogout)
                 ELSE sessions
  /\ UNCHANGED <<expired, cookie, tabVars, call, inFlight, wire, unheard,
                 crossed>>

LogoutDone(t) ==
  /\ leaving[t].phase = "done"
  /\ leaving' = [leaving EXCEPT ![t] = Off]
  /\ cookie' = None
  /\ ClearAuth(t)
  /\ UNCHANGED <<serverVars, call, inFlight, wire, unheard, crossed>>

LogoutLost(t) ==
  /\ leaving[t].phase # "off"
  /\ leaving' = [leaving EXCEPT ![t] = Off]
  /\ ClearAuth(t)
  /\ UNCHANGED <<serverVars, cookie, call, inFlight, wire, unheard, crossed>>

-----------------------------------------------------------------------------
(* The tab is loaded again: what it awaited is forgotten, and the store    *)
(* starts from localStorage.                                               *)
Reload(t) ==
  /\ token' = [token EXCEPT ![t] = stored.token]
  /\ user' = [user EXCEPT ![t] = stored.user]
  /\ call' = [call EXCEPT ![t] = [c \in Calls |-> Idle]]
  /\ inFlight' = [inFlight EXCEPT ![t] = FALSE]
  /\ Drop({m \in wire : m.tab = t /\ m.heard})
  /\ leaving' = [leaving EXCEPT ![t] = Off]
  /\ UNCHANGED <<serverVars, cookie, stored, crossed>>

RefreshEnds(t) ==
  \E m \in wire : m.tab = t /\ (RefreshOk(m) \/ RefreshDenied(m) \/ RefreshLost(m))

ServerAnswers ==
  \E m \in wire : ServerReads(m) \/ ServerCommits(m) \/ ServerRefuses(m)

CallEnds(t, c) == CallOk(t, c) \/ CallFails(t, c) \/ CallRefused(t, c)

Next ==
  \/ \E t \in Tabs :
       \/ \E c \in Calls, u \in Users : LoginOk(t, c, u)
       \/ \E c \in Calls : StartCall(t, c) \/ CallEnds(t, c)
       \/ RefreshEnds(t)
       \/ Logout(t) \/ ServerLogsOut(t) \/ LogoutDone(t) \/ LogoutLost(t)
       \/ Reload(t)
  \/ ServerAnswers
  \/ \E n \in Ids : Expire(n)

Spec == Init /\ [][Next]_vars

(* A fetch is answered or fails: the server answers, the answer arrives.   *)
FairSpec ==
  /\ Spec
  /\ WF_vars(ServerAnswers)
  /\ \A t \in Tabs : WF_vars(RefreshEnds(t))
  /\ \A t \in Tabs, c \in Calls : WF_vars(CallEnds(t, c))

=============================================================================
