---------------------------- MODULE WebSessionProps ----------------------------
(***************************************************************************)
(* What is checked of WebSession.                                          *)
(***************************************************************************)
EXTENDS WebSession

Heard(t) == {m \in wire : m.tab = t /\ m.heard}

(* The mutex of lib/api.ts: a tab awaits at most one refresh, and it       *)
(* awaits one exactly while refreshInFlight is set; no call waits for a    *)
(* refresh that is not there.                                              *)
OneRefresh ==
  \A t \in Tabs :
    /\ \A m, n \in Heard(t) : m = n
    /\ inFlight[t] <=> Heard(t) # {}
    /\ (\E c \in Calls : call[t][c].phase = "waiting") => inFlight[t]

(* A tab is refused for reuse of a refresh token (the alarm of auth.py)    *)
(* only if another tab or a logout spent it, or if the answer to its own   *)
(* exchange never reached it: by itself it spends a refresh token once.    *)
ReuseHasCause ==
  \A m \in wire :
    m.heard /\ m.phase = "reused" =>
      sessions[m.cookie].by # m.tab \/ m.cookie \in unheard

(* The user a tab shows is the owner of the token it sends, unless         *)
(* somebody signed in while the browser was in use, or /auth/me answered a *)
(* tab that was signed out: no refresh, no second tab, no reload and no    *)
(* signing out and in again mixes up two people.                           *)
IdentityKept ==
  ~crossed =>
    \A t \in Tabs : user[t] # Nobody /\ token[t] # None
                      => user[t] = sessions[token[t]].owner

(* The client implements the shared renewal: one at a time in each tab,    *)
(* joined by every call that is refused meanwhile, and all of them go on   *)
(* when it ends, which it does.                                            *)
Renewal == INSTANCE SharedRenewal WITH
  signed <- [t \in Tabs |-> token[t] # None],
  renewing <- [t \in Tabs |-> Heard(t) # {}],
  waiting <- [t \in Tabs |-> {c \in Calls : call[t][c].phase = "waiting"}]

SharesRenewal == Renewal!FairSpec

RenewalSafe == Renewal!Spec

-----------------------------------------------------------------------------
(* The inductive invariant behind them.                                    *)

(* The tokens that have been issued, and none.                             *)
Known == 0..Len(sessions)

KnownInv ==
  /\ Len(sessions) <= MaxSessions
  /\ cookie \in Known /\ stored.token \in Known
  /\ \A t \in Tabs : token[t] \in Known /\ leaving[t].cookie \in Known
  /\ \A t \in Tabs, c \in Calls :
       /\ call[t][c].token \in Known
       /\ call[t][c].phase # "idle" => call[t][c].token # None
  /\ \A m \in wire :
       /\ m.cookie \in Known /\ m.new \in Known
       /\ m.phase = "checked" => m.cookie # None
       /\ m.phase = "granted" => m.new # None

(* The last tab that wrote to localStorage still has what it wrote.        *)
StoredInv ==
  \/ stored = [token |-> None, user |-> Nobody]
  \/ \E t \in Tabs : stored = [token |-> token[t], user |-> user[t]]

(* All the tokens in use are of one person, whom the tabs show or nobody.  *)
Of(n, u) == n # None => sessions[n].owner = u

OnePerson(u) ==
  /\ Of(cookie, u) /\ Of(stored.token, u) /\ stored.user \in {Nobody, u}
  /\ \A t \in Tabs : Of(token[t], u) /\ user[t] \in {Nobody, u}
  /\ \A t \in Tabs, c \in Calls : Of(call[t][c].token, u)
  /\ \A m \in wire : Of(m.cookie, u) /\ Of(m.new, u)

PersonInv ==
  ~crossed => /\ \E u \in Users \cup {Nobody} : OnePerson(u)
              /\ \A t \in Tabs : (token[t] = None => user[t] = Nobody)
              /\ (stored.token = None => stored.user = Nobody)

(* The answer of an exchange nobody listens to does not arrive; only what  *)
(* was sent can have been spent before.                                    *)
DeafInv ==
  \A m \in wire : /\ ~m.heard /\ m.cookie # None => m.cookie \in unheard
                  /\ m.phase = "reused" => m.cookie # None

(* The refresh token an answer brings is known to nobody yet, and unspent. *)
UnseenInv ==
  \A m \in wire :
    m.phase = "granted" =>
      /\ sessions[m.new].by = Nothing
      /\ cookie # m.new
      /\ \A t \in Tabs : leaving[t].cookie # m.new
      /\ \A x \in wire : /\ x.cookie # m.new
                         /\ x.phase = "granted" /\ x.new = m.new => x = m

(* A tab that spent a refresh token is being answered, or the browser has  *)
(* another cookie by now.                                                  *)
SpentInv ==
  \A t \in Tabs, j \in DOMAIN sessions :
    sessions[j].by = t /\ j \notin unheard =>
      /\ \A m \in Heard(t) : m.cookie = j => m.phase = "granted"
      /\ cookie = j => \E m \in Heard(t) : m.cookie = j

=============================================================================
