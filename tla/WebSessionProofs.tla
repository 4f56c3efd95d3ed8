--------------------------- MODULE WebSessionProofs ---------------------------
(***************************************************************************)
(* What a browser's tabs keep, for any tabs, calls and people, however     *)
(* many tokens are issued and answers lost.                                *)
(***************************************************************************)
EXTENDS WebSessionProps, Integers, TLAPS

Session == [owner : Users, by : Tabs \cup {Nothing, TheLogout}]

-----------------------------------------------------------------------------
(* The table of the server.                                                *)

LEMMA KnownIds ==
  ASSUME TypeOK, KnownInv
  PROVE  /\ Len(sessions) \in Nat
         /\ DOMAIN sessions = 1..Len(sessions)
         /\ Known \subseteq Ids \cup {None}
         /\ None \in Known
         /\ \A n \in Known : n # None => n \in 1..Len(sessions) /\ sessions[n] \in Session
         /\ sessions \in Seq(Session)
<1>1. sessions \in Seq(Session) /\ Len(sessions) \in Nat /\ DOMAIN sessions = 1..Len(sessions)
  BY DEF TypeOK, Session
<1> QED
  BY <1>1, BoundsAssumption DEF KnownInv, Known, Ids, None

LEMMA Revoking ==
  ASSUME TypeOK, KnownInv, NEW j \in 1..Len(sessions),
         NEW by \in Tabs \cup {Nothing, TheLogout}
  PROVE  /\ Revoke(j, by) \in Seq(Session)
         /\ Len(Revoke(j, by)) = Len(sessions)
         /\ \A n \in 1..Len(sessions) : Revoke(j, by)[n].owner = sessions[n].owner
         /\ Revoke(j, by)[j].by = by
         /\ \A n \in 1..Len(sessions) : n # j => Revoke(j, by)[n] = sessions[n]
<1>1. /\ sessions \in Seq(Session) /\ Len(sessions) \in Nat
      /\ DOMAIN sessions = 1..Len(sessions)
  BY KnownIds
<1>2. \A n \in 1..Len(sessions) : sessions[n] \in Session
  BY <1>1
<1>3. [sessions[j] EXCEPT !.by = by] \in Session
  BY <1>2 DEF Session
<1>4. /\ [sessions[j] EXCEPT !.by = by].owner = sessions[j].owner
      /\ [sessions[j] EXCEPT !.by = by].by = by
  BY <1>2 DEF Session
<1>5. Revoke(j, by) = [sessions EXCEPT ![j] = [sessions[j] EXCEPT !.by = by]]
  BY DEF Revoke
<1> QED
  BY <1>1, <1>2, <1>3, <1>4, <1>5

LEMMA Issuing ==
  ASSUME TypeOK, KnownInv, CanIssue, NEW s \in Seq(Session), Len(s) = Len(sessions),
         NEW e \in Session, sessions' = Append(s, e)
  PROVE  /\ sessions' \in Seq(Session)
         /\ Len(sessions') = Len(sessions) + 1 /\ Len(sessions') <= MaxSessions
         /\ Known \subseteq Known'
         /\ Issued \in Ids /\ Issued \in Known' /\ Issued # None
         /\ sessions'[Issued] = e
         /\ \A n \in 1..Len(sessions) : sessions'[n] = s[n]
<1>1. Len(sessions) \in Nat /\ Len(sessions) < MaxSessions
  BY KnownIds DEF CanIssue
<1>2. /\ sessions' \in Seq(Session) /\ Len(sessions') = Len(s) + 1
      /\ sessions'[Len(s) + 1] = e
      /\ \A n \in 1..Len(s) : sessions'[n] = s[n]
  OBVIOUS
<1> QED
  BY <1>1, <1>2, BoundsAssumption DEF Issued, Known, Ids, None

-----------------------------------------------------------------------------
(* The store of a tab, its calls and its exchanges.                        *)

LEMMA PutType ==
  ASSUME TypeOK, NEW t \in Tabs, NEW tok \in Ids \cup {None},
         NEW usr \in Users \cup {Nobody}, Put(t, tok, usr)
  PROVE  /\ token' \in [Tabs -> Ids \cup {None}]
         /\ user' \in [Tabs -> Users \cup {Nobody}]
         /\ stored' \in Store /\ stored' = [token |-> tok, user |-> usr]
         /\ token'[t] = tok /\ user'[t] = usr
         /\ \A s \in Tabs : s # t => token'[s] = token[s] /\ user'[s] = user[s]
  BY DEF TypeOK, Put, Store

LEMMA CallType ==
  ASSUME TypeOK, NEW t \in Tabs, NEW c \in Calls, NEW k \in CallState,
         call' = [call EXCEPT ![t][c] = k]
  PROVE  /\ call' \in [Tabs -> [Calls -> CallState]]
         /\ call'[t][c] = k
         /\ \A s \in Tabs, d \in Calls : s # t \/ d # c => call'[s][d] = call[s][d]
  BY DEF TypeOK

LEMMA IdleType == Idle \in CallState /\ Idle.phase = "idle" /\ Idle.token = None
  BY DEF Idle, CallState

(* A call that goes on keeps what it is about.                             *)
LEMMA SetCallType ==
  ASSUME TypeOK, NEW t \in Tabs, NEW c \in Calls, NEW tok \in Ids \cup {None},
         NEW phase \in {"idle", "sent", "waiting", "resent"}, SetCall(t, c, phase, tok)
  PROVE  /\ call' \in [Tabs -> [Calls -> CallState]]
         /\ call'[t][c].phase = phase /\ call'[t][c].token = tok
         /\ \A s \in Tabs, d \in Calls : s # t \/ d # c => call'[s][d] = call[s][d]
<1> DEFINE k == [phase |-> phase, me |-> call[t][c].me, token |-> tok]
<1>1. call[t][c] \in CallState
  BY DEF TypeOK
<1>2. k \in CallState /\ k.phase = phase /\ k.token = tok
  BY <1>1 DEF CallState
<1>3. call' = [call EXCEPT ![t][c] = k]
  BY DEF SetCall
<1> HIDE DEF k
<1> QED
  BY <1>2, <1>3 DEF TypeOK

LEMMA ExchangeType ==
  ASSUME TypeOK, KnownInv, NEW m \in wire
  PROVE  /\ m \in Exchange
         /\ m.tab \in Tabs /\ m.cookie \in Ids \cup {None} /\ m.heard \in BOOLEAN
         /\ m.new \in Ids \cup {None}
  BY DEF TypeOK, Exchange

LEMMA RefreshType ==
  ASSUME TypeOK, NEW t \in Tabs
  PROVE  /\ Refresh(t) \in Exchange /\ Refresh(t).tab = t /\ Refresh(t).heard
         /\ Refresh(t).cookie = cookie /\ Refresh(t).new = None
         /\ Refresh(t).phase = "sent"
  BY DEF TypeOK, Refresh, Exchange

(* A refresh that ends wakes the calls of its tab that wait for it.        *)
Woken(t, tok) ==
  /\ inFlight' = [inFlight EXCEPT ![t] = FALSE]
  /\ call' \in [Tabs -> [Calls -> CallState]]
  /\ \A s \in Tabs, d \in Calls : s # t => call'[s][d] = call[s][d]
  /\ \A d \in Calls :
       /\ call'[t][d].phase # "waiting"
       /\ \/ call'[t][d] = call[t][d] \/ call'[t][d] = Idle
          \/ call'[t][d].phase = "resent" /\ call'[t][d].token = tok

LEMMA Resending ==
  ASSUME TypeOK, KnownInv, NEW m \in wire, m.new # None,
         Settle(m, LAMBDA k : Resent(k, m.new))
  PROVE  Woken(m.tab, m.new)
<1>1. m.tab \in Tabs /\ m.new \in Ids \cup {None}
  BY ExchangeType
<1>2. /\ inFlight' = [inFlight EXCEPT ![m.tab] = FALSE]
      /\ call' = [call EXCEPT ![m.tab] = [d \in Calls |-> Resent(call[m.tab][d], m.new)]]
  BY DEF Settle
<1>3. ASSUME NEW d \in Calls
      PROVE  /\ Resent(call[m.tab][d], m.new) \in CallState
             /\ Resent(call[m.tab][d], m.new).phase # "waiting"
             /\ \/ Resent(call[m.tab][d], m.new) = call[m.tab][d]
                \/ /\ Resent(call[m.tab][d], m.new).phase = "resent"
                   /\ Resent(call[m.tab][d], m.new).token = m.new
  <2>1. call[m.tab][d] \in CallState
    BY <1>1 DEF TypeOK
  <2>2. CASE call[m.tab][d].phase = "waiting"
    BY <2>1, <2>2, <1>1 DEF Resent, CallState
  <2>3. CASE call[m.tab][d].phase # "waiting"
    BY <2>1, <2>3 DEF Resent
  <2> QED
    BY <2>2, <2>3
<1> DEFINE ks == [d \in Calls |-> Resent(call[m.tab][d], m.new)]
<1>4. ks \in [Calls -> CallState] /\ \A d \in Calls : ks[d] = Resent(call[m.tab][d], m.new)
  BY <1>3
<1>5. call' = [call EXCEPT ![m.tab] = ks]
  BY <1>2
<1> HIDE DEF ks
<1>6. /\ call' \in [Tabs -> [Calls -> CallState]]
      /\ call'[m.tab] = ks
      /\ \A s \in Tabs : s # m.tab => call'[s] = call[s]
  BY <1>1, <1>4, <1>5 DEF TypeOK
<1> QED
  BY <1>2, <1>3, <1>4, <1>6 DEF Woken

LEMMA Throwing ==
  ASSUME TypeOK, KnownInv, NEW m \in wire, NEW tok, Settle(m, Thrown)
  PROVE  /\ Woken(m.tab, tok)
         /\ \A s \in Tabs, d \in Calls : call'[s][d] \in {call[s][d], Idle}
<1>1. m.tab \in Tabs
  BY ExchangeType
<1>2. /\ inFlight' = [inFlight EXCEPT ![m.tab] = FALSE]
      /\ call' = [call EXCEPT ![m.tab] = [d \in Calls |-> Thrown(call[m.tab][d])]]
  BY DEF Settle
<1>3. ASSUME NEW d \in Calls
      PROVE  /\ Thrown(call[m.tab][d]) \in CallState
             /\ Thrown(call[m.tab][d]).phase # "waiting"
             /\ Thrown(call[m.tab][d]) \in {call[m.tab][d], Idle}
  <2>1. call[m.tab][d] \in CallState
    BY <1>1 DEF TypeOK
  <2> QED
    BY <2>1, IdleType DEF Thrown
<1> DEFINE ks == [d \in Calls |-> Thrown(call[m.tab][d])]
<1>4. ks \in [Calls -> CallState] /\ \A d \in Calls : ks[d] = Thrown(call[m.tab][d])
  BY <1>3
<1>5. call' = [call EXCEPT ![m.tab] = ks]
  BY <1>2
<1> HIDE DEF ks
<1>6. /\ call' \in [Tabs -> [Calls -> CallState]]
      /\ call'[m.tab] = ks
      /\ \A s \in Tabs : s # m.tab => call'[s] = call[s]
  BY <1>1, <1>4, <1>5 DEF TypeOK
<1> QED
  BY <1>2, <1>3, <1>4, <1>6 DEF Woken

(* What the server makes of an exchange.                                   *)
Goes(m, x) ==
  /\ x \in Exchange /\ x.tab = m.tab /\ x.cookie = m.cookie /\ x.heard = m.heard

LEMMA Answering ==
  ASSUME TypeOK, KnownInv, NEW m \in wire,
         NEW phase \in {"granted", "denied", "reused"}, NEW new \in Ids \cup {None},
         Answer(m, phase, new)
  PROVE  /\ wire' \in SUBSET Exchange
         /\ wire \ {m} \subseteq wire'
         /\ \A x \in wire' : \/ x \in wire \ {m}
                             \/ /\ m.heard /\ Goes(m, x)
                                /\ x.phase = phase /\ x.new = new
         /\ m.heard => \E x \in wire' : Goes(m, x)
<1> DEFINE y == [m EXCEPT !.phase = phase, !.new = new]
<1>1. m \in Exchange /\ wire \in SUBSET Exchange
  BY DEF TypeOK
<1>2. Goes(m, y) /\ y.phase = phase /\ y.new = new
  BY <1>1 DEF Goes, Exchange
<1>3. wire' = (wire \ {m}) \cup (IF m.heard THEN {y} ELSE {})
  BY DEF Answer
<1> HIDE DEF y
<1> QED
  BY <1>1, <1>2, <1>3 DEF Goes

LEMMA Checking ==
  ASSUME TypeOK, KnownInv, NEW m \in wire,
         wire' = (wire \ {m}) \cup {[m EXCEPT !.phase = "checked"]}
  PROVE  /\ wire' \in SUBSET Exchange
         /\ wire \ {m} \subseteq wire'
         /\ \A x \in wire' : \/ x \in wire \ {m}
                             \/ Goes(m, x) /\ x.phase = "checked" /\ x.new = m.new
         /\ m.heard => \E x \in wire' : Goes(m, x)
<1> DEFINE y == [m EXCEPT !.phase = "checked"]
<1>1. m \in Exchange /\ wire \in SUBSET Exchange
  BY DEF TypeOK
<1>2. Goes(m, y) /\ y.phase = "checked" /\ y.new = m.new
  BY <1>1 DEF Goes, Exchange
<1>3. wire' = (wire \ {m}) \cup {y}
  OBVIOUS
<1> HIDE DEF y
<1> QED
  BY <1>1, <1>2, <1>3 DEF Goes

LEMMA Dropping ==
  ASSUME TypeOK, KnownInv, NEW ms \in SUBSET wire, Drop(ms)
  PROVE  /\ wire' \in SUBSET Exchange
         /\ wire \ ms \subseteq wire'
         /\ \A x \in wire' :
              \/ x \in wire \ ms
              \/ /\ ~x.heard
                 /\ \E m \in ms : /\ x.cookie = m.cookie /\ x.new = m.new
                                  /\ x.phase = m.phase
                 /\ x.phase \in {"sent", "checked"}
         /\ unheard' \in SUBSET Ids
         /\ unheard \subseteq unheard'
         /\ \A m \in ms : m.cookie # None => m.cookie \in unheard'
<1> DEFINE Deaf == {[m EXCEPT !.heard = FALSE] : m \in {y \in ms : y.phase \in {"sent", "checked"}}}
<1>1. \A m \in wire : m \in Exchange /\ m.cookie \in Ids \cup {None}
  BY DEF TypeOK, Exchange
<1>2. \A m \in wire : /\ [m EXCEPT !.heard = FALSE] \in Exchange
                      /\ ~[m EXCEPT !.heard = FALSE].heard
                      /\ [m EXCEPT !.heard = FALSE].cookie = m.cookie
                      /\ [m EXCEPT !.heard = FALSE].new = m.new
                      /\ [m EXCEPT !.heard = FALSE].phase = m.phase
  BY <1>1 DEF Exchange
<1>3. \A x \in Deaf : /\ x \in Exchange /\ ~x.heard /\ x.phase \in {"sent", "checked"}
                      /\ \E m \in ms : /\ x.cookie = m.cookie /\ x.new = m.new
                                       /\ x.phase = m.phase
  BY ZenonT(40), <1>2
<1>4. wire' = (wire \ ms) \cup Deaf
  BY DEF Drop
<1>5. unheard' = unheard \cup ({m.cookie : m \in ms} \ {None})
  BY DEF Drop
<1> HIDE DEF Deaf
<1>6. wire' \in SUBSET Exchange /\ wire \ ms \subseteq wire'
  BY <1>1, <1>3, <1>4
<1>7. /\ unheard' \in SUBSET Ids /\ unheard \subseteq unheard'
      /\ \A m \in ms : m.cookie # None => m.cookie \in unheard'
  BY <1>1, <1>5 DEF TypeOK
<1> QED
  BY <1>3, <1>4, <1>6, <1>7

-----------------------------------------------------------------------------
(* The types, with what is known of the numbers.                           *)
TK == TypeOK /\ KnownInv

LEMMA InitTK == Init => TK
<1> SUFFICES ASSUME Init PROVE TK
  OBVIOUS
<1>1. Idle \in CallState /\ Off \in Exit
  BY IdleType DEF Off, Exit
<1>2. sessions = <<>> /\ Len(sessions) = 0 /\ Known = {None}
  BY DEF Init, Known, None
<1>3. TypeOK
  <2>1. sessions \in Seq([owner : Users, by : Tabs \cup {Nothing, TheLogout}])
    BY <1>2
  <2>2. stored \in Store
    BY DEF Init, Store
  <2>3. call \in [Tabs -> [Calls -> CallState]] /\ leaving \in [Tabs -> Exit]
    BY <1>1 DEF Init
  <2> QED
    BY <2>1, <2>2, <2>3 DEF Init, TypeOK
<1>4. KnownInv
  BY <1>2, IdleType, BoundsAssumption DEF Init, KnownInv, Off
<1> QED
  BY <1>3, <1>4 DEF TK

LEMMA TKLoginOk ==
  ASSUME TK, NEW t \in Tabs, NEW c \in Calls, NEW u \in Users, LoginOk(t, c, u)
  PROVE  TK'
<1> USE DEF TK
<1>1. Fresh(u) \in Session
  BY DEF Fresh, Session
<1>2. /\ sessions' \in Seq(Session) /\ Len(sessions') <= MaxSessions
      /\ Known \subseteq Known' /\ Issued \in Ids /\ Issued \in Known' /\ Issued # None
  <2>1. sessions' = Append(sessions, Fresh(u)) /\ CanIssue
    BY DEF LoginOk
  <2> QED
    BY <1>1, <2>1, KnownIds, Issuing
<1>3. /\ token' \in [Tabs -> Ids \cup {None}] /\ user' \in [Tabs -> Users \cup {Nobody}]
      /\ stored' \in Store /\ stored' = [token |-> Issued, user |-> user[t]]
      /\ token'[t] = Issued /\ \A s \in Tabs : s # t => token'[s] = token[s]
  <2>1. Put(t, Issued, user[t]) /\ user[t] \in Users \cup {Nobody}
    BY DEF LoginOk, SetAccessToken, TypeOK
  <2> QED
    BY <1>2, <2>1, PutType
<1> DEFINE k == [phase |-> "sent", me |-> TRUE, token |-> Issued]
<1>4. k \in CallState /\ k.token = Issued
  BY <1>2 DEF CallState
<1>5. call' = [call EXCEPT ![t][c] = k]
  BY DEF LoginOk
<1> HIDE DEF k
<1>6. /\ call' \in [Tabs -> [Calls -> CallState]]
      /\ call'[t][c] = k
      /\ \A s \in Tabs, d \in Calls : s # t \/ d # c => call'[s][d] = call[s][d]
  BY <1>4, <1>5 DEF TypeOK
<1>7. crossed' \in BOOLEAN
  BY Zenon DEF LoginOk, TypeOK
<1>8. cookie' = Issued /\ UNCHANGED <<expired, inFlight, wire, leaving, unheard>>
  BY DEF LoginOk
<1>9. TypeOK'
  BY <1>2, <1>3, <1>6, <1>7, <1>8 DEF TypeOK, Session
<1>10. KnownInv'
  <2>1. cookie' \in Known' /\ stored'.token \in Known'
    BY <1>2, <1>3, <1>8
  <2>2. \A s \in Tabs : token'[s] \in Known' /\ leaving'[s].cookie \in Known'
    BY <1>2, <1>3, <1>8 DEF KnownInv
  <2>3. \A s \in Tabs, d \in Calls :
          /\ call'[s][d].token \in Known'
          /\ call'[s][d].phase # "idle" => call'[s][d].token # None
    BY <1>2, <1>4, <1>6 DEF KnownInv
  <2>4. \A m \in wire' : /\ m.cookie \in Known' /\ m.new \in Known'
                         /\ m.phase = "checked" => m.cookie # None
                         /\ m.phase = "granted" => m.new # None
    BY <1>2, <1>8 DEF KnownInv
  <2> QED
    BY <1>2, <2>1, <2>2, <2>3, <2>4 DEF KnownInv
<1> QED
  BY <1>9, <1>10

LEMMA TKStartCall ==
  ASSUME TK, NEW t \in Tabs, NEW c \in Calls, StartCall(t, c)
  PROVE  TK'
<1>1. /\ call' \in [Tabs -> [Calls -> CallState]]
      /\ call'[t][c].token = token[t]
      /\ \A s \in Tabs, d \in Calls : s # t \/ d # c => call'[s][d] = call[s][d]
  BY SetCallType DEF TK, StartCall, TypeOK
<1>2. UNCHANGED <<sessions, expired, cookie, token, user, stored, inFlight, wire, leaving,
                  unheard, crossed>>
  BY DEF StartCall, serverVars, tabVars
<1>3. TypeOK'
  BY <1>1, <1>2 DEF TK, TypeOK
<1>4. Known' = Known /\ token[t] # None
  BY <1>2 DEF Known, StartCall, ProtectedRoute
<1> QED
  BY <1>1, <1>2, <1>3, <1>4 DEF TK, KnownInv

(* A call that is over.                                                    *)
LEMMA IdleCall ==
  ASSUME TK, NEW t \in Tabs, NEW c \in Calls, call' = [call EXCEPT ![t][c] = Idle]
  PROVE  /\ call' \in [Tabs -> [Calls -> CallState]]
         /\ call'[t][c] = Idle
         /\ \A s \in Tabs, d \in Calls : s # t \/ d # c => call'[s][d] = call[s][d]
  BY IdleType DEF TK, TypeOK

LEMMA TKCallOk ==
  ASSUME TK, NEW t \in Tabs, NEW c \in Calls, CallOk(t, c)
  PROVE  TK'
<1> USE DEF TK
<1>1. /\ call' \in [Tabs -> [Calls -> CallState]]
      /\ call'[t][c] = Idle
      /\ \A s \in Tabs, d \in Calls : s # t \/ d # c => call'[s][d] = call[s][d]
  BY ZenonT(40), IdleCall DEF CallOk
<1>2. UNCHANGED <<sessions, expired, cookie, inFlight, wire, leaving, unheard>>
  BY DEF CallOk, serverVars
<1>3. crossed' \in BOOLEAN
  BY Zenon DEF CallOk, TypeOK
<1>4. /\ token' \in [Tabs -> Ids \cup {None}] /\ user' \in [Tabs -> Users \cup {Nobody}]
      /\ stored' \in Store /\ stored'.token \in {stored.token, token[t]}
      /\ \A s \in Tabs : token'[s] = token[s]
  <2>1. CASE call[t][c].me
    <3>1. Put(t, token[t], sessions[call[t][c].token].owner)
      BY <2>1 DEF CallOk, SetUser
    <3>2. sessions[call[t][c].token] \in Session
      BY KnownIds DEF CallOk, KnownInv
    <3>3. sessions[call[t][c].token].owner \in Users /\ token[t] \in Ids \cup {None}
      BY <3>2 DEF Session, TypeOK
    <3> QED
      BY <3>1, <3>3, PutType
  <2>2. CASE ~call[t][c].me
    BY <2>2 DEF CallOk, tabVars, TypeOK
  <2> QED
    BY <2>1, <2>2
<1>5. TypeOK'
  BY <1>1, <1>2, <1>3, <1>4 DEF TypeOK
<1>6. Known' = Known
  BY <1>2 DEF Known
<1>7. KnownInv'
  <2>1. stored'.token \in Known' /\ \A s \in Tabs : token'[s] \in Known'
    BY <1>4, <1>6 DEF KnownInv
  <2>2. \A s \in Tabs, d \in Calls :
          /\ call'[s][d].token \in Known'
          /\ call'[s][d].phase # "idle" => call'[s][d].token # None
    BY <1>1, <1>6, IdleType, KnownIds DEF KnownInv
  <2> QED
    BY <1>2, <1>6, <2>1, <2>2 DEF KnownInv
<1> QED
  BY <1>5, <1>7

LEMMA TKCallFails ==
  ASSUME TK, NEW t \in Tabs, NEW c \in Calls, CallFails(t, c)
  PROVE  TK'
<1>1. /\ call' \in [Tabs -> [Calls -> CallState]]
      /\ call'[t][c] = Idle
      /\ \A s \in Tabs, d \in Calls : s # t \/ d # c => call'[s][d] = call[s][d]
  BY IdleCall DEF CallFails
<1>2. UNCHANGED <<sessions, expired, cookie, token, user, stored, inFlight, wire, leaving,
                  unheard, crossed>>
  BY DEF CallFails, serverVars, tabVars
<1>3. TypeOK'
  BY <1>1, <1>2 DEF TK, TypeOK
<1>4. Known' = Known
  BY <1>2 DEF Known
<1> QED
  BY <1>1, <1>2, <1>3, <1>4, IdleType, KnownIds DEF TK, KnownInv

LEMMA TKCallRefused ==
  ASSUME TK, NEW t \in Tabs, NEW c \in Calls, CallRefused(t, c)
  PROVE  TK'
<1> USE DEF TK
<1>1. /\ call' \in [Tabs -> [Calls -> CallState]]
      /\ call'[t][c].token = call[t][c].token
      /\ \A s \in Tabs, d \in Calls : s # t \/ d # c => call'[s][d] = call[s][d]
  <2>1. call[t][c].token \in Ids \cup {None}
    BY KnownIds DEF KnownInv
  <2> QED
    BY <2>1, SetCallType DEF CallRefused
<1>2. UNCHANGED <<sessions, expired, cookie, token, user, stored, leaving, unheard, crossed>>
  BY DEF CallRefused, serverVars, tabVars
<1>3. /\ inFlight' \in [Tabs -> BOOLEAN] /\ wire' \in SUBSET Exchange
      /\ \A x \in wire' : x \in wire \/ x = Refresh(t)
  BY RefreshType DEF CallRefused, GetOrRefreshToken, TypeOK
<1>4. TypeOK'
  BY <1>1, <1>2, <1>3 DEF TypeOK
<1>5. Known' = Known /\ call[t][c].phase # "idle"
  BY <1>2 DEF Known, CallRefused
<1>6. \A x \in wire' : /\ x.cookie \in Known /\ x.new \in Known
                       /\ x.phase = "checked" => x.cookie # None
                       /\ x.phase = "granted" => x.new # None
  BY <1>3, RefreshType, KnownIds DEF KnownInv
<1>7. KnownInv'
  BY <1>1, <1>2, <1>5, <1>6 DEF KnownInv
<1> QED
  BY <1>4, <1>7

(* What every exchange that is under way knows.                            *)
GoodExchange(x) ==
  /\ x.cookie \in Known /\ x.new \in Known
  /\ x.phase = "checked" => x.cookie # None
  /\ x.phase = "granted" => x.new # None

LEMMA KnownFrom ==
  ASSUME TK, sessions' = sessions,
         cookie' \in Known, stored'.token \in Known,
         \A t \in Tabs : token'[t] \in Known /\ leaving'[t].cookie \in Known,
         \A t \in Tabs, c \in Calls :
           /\ call'[t][c].token \in Known
           /\ call'[t][c].phase # "idle" => call'[t][c].token # None,
         \A x \in wire' : GoodExchange(x)
  PROVE  KnownInv'
<1>1. Known' = Known
  BY DEF Known
<1> QED
  BY <1>1 DEF TK, KnownInv, GoodExchange

LEMMA WokenKnown ==
  ASSUME TK, NEW t \in Tabs, NEW tok \in Known, tok # None, Woken(t, tok)
  PROVE  \A s \in Tabs, d \in Calls :
           /\ call'[s][d].token \in Known
           /\ call'[s][d].phase # "idle" => call'[s][d].token # None
<1>1. ASSUME NEW s \in Tabs, NEW d \in Calls
      PROVE  /\ call'[s][d].token \in Known
             /\ call'[s][d].phase # "idle" => call'[s][d].token # None
  <2>1. \/ call'[s][d] = call[s][d] \/ call'[s][d] = Idle
        \/ call'[s][d].phase = "resent" /\ call'[s][d].token = tok
    BY DEF Woken
  <2>2. None \in Known
    BY KnownIds DEF TK
  <2> QED
    BY <2>1, <2>2, IdleType DEF TK, KnownInv
<1> QED
  BY <1>1

LEMMA ThrownKnown ==
  ASSUME TK, NEW m \in wire, Settle(m, Thrown)
  PROVE  \A s \in Tabs, d \in Calls :
           /\ call'[s][d].token \in Known
           /\ call'[s][d].phase # "idle" => call'[s][d].token # None
<1>1. ASSUME NEW s \in Tabs, NEW d \in Calls
      PROVE  /\ call'[s][d].token \in Known
             /\ call'[s][d].phase # "idle" => call'[s][d].token # None
  <2>1. call'[s][d] = call[s][d] \/ call'[s][d] = Idle
    BY Throwing DEF TK
  <2>2. None \in Known
    BY KnownIds DEF TK
  <2> QED
    BY <2>1, <2>2, IdleType DEF TK, KnownInv
<1> QED
  BY <1>1

LEMMA ClearType ==
  ASSUME TK, NEW t \in Tabs, ClearAuth(t)
  PROVE  /\ token' \in [Tabs -> Ids \cup {None}] /\ user' \in [Tabs -> Users \cup {Nobody}]
         /\ stored' \in Store /\ stored' = [token |-> None, user |-> Nobody]
         /\ stored'.token \in Known /\ \A s \in Tabs : token'[s] \in Known
<1>1. Put(t, None, Nobody) /\ TypeOK
  BY DEF TK, ClearAuth
<1>2. /\ token' \in [Tabs -> Ids \cup {None}] /\ user' \in [Tabs -> Users \cup {Nobody}]
      /\ stored' \in Store /\ stored' = [token |-> None, user |-> Nobody]
      /\ token'[t] = None /\ \A s \in Tabs : s # t => token'[s] = token[s]
  BY <1>1, PutType
<1>3. None \in Known
  BY KnownIds DEF TK
<1> QED
  BY <1>2, <1>3 DEF TK, KnownInv

LEMMA TKRefreshOk ==
  ASSUME TK, NEW m \in wire, RefreshOk(m)
  PROVE  TK'
<1> USE DEF TK
<1>1. m.tab \in Tabs /\ m.new \in Known /\ m.new # None /\ m.new \in Ids
  BY ExchangeType, KnownIds DEF KnownInv, RefreshOk
<1>2. Woken(m.tab, m.new)
  BY <1>1, Resending DEF RefreshOk
<1>3. /\ token' \in [Tabs -> Ids \cup {None}] /\ user' \in [Tabs -> Users \cup {Nobody}]
      /\ stored' \in Store /\ stored'.token = m.new
      /\ token'[m.tab] = m.new /\ \A s \in Tabs : s # m.tab => token'[s] = token[s]
  <2>1. Put(m.tab, m.new, user[m.tab]) /\ user[m.tab] \in Users \cup {Nobody}
    BY <1>1 DEF RefreshOk, SetAccessToken, TypeOK
  <2> QED
    BY <1>1, <2>1, PutType
<1>4. /\ wire' = wire \ {m} /\ cookie' = m.new
      /\ UNCHANGED <<sessions, expired, leaving, unheard, crossed>>
  BY DEF RefreshOk, TakeCookie, serverVars
<1>5. inFlight' \in [Tabs -> BOOLEAN] /\ call' \in [Tabs -> [Calls -> CallState]]
  BY <1>2 DEF Woken, TypeOK
<1>6. TypeOK'
  BY <1>1, <1>3, <1>4, <1>5 DEF TypeOK
<1>7. \A s \in Tabs, d \in Calls :
        /\ call'[s][d].token \in Known
        /\ call'[s][d].phase # "idle" => call'[s][d].token # None
  BY <1>1, <1>2, WokenKnown
<1>8. \A s \in Tabs : token'[s] \in Known /\ leaving'[s].cookie \in Known
  BY <1>1, <1>3, <1>4 DEF KnownInv
<1>9. \A x \in wire' : GoodExchange(x)
  BY <1>4 DEF KnownInv, GoodExchange
<1> QED
  BY <1>1, <1>3, <1>4, <1>6, <1>7, <1>8, <1>9, KnownFrom

LEMMA TKRefreshDenied ==
  ASSUME TK, NEW m \in wire, RefreshDenied(m)
  PROVE  TK'
<1> USE DEF TK
<1>1. m.tab \in Tabs
  BY ExchangeType
<1>2. Woken(m.tab, None)
  BY Throwing DEF RefreshDenied
<1>3. /\ token' \in [Tabs -> Ids \cup {None}] /\ user' \in [Tabs -> Users \cup {Nobody}]
      /\ stored' \in Store /\ stored'.token \in Known
      /\ \A s \in Tabs : token'[s] \in Known
  BY <1>1, ClearType DEF RefreshDenied
<1>4. /\ wire' = wire \ {m} /\ UNCHANGED <<sessions, expired, cookie, leaving, unheard, crossed>>
  BY DEF RefreshDenied, serverVars
<1>5. inFlight' \in [Tabs -> BOOLEAN] /\ call' \in [Tabs -> [Calls -> CallState]]
  BY <1>2 DEF Woken, TypeOK
<1>6. TypeOK'
  BY <1>3, <1>4, <1>5 DEF TypeOK
<1>7. \A s \in Tabs, d \in Calls :
        /\ call'[s][d].token \in Known
        /\ call'[s][d].phase # "idle" => call'[s][d].token # None
  BY ThrownKnown DEF RefreshDenied
<1>8. \A s \in Tabs : token'[s] \in Known /\ leaving'[s].cookie \in Known
  BY <1>3, <1>4 DEF KnownInv
<1>9. \A x \in wire' : GoodExchange(x)
  BY <1>4 DEF KnownInv, GoodExchange
<1>10. cookie' \in Known /\ stored'.token \in Known
  BY <1>3, <1>4 DEF KnownInv
<1> QED
  BY <1>4, <1>6, <1>7, <1>8, <1>9, <1>10, KnownFrom

LEMMA DropKnown ==
  ASSUME TK, NEW ms \in SUBSET wire, Drop(ms)
  PROVE  \A x \in wire' : GoodExchange(x)
<1>1. \A m \in wire : GoodExchange(m)
  BY DEF TK, KnownInv, GoodExchange
<1>2. \A x \in wire' : \/ x \in wire \ ms
                       \/ \E m \in ms : /\ x.cookie = m.cookie /\ x.new = m.new
                                        /\ x.phase = m.phase
  BY Dropping DEF TK
<1> QED
  BY <1>1, <1>2 DEF GoodExchange

LEMMA TKRefreshLost ==
  ASSUME TK, NEW m \in wire, RefreshLost(m)
  PROVE  TK'
<1> USE DEF TK
<1>1. m.tab \in Tabs /\ {m} \in SUBSET wire
  BY ExchangeType
<1>2. Woken(m.tab, None)
  BY Throwing DEF RefreshLost
<1>3. /\ token' \in [Tabs -> Ids \cup {None}] /\ user' \in [Tabs -> Users \cup {Nobody}]
      /\ stored' \in Store /\ stored'.token \in Known
      /\ \A s \in Tabs : token'[s] \in Known
  BY <1>1, ClearType DEF RefreshLost
<1>4. UNCHANGED <<sessions, expired, cookie, leaving, crossed>>
  BY DEF RefreshLost, serverVars
<1>5. inFlight' \in [Tabs -> BOOLEAN] /\ call' \in [Tabs -> [Calls -> CallState]]
  BY <1>2 DEF Woken, TypeOK
<1>6. wire' \in SUBSET Exchange /\ unheard' \in SUBSET Ids
  BY <1>1, Dropping DEF RefreshLost
<1>7. TypeOK'
  BY <1>3, <1>4, <1>5, <1>6 DEF TypeOK
<1>8. \A s \in Tabs, d \in Calls :
        /\ call'[s][d].token \in Known
        /\ call'[s][d].phase # "idle" => call'[s][d].token # None
  BY ThrownKnown DEF RefreshLost
<1>9. \A s \in Tabs : token'[s] \in Known /\ leaving'[s].cookie \in Known
  BY <1>3, <1>4 DEF KnownInv
<1>10. \A x \in wire' : GoodExchange(x)
  BY <1>1, DropKnown DEF RefreshLost
<1>11. cookie' \in Known /\ stored'.token \in Known
  BY <1>3, <1>4 DEF KnownInv
<1> QED
  BY <1>4, <1>7, <1>8, <1>9, <1>10, <1>11, KnownFrom

LEMMA TKLogout ==
  ASSUME TK, NEW t \in Tabs, Logout(t)
  PROVE  TK'
<1>1. UNCHANGED <<sessions, expired, cookie, token, user, stored, call, inFlight, wire,
                  unheard, crossed>>
  BY DEF Logout, serverVars, tabVars
<1> DEFINE k == [phase |-> "sent", cookie |-> cookie]
<1>2. k \in Exit /\ k.cookie = cookie
  BY DEF TK, TypeOK, Exit
<1>3. leaving' = [leaving EXCEPT ![t] = k]
  BY DEF Logout
<1> HIDE DEF k
<1>4. /\ leaving' \in [Tabs -> Exit] /\ leaving'[t].cookie = cookie
      /\ \A s \in Tabs : s # t => leaving'[s] = leaving[s]
  BY <1>2, <1>3 DEF TK, TypeOK
<1>5. TypeOK'
  BY <1>1, <1>4 DEF TK, TypeOK
<1>6. KnownInv'
  BY <1>1, <1>4, KnownFrom DEF TK, KnownInv, GoodExchange
<1> QED
  BY <1>5, <1>6 DEF TK

(* The logout request is over: the tab is signed out.                      *)
LEMMA TKLogoutEnds ==
  ASSUME TK, NEW t \in Tabs, LogoutDone(t) \/ LogoutLost(t)
  PROVE  TK'
<1>1. /\ token' \in [Tabs -> Ids \cup {None}] /\ user' \in [Tabs -> Users \cup {Nobody}]
      /\ stored' \in Store /\ stored'.token \in Known
      /\ \A s \in Tabs : token'[s] \in Known
  BY ClearType DEF LogoutDone, LogoutLost
<1>2. /\ UNCHANGED <<sessions, expired, call, inFlight, wire, unheard, crossed>>
      /\ cookie' \in {cookie, None} /\ leaving' = [leaving EXCEPT ![t] = Off]
  BY DEF LogoutDone, LogoutLost, serverVars
<1>3. Off \in Exit /\ Off.cookie = None
  BY DEF Off, Exit
<1>4. /\ leaving' \in [Tabs -> Exit] /\ leaving'[t] = Off
      /\ \A s \in Tabs : s # t => leaving'[s] = leaving[s]
  BY <1>2, <1>3 DEF TK, TypeOK
<1>5. TypeOK'
  BY <1>1, <1>2, <1>4 DEF TK, TypeOK
<1>6. None \in Known /\ cookie' \in Known
  BY <1>2, KnownIds DEF TK, KnownInv
<1>7. \A s \in Tabs : token'[s] \in Known /\ leaving'[s].cookie \in Known
  BY <1>1, <1>3, <1>4, <1>6 DEF TK, KnownInv
<1>8. KnownInv'
  BY <1>1, <1>2, <1>6, <1>7, KnownFrom DEF TK, KnownInv, GoodExchange
<1> QED
  BY <1>5, <1>8 DEF TK

(* The numbers stay known when the table only changes what revoked them.   *)
LEMMA KnownStays ==
  ASSUME TK, Len(sessions') = Len(sessions),
         UNCHANGED <<cookie, token, stored, call, wire>>,
         \A t \in Tabs : leaving'[t].cookie = leaving[t].cookie
  PROVE  KnownInv'
<1>1. Known' = Known
  BY DEF Known
<1> QED
  BY <1>1 DEF TK, KnownInv

LEMMA TKServerLogsOut ==
  ASSUME TK, NEW t \in Tabs, ServerLogsOut(t)
  PROVE  TK'
<1>1. UNCHANGED <<expired, cookie, token, user, stored, call, inFlight, wire, unheard,
                  crossed>>
  BY DEF ServerLogsOut, tabVars
<1>2. leaving \in [Tabs -> Exit] /\ leaving[t] \in Exit
  BY DEF TK, TypeOK
<1> DEFINE k == [leaving[t] EXCEPT !.phase = "done"]
<1>3. k \in Exit /\ k.cookie = leaving[t].cookie
  BY <1>2 DEF Exit
<1>4. leaving' = [leaving EXCEPT ![t] = k]
  BY DEF ServerLogsOut
<1> HIDE DEF k
<1>5. /\ leaving' \in [Tabs -> Exit]
      /\ \A s \in Tabs : leaving'[s].cookie = leaving[s].cookie
  BY <1>2, <1>3, <1>4
<1>6. sessions' \in Seq(Session) /\ Len(sessions') = Len(sessions)
  <2>1. CASE leaving[t].cookie # None /\ ~Revoked(leaving[t].cookie)
    <3>1. leaving[t].cookie \in 1..Len(sessions)
      BY <2>1, KnownIds DEF TK, KnownInv
    <3>2. sessions' = Revoke(leaving[t].cookie, TheLogout)
      BY <2>1 DEF ServerLogsOut
    <3> QED
      BY <3>1, <3>2, Revoking DEF TK
  <2>2. CASE ~(leaving[t].cookie # None /\ ~Revoked(leaving[t].cookie))
    <3>1. sessions' = sessions
      BY <2>2 DEF ServerLogsOut
    <3> QED
      BY <3>1, KnownIds DEF TK
  <2> QED
    BY <2>1, <2>2
<1>7. TypeOK'
  BY <1>1, <1>5, <1>6 DEF TK, TypeOK, Session
<1> QED
  BY <1>1, <1>5, <1>6, <1>7, KnownStays DEF TK

LEMMA TKReload ==
  ASSUME TK, NEW t \in Tabs, Reload(t)
  PROVE  TK'
<1> USE DEF TK
<1> DEFINE ms == {m \in wire : m.tab = t /\ m.heard}
           idle == [c \in Calls |-> Idle]
<1>1. /\ token' \in [Tabs -> Ids \cup {None}] /\ user' \in [Tabs -> Users \cup {Nobody}]
      /\ \A s \in Tabs : token'[s] \in {token[s], stored.token}
  BY DEF Reload, TypeOK, Store
<1>2. /\ UNCHANGED <<sessions, expired, cookie, stored, crossed>>
      /\ inFlight' \in [Tabs -> BOOLEAN]
  BY DEF Reload, serverVars, TypeOK
<1>3. idle \in [Calls -> CallState] /\ \A c \in Calls : idle[c] = Idle
  BY IdleType
<1>4. call' = [call EXCEPT ![t] = idle] /\ Drop(ms) /\ ms \in SUBSET wire
  BY DEF Reload
<1> HIDE DEF ms, idle
<1>5. /\ call' \in [Tabs -> [Calls -> CallState]]
      /\ \A s \in Tabs, c \in Calls : call'[s][c] \in {call[s][c], Idle}
  BY <1>3, <1>4 DEF TypeOK
<1>6. Off \in Exit /\ Off.cookie = None
  BY DEF Off, Exit
<1>7. leaving' \in [Tabs -> Exit] /\ \A s \in Tabs : leaving'[s] \in {leaving[s], Off}
  BY <1>6 DEF Reload, TypeOK
<1>8. wire' \in SUBSET Exchange /\ unheard' \in SUBSET Ids
  BY <1>4, Dropping
<1>9. TypeOK'
  BY <1>1, <1>2, <1>5, <1>7, <1>8 DEF TypeOK
<1>10. \A x \in wire' : GoodExchange(x)
  BY <1>4, DropKnown
<1>11. None \in Known
  BY KnownIds
<1>12. \A s \in Tabs : token'[s] \in Known /\ leaving'[s].cookie \in Known
  BY <1>1, <1>6, <1>7, <1>11 DEF KnownInv
<1>13. \A s \in Tabs, d \in Calls :
        /\ call'[s][d].token \in Known
        /\ call'[s][d].phase # "idle" => call'[s][d].token # None
  BY <1>5, <1>11, IdleType DEF KnownInv
<1>14. KnownInv'
  BY <1>2, <1>10, <1>12, <1>13, KnownFrom DEF KnownInv
<1> QED
  BY <1>9, <1>14

LEMMA TKExpire ==
  ASSUME TK, NEW n \in Ids, Expire(n)
  PROVE  TK'
<1>1. UNCHANGED <<sessions, cookie, token, user, stored, call, inFlight, wire, leaving,
                  unheard, crossed>>
  BY DEF Expire, tabVars
<1>2. TypeOK'
  BY <1>1 DEF TK, TypeOK, Expire
<1> QED
  BY <1>1, <1>2, KnownStays DEF TK

LEMMA TKServerRefuses ==
  ASSUME TK, NEW m \in wire,
         \/ ServerRefuses(m)
         \/ ServerReads(m)
  PROVE  TK'
<1> USE DEF TK
<1>1. UNCHANGED <<sessions, expired, cookie, token, user, stored, call, inFlight, leaving,
                  unheard, crossed>>
  BY DEF ServerRefuses, ServerReads, serverVars, tabVars
<1>2. None \in Known /\ None \in Ids \cup {None} /\ GoodExchange(m)
  BY KnownIds DEF KnownInv, GoodExchange
<1>3. wire' \in SUBSET Exchange /\ \A x \in wire' : GoodExchange(x)
  <2>1. ASSUME NEW phase \in {"denied", "reused"}, Answer(m, phase, None)
        PROVE  wire' \in SUBSET Exchange /\ \A x \in wire' : GoodExchange(x)
    <3>1. /\ wire' \in SUBSET Exchange
          /\ \A x \in wire' : \/ x \in wire \ {m}
                              \/ Goes(m, x) /\ x.phase = phase /\ x.new = None
      BY <2>1, <1>2, Answering
    <3> QED
      BY <3>1, <1>2 DEF GoodExchange, Goes, KnownInv
  <2>2. ASSUME Verdict(m) = "checked",
               wire' = (wire \ {m}) \cup {[m EXCEPT !.phase = "checked"]}
        PROVE  wire' \in SUBSET Exchange /\ \A x \in wire' : GoodExchange(x)
    <3>1. /\ wire' \in SUBSET Exchange
          /\ \A x \in wire' : \/ x \in wire \ {m}
                              \/ Goes(m, x) /\ x.phase = "checked" /\ x.new = m.new
      BY <2>2, Checking
    <3>2. m.cookie # None
      BY <2>2 DEF Verdict
    <3> QED
      BY <3>1, <3>2, <1>2 DEF GoodExchange, Goes, KnownInv
  <2>3. Verdict(m) \in {"denied", "reused", "checked"}
    BY DEF Verdict
  <2> QED
    BY <2>1, <2>2, <2>3 DEF ServerRefuses, ServerReads
<1>4. TypeOK'
  BY <1>1, <1>3 DEF TypeOK
<1>5. KnownInv'
  BY <1>1, <1>3, KnownFrom DEF KnownInv
<1> QED
  BY <1>4, <1>5

LEMMA TKServerCommits ==
  ASSUME TK, NEW m \in wire, ServerCommits(m)
  PROVE  TK'
<1> USE DEF TK
<1>1. UNCHANGED <<expired, cookie, token, user, stored, call, inFlight, leaving, unheard,
                  crossed>>
  BY DEF ServerCommits, tabVars
<1>2. m.cookie \in 1..Len(sessions) /\ sessions[m.cookie] \in Session /\ m.tab \in Tabs
  BY ExchangeType, KnownIds DEF KnownInv, ServerCommits
<1>3. Revoke(m.cookie, m.tab) \in Seq(Session) /\ Len(Revoke(m.cookie, m.tab)) = Len(sessions)
  BY <1>2, Revoking
<1>4. Fresh(sessions[m.cookie].owner) \in Session
  BY <1>2 DEF Fresh, Session
<1>5. /\ sessions' \in Seq(Session) /\ Len(sessions') <= MaxSessions
      /\ Known \subseteq Known' /\ Issued \in Ids /\ Issued \in Known' /\ Issued # None
  <2>1. /\ CanIssue
        /\ sessions' = Append(Revoke(m.cookie, m.tab), Fresh(sessions[m.cookie].owner))
    BY DEF ServerCommits
  <2> QED
    BY <1>3, <1>4, <2>1, Issuing
<1>6. /\ wire' \in SUBSET Exchange
      /\ \A x \in wire' : \/ x \in wire \ {m}
                          \/ Goes(m, x) /\ x.phase = "granted" /\ x.new = Issued
  BY <1>5, Answering DEF ServerCommits
<1>7. TypeOK'
  BY <1>1, <1>5, <1>6 DEF TypeOK, Session
<1>8. KnownInv'
  <2>1. \A x \in wire' : /\ x.cookie \in Known' /\ x.new \in Known'
                         /\ x.phase = "checked" => x.cookie # None
                         /\ x.phase = "granted" => x.new # None
    BY <1>5, <1>6 DEF KnownInv, Goes
  <2>2. cookie' \in Known' /\ stored'.token \in Known'
    BY <1>1, <1>5 DEF KnownInv
  <2>3. \A s \in Tabs : token'[s] \in Known' /\ leaving'[s].cookie \in Known'
    BY <1>1, <1>5 DEF KnownInv
  <2>4. \A s \in Tabs, d \in Calls :
          /\ call'[s][d].token \in Known'
          /\ call'[s][d].phase # "idle" => call'[s][d].token # None
    BY <1>1, <1>5 DEF KnownInv
  <2> QED
    BY <1>5, <2>1, <2>2, <2>3, <2>4 DEF KnownInv
<1> QED
  BY <1>7, <1>8

LEMMA TKKept ==
  ASSUME TK, [Next]_vars
  PROVE  TK'
<1>1. CASE UNCHANGED vars
  <2>1. UNCHANGED <<sessions, expired, cookie, token, user, stored, call, inFlight, wire,
                    leaving, unheard, crossed>>
    BY <1>1 DEF vars
  <2>2. TypeOK'
    BY <2>1 DEF TK, TypeOK
  <2> QED
    BY <2>1, <2>2, KnownStays DEF TK
<1>2. CASE Next
  BY <1>2, TKLoginOk, TKStartCall, TKCallOk, TKCallFails, TKCallRefused, TKRefreshOk,
    TKRefreshDenied, TKRefreshLost, TKLogout, TKServerLogsOut, TKLogoutEnds, TKReload,
    TKServerRefuses, TKServerCommits, TKExpire
  DEF Next, CallEnds, RefreshEnds, ServerAnswers
<1> QED
  BY <1>1, <1>2

(* Every variable keeps its type.                                          *)
THEOREM TypeCorrect == Spec => []TypeOK
<1>1. Init => TK
  BY InitTK
<1>2. TK /\ [Next]_vars => TK'
  BY TKKept
<1>3. TK => TypeOK
  BY DEF TK
<1> QED
  BY <1>1, <1>2, <1>3, PTL DEF Spec

-----------------------------------------------------------------------------
(* What a step means to the renewal of a tab: nothing, its end, or one     *)
(* more call that waits for it.                                            *)
Waiting(t) == {c \in Calls : call[t][c].phase = "waiting"}

Kept(t) ==
  /\ inFlight'[t] = inFlight[t]
  /\ Waiting(t)' = Waiting(t)
  /\ Heard(t)' = {} <=> Heard(t) = {}
  /\ \A m, n \in Heard(t)' : m = n

Ended(t) ==
  /\ inFlight'[t] = FALSE
  /\ Waiting(t)' = {}
  /\ Heard(t)' = {}

Joined(t, c) ==
  /\ inFlight'[t] = TRUE
  /\ Waiting(t)' = Waiting(t) \cup {c}
  /\ Heard(t)' # {}
  /\ \A m, n \in Heard(t)' : m = n
  /\ token'[t] = token[t]

Still(t) == Kept(t) /\ token'[t] = token[t]

StepOf(t) ==
  /\ \A s \in Tabs : s # t => Still(s)
  /\ Kept(t) \/ Ended(t) \/ \E c \in Calls : Joined(t, c)

AnyStep == (\A t \in Tabs : Still(t)) \/ (\E t \in Tabs : StepOf(t))

LEMMA SameWire ==
  ASSUME OneRefresh, NEW t \in Tabs, UNCHANGED <<wire, inFlight>>,
         Waiting(t)' = Waiting(t)
  PROVE  Kept(t)
  BY DEF OneRefresh, Heard, Kept

(* A call that neither waited nor waits.                                   *)
LEMMA OtherCall ==
  ASSUME NEW t \in Tabs, NEW c \in Calls,
         call[t][c].phase # "waiting", call'[t][c].phase # "waiting",
         \A s \in Tabs, d \in Calls : s # t \/ d # c => call'[s][d] = call[s][d]
  PROVE  \A s \in Tabs : Waiting(s)' = Waiting(s)
<1>1. ASSUME NEW s \in Tabs, NEW d \in Calls
      PROVE  call'[s][d].phase = "waiting" <=> call[s][d].phase = "waiting"
  <2>1. CASE s = t /\ d = c
    BY <2>1
  <2>2. CASE s # t \/ d # c
    BY <2>2
  <2> QED
    BY <2>1, <2>2
<1> QED
  BY <1>1 DEF Waiting

LEMMA PutOthers ==
  ASSUME TK, NEW t \in Tabs, NEW tok, NEW usr, Put(t, tok, usr)
  PROVE  \A s \in Tabs : s # t => token'[s] = token[s]
  BY DEF TK, TypeOK, Put

LEMMA StepLoginOk ==
  ASSUME TK, OneRefresh, NEW t \in Tabs, NEW c \in Calls, NEW u \in Users, LoginOk(t, c, u)
  PROVE  StepOf(t)
<1> DEFINE k == [phase |-> "sent", me |-> TRUE, token |-> Issued]
<1>1. call[t][c].phase # "waiting" /\ k.phase # "waiting"
  BY IdleType DEF LoginOk
<1>2. call' = [call EXCEPT ![t][c] = k]
  BY DEF LoginOk
<1> HIDE DEF k
<1>3. /\ call'[t][c] = k
      /\ \A s \in Tabs, d \in Calls : s # t \/ d # c => call'[s][d] = call[s][d]
  BY <1>2 DEF TK, TypeOK
<1>4. \A s \in Tabs : Waiting(s)' = Waiting(s)
  BY <1>1, <1>3, OtherCall
<1>5. \A s \in Tabs : Kept(s)
  BY <1>4, SameWire DEF LoginOk
<1>6. \A s \in Tabs : s # t => token'[s] = token[s]
  BY PutOthers DEF LoginOk, SetAccessToken
<1> QED
  BY <1>5, <1>6 DEF StepOf, Still

LEMMA StepStartCall ==
  ASSUME TK, OneRefresh, NEW t \in Tabs, NEW c \in Calls, StartCall(t, c)
  PROVE  \A s \in Tabs : Still(s)
<1>1. /\ call'[t][c].phase = "sent"
      /\ \A s \in Tabs, d \in Calls : s # t \/ d # c => call'[s][d] = call[s][d]
  BY SetCallType DEF TK, StartCall, TypeOK
<1>2. call[t][c].phase # "waiting"
  BY IdleType DEF StartCall
<1>3. \A s \in Tabs : Waiting(s)' = Waiting(s)
  BY <1>1, <1>2, OtherCall
<1> QED
  BY <1>3, SameWire DEF StartCall, tabVars, Still

LEMMA StepCallEnds ==
  ASSUME TK, OneRefresh, NEW t \in Tabs, NEW c \in Calls,
         CallOk(t, c) \/ CallFails(t, c)
  PROVE  \A s \in Tabs : Still(s)
<1>1. /\ call'[t][c] = Idle
      /\ \A s \in Tabs, d \in Calls : s # t \/ d # c => call'[s][d] = call[s][d]
  BY IdleCall DEF CallOk, CallFails
<1>2. call[t][c].phase # "waiting" /\ call'[t][c].phase # "waiting"
  BY <1>1, IdleType DEF CallOk, CallFails
<1>3. \A s \in Tabs : Waiting(s)' = Waiting(s)
  BY <1>1, <1>2, OtherCall
<1>4. UNCHANGED <<wire, inFlight>>
  BY DEF CallOk, CallFails
<1>5. \A s \in Tabs : token'[s] = token[s]
  <2>1. CASE UNCHANGED tabVars
    BY <2>1 DEF tabVars
  <2>2. CASE SetUser(t, sessions[call[t][c].token].owner)
    BY <2>2 DEF SetUser, Put, TK, TypeOK
  <2> QED
    BY <2>1, <2>2 DEF CallOk, CallFails
<1> QED
  BY <1>3, <1>4, <1>5, SameWire DEF Still

LEMMA StepCallRefused ==
  ASSUME TK, OneRefresh, NEW t \in Tabs, NEW c \in Calls, CallRefused(t, c)
  PROVE  StepOf(t)
<1>1. /\ call'[t][c].phase = "waiting"
      /\ \A s \in Tabs, d \in Calls : s # t \/ d # c => call'[s][d] = call[s][d]
  <2>1. call[t][c].token \in Ids \cup {None}
    BY KnownIds DEF TK, KnownInv
  <2> QED
    BY <2>1, SetCallType DEF CallRefused, TK
<1>2. \A s \in Tabs : Waiting(s)' = IF s = t THEN Waiting(s) \cup {c} ELSE Waiting(s)
  BY <1>1 DEF Waiting
<1>3. /\ inFlight' = [inFlight EXCEPT ![t] = TRUE]
      /\ wire' = IF inFlight[t] THEN wire ELSE wire \cup {Refresh(t)}
      /\ UNCHANGED token
  BY DEF CallRefused, GetOrRefreshToken, tabVars
<1>4. Refresh(t).tab = t /\ Refresh(t).heard
  BY RefreshType DEF TK
<1>5. inFlight'[t] = TRUE /\ \A s \in Tabs : s # t => inFlight'[s] = inFlight[s]
  BY <1>3 DEF TK, TypeOK
<1>6. \A s \in Tabs : s # t => Heard(s)' = Heard(s)
  BY <1>3, <1>4 DEF Heard
<1>7. \A s \in Tabs : s # t => Still(s)
  BY <1>2, <1>3, <1>5, <1>6 DEF OneRefresh, Still, Kept
<1>8. Heard(t)' # {} /\ \A m, n \in Heard(t)' : m = n
  <2>1. CASE inFlight[t]
    <3>1. Heard(t)' = Heard(t)
      BY <1>3, <2>1 DEF Heard
    <3> QED
      BY <2>1, <3>1 DEF OneRefresh
  <2>2. CASE ~inFlight[t]
    <3>1. Heard(t) = {}
      BY <2>2 DEF OneRefresh
    <3>2. Heard(t)' = {Refresh(t)}
      BY <1>3, <1>4, <2>2, <3>1 DEF Heard
    <3> QED
      BY <3>2
  <2> QED
    BY <2>1, <2>2
<1>9. Joined(t, c)
  BY <1>2, <1>3, <1>5, <1>8 DEF Joined
<1> QED
  BY <1>7, <1>9 DEF StepOf

(* The refresh of a tab is over, and nobody listens to it any longer.      *)
LEMMA StepSettled ==
  ASSUME TK, OneRefresh, NEW m \in wire, m.heard, NEW tok, Woken(m.tab, tok),
         wire \ {m} \subseteq wire',
         \A x \in wire' : x \in wire \ {m} \/ ~x.heard,
         \A s \in Tabs : s # m.tab => token'[s] = token[s]
  PROVE  m.tab \in Tabs /\ StepOf(m.tab)
<1>1. m.tab \in Tabs
  BY ExchangeType DEF TK
<1>2. Heard(m.tab)' = {}
  BY <1>1 DEF OneRefresh, Heard
<1>3. \A s \in Tabs : s # m.tab => Heard(s)' = Heard(s)
  BY DEF Heard
<1>4. \A s \in Tabs : s # m.tab => Waiting(s)' = Waiting(s)
  BY DEF Woken, Waiting
<1>5. Waiting(m.tab)' = {}
  BY DEF Woken, Waiting
<1>6. inFlight'[m.tab] = FALSE /\ \A s \in Tabs : s # m.tab => inFlight'[s] = inFlight[s]
  BY <1>1 DEF Woken, TK, TypeOK
<1>7. Ended(m.tab)
  BY <1>2, <1>5, <1>6 DEF Ended
<1>8. \A s \in Tabs : s # m.tab => Still(s)
  BY <1>3, <1>4, <1>6 DEF OneRefresh, Still, Kept
<1> QED
  BY <1>1, <1>7, <1>8 DEF StepOf

LEMMA StepRefreshEnds ==
  ASSUME TK, OneRefresh, NEW m \in wire,
         RefreshOk(m) \/ RefreshDenied(m) \/ RefreshLost(m)
  PROVE  m.tab \in Tabs /\ StepOf(m.tab)
<1>1. m.heard /\ m.tab \in Tabs
  BY ExchangeType DEF TK, RefreshOk, RefreshDenied, RefreshLost
<1>2. ASSUME RefreshOk(m)
      PROVE  StepOf(m.tab)
  <2>1. m.new # None
    BY <1>2 DEF RefreshOk, TK, KnownInv
  <2>2. Woken(m.tab, m.new)
    BY <1>2, <2>1, Resending DEF RefreshOk, TK
  <2>3. wire' = wire \ {m} /\ \A s \in Tabs : s # m.tab => token'[s] = token[s]
    BY <1>1, <1>2, PutOthers DEF RefreshOk, SetAccessToken
  <2> QED
    BY <1>1, <2>2, <2>3, StepSettled
<1>3. ASSUME RefreshDenied(m)
      PROVE  StepOf(m.tab)
  <2>1. Woken(m.tab, None)
    BY <1>3, Throwing DEF RefreshDenied, TK
  <2>2. wire' = wire \ {m} /\ \A s \in Tabs : s # m.tab => token'[s] = token[s]
    BY <1>1, <1>3, PutOthers DEF RefreshDenied, ClearAuth
  <2> QED
    BY <1>1, <2>1, <2>2, StepSettled
<1>4. ASSUME RefreshLost(m)
      PROVE  StepOf(m.tab)
  <2>1. Woken(m.tab, None)
    BY <1>4, Throwing DEF RefreshLost, TK
  <2>2. \A s \in Tabs : s # m.tab => token'[s] = token[s]
    BY <1>1, <1>4, PutOthers DEF RefreshLost, ClearAuth
  <2>3. Drop({m}) /\ {m} \in SUBSET wire
    BY <1>4 DEF RefreshLost
  <2>4. /\ wire \ {m} \subseteq wire'
        /\ \A x \in wire' : x \in wire \ {m} \/ ~x.heard
    BY <2>3, Dropping DEF TK
  <2> QED
    BY <1>1, <2>1, <2>2, <2>4, StepSettled
<1> QED
  BY <1>1, <1>2, <1>3, <1>4

LEMMA StepReload ==
  ASSUME TK, OneRefresh, NEW t \in Tabs, Reload(t)
  PROVE  StepOf(t)
<1> DEFINE ms == {m \in wire : m.tab = t /\ m.heard}
           idle == [c \in Calls |-> Idle]
<1>1. \A s \in Tabs : s # t => token'[s] = token[s]
  BY DEF Reload, TK, TypeOK
<1>2. inFlight'[t] = FALSE /\ \A s \in Tabs : s # t => inFlight'[s] = inFlight[s]
  BY DEF Reload, TK, TypeOK
<1>3. idle \in [Calls -> CallState] /\ \A c \in Calls : idle[c] = Idle
  BY IdleType
<1>4. call' = [call EXCEPT ![t] = idle] /\ Drop(ms) /\ ms \in SUBSET wire
  BY DEF Reload
<1>5. \A x \in ms : x.tab = t
  OBVIOUS
<1>6. \A x \in wire : x.tab = t /\ x.heard => x \in ms
  OBVIOUS
<1> HIDE DEF ms, idle
<1>7. call'[t] = idle /\ \A s \in Tabs : s # t => call'[s] = call[s]
  BY <1>3, <1>4 DEF TK, TypeOK
<1>8. /\ wire \ ms \subseteq wire'
      /\ \A x \in wire' : x \in wire \ ms \/ ~x.heard
  BY <1>4, Dropping DEF TK
<1>9. Heard(t)' = {} /\ \A s \in Tabs : s # t => Heard(s)' = Heard(s)
  BY <1>5, <1>6, <1>8 DEF Heard
<1>10. Waiting(t)' = {} /\ \A s \in Tabs : s # t => Waiting(s)' = Waiting(s)
  BY <1>3, <1>7, IdleType DEF Waiting
<1>11. Ended(t)
  BY <1>2, <1>9, <1>10 DEF Ended
<1>12. \A s \in Tabs : s # t => Still(s)
  BY <1>1, <1>2, <1>9, <1>10 DEF OneRefresh, Still, Kept
<1> QED
  BY <1>11, <1>12 DEF StepOf

LEMMA StepLeaving ==
  ASSUME TK, OneRefresh, NEW t \in Tabs,
         Logout(t) \/ ServerLogsOut(t) \/ LogoutDone(t) \/ LogoutLost(t)
  PROVE  StepOf(t)
<1>1. UNCHANGED <<wire, inFlight, call>>
  BY DEF Logout, ServerLogsOut, LogoutDone, LogoutLost
<1>2. \A s \in Tabs : Kept(s)
  BY <1>1, SameWire DEF Waiting
<1>3. \A s \in Tabs : s # t => token'[s] = token[s]
  <2>1. CASE UNCHANGED tabVars
    BY <2>1 DEF tabVars
  <2>2. CASE ClearAuth(t)
    BY <2>2, PutOthers DEF ClearAuth
  <2> QED
    BY <2>1, <2>2 DEF Logout, ServerLogsOut, LogoutDone, LogoutLost
<1> QED
  BY <1>2, <1>3 DEF StepOf, Still

(* The server changes what an exchange knows, not who listens to it.       *)
LEMMA Listening ==
  ASSUME TK, OneRefresh, NEW m \in wire, NEW y, Goes(m, y),
         \/ wire' = (wire \ {m}) \cup {y}
         \/ ~m.heard /\ wire' = wire \ {m},
         UNCHANGED <<token, call, inFlight>>
  PROVE  \A s \in Tabs : Still(s)
<1>1. y.tab = m.tab /\ y.heard = m.heard
  BY DEF Goes
<1>2. ASSUME NEW s \in Tabs
      PROVE  /\ Heard(s)' = {} <=> Heard(s) = {}
             /\ \A a, b \in Heard(s)' : a = b
  <2>1. CASE m \in Heard(s)
    <3>1. Heard(s)' = {y}
      BY <1>1, <2>1 DEF Heard, OneRefresh
    <3> QED
      BY <2>1, <3>1
  <2>2. CASE m \notin Heard(s)
    <3>1. Heard(s)' = Heard(s)
      BY <1>1, <2>2 DEF Heard
    <3> QED
      BY <3>1 DEF OneRefresh
  <2> QED
    BY <2>1, <2>2
<1>3. \A s \in Tabs : Waiting(s)' = Waiting(s)
  BY DEF Waiting
<1> QED
  BY <1>2, <1>3 DEF Still, Kept

LEMMA StepServer ==
  ASSUME TK, OneRefresh, NEW m \in wire,
         ServerReads(m) \/ ServerCommits(m) \/ ServerRefuses(m)
  PROVE  \A s \in Tabs : Still(s)
<1>1. UNCHANGED <<token, call, inFlight>>
  BY DEF ServerReads, ServerCommits, ServerRefuses, tabVars
<1>2. m \in Exchange /\ m.heard \in BOOLEAN
  BY DEF TK, TypeOK, Exchange
<1>3. ASSUME NEW phase \in {"granted", "denied", "reused"}, NEW new \in Ids \cup {None},
             Answer(m, phase, new)
      PROVE  \A s \in Tabs : Still(s)
  <2> DEFINE y == [m EXCEPT !.phase = phase, !.new = new]
  <2>1. Goes(m, y)
    BY <1>2 DEF Goes, Exchange
  <2>2. wire' = (wire \ {m}) \cup (IF m.heard THEN {y} ELSE {})
    BY <1>3 DEF Answer
  <2> HIDE DEF y
  <2>3. \/ wire' = (wire \ {m}) \cup {y}
        \/ ~m.heard /\ wire' = wire \ {m}
    BY <2>2
  <2> QED
    BY <1>1, <2>1, <2>3, Listening
<1>4. ASSUME wire' = (wire \ {m}) \cup {[m EXCEPT !.phase = "checked"]}
      PROVE  \A s \in Tabs : Still(s)
  <2> DEFINE y == [m EXCEPT !.phase = "checked"]
  <2>1. Goes(m, y)
    BY <1>2 DEF Goes, Exchange
  <2>2. wire' = (wire \ {m}) \cup {y}
    BY <1>4
  <2> HIDE DEF y
  <2> QED
    BY <1>1, <2>1, <2>2, Listening
<1>5. Verdict(m) \in {"denied", "reused", "checked"}
  BY DEF Verdict
<1>6. None \in Ids \cup {None} /\ (CanIssue => Issued \in Ids \cup {None})
  BY KnownIds, BoundsAssumption DEF TK, CanIssue, Issued, Ids
<1> QED
  BY <1>3, <1>4, <1>5, <1>6 DEF ServerReads, ServerCommits, ServerRefuses

LEMMA StepExpire ==
  ASSUME TK, OneRefresh, NEW n \in Ids, Expire(n)
  PROVE  \A s \in Tabs : Still(s)
<1>1. UNCHANGED <<token, call, inFlight, wire>>
  BY DEF Expire, tabVars
<1> QED
  BY <1>1, SameWire DEF Waiting, Still

LEMMA EveryStep ==
  ASSUME TK, OneRefresh, [Next]_vars
  PROVE  AnyStep
<1>1. CASE UNCHANGED vars
  <2>1. UNCHANGED <<token, call, inFlight, wire>>
    BY <1>1 DEF vars
  <2> QED
    BY <2>1, SameWire DEF Waiting, Still, AnyStep
<1>2. CASE Next
  <2>1. ASSUME NEW t \in Tabs,
               \/ \E c \in Calls, u \in Users : LoginOk(t, c, u)
               \/ \E c \in Calls : CallRefused(t, c)
               \/ RefreshEnds(t)
               \/ Logout(t) \/ ServerLogsOut(t) \/ LogoutDone(t) \/ LogoutLost(t)
               \/ Reload(t)
        PROVE  StepOf(t)
    BY <2>1, StepLoginOk, StepCallRefused, StepRefreshEnds, StepLeaving, StepReload
    DEF RefreshEnds
  <2>2. ASSUME \/ \E t \in Tabs, c \in Calls :
                    StartCall(t, c) \/ CallOk(t, c) \/ CallFails(t, c)
               \/ ServerAnswers
               \/ \E n \in Ids : Expire(n)
        PROVE  \A s \in Tabs : Still(s)
    BY <2>2, StepStartCall, StepCallEnds, StepServer, StepExpire DEF ServerAnswers
  <2> QED
    BY <1>2, <2>1, <2>2 DEF Next, CallEnds, AnyStep
<1> QED
  BY <1>1, <1>2

LEMMA OneRefreshKept ==
  ASSUME TK, OneRefresh, AnyStep
  PROVE  OneRefresh'
<1>1. ASSUME NEW t \in Tabs
      PROVE  Kept(t) \/ Ended(t) \/ \E c \in Calls : Joined(t, c)
  BY DEF AnyStep, StepOf, Still
<1>2. ASSUME NEW t \in Tabs
      PROVE  /\ \A m, n \in Heard(t)' : m = n
             /\ inFlight'[t] <=> Heard(t)' # {}
             /\ Waiting(t)' # {} => inFlight'[t]
  <2>1. CASE Kept(t)
    <3>1. Waiting(t) # {} => inFlight[t]
      BY DEF OneRefresh, Waiting
    <3>2. inFlight[t] <=> Heard(t) # {}
      BY DEF OneRefresh
    <3> QED
      BY <2>1, <3>1, <3>2 DEF Kept
  <2>2. CASE Ended(t)
    BY <2>2 DEF Ended
  <2>3. CASE \E c \in Calls : Joined(t, c)
    BY <2>3 DEF Joined
  <2> QED
    BY <1>1, <2>1, <2>2, <2>3
<1> QED
  BY <1>2 DEF OneRefresh, Waiting

(* OneRefresh: the mutex of lib/api.ts and the exchange it stands for are  *)
(* never out of step, whatever is reloaded, lost or refused.               *)
THEOREM OneRefreshHolds == Spec => []OneRefresh
<1> DEFINE J == TK /\ OneRefresh
<1>1. Init => J
  BY InitTK, IdleType DEF Init, OneRefresh, Heard
<1>2. J /\ [Next]_vars => J'
  BY TKKept, EveryStep, OneRefreshKept
<1>3. J => OneRefresh
  OBVIOUS
<1> QED
  BY <1>1, <1>2, <1>3, PTL DEF Spec

-----------------------------------------------------------------------------
(* The client implements the shared renewal.                               *)
Signed == [t \in Tabs |-> token[t] # None]
Renewing == [t \in Tabs |-> Heard(t) # {}]
Waits == [t \in Tabs |-> {c \in Calls : call[t][c].phase = "waiting"}]

LEMMA RenewalStep ==
  ASSUME AnyStep
  PROVE  Renewal!Next \/ UNCHANGED Renewal!svars
<1>1. /\ Waits' = [t \in Tabs |-> Waiting(t)'] /\ Waits = [t \in Tabs |-> Waiting(t)]
      /\ Renewing' = [t \in Tabs |-> Heard(t)' # {}] /\ Renewing = [t \in Tabs |-> Heard(t) # {}]
      /\ Signed' = [t \in Tabs |-> token'[t] # None] /\ Signed = [t \in Tabs |-> token[t] # None]
  BY DEF Waits, Waiting, Renewing, Heard, Signed
<1>2. CASE \A t \in Tabs : Still(t)
  <2>1. Waits' = Waits
    BY <1>1, <1>2 DEF Still, Kept
  <2>2. Renewing' = Renewing
    BY <1>1, <1>2 DEF Still, Kept
  <2>3. Signed' = Signed
    BY <1>1, <1>2 DEF Still
  <2> QED
    BY <2>1, <2>2, <2>3 DEF Renewal!svars, Waits, Renewing, Signed
<1>3. ASSUME NEW t \in Tabs, StepOf(t)
      PROVE  Renewal!Next
  <2>1. \A s \in Tabs : s # t => Still(s)
    BY <1>3 DEF StepOf
  <2>2. Signed' = [Signed EXCEPT ![t] = (token'[t] # None)]
    BY <1>1, <2>1 DEF Still
  <2>3. CASE Kept(t)
    <3>1. Waits' = Waits
      BY <1>1, <2>1, <2>3 DEF Still, Kept
    <3>2. Renewing' = Renewing
      BY <1>1, <2>1, <2>3 DEF Still, Kept
    <3>3. PICK in \in BOOLEAN : in = (token'[t] # None)
      OBVIOUS
    <3>4. Renewal!Sign(t, in)
      BY <2>2, <3>1, <3>2, <3>3 DEF Renewal!Sign, Waits, Renewing, Signed
    <3> QED
      BY <3>4 DEF Renewal!Next
  <2>4. CASE Ended(t)
    <3>1. Waits' = [Waits EXCEPT ![t] = {}]
      BY <1>1, <2>1, <2>4 DEF Still, Kept, Ended
    <3>2. Renewing' = [Renewing EXCEPT ![t] = FALSE]
      BY <1>1, <2>1, <2>4 DEF Still, Kept, Ended
    <3>3. Renewal!Restart(t)
      BY <2>2, <3>1, <3>2 DEF Renewal!Restart, Waits, Renewing, Signed
    <3> QED
      BY <3>3 DEF Renewal!Next
  <2>5. ASSUME NEW c \in Calls, Joined(t, c)
        PROVE  Renewal!Next
    <3>1. Waits' = [Waits EXCEPT ![t] = Waits[t] \cup {c}]
      BY <1>1, <2>1, <2>5 DEF Still, Kept, Joined
    <3>2. Renewing' = [Renewing EXCEPT ![t] = TRUE]
      BY <1>1, <2>1, <2>5 DEF Still, Kept, Joined
    <3>3. Signed' = Signed
      BY <1>1, <2>1, <2>5 DEF Still, Joined
    <3>4. Renewal!Join(t, c)
      BY <3>1, <3>2, <3>3 DEF Renewal!Join, Waits, Renewing, Signed
    <3> QED
      BY <3>4 DEF Renewal!Next
  <2> QED
    BY <1>3, <2>3, <2>4, <2>5 DEF StepOf
<1> QED
  BY <1>2, <1>3 DEF AnyStep

(* The safety half of SharesRenewal: every step of a tab and its server is *)
(* a step of the shared renewal, or none of its business.                  *)
THEOREM RenewalSafeHolds == Spec => RenewalSafe
<1> DEFINE J == TK /\ OneRefresh
<1>1. Init => J
  BY InitTK, IdleType DEF Init, OneRefresh, Heard
<1>2. J /\ [Next]_vars => J'
  BY TKKept, EveryStep, OneRefreshKept
<1>3. Init => Renewal!Init
  <2> SUFFICES ASSUME Init PROVE Renewal!Init
    OBVIOUS
  <2>1. \A t \in Tabs : token[t] = None /\ Heard(t) = {}
    BY DEF Init, Heard
  <2>2. \A t \in Tabs, c \in Calls : call[t][c].phase # "waiting"
    BY IdleType DEF Init
  <2>3. \A t \in Tabs : {c \in Calls : call[t][c].phase = "waiting"} = {}
    BY <2>2
  <2> QED
    BY <2>1, <2>3 DEF Renewal!Init
<1>4. J /\ [Next]_vars => [Renewal!Next]_(Renewal!svars)
  BY EveryStep, RenewalStep
<1> HIDE DEF J
<1> QED
  BY <1>1, <1>2, <1>3, <1>4, PTL DEF Spec, RenewalSafe, Renewal!Spec

-----------------------------------------------------------------------------
(* Whom the browser is about.  The numbers of u's tokens, and none:        *)
Mine(u) == {n \in Known : Of(n, u)}

Shows(u, n, w) == n \in Mine(u) /\ w \in {Nobody, u} /\ (n = None => w = Nobody)

Person(u) ==
  /\ cookie \in Mine(u)
  /\ Shows(u, stored.token, stored.user)
  /\ \A t \in Tabs : Shows(u, token[t], user[t])
  /\ \A t \in Tabs, c \in Calls : call[t][c].token \in Mine(u)
  /\ \A m \in wire : m.cookie \in Mine(u) /\ m.new \in Mine(u)

LEMMA PersonIs ==
  ASSUME TK, ~crossed
  PROVE  PersonInv <=> \E u \in Users \cup {Nobody} : Person(u)
<1>1. ASSUME NEW u
      PROVE  Person(u) <=> /\ OnePerson(u)
                           /\ \A t \in Tabs : (token[t] = None => user[t] = Nobody)
                           /\ (stored.token = None => stored.user = Nobody)
  BY DEF TK, KnownInv, Person, Shows, Mine, OnePerson
<1> QED
  BY <1>1 DEF PersonInv

LEMMA NoneMine ==
  ASSUME TK, NEW u
  PROVE  None \in Mine(u)
  BY KnownIds DEF TK, Mine, Of

LEMMA MineSame ==
  ASSUME NEW u, UNCHANGED sessions
  PROVE  Mine(u)' = Mine(u)
  BY DEF Mine, Known, Of

LEMMA MineGrows ==
  ASSUME TK, NEW u, Known \subseteq Known',
         \A n \in 1..Len(sessions) : sessions'[n].owner = sessions[n].owner
  PROVE  Mine(u) \subseteq Mine(u)'
<1>1. \A n \in Known : n # None => n \in 1..Len(sessions)
  BY KnownIds DEF TK
<1> QED
  BY <1>1 DEF Mine, Of

(* Nothing but the numbers is new to the browser.                          *)
LEMMA PersonSame ==
  ASSUME NEW u, Person(u), Mine(u) \subseteq Mine(u)',
         UNCHANGED <<cookie, stored, token, user, call, wire>>
  PROVE  Person(u)'
  BY DEF Person, Shows

(* A tab that wrote to its store, which is that of the person already.     *)
LEMMA PutShows ==
  ASSUME TK, NEW u, Person(u), NEW t \in Tabs, NEW tok \in Ids \cup {None},
         NEW usr \in Users \cup {Nobody}, Put(t, tok, usr), Shows(u, tok, usr),
         UNCHANGED sessions
  PROVE  Shows(u, stored'.token, stored'.user) /\ \A s \in Tabs : Shows(u, token'[s], user'[s])
<1>1. /\ stored' = [token |-> tok, user |-> usr]
      /\ token'[t] = tok /\ user'[t] = usr
      /\ \A s \in Tabs : s # t => token'[s] = token[s] /\ user'[s] = user[s]
  BY PutType DEF TK
<1> QED
  BY <1>1 DEF Person

(* What the next state has to show when the table is the same.             *)
LEMMA PersonNext ==
  ASSUME NEW u, UNCHANGED sessions, cookie' \in Mine(u),
         Shows(u, stored'.token, stored'.user),
         \A t \in Tabs : Shows(u, token'[t], user'[t]),
         \A t \in Tabs, c \in Calls : call'[t][c].token \in Mine(u),
         \A m \in wire' : m.cookie \in Mine(u) /\ m.new \in Mine(u)
  PROVE  Person(u)'
<1>1. Mine(u)' = Mine(u)
  BY MineSame
<1> QED
  BY <1>1 DEF Person, Shows

LEMMA PersonLoginOk ==
  ASSUME TK, TK', StoredInv, PersonInv, ~crossed,
         NEW t \in Tabs, NEW c \in Calls, NEW u \in Users, LoginOk(t, c, u), Quiet
  PROVE  Person(u)'
<1>1. PICK w \in Users \cup {Nobody} : Person(w)
  BY PersonIs
<1>2. \A s \in Tabs : token[s] = None /\ user[s] = Nobody
  BY <1>1 DEF Quiet, Person, Shows
<1>3. \A s \in Tabs, d \in Calls : call[s][d].token = None
  BY IdleType DEF Quiet
<1>4. Fresh(u) \in Session /\ Fresh(u).owner = u
  BY DEF Fresh, Session
<1>5. /\ Issued \in Known' /\ Issued # None /\ Issued \in Ids /\ Known \subseteq Known'
      /\ sessions'[Issued] = Fresh(u)
  <2>1. sessions' = Append(sessions, Fresh(u)) /\ CanIssue
    BY DEF LoginOk
  <2> QED
    BY <1>4, <2>1, KnownIds, Issuing DEF TK
<1>6. None \in Mine(u)' /\ Issued \in Mine(u)'
  <2>1. None \in Known'
    BY <1>5, KnownIds DEF TK
  <2> QED
    BY <1>4, <1>5, <2>1 DEF Mine, Of
<1>7. /\ token'[t] = Issued /\ user'[t] = Nobody
      /\ stored' = [token |-> Issued, user |-> Nobody]
      /\ \A s \in Tabs : s # t => token'[s] = None /\ user'[s] = Nobody
  <2>1. Put(t, Issued, Nobody)
    BY <1>2 DEF LoginOk, SetAccessToken
  <2> QED
    BY <1>2, <1>5, <2>1, PutType DEF TK
<1> DEFINE k == [phase |-> "sent", me |-> TRUE, token |-> Issued]
<1>8. k.token = Issued /\ call' = [call EXCEPT ![t][c] = k]
  BY DEF LoginOk
<1> HIDE DEF k
<1>9. \A s \in Tabs, d \in Calls : call'[s][d].token \in {None, Issued}
  BY <1>3, <1>8 DEF TK, TypeOK
<1>10. cookie' = Issued /\ wire' = {}
  BY DEF LoginOk, Quiet
<1> QED
  BY <1>5, <1>6, <1>7, <1>9, <1>10 DEF Person, Shows

LEMMA PersonCallOk ==
  ASSUME TK, NEW u \in Users \cup {Nobody}, Person(u),
         NEW t \in Tabs, NEW c \in Calls, CallOk(t, c),
         call[t][c].me => token[t] # None
  PROVE  Person(u)'
<1>1. /\ call'[t][c] = Idle
      /\ \A s \in Tabs, d \in Calls : s # t \/ d # c => call'[s][d] = call[s][d]
  BY ZenonT(40), IdleCall DEF CallOk
<1>2. \A s \in Tabs, d \in Calls : call'[s][d].token \in Mine(u)
  BY <1>1, IdleType, NoneMine DEF Person
<1>3. Shows(u, stored'.token, stored'.user) /\ \A s \in Tabs : Shows(u, token'[s], user'[s])
  <2>1. CASE call[t][c].me
    <3>1. call[t][c].token \in Mine(u) /\ call[t][c].token # None
      BY DEF Person, CallOk, TK, KnownInv
    <3>2. sessions[call[t][c].token].owner = u
      BY <3>1 DEF Mine, Of
    <3>3. Put(t, token[t], u)
      BY <2>1, <3>2 DEF CallOk, SetUser
    <3>4. Shows(u, token[t], u) /\ token[t] \in Ids \cup {None}
      BY <2>1 DEF Person, Shows, TK, TypeOK
    <3> QED
      BY <3>3, <3>4, PutShows DEF CallOk, serverVars
  <2>2. CASE ~call[t][c].me
    BY <2>2 DEF CallOk, tabVars, Person
  <2> QED
    BY <2>1, <2>2
<1> QED
  BY <1>2, <1>3, PersonNext DEF CallOk, serverVars, Person

LEMMA PersonCall ==
  ASSUME TK, NEW u \in Users \cup {Nobody}, Person(u),
         NEW t \in Tabs, NEW c \in Calls,
         StartCall(t, c) \/ CallFails(t, c) \/ CallRefused(t, c)
  PROVE  Person(u)'
<1>1. UNCHANGED <<sessions, cookie, token, user, stored>>
  BY DEF StartCall, CallFails, CallRefused, serverVars, tabVars
<1>2. \A s \in Tabs, d \in Calls : call'[s][d].token \in Mine(u)
  <2>1. CASE StartCall(t, c)
    <3>1. /\ call'[t][c].token = token[t]
          /\ \A s \in Tabs, d \in Calls : s # t \/ d # c => call'[s][d] = call[s][d]
      BY <2>1, SetCallType DEF TK, StartCall, TypeOK
    <3> QED
      BY <3>1 DEF Person, Shows
  <2>2. CASE CallFails(t, c)
    <3>1. /\ call'[t][c] = Idle
          /\ \A s \in Tabs, d \in Calls : s # t \/ d # c => call'[s][d] = call[s][d]
      BY <2>2, IdleCall DEF CallFails
    <3> QED
      BY <3>1, IdleType, NoneMine DEF Person
  <2>3. CASE CallRefused(t, c)
    <3>1. call[t][c].token \in Ids \cup {None}
      BY KnownIds DEF TK, KnownInv
    <3>2. /\ call'[t][c].token = call[t][c].token
          /\ \A s \in Tabs, d \in Calls : s # t \/ d # c => call'[s][d] = call[s][d]
      BY <2>3, <3>1, SetCallType DEF CallRefused, TK
    <3> QED
      BY <3>2 DEF Person
  <2> QED
    BY <2>1, <2>2, <2>3
<1>3. \A x \in wire' : x.cookie \in Mine(u) /\ x.new \in Mine(u)
  <2>1. wire' = wire \/ wire' = wire \cup {Refresh(t)}
    BY DEF StartCall, CallFails, CallRefused, GetOrRefreshToken
  <2>2. Refresh(t).cookie \in Mine(u) /\ Refresh(t).new \in Mine(u)
    BY RefreshType, NoneMine DEF TK, Person
  <2> QED
    BY <2>1, <2>2 DEF Person
<1> QED
  BY <1>1, <1>2, <1>3, PersonNext DEF Person

LEMMA PersonRefreshOk ==
  ASSUME TK, NEW u \in Users \cup {Nobody}, Person(u), NEW m \in wire, RefreshOk(m)
  PROVE  Person(u)'
<1>1. m.tab \in Tabs /\ m.new \in Mine(u) /\ m.new # None /\ m.new \in Ids
  BY ExchangeType DEF TK, KnownInv, RefreshOk, Person
<1>2. Woken(m.tab, m.new)
  BY <1>1, Resending DEF RefreshOk, TK
<1>3. \A s \in Tabs, d \in Calls : call'[s][d].token \in Mine(u)
  BY <1>1, <1>2, IdleType, NoneMine DEF Woken, Person
<1>4. Shows(u, stored'.token, stored'.user) /\ \A s \in Tabs : Shows(u, token'[s], user'[s])
  <2>1. Put(m.tab, m.new, user[m.tab]) /\ user[m.tab] \in Users \cup {Nobody}
    BY <1>1 DEF RefreshOk, SetAccessToken, TK, TypeOK
  <2>2. Shows(u, m.new, user[m.tab])
    BY <1>1 DEF Shows, Person
  <2> QED
    BY <1>1, <2>1, <2>2, PutShows DEF RefreshOk, serverVars
<1> QED
  BY <1>1, <1>3, <1>4, PersonNext DEF RefreshOk, TakeCookie, serverVars, Person

(* A tab that is signed out.                                               *)
LEMMA ClearShows ==
  ASSUME TK, NEW u \in Users \cup {Nobody}, Person(u), NEW t \in Tabs, ClearAuth(t),
         UNCHANGED sessions
  PROVE  Shows(u, stored'.token, stored'.user) /\ \A s \in Tabs : Shows(u, token'[s], user'[s])
<1>1. Shows(u, None, Nobody)
  BY NoneMine DEF Shows
<1> QED
  BY <1>1, PutShows DEF ClearAuth

LEMMA PersonSignedOut ==
  ASSUME TK, NEW u \in Users \cup {Nobody}, Person(u), NEW m \in wire,
         RefreshDenied(m) \/ RefreshLost(m)
  PROVE  Person(u)'
<1>1. m.tab \in Tabs /\ {m} \in SUBSET wire
  BY ExchangeType DEF TK
<1>2. Settle(m, Thrown) /\ ClearAuth(m.tab) /\ UNCHANGED <<sessions, cookie>>
  BY DEF RefreshDenied, RefreshLost, serverVars
<1>3. \A s \in Tabs, d \in Calls : call'[s][d].token \in Mine(u)
  <2>1. \A s \in Tabs, d \in Calls : call'[s][d] \in {call[s][d], Idle}
    BY <1>2, Throwing DEF TK
  <2> QED
    BY <2>1, IdleType, NoneMine DEF Person
<1>4. Shows(u, stored'.token, stored'.user) /\ \A s \in Tabs : Shows(u, token'[s], user'[s])
  BY <1>1, <1>2, ClearShows
<1>5. \A x \in wire' : x.cookie \in Mine(u) /\ x.new \in Mine(u)
  <2>1. CASE wire' = wire \ {m}
    BY <2>1 DEF Person
  <2>2. CASE Drop({m})
    <3>1. \A x \in wire' : x \in wire \ {m} \/ (x.cookie = m.cookie /\ x.new = m.new)
      BY <1>1, <2>2, Dropping DEF TK
    <3> QED
      BY <3>1 DEF Person
  <2> QED
    BY <2>1, <2>2 DEF RefreshDenied, RefreshLost
<1> QED
  BY <1>2, <1>3, <1>4, <1>5, PersonNext DEF Person

LEMMA PersonLeaving ==
  ASSUME TK, NEW u \in Users \cup {Nobody}, Person(u), NEW t \in Tabs,
         Logout(t) \/ ServerLogsOut(t) \/ LogoutDone(t) \/ LogoutLost(t)
  PROVE  Person(u)'
<1>1. CASE Logout(t)
  BY <1>1, MineSame, PersonSame DEF Logout, serverVars, tabVars
<1>2. CASE ServerLogsOut(t)
  <2>1. /\ Len(sessions') = Len(sessions)
        /\ \A n \in 1..Len(sessions) : sessions'[n].owner = sessions[n].owner
    <3>1. CASE leaving[t].cookie # None /\ ~Revoked(leaving[t].cookie)
      <4>1. leaving[t].cookie \in 1..Len(sessions)
        BY <3>1, KnownIds DEF TK, KnownInv
      <4>2. sessions' = Revoke(leaving[t].cookie, TheLogout)
        BY <1>2, <3>1 DEF ServerLogsOut
      <4> QED
        BY <4>1, <4>2, Revoking DEF TK
    <3>2. CASE ~(leaving[t].cookie # None /\ ~Revoked(leaving[t].cookie))
      <4>1. sessions' = sessions
        BY <1>2, <3>2 DEF ServerLogsOut
      <4> QED
        BY <4>1
    <3> QED
      BY <3>1, <3>2
  <2>2. Known' = Known
    BY <2>1 DEF Known
  <2>3. Mine(u) \subseteq Mine(u)'
    BY <2>1, <2>2, MineGrows
  <2> QED
    BY <1>2, <2>3, PersonSame DEF ServerLogsOut, tabVars
<1>3. CASE LogoutDone(t) \/ LogoutLost(t)
  <2>1. /\ UNCHANGED <<sessions, call, wire>> /\ ClearAuth(t)
        /\ cookie' \in {cookie, None}
    BY <1>3 DEF LogoutDone, LogoutLost, serverVars
  <2>2. cookie' \in Mine(u)
    BY <2>1, NoneMine DEF Person
  <2>3. Shows(u, stored'.token, stored'.user) /\ \A s \in Tabs : Shows(u, token'[s], user'[s])
    BY <2>1, ClearShows
  <2> QED
    BY <2>1, <2>2, <2>3, PersonNext DEF Person
<1> QED
  BY <1>1, <1>2, <1>3

LEMMA PersonReload ==
  ASSUME TK, NEW u \in Users \cup {Nobody}, Person(u), NEW t \in Tabs, Reload(t)
  PROVE  Person(u)'
<1> DEFINE ms == {m \in wire : m.tab = t /\ m.heard}
           idle == [c \in Calls |-> Idle]
<1>1. UNCHANGED <<sessions, cookie, stored>>
  BY DEF Reload, serverVars
<1>2. \A s \in Tabs : Shows(u, token'[s], user'[s])
  BY DEF Reload, TK, TypeOK, Person
<1>3. idle \in [Calls -> CallState] /\ \A c \in Calls : idle[c] = Idle
  BY IdleType
<1>4. call' = [call EXCEPT ![t] = idle] /\ Drop(ms) /\ ms \in SUBSET wire
  BY DEF Reload
<1> HIDE DEF ms, idle
<1>5. \A s \in Tabs, d \in Calls : call'[s][d].token \in Mine(u)
  <2>1. \A s \in Tabs, d \in Calls : call'[s][d] \in {call[s][d], Idle}
    BY <1>3, <1>4 DEF TK, TypeOK
  <2> QED
    BY <2>1, IdleType, NoneMine DEF Person
<1>6. \A x \in wire' : x.cookie \in Mine(u) /\ x.new \in Mine(u)
  <2>1. \A x \in wire' : \/ x \in wire
                         \/ \E m \in ms : x.cookie = m.cookie /\ x.new = m.new
    BY <1>4, Dropping DEF TK
  <2> QED
    BY <1>4, <2>1 DEF Person
<1> QED
  BY <1>1, <1>2, <1>5, <1>6, PersonNext DEF Person

LEMMA PersonServer ==
  ASSUME TK, NEW u \in Users \cup {Nobody}, Person(u), NEW m \in wire,
         ServerReads(m) \/ ServerRefuses(m)
  PROVE  Person(u)'
<1>1. UNCHANGED <<sessions, cookie, token, user, stored, call>>
  BY DEF ServerReads, ServerRefuses, serverVars, tabVars
<1>2. None \in Mine(u) /\ None \in Ids \cup {None}
  BY NoneMine
<1>3. \A x \in wire' : x \in wire \/ (Goes(m, x) /\ x.new \in {m.new, None})
  <2>1. CASE wire' = (wire \ {m}) \cup {[m EXCEPT !.phase = "checked"]}
    <3>1. \A x \in wire' : \/ x \in wire \ {m}
                           \/ Goes(m, x) /\ x.phase = "checked" /\ x.new = m.new
      BY <2>1, Checking DEF TK
    <3> QED
      BY <3>1
  <2>2. ASSUME NEW phase \in {"denied", "reused"}, Answer(m, phase, None)
        PROVE  \A x \in wire' : x \in wire \/ (Goes(m, x) /\ x.new \in {m.new, None})
    <3>1. \A x \in wire' : \/ x \in wire \ {m}
                           \/ Goes(m, x) /\ x.phase = phase /\ x.new = None
      BY <1>2, <2>2, Answering DEF TK
    <3> QED
      BY <3>1
  <2>3. Verdict(m) \in {"denied", "reused", "checked"}
    BY DEF Verdict
  <2> QED
    BY <2>1, <2>2, <2>3 DEF ServerReads, ServerRefuses
<1>4. \A x \in wire' : x.cookie \in Mine(u) /\ x.new \in Mine(u)
  BY <1>2, <1>3 DEF Goes, Person
<1> QED
  BY <1>1, <1>4, PersonNext DEF Person

LEMMA PersonServerCommits ==
  ASSUME TK, NEW u \in Users \cup {Nobody}, Person(u), NEW m \in wire, ServerCommits(m)
  PROVE  Person(u)'
<1>1. m.cookie \in 1..Len(sessions) /\ sessions[m.cookie] \in Session /\ m.tab \in Tabs
  BY ExchangeType, KnownIds DEF TK, KnownInv, ServerCommits
<1>2. sessions[m.cookie].owner = u
  BY <1>1 DEF Person, Mine, Of, ServerCommits, TK, KnownInv
<1> DEFINE s == Revoke(m.cookie, m.tab)
<1>3. /\ s \in Seq(Session) /\ Len(s) = Len(sessions)
      /\ \A n \in 1..Len(sessions) : s[n].owner = sessions[n].owner
  BY <1>1, Revoking DEF TK
<1>4. Fresh(u) \in Session /\ Fresh(u).owner = u
  BY <1>1, <1>2 DEF Fresh, Session
<1>5. sessions' = Append(s, Fresh(u)) /\ CanIssue
  BY <1>2 DEF ServerCommits
<1> HIDE DEF s
<1>6. /\ Known \subseteq Known' /\ Issued \in Known' /\ Issued # None /\ Issued \in Ids
      /\ sessions'[Issued] = Fresh(u)
      /\ \A n \in 1..Len(sessions) : sessions'[n] = s[n]
  BY <1>3, <1>4, <1>5, Issuing DEF TK
<1>7. Mine(u) \subseteq Mine(u)' /\ Issued \in Mine(u)'
  <2>1. \A n \in 1..Len(sessions) : sessions'[n].owner = sessions[n].owner
    BY <1>3, <1>6
  <2> QED
    BY <1>4, <1>6, <2>1, MineGrows DEF Mine, Of
<1>8. \A x \in wire' : x \in wire \/ (Goes(m, x) /\ x.new = Issued)
  BY <1>6, Answering DEF TK, ServerCommits
<1>9. \A x \in wire' : x.cookie \in Mine(u)' /\ x.new \in Mine(u)'
  BY <1>7, <1>8 DEF Goes, Person
<1>10. UNCHANGED <<cookie, token, user, stored, call>>
  BY DEF ServerCommits, tabVars
<1> QED
  BY <1>7, <1>9, <1>10 DEF Person, Shows

LEMMA PersonKept ==
  ASSUME TK, TK', StoredInv, PersonInv, [Next]_vars
  PROVE  PersonInv'
<1> SUFFICES ASSUME ~crossed'
             PROVE  \E u \in Users \cup {Nobody} : Person(u)'
  <2>1. (TK /\ ~crossed /\ (\E u \in Users \cup {Nobody} : Person(u)) => PersonInv)'
    BY PersonIs, PTL
  <2> QED
    BY <2>1 DEF PersonInv
<1>1. CASE UNCHANGED vars
  <2>1. UNCHANGED <<sessions, cookie, token, user, stored, call, wire, crossed>>
    BY <1>1 DEF vars
  <2>2. PICK u \in Users \cup {Nobody} : Person(u)
    BY <2>1, PersonIs
  <2> QED
    BY <2>1, <2>2, MineSame, PersonSame
<1>2. ASSUME NEW t \in Tabs, NEW c \in Calls, NEW u \in Users, LoginOk(t, c, u)
      PROVE  \E w \in Users \cup {Nobody} : Person(w)'
  <2>1. ~crossed /\ Quiet
    BY <1>2, Zenon DEF LoginOk
  <2>2. Person(u)'
    BY <1>2, <2>1, PersonLoginOk
  <2> QED
    BY <2>2
<1>3. ASSUME Next, \A t \in Tabs, c \in Calls, u \in Users : ~LoginOk(t, c, u)
      PROVE  \E w \in Users \cup {Nobody} : Person(w)'
  <2>1. \/ UNCHANGED crossed
        \/ \E t \in Tabs, c \in Calls : CallOk(t, c)
    BY <1>3, Zenon DEF Next, StartCall, CallEnds, CallFails, CallRefused, RefreshEnds,
      RefreshOk, RefreshDenied, RefreshLost, Logout, ServerLogsOut, LogoutDone, LogoutLost,
      Reload, ServerAnswers, ServerReads, ServerCommits, ServerRefuses, Expire
  <2>2. ASSUME NEW t \in Tabs, NEW c \in Calls, CallOk(t, c)
        PROVE  ~crossed /\ (call[t][c].me => token[t] # None)
    BY <2>2, Zenon DEF CallOk
  <2>3. ~crossed
    BY <2>1, <2>2
  <2>4. PICK u \in Users \cup {Nobody} : Person(u)
    BY <2>3, PersonIs
  <2>5. ASSUME NEW n \in Ids, Expire(n)
        PROVE  Person(u)'
    BY <2>4, <2>5, MineSame, PersonSame DEF Expire, tabVars
  <2>6. ASSUME NEW t \in Tabs, NEW c \in Calls, CallOk(t, c)
        PROVE  Person(u)'
    BY <2>2, <2>4, <2>6, PersonCallOk
  <2> QED
    BY <1>3, <2>4, <2>5, <2>6, PersonCall, PersonRefreshOk, PersonSignedOut, PersonLeaving,
      PersonReload, PersonServer, PersonServerCommits
    DEF Next, CallEnds, RefreshEnds, ServerAnswers
<1> QED
  BY <1>1, <1>2, <1>3

(* localStorage has what the tab that wrote it last still shows: whoever   *)
(* writes it writes its own store, and a reload reads it.                  *)
LEMMA PutStored ==
  ASSUME TK, NEW t \in Tabs, NEW tok \in Ids \cup {None}, NEW usr \in Users \cup {Nobody},
         Put(t, tok, usr)
  PROVE  StoredInv'
<1>1. /\ stored' = [token |-> tok, user |-> usr]
      /\ token'[t] = tok /\ user'[t] = usr
  BY PutType DEF TK
<1> QED
  BY <1>1 DEF StoredInv

LEMMA StoredKept ==
  ASSUME TK, StoredInv, [Next]_vars
  PROVE  StoredInv'
<1>1. CASE UNCHANGED tabVars
  BY <1>1 DEF StoredInv, tabVars
<1>2. ASSUME NEW t \in Tabs, ClearAuth(t)
      PROVE  StoredInv'
  BY <1>2, PutStored DEF ClearAuth
<1>3. ASSUME NEW t \in Tabs, NEW c \in Calls, NEW u \in Users, LoginOk(t, c, u)
      PROVE  StoredInv'
  <2>1. Issued \in Ids
    BY <1>3, KnownIds, BoundsAssumption DEF TK, LoginOk, CanIssue, Issued, Ids
  <2> QED
    BY <1>3, <2>1, PutStored DEF LoginOk, SetAccessToken, TK, TypeOK
<1>4. ASSUME NEW t \in Tabs, NEW c \in Calls, CallOk(t, c)
      PROVE  StoredInv'
  <2>1. sessions[call[t][c].token] \in Session
    BY <1>4, KnownIds DEF CallOk, TK, KnownInv
  <2>2. sessions[call[t][c].token].owner \in Users /\ token[t] \in Ids \cup {None}
    BY <2>1 DEF Session, TK, TypeOK
  <2> QED
    BY <1>1, <1>4, <2>2, PutStored DEF CallOk, SetUser
<1>5. ASSUME NEW m \in wire, RefreshOk(m)
      PROVE  StoredInv'
  <2>1. m.tab \in Tabs /\ m.new \in Ids \cup {None} /\ user[m.tab] \in Users \cup {Nobody}
    BY ExchangeType DEF TK, TypeOK
  <2> QED
    BY <1>5, <2>1, PutStored DEF RefreshOk, SetAccessToken
<1>6. ASSUME NEW m \in wire, RefreshDenied(m) \/ RefreshLost(m)
      PROVE  StoredInv'
  BY <1>2, <1>6, ExchangeType DEF RefreshDenied, RefreshLost, TK
<1>7. ASSUME NEW t \in Tabs, Reload(t)
      PROVE  StoredInv'
  <2>1. token'[t] = stored.token /\ user'[t] = stored.user /\ stored' = stored
    BY <1>7 DEF Reload, TK, TypeOK
  <2>2. stored = [token |-> stored.token, user |-> stored.user]
    BY DEF TK, TypeOK, Store
  <2> QED
    BY <2>1, <2>2 DEF StoredInv
<1>8. CASE UNCHANGED vars
  BY <1>1, <1>8 DEF vars, tabVars
<1>9. CASE Next
  <2>1. ASSUME NEW t \in Tabs, NEW c \in Calls,
               StartCall(t, c) \/ CallFails(t, c) \/ CallRefused(t, c)
        PROVE  StoredInv'
    BY <1>1, <2>1 DEF StartCall, CallFails, CallRefused
  <2>2. ASSUME NEW t \in Tabs, Logout(t) \/ ServerLogsOut(t) \/ LogoutDone(t) \/ LogoutLost(t)
        PROVE  StoredInv'
    BY <1>1, <1>2, <2>2 DEF Logout, ServerLogsOut, LogoutDone, LogoutLost
  <2>3. ASSUME NEW m \in wire, ServerReads(m) \/ ServerCommits(m) \/ ServerRefuses(m)
        PROVE  StoredInv'
    BY <1>1, <2>3 DEF ServerReads, ServerCommits, ServerRefuses
  <2>4. ASSUME NEW n \in Ids, Expire(n)
        PROVE  StoredInv'
    BY <1>1, <2>4 DEF Expire
  <2> QED
    BY <1>3, <1>4, <1>5, <1>6, <1>7, <1>9, <2>1, <2>2, <2>3, <2>4
    DEF Next, CallEnds, RefreshEnds, ServerAnswers
<1> QED
  BY <1>8, <1>9

(* IdentityKept: nobody is shown beside another's token, unless people     *)
(* crossed; the tokens in use are all of one person (PersonInv), and what  *)
(* a tab may load again is what some tab shows (StoredInv).                *)
THEOREM IdentityKeptHolds == Spec => []IdentityKept
<1> DEFINE J == TK /\ StoredInv /\ PersonInv
<1>1. Init => J
  <2> SUFFICES ASSUME Init PROVE J
    OBVIOUS
  <2>1. TK
    BY InitTK
  <2>2. StoredInv
    BY DEF Init, StoredInv
  <2>3. Person(Nobody) /\ ~crossed
    BY <2>1, IdleType, NoneMine DEF Init, Person, Shows
  <2>4. PersonInv
    BY <2>1, <2>3, PersonIs
  <2> QED
    BY <2>1, <2>2, <2>4
<1>2. J /\ [Next]_vars => J'
  BY TKKept, StoredKept, PersonKept
<1>3. J => IdentityKept
  <2> SUFFICES ASSUME J, ~crossed, NEW t \in Tabs, user[t] # Nobody, token[t] # None
               PROVE  user[t] = sessions[token[t]].owner
    BY DEF IdentityKept
  <2>1. PICK u \in Users \cup {Nobody} : Person(u)
    BY PersonIs
  <2> QED
    BY <2>1 DEF Person, Shows, Mine, Of
<1> QED
  BY <1>1, <1>2, <1>3, PTL DEF Spec

-----------------------------------------------------------------------------
(* Who spends a refresh token twice.                                       *)
SI == TK /\ OneRefresh /\ DeafInv /\ UnseenInv /\ SpentInv

Spending == DeafInv /\ UnseenInv /\ SpentInv

LEMMA Granted ==
  ASSUME TK, NEW m \in wire, m.phase = "granted"
  PROVE  m.new \in 1..Len(sessions) /\ m.new # None
  BY KnownIds DEF TK, KnownInv

(* The table, the exchanges and their losses are the same; a logout has    *)
(* the cookie the browser had, and may delete it.                          *)
LEMMA SpendingSame ==
  ASSUME SI, UNCHANGED <<sessions, wire, unheard>>, cookie' \in {cookie, None},
         \A t \in Tabs : leaving'[t].cookie \in {leaving[t].cookie, cookie, None}
  PROVE  Spending'
<1>1. \A m \in wire : m.phase = "granted" => m.new # None
  BY Granted DEF SI
<1>2. \A j \in DOMAIN sessions : j # None
  BY KnownIds DEF SI, TK, None
<1>3. UnseenInv'
  BY <1>1 DEF SI, UnseenInv
<1>4. SpentInv'
  BY <1>2 DEF SI, SpentInv, Heard
<1> QED
  BY <1>3, <1>4 DEF SI, Spending, DeafInv

LEMMA SpendingCallRefused ==
  ASSUME SI, NEW t \in Tabs, NEW c \in Calls, CallRefused(t, c)
  PROVE  Spending'
<1> DEFINE r == Refresh(t)
<1>1. UNCHANGED <<sessions, cookie, leaving, unheard>>
  BY DEF CallRefused, serverVars
<1>2. r.tab = t /\ r.heard /\ r.cookie = cookie /\ r.phase = "sent"
  BY RefreshType DEF SI, TK
<1>3. CASE inFlight[t]
  <2>1. wire' = wire
    BY <1>3 DEF CallRefused, GetOrRefreshToken
  <2> QED
    BY <1>1, <2>1, SpendingSame
<1>4. CASE ~inFlight[t]
  <2>1. wire' = wire \cup {r} /\ Heard(t) = {}
    BY <1>4 DEF CallRefused, GetOrRefreshToken, SI, OneRefresh
  <2> HIDE DEF r
  <2>2. DeafInv'
    BY <1>1, <1>2, <2>1 DEF SI, DeafInv
  <2>3. UnseenInv'
    BY <1>1, <1>2, <2>1 DEF SI, UnseenInv
  <2>4. Heard(t)' = {r} /\ \A s \in Tabs : s # t => Heard(s)' = Heard(s)
    BY <1>2, <2>1 DEF Heard
  <2>5. SpentInv'
    BY <1>1, <1>2, <2>1, <2>4 DEF SI, SpentInv
  <2> QED
    BY <2>2, <2>3, <2>5 DEF Spending
<1> QED
  BY <1>3, <1>4

LEMMA SpendingRefreshOk ==
  ASSUME SI, NEW m \in wire, RefreshOk(m)
  PROVE  Spending'
<1>1. /\ wire' = wire \ {m} /\ cookie' = m.new /\ m.phase = "granted" /\ m.heard
      /\ UNCHANGED <<sessions, leaving, unheard>>
  BY DEF RefreshOk, TakeCookie, serverVars
<1>2. m.tab \in Tabs /\ m \in Heard(m.tab)
  BY <1>1, ExchangeType DEF SI, TK, Heard
<1>3. Heard(m.tab)' = {} /\ \A s \in Tabs : s # m.tab => Heard(s)' = Heard(s)
  BY <1>1, <1>2 DEF Heard, SI, OneRefresh
<1>4. sessions[m.new].by = Nothing
  BY <1>1 DEF SI, UnseenInv
<1>5. DeafInv' /\ UnseenInv'
  BY <1>1 DEF SI, DeafInv, UnseenInv
<1>6. SpentInv'
  BY <1>1, <1>3, <1>4, NamesAssumption DEF SI, SpentInv
<1> QED
  BY <1>5, <1>6 DEF Spending

(* An answer that is no token ends the refresh.                            *)
LEMMA SpendingRefreshDenied ==
  ASSUME SI, NEW m \in wire, RefreshDenied(m)
  PROVE  Spending'
<1>1. /\ wire' = wire \ {m} /\ m.phase # "granted" /\ m.heard
      /\ UNCHANGED <<sessions, cookie, leaving, unheard>>
  BY DEF RefreshDenied, serverVars
<1>2. m.tab \in Tabs /\ m \in Heard(m.tab)
  BY <1>1, ExchangeType DEF SI, TK, Heard
<1>3. Heard(m.tab) = {m} /\ Heard(m.tab)' = {}
  BY <1>1, <1>2 DEF Heard, SI, OneRefresh
<1>4. \A s \in Tabs : s # m.tab => Heard(s)' = Heard(s)
  BY <1>1 DEF Heard
<1>5. DeafInv' /\ UnseenInv'
  BY <1>1 DEF SI, DeafInv, UnseenInv
<1>6. SpentInv'
  BY <1>1, <1>2, <1>3, <1>4 DEF SI, SpentInv
<1> QED
  BY <1>5, <1>6 DEF Spending

(* What a tab no longer listens to is remembered.                          *)
LEMMA SpendingDrop ==
  ASSUME SI, NEW t \in Tabs, NEW ms, ms = Heard(t), Drop(ms),
         UNCHANGED <<sessions, cookie>>,
         \A s \in Tabs : leaving'[s].cookie \in {leaving[s].cookie, None}
  PROVE  Spending'
<1>1. ms \in SUBSET wire
  BY DEF Heard
<1>2. /\ wire \ ms \subseteq wire'
      /\ \A x \in wire' :
           \/ x \in wire \ ms
           \/ /\ ~x.heard
              /\ \E m \in ms : x.cookie = m.cookie /\ x.new = m.new
              /\ x.phase \in {"sent", "checked"}
      /\ unheard \subseteq unheard'
      /\ \A m \in ms : m.cookie # None => m.cookie \in unheard'
  BY <1>1, Dropping DEF SI, TK
<1>3. Heard(t)' = {} /\ \A s \in Tabs : s # t => Heard(s)' = Heard(s)
  BY <1>2 DEF Heard
<1>4. DeafInv'
  BY <1>1, <1>2 DEF SI, DeafInv
<1>5. \A x \in wire' : \E m \in wire : x.cookie = m.cookie
  BY <1>1, <1>2
<1>6. \A x \in wire' : x.phase = "granted" => x \in wire /\ x.new # None
  BY <1>1, <1>2, Granted DEF SI
<1>7. UnseenInv'
  BY <1>5, <1>6 DEF SI, UnseenInv
<1>8. ASSUME NEW s \in Tabs, NEW j \in DOMAIN sessions, sessions[j].by = s, j \notin unheard'
      PROVE  /\ \A m \in Heard(s)' : m.cookie = j => m.phase = "granted"
             /\ cookie = j => \E m \in Heard(s)' : m.cookie = j
  <2>1. /\ \A m \in Heard(s) : m.cookie = j => m.phase = "granted"
        /\ cookie = j => \E m \in Heard(s) : m.cookie = j
    BY <1>2, <1>8 DEF SI, SpentInv
  <2>2. CASE s # t
    BY <1>3, <2>1, <2>2
  <2>3. CASE s = t
    <3>1. j # None
      BY KnownIds DEF SI, TK, None
    <3>2. \A m \in Heard(s) : m.cookie # j
      BY <1>2, <1>8, <2>3, <3>1
    <3> QED
      BY <1>3, <2>1, <2>3, <3>2
  <2> QED
    BY <2>2, <2>3
<1>9. SpentInv'
  BY <1>8 DEF SpentInv
<1> QED
  BY <1>4, <1>7, <1>9 DEF Spending

LEMMA SpendingRefreshLost ==
  ASSUME SI, NEW m \in wire, RefreshLost(m)
  PROVE  Spending'
<1>1. m.tab \in Tabs /\ m.heard /\ Drop({m}) /\ UNCHANGED <<sessions, cookie, leaving>>
  BY ExchangeType DEF SI, TK, RefreshLost, serverVars
<1>2. {m} = Heard(m.tab)
  BY <1>1 DEF SI, OneRefresh, Heard
<1> QED
  BY <1>1, <1>2, SpendingDrop

LEMMA SpendingReload ==
  ASSUME SI, NEW t \in Tabs, Reload(t)
  PROVE  Spending'
<1>1. Drop(Heard(t)) /\ UNCHANGED <<sessions, cookie>>
  BY DEF Reload, Heard, serverVars
<1>2. \A s \in Tabs : leaving'[s].cookie \in {leaving[s].cookie, None}
  BY DEF Reload, SI, TK, TypeOK, Off
<1> QED
  BY <1>1, <1>2, SpendingDrop

(* An exchange becomes y; nothing is granted.                              *)
LEMMA SpendingServer ==
  ASSUME SI, NEW m \in wire, ServerReads(m) \/ ServerRefuses(m)
  PROVE  Spending'
<1>1. UNCHANGED <<sessions, cookie, leaving, unheard>> /\ m.phase \in {"sent", "checked"}
  BY DEF ServerReads, ServerRefuses, serverVars
<1>2. m \in Exchange /\ m.heard \in BOOLEAN
  BY DEF SI, TK, TypeOK, Exchange
<1>3. ASSUME NEW y, Goes(m, y), y.phase # "granted",
             y.phase = "reused" => m.cookie # None,
             \/ wire' = (wire \ {m}) \cup {y}
             \/ ~m.heard /\ wire' = wire \ {m}
      PROVE  Spending'
  <2>1. y.tab = m.tab /\ y.heard = m.heard /\ y.cookie = m.cookie
    BY <1>3 DEF Goes
  <2>2. DeafInv' /\ UnseenInv'
    BY <1>1, <1>3, <2>1 DEF SI, DeafInv, UnseenInv
  <2>3. \A s \in Tabs : /\ \A x \in Heard(s)' : x \in Heard(s) \/ (x = y /\ m \in Heard(s))
                        /\ \A x \in Heard(s) : x \in Heard(s)' \/ x = m
    BY <1>3, <2>1 DEF Heard
  <2>4. SpentInv'
    BY <1>1, <2>1, <2>3 DEF SI, SpentInv
  <2> QED
    BY <2>2, <2>4 DEF Spending
<1>4. ASSUME NEW phase \in {"denied", "reused"}, Answer(m, phase, None),
             phase = "reused" => m.cookie # None
      PROVE  Spending'
  <2> DEFINE y == [m EXCEPT !.phase = phase, !.new = None]
  <2>1. Goes(m, y) /\ y.phase = phase
    BY <1>2 DEF Goes, Exchange
  <2>2. wire' = (wire \ {m}) \cup (IF m.heard THEN {y} ELSE {})
    BY <1>4 DEF Answer
  <2> HIDE DEF y
  <2>3. \/ wire' = (wire \ {m}) \cup {y}
        \/ ~m.heard /\ wire' = wire \ {m}
    BY <2>2
  <2> QED
    BY <1>3, <1>4, <2>1, <2>3
<1>5. ASSUME wire' = (wire \ {m}) \cup {[m EXCEPT !.phase = "checked"]}
      PROVE  Spending'
  <2> DEFINE y == [m EXCEPT !.phase = "checked"]
  <2>1. Goes(m, y) /\ y.phase = "checked"
    BY <1>2 DEF Goes, Exchange
  <2>2. wire' = (wire \ {m}) \cup {y}
    BY <1>5
  <2> HIDE DEF y
  <2> QED
    BY <1>3, <2>1, <2>2
<1>6. /\ Verdict(m) \in {"denied", "reused", "checked"}
      /\ Verdict(m) = "reused" => m.cookie # None
  BY DEF Verdict
<1> QED
  BY <1>4, <1>5, <1>6 DEF ServerReads, ServerRefuses

LEMMA SpendingServerCommits ==
  ASSUME SI, NEW m \in wire, ServerCommits(m)
  PROVE  Spending'
<1>1. UNCHANGED <<cookie, leaving, unheard>> /\ m.phase = "checked"
  BY DEF ServerCommits
<1>2. /\ m \in Exchange /\ m.heard \in BOOLEAN /\ m.tab \in Tabs
      /\ m.cookie \in 1..Len(sessions) /\ sessions[m.cookie] \in Session
  BY KnownIds DEF SI, TK, TypeOK, Exchange, KnownInv, ServerCommits
<1> DEFINE s == Revoke(m.cookie, m.tab)
<1>3. /\ s \in Seq(Session) /\ Len(s) = Len(sessions) /\ s[m.cookie].by = m.tab
      /\ \A n \in 1..Len(sessions) : n # m.cookie => s[n] = sessions[n]
  BY <1>2, Revoking DEF SI, TK
<1> DEFINE e == Fresh(sessions[m.cookie].owner)
<1>4. e \in Session /\ e.by = Nothing
  BY <1>2 DEF Fresh, Session
<1>5. sessions' = Append(s, e) /\ CanIssue
  BY DEF ServerCommits
<1> HIDE DEF s, e
<1>6. /\ Len(sessions') = Len(sessions) + 1
      /\ Issued \in Ids /\ Issued # None /\ sessions'[Issued] = e
      /\ \A n \in 1..Len(sessions) : sessions'[n] = s[n]
      /\ sessions' \in Seq(Session)
  BY <1>3, <1>4, <1>5, Issuing DEF SI, TK
<1>7. /\ sessions'[m.cookie].by = m.tab /\ sessions'[Issued].by = Nothing
      /\ \A n \in 1..Len(sessions) : n # m.cookie => sessions'[n].by = sessions[n].by
      /\ \A n \in DOMAIN sessions' : n \in 1..Len(sessions) \/ n = Issued
      /\ DOMAIN sessions = 1..Len(sessions)
      /\ \A n \in Known : n # Issued
  <2>1. Len(sessions) \in Nat /\ DOMAIN sessions = 1..Len(sessions)
    BY KnownIds DEF SI, TK
  <2>2. DOMAIN sessions' = 1..(Len(sessions) + 1)
    BY <1>6
  <2> QED
    BY <1>2, <1>3, <1>4, <1>6, <2>1, <2>2 DEF Issued, Known
<1> DEFINE y == [m EXCEPT !.phase = "granted", !.new = Issued]
<1>8. Goes(m, y) /\ y.phase = "granted" /\ y.new = Issued
  BY <1>2, <1>6 DEF Goes, Exchange
<1>9. wire' = (wire \ {m}) \cup (IF m.heard THEN {y} ELSE {})
  BY DEF ServerCommits, Answer
<1> HIDE DEF y
<1>10. \/ m.heard /\ wire' = (wire \ {m}) \cup {y}
       \/ ~m.heard /\ wire' = wire \ {m}
  BY <1>2, <1>9
<1>11. y.tab = m.tab /\ y.heard = m.heard /\ y.cookie = m.cookie
  BY <1>8 DEF Goes
<1>12. DeafInv'
  BY <1>1, <1>8, <1>10, <1>11 DEF SI, DeafInv
<1>13. UnseenInv'
  <2>1. ASSUME NEW x \in wire, x # m, x.phase = "granted"
        PROVE  /\ sessions'[x.new].by = Nothing
               /\ cookie' # x.new
               /\ \A t \in Tabs : leaving'[t].cookie # x.new
               /\ \A z \in wire' : /\ z.cookie # x.new
                                   /\ z.phase = "granted" /\ z.new = x.new => z = x
    <3>1. x.new \in 1..Len(sessions) /\ x.new # Issued
      BY <1>7, <2>1, Granted DEF SI, TK, KnownInv
    <3>2. /\ sessions[x.new].by = Nothing
          /\ cookie # x.new
          /\ \A t \in Tabs : leaving[t].cookie # x.new
          /\ \A z \in wire : /\ z.cookie # x.new
                             /\ z.phase = "granted" /\ z.new = x.new => z = x
      BY <2>1 DEF SI, UnseenInv
    <3>3. m.cookie # x.new
      BY <3>2
    <3> QED
      BY <1>1, <1>7, <1>8, <1>10, <1>11, <3>1, <3>2, <3>3
  <2>2. /\ cookie' # Issued
        /\ \A t \in Tabs : leaving'[t].cookie # Issued
        /\ \A z \in wire : z.cookie # Issued /\ z.new # Issued
    BY <1>1, <1>7 DEF SI, TK, KnownInv
  <2>3. \A z \in wire' : z = y \/ (z \in wire /\ z # m)
    BY <1>10
  <2>4. \A z \in wire' : /\ z.cookie # Issued
                         /\ z.phase = "granted" /\ z.new = Issued => z = y
    BY <1>11, <2>2, <2>3
  <2> QED
    BY <1>7, <1>8, <2>1, <2>2, <2>3, <2>4 DEF UnseenInv
<1>14. SpentInv'
  <2>1. ASSUME NEW t \in Tabs, NEW j \in DOMAIN sessions', sessions'[j].by = t, j \notin unheard'
        PROVE  /\ \A x \in Heard(t)' : x.cookie = j => x.phase = "granted"
               /\ cookie' = j => \E x \in Heard(t)' : x.cookie = j
    <3>1. j \in 1..Len(sessions)
      BY <1>7, <2>1, NamesAssumption
    <3>2. CASE j = m.cookie
      <4>1. t = m.tab /\ m.heard
        BY <1>1, <1>2, <1>7, <2>1, <3>2 DEF SI, DeafInv, None
      <4>2. m \in Heard(t)
        BY <4>1 DEF Heard
      <4>3. Heard(t) = {m}
        BY <4>2 DEF SI, OneRefresh
      <4>4. Heard(t)' = {y}
        BY <1>10, <1>11, <4>1, <4>3 DEF Heard
      <4> QED
        BY <1>8, <1>11, <3>2, <4>4
    <3>3. CASE j # m.cookie
      <4>1. sessions[j].by = t /\ j \notin unheard
        BY <1>1, <1>7, <2>1, <3>1, <3>3
      <4>2. /\ \A x \in Heard(t) : x.cookie = j => x.phase = "granted"
            /\ cookie = j => \E x \in Heard(t) : x.cookie = j
        BY <1>7, <3>1, <4>1 DEF SI, SpentInv
      <4>3. /\ \A x \in Heard(t)' : x \in Heard(t) \/ x = y
            /\ \A x \in Heard(t) : x \in Heard(t)' \/ x = m
        BY <1>10, <1>11 DEF Heard
      <4> QED
        BY <1>1, <1>11, <3>3, <4>2, <4>3
    <3> QED
      BY <3>2, <3>3
  <2> QED
    BY <2>1 DEF SpentInv
<1> QED
  BY <1>12, <1>13, <1>14 DEF Spending

LEMMA SpendingLoginOk ==
  ASSUME SI, NEW t \in Tabs, NEW c \in Calls, NEW u \in Users, LoginOk(t, c, u)
  PROVE  Spending'
<1>1. Fresh(u) \in Session /\ Fresh(u).by = Nothing
  BY DEF Fresh, Session
<1>2. sessions' = Append(sessions, Fresh(u)) /\ CanIssue
  BY DEF LoginOk
<1>3. /\ Len(sessions') = Len(sessions) + 1 /\ Issued # None /\ sessions'[Issued] = Fresh(u)
      /\ \A n \in 1..Len(sessions) : sessions'[n] = sessions[n]
      /\ sessions' \in Seq(Session)
  BY <1>1, <1>2, KnownIds, Issuing DEF SI, TK
<1>4. /\ \A n \in DOMAIN sessions' : n \in 1..Len(sessions) \/ n = Issued
      /\ DOMAIN sessions = 1..Len(sessions)
      /\ \A n \in Known : n # Issued
  BY <1>3, KnownIds DEF SI, TK, Issued, Known
<1>5. cookie' = Issued /\ UNCHANGED <<wire, leaving, unheard>>
  BY DEF LoginOk
<1>6. DeafInv'
  BY <1>5 DEF SI, DeafInv
<1>7. \A x \in wire : x.phase = "granted" => x.new \in 1..Len(sessions) /\ x.new # Issued
  BY <1>4, Granted DEF SI, TK, KnownInv
<1>8. UnseenInv'
  BY <1>3, <1>5, <1>7 DEF SI, UnseenInv
<1>9. SpentInv'
  <2>1. ASSUME NEW s \in Tabs, NEW j \in DOMAIN sessions', sessions'[j].by = s, j \notin unheard'
        PROVE  /\ \A x \in Heard(s)' : x.cookie = j => x.phase = "granted"
               /\ cookie' = j => \E x \in Heard(s)' : x.cookie = j
    <3>1. j \in 1..Len(sessions) /\ j # Issued
      BY <1>1, <1>3, <1>4, <2>1, NamesAssumption DEF Known, Issued
    <3>2. Heard(s)' = Heard(s)
      BY <1>5 DEF Heard
    <3> QED
      BY <1>3, <1>4, <1>5, <2>1, <3>1, <3>2 DEF SI, SpentInv
  <2> QED
    BY <2>1 DEF SpentInv
<1> QED
  BY <1>6, <1>8, <1>9 DEF Spending

LEMMA SpendingServerLogsOut ==
  ASSUME SI, NEW t \in Tabs, ServerLogsOut(t)
  PROVE  Spending'
<1>1. UNCHANGED <<cookie, wire, unheard>>
  BY DEF ServerLogsOut
<1>2. \A s \in Tabs : leaving'[s].cookie = leaving[s].cookie
  BY DEF ServerLogsOut, SI, TK, TypeOK, Exit
<1>3. CASE leaving[t].cookie # None /\ ~Revoked(leaving[t].cookie)
  <2> DEFINE k == leaving[t].cookie
  <2>1. k \in 1..Len(sessions)
    BY <1>3, KnownIds DEF SI, TK, KnownInv
  <2>2. sessions' = Revoke(k, TheLogout)
    BY <1>3 DEF ServerLogsOut
  <2>3. /\ Len(sessions') = Len(sessions) /\ sessions'[k].by = TheLogout
        /\ \A n \in 1..Len(sessions) : n # k => sessions'[n] = sessions[n]
        /\ sessions' \in Seq(Session)
    BY <2>1, <2>2, Revoking DEF SI, TK
  <2>4. DOMAIN sessions' = 1..Len(sessions) /\ DOMAIN sessions = 1..Len(sessions)
    BY <2>3, KnownIds DEF SI, TK
  <2>5. \A x \in wire : x.phase = "granted" => x.new # k /\ x.new \in 1..Len(sessions)
    BY Granted DEF SI, UnseenInv
  <2> HIDE DEF k
  <2>6. UnseenInv'
    BY <1>1, <1>2, <2>3, <2>5 DEF SI, UnseenInv
  <2>7. SpentInv'
    BY <1>1, <2>1, <2>3, <2>4, NamesAssumption DEF SI, SpentInv, Heard
  <2> QED
    BY <1>1, <2>6, <2>7 DEF SI, Spending, DeafInv
<1>4. CASE ~(leaving[t].cookie # None /\ ~Revoked(leaving[t].cookie))
  <2>1. sessions' = sessions
    BY <1>4 DEF ServerLogsOut
  <2> QED
    BY <1>1, <1>2, <2>1, SpendingSame
<1> QED
  BY <1>3, <1>4

LEMMA SpendingKept ==
  ASSUME SI, [Next]_vars
  PROVE  Spending'
<1>1. CASE UNCHANGED vars
  <2>1. UNCHANGED <<sessions, cookie, wire, leaving, unheard>>
    BY <1>1 DEF vars
  <2> QED
    BY <2>1, SpendingSame
<1>2. ASSUME NEW t \in Tabs, NEW c \in Calls,
             StartCall(t, c) \/ CallOk(t, c) \/ CallFails(t, c)
      PROVE  Spending'
  <2>1. UNCHANGED <<sessions, cookie, wire, leaving, unheard>>
    BY <1>2 DEF StartCall, CallOk, CallFails, serverVars
  <2> QED
    BY <2>1, SpendingSame
<1>3. ASSUME NEW t \in Tabs, Logout(t) \/ LogoutDone(t) \/ LogoutLost(t)
      PROVE  Spending'
  <2>1. UNCHANGED <<sessions, wire, unheard>> /\ cookie' \in {cookie, None}
    BY <1>3 DEF Logout, LogoutDone, LogoutLost, serverVars
  <2>2. \A s \in Tabs : leaving'[s].cookie \in {leaving[s].cookie, cookie, None}
    BY <1>3 DEF Logout, LogoutDone, LogoutLost, SI, TK, TypeOK, Off
  <2> QED
    BY <2>1, <2>2, SpendingSame
<1>4. ASSUME NEW n \in Ids, Expire(n)
      PROVE  Spending'
  BY <1>4, SpendingSame DEF Expire
<1> QED
  BY <1>1, <1>2, <1>3, <1>4, SpendingLoginOk, SpendingCallRefused, SpendingRefreshOk,
    SpendingRefreshDenied, SpendingRefreshLost, SpendingServerLogsOut, SpendingReload,
    SpendingServer, SpendingServerCommits
  DEF Next, CallEnds, RefreshEnds, ServerAnswers

(* ReuseHasCause: a tab does not spend a refresh token twice unless the    *)
(* answer to it is lost, for any tabs, calls, people and exchanges.        *)
THEOREM ReuseHasCauseHolds == Spec => []ReuseHasCause
<1>1. Init => SI
  BY InitTK, IdleType DEF Init, SI, OneRefresh, DeafInv, UnseenInv, SpentInv, Heard
<1>2. SI /\ [Next]_vars => SI'
  BY TKKept, EveryStep, OneRefreshKept, SpendingKept DEF SI, Spending
<1>3. SI => ReuseHasCause
  <2> SUFFICES ASSUME SI, NEW m \in wire, m.heard, m.phase = "reused",
                      sessions[m.cookie].by = m.tab
               PROVE  m.cookie \in unheard
    BY DEF ReuseHasCause
  <2>1. m.tab \in Tabs /\ m \in Heard(m.tab)
    BY ExchangeType DEF SI, TK, Heard
  <2>2. m.cookie \in DOMAIN sessions
    BY KnownIds DEF SI, TK, KnownInv, DeafInv
  <2> QED
    BY <2>1, <2>2 DEF SI, SpentInv
<1> QED
  BY <1>1, <1>2, <1>3, PTL DEF Spec

=============================================================================
