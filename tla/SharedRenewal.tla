---------------------------- MODULE SharedRenewal ----------------------------
(***************************************************************************)
(* What the web client promises of the renewal of a session, whatever the  *)
(* server and the network do: one renewal at a time in each tab, shared by *)
(* every call that needs it, and all of them go on when it ends.           *)
(***************************************************************************)
CONSTANTS Tabs, Calls

VARIABLES
  signed,    \* per tab: there is a session
  renewing,  \* per tab: a renewal is under way
  waiting    \* per tab: the calls that wait for it

svars == <<signed, renewing, waiting>>

Init ==
  /\ signed = [t \in Tabs |-> FALSE]
  /\ renewing = [t \in Tabs |-> FALSE]
  /\ waiting = [t \in Tabs |-> {}]

(* Only somebody who signs in, or a renewal, makes a session.              *)
Sign(t, in) ==
  /\ signed' = [signed EXCEPT ![t] = in]
  /\ UNCHANGED <<renewing, waiting>>

(* A call joins the renewal, which begins if there is none.                *)
Join(t, c) ==
  /\ renewing' = [renewing EXCEPT ![t] = TRUE]
  /\ waiting' = [waiting EXCEPT ![t] = @ \cup {c}]
  /\ UNCHANGED signed

(* It ends, with a session or without, for everybody at once.              *)
Renewed(t) ==
  /\ renewing[t]
  /\ renewing' = [renewing EXCEPT ![t] = FALSE]
  /\ waiting' = [waiting EXCEPT ![t] = {}]
  /\ \E in \in BOOLEAN : signed' = [signed EXCEPT ![t] = in]

(* The tab is loaded again.                                                *)
Restart(t) ==
  /\ renewing' = [renewing EXCEPT ![t] = FALSE]
  /\ waiting' = [waiting EXCEPT ![t] = {}]
  /\ \E in \in BOOLEAN : signed' = [signed EXCEPT ![t] = in]

Next ==
  \E t \in Tabs :
    \/ \E in \in BOOLEAN : Sign(t, in)
    \/ \E c \in Calls : Join(t, c)
    \/ Renewed(t)
    \/ Restart(t)

Spec == Init /\ [][Next]_svars

FairSpec == Spec /\ \A t \in Tabs : WF_svars(Renewed(t))

=============================================================================
