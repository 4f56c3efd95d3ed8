---------------------------- MODULE WebScreensProps ----------------------------
(***************************************************************************)
(* What is checked of WebScreens.                                          *)
(***************************************************************************)
EXTENDS WebScreens

(* An empty list is told ("Nenhum alerta. Tudo tranquilo.") only after the *)
(* server answered, or with the error beside it.  Two screens differ: the  *)
(* audit log counts 0 lines when it could not be read, and the host list   *)
(* is empty again while it is read after a host was created, if it could   *)
(* not be read before.                                                     *)
CalmIsTold ==
  View = "empty" =>
    \/ shown # NoData
    \/ error /\ at \in {"hosts", "alerts"}
    \/ at = "audit"
    \/ at = "hosts" /\ writing = "reloading"

(* "Carregando" is told only while an answer may still come: a request is  *)
(* under way, or the next tick of the timer, or of the visible page.  The  *)
(* documents differ: after a failure both keep saying it; and LabPage,     *)
(* whose timer is deaf when the page was opened before the mode was known. *)
LoadingMeansAsked ==
  View = "loading" /\ at \notin {"index", "docs", "lab"} =>
    Is("polls") \/ \E i \in Slots : slot[i] # Free

(* A screen whose effect has the cancelled flag never turns from what the  *)
(* user asked about last back to what was asked about before, in whatever  *)
(* order the answers arrive.  (Events, actions and the badge have no such  *)
(* flag: they may, until the next answer.)  One answer has no flag on the  *)
(* page of a host either: onSaved (HostDetailPage.tsx:158) puts back the   *)
(* host whose location was sent, also when the page has gone on to another *)
(* one meanwhile.                                                          *)
TurnSafe == {"host", "alerts", "vulns", "report", "timeline", "audit", "docs"}

LocationSaved ==
  at = "host" /\ writing = "sent" /\ writing' = "no" /\ shown'.of = saved.of

NeverTurnsBack ==
  [][at' = at /\ at \in TurnSafe /\ subject' = subject /\ shown.of = subject
       => shown' = NoData \/ shown'.of = subject \/ LocationSaved]_vars

(* Once the server answers for good and nobody changes anything, what a    *)
(* screen with a timer shows is the present data of its subject: answers   *)
(* that overtook one another, hidden pages, failures, changes of subject   *)
(* and writes leave nothing behind.  Only errors stay, on three screens    *)
(* that never clear them, and the list of VMs is left out when its page    *)
(* was opened before the mode was known.  Someone who keeps saving a       *)
(* location over old data may see old data for ever: nobody does here.     *)
Unforgiving == {"hosts", "host", "vulns"}

Settled ==
  Polls => /\ shown = [of |-> subject, version |-> truth[subject]]
           /\ at \notin Unforgiving => ~error

LatestShown ==
  /\ <>[](up /\ ~hidden)
  /\ <>[][at' = at /\ subject' = subject /\ (at = "host" => saved' \in {saved, NoData})]_vars
  => <>[]Settled

-----------------------------------------------------------------------------
(* Why the first three hold.                                               *)

(* A closed screen asks for nothing; an answer that is still wanted by its *)
(* effect is about the subject the screen has now.                         *)
SlotInv ==
  \A i \in Slots :
    /\ at = Nowhere => slot[i] = Free
    /\ slot[i].live => slot[i].of = subject

(* A loading flag falls with data, or with an error, which only another    *)
(* answer clears - or a host list that is asked for again.                 *)
ToldInv ==
  at \in {"events", "actions", "alerts", "hosts"} /\ ~loading /\ ~error /\ shown = NoData =>
    at = "hosts" /\ writing = "reloading"

(* The only request of an explanation is under way until it has told.      *)
AskedInv ==
  at \in {"rule", "action"} /\ ~error /\ shown = NoData => \E i \in Slots : slot[i] # Free

(* A location is sent from a render that shows a host.                     *)
SavedInv == at = "host" /\ writing = "sent" => saved # NoData

IInv == TypeOK /\ SlotInv /\ ToldInv /\ AskedInv /\ SavedInv

=============================================================================
