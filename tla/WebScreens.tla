------------------------------ MODULE WebScreens ------------------------------
(***************************************************************************)
(* The screens of the web client: how each asks the server for what it     *)
(* shows, and what it shows meanwhile, afterwards and when that fails.     *)
(*                                                                         *)
(* A screen is one component with a loader: a page, a tab, a badge, an     *)
(* explanation.  Every loader is the same protocol with other traits, so   *)
(* each is a set of traits, and what a screen shows is a view of its state.*)
(* Data is a version, 0 when there is nothing to list.  A screen that is   *)
(* left has no state any more: what arrives for it changes nothing.        *)
(***************************************************************************)
EXTENDS Naturals

CONSTANTS
  Subjects,    \* hosts, filters, periods, documents a screen can be about
  MaxVersion,  \* bound: changes of the data of a subject
  MaxAsked     \* bound: requests of a screen under way at once

Nowhere == "nowhere"    \* no screen is open

ASSUME ScreensAssumption ==
  /\ Subjects # {} /\ Nowhere \notin Subjects
  /\ MaxVersion \in Nat /\ MaxAsked \in Nat \ {0, 1}

-----------------------------------------------------------------------------
(* The loaders.  "polls": asks again on a timer.  "pauses": not while the  *)
(* page is hidden, and at once when it is visible again (usePolling).      *)
(* "keyed": the subject can change under it, and it asks again.  "guarded":*)
(* the answers to the earlier subject are dropped.  "heals": an answer     *)
(* clears the error.  "silent": a failure says nothing.  "wipes": a        *)
(* failure drops the data.  "flag": loading until the first answer or      *)
(* failure, and never again.                                               *)

(* Mutation: an answer does not clear the error.                           *)
AlertsKeepError == {"polls", "keyed", "guarded", "flag"}

EventsLoader == {"polls", "pauses", "keyed", "heals", "flag"}
ActionsLoader == {"polls", "pauses", "keyed", "heals", "flag"}
HostsLoader == {"polls", "pauses", "flag"}
BadgeLoader == {"polls", "pauses", "keyed", "silent"}
CountsLoader == {"polls", "pauses", "silent"}
HostLoader == {"polls", "keyed", "guarded"}
AlertsLoader == {"polls", "keyed", "guarded", "heals", "flag"}
VulnsLoader == {"polls", "keyed", "guarded", "flag"}
ReportLoader == {"keyed", "guarded"}
TimelineLoader == {"keyed", "guarded", "silent"}
AuditLoader == {"keyed", "guarded", "silent"}
IndexLoader == {}
DocsLoader == {"keyed", "guarded", "heals", "wipes"}
KbLoader == {}
HuntingLoader == {}
PurpleLoader == {}
RuleLoader == {}
ActionLoader == {}
EventLoader == {}
LabLoader == {"polls", "pauses", "heals"}

Loader ==
  [events |-> EventsLoader, actions |-> ActionsLoader, hosts |-> HostsLoader,
   badge |-> BadgeLoader, counts |-> CountsLoader, host |-> HostLoader,
   alerts |-> AlertsLoader, vulns |-> VulnsLoader, report |-> ReportLoader,
   timeline |-> TimelineLoader, audit |-> AuditLoader, index |-> IndexLoader,
   docs |-> DocsLoader, kb |-> KbLoader, hunting |-> HuntingLoader,
   purple |-> PurpleLoader, rule |-> RuleLoader, action |-> ActionLoader,
   event |-> EventLoader, lab |-> LabLoader]

Screens == DOMAIN Loader

-----------------------------------------------------------------------------
VARIABLES
  at,        \* the screen that is open
  subject,   \* what it is about
  hidden,    \* document.hidden
  up,        \* server and network answer
  truth,     \* server: the data of each subject
  slot,      \* the requests under way
  shown,     \* the data of the screen
  loading,   \* its loading flag
  error,     \* its error is set
  writing,   \* its own write to the server
  saved,     \* HostDetailPage: the host of the render that sent a location
  labMode,   \* lib/useLabMode: the cached answer
  labAsked,  \* lib/useLabMode: its request is under way
  captured   \* LabPage: the mode when the page was opened, which its timer keeps

labVars == <<labMode, labAsked, captured>>
screen == <<at, subject, shown, loading, error>>
world == <<hidden, up, truth>>
write == <<writing, saved>>
vars == <<at, subject, hidden, up, truth, slot, shown, loading, error,
          writing, saved, labMode, labAsked, captured>>

Versions == 0..MaxVersion
Unread == MaxVersion + 1
Slots == 1..MaxAsked
NoData == [of |-> Nowhere, version |-> 0]
Free == [use |-> "free", of |-> Nowhere, live |-> FALSE, got |-> Unread]

Request == [use : {"load", "reload"}, of : Subjects, live : BOOLEAN,
            got : Versions \cup {Unread}]

TypeOK ==
  /\ at \in Screens \cup {Nowhere}
  /\ subject \in Subjects
  /\ hidden \in BOOLEAN /\ up \in BOOLEAN
  /\ truth \in [Subjects -> Versions]
  /\ slot \in [Slots -> Request \cup {Free}]
  /\ shown \in [of : Subjects, version : Versions] \cup {NoData}
  /\ loading \in BOOLEAN /\ error \in BOOLEAN
  /\ writing \in {"no", "sent", "reloading"}
  /\ saved \in [of : Subjects, version : Versions] \cup {NoData}
  /\ labMode \in {"unknown", "on", "off"}
  /\ labAsked \in BOOLEAN /\ captured \in BOOLEAN

Is(trait) == at # Nowhere /\ trait \in Loader[at]

-----------------------------------------------------------------------------
(* What each screen shows: the first of these that applies.                *)

FirstOf(isLoading, isError, isEmpty) ==
  IF isLoading THEN "loading"
  ELSE IF isError THEN "error"
  ELSE IF isEmpty THEN "empty" ELSE "rows"

Missing == shown = NoData
Empty == ~Missing /\ shown.version = 0
NoRows == shown.version = 0    \* a list that starts as []

(* Mutations: rows are counted before the error is looked at; an answer    *)
(* is missing before that.                                                 *)
CountsFirst == FirstOf(loading, FALSE, NoRows)
MissesFirst == FirstOf(Missing, error, Empty)

EventsView == FirstOf(loading, error, NoRows)
ActionsView == FirstOf(loading, error, NoRows)
HostsView == FirstOf(loading, FALSE, NoRows)        \* the error is beside it
BadgeView == FirstOf(Missing, FALSE, Empty)
CountsView == IF NoRows THEN "none" ELSE "rows"
HostView == FirstOf(Missing /\ ~error, Missing, FALSE)
AlertsView == FirstOf(loading, FALSE, NoRows)       \* the error is beside it
VulnsView == IF ~loading /\ ~error /\ Missing THEN "none"
             ELSE FirstOf(loading, error, Empty)
ReportView == IF Missing THEN "none" ELSE "rows"    \* the error is beside it
TimelineView == IF NoRows THEN "none" ELSE "rows"
AuditView == IF NoRows THEN "empty" ELSE "rows"     \* "Audit log (0)"
IndexView == FirstOf(Missing, FALSE, Empty)
DocsView == IF Missing THEN "loading" ELSE "rows"   \* the error is beside it
KbView == IF NoRows THEN "none" ELSE "rows"
HuntingView == IF NoRows THEN "none" ELSE "rows"
PurpleView == IF NoRows THEN "none" ELSE "rows"
RuleView == FirstOf(Missing /\ ~error, error, Empty)
ActionView == FirstOf(Missing /\ ~error, error, Empty)
EventView == IF error THEN "error" ELSE "rows"      \* the fields are at hand
LabView == IF labMode = "on" THEN FirstOf(Missing, FALSE, Empty) ELSE "loading"

View ==
  [nowhere |-> "none",
   events |-> EventsView, actions |-> ActionsView, hosts |-> HostsView,
   badge |-> BadgeView, counts |-> CountsView, host |-> HostView,
   alerts |-> AlertsView, vulns |-> VulnsView, report |-> ReportView,
   timeline |-> TimelineView, audit |-> AuditView, index |-> IndexView,
   docs |-> DocsView, kb |-> KbView, hunting |-> HuntingView,
   purple |-> PurpleView, rule |-> RuleView, action |-> ActionView,
   event |-> EventView, lab |-> LabView][at]

-----------------------------------------------------------------------------
Load(of) == [use |-> "load", of |-> of, live |-> TRUE, got |-> Unread]

NoneAsked == [i \in Slots |-> Free]

Init ==
  /\ at = Nowhere
  /\ subject = CHOOSE k \in Subjects : TRUE
  /\ hidden = FALSE /\ up = TRUE
  /\ truth = [k \in Subjects |-> 0]
  /\ slot = NoneAsked
  /\ shown = NoData
  /\ loading = FALSE /\ error = FALSE
  /\ writing = "no" /\ saved = NoData
  /\ labMode = "unknown" /\ labAsked = FALSE /\ captured = FALSE

FirstFree(i) == slot[i] = Free /\ \A j \in 1..(i - 1) : slot[j] # Free

Ask(i, r) == FirstFree(i) /\ slot' = [slot EXCEPT ![i] = r]

(* The state of a component that is mounted, and of useLabMode, which the  *)
(* header of every page calls.                                             *)
Mounted(s, k) ==
  /\ at' = s
  /\ subject' = k
  /\ shown' = NoData
  /\ loading' = (s # Nowhere /\ "flag" \in Loader[s])
  /\ error' = FALSE
  /\ writing' = "no" /\ saved' = NoData
  /\ labAsked' = (labMode = "unknown")
  /\ UNCHANGED <<world, labMode>>

(* Its first request; usePolling's tick makes none while hidden.           *)
Open(s, k, i) ==
  /\ at = Nowhere /\ s # "lab"
  /\ Mounted(s, k)
  /\ IF hidden /\ "pauses" \in Loader[s] THEN slot' = NoneAsked
                                         ELSE Ask(i, Load(k))
  /\ UNCHANGED captured

(* LabPage goes elsewhere when the mode is known to be off.  Its loads     *)
(* are an effect of the mode and a timer whose function keeps the mode of  *)
(* the first render (deps []).                                             *)
OpenLab(k) ==
  /\ at = Nowhere
  /\ labMode # "off"
  /\ Mounted("lab", k)
  /\ captured' = (labMode = "on")
  /\ LET asked == IF labMode # "on" THEN {} ELSE IF hidden THEN {1} ELSE {1, 2}
     IN slot' = [i \in Slots |-> IF i \in asked THEN Load(k) ELSE Free]

Closed ==
  /\ at' = Nowhere
  /\ subject' = CHOOSE k \in Subjects : TRUE
  /\ slot' = NoneAsked
  /\ shown' = NoData
  /\ error' = FALSE
  /\ writing' = "no" /\ saved' = NoData

Leave ==
  /\ at # Nowhere
  /\ Closed
  /\ loading' = FALSE /\ captured' = FALSE
  /\ UNCHANGED <<world, labMode, labAsked>>

(* The page is loaded again: the module of useLabMode as well.             *)
Reload ==
  /\ at = Nowhere
  /\ labMode' = "unknown" /\ labAsked' = FALSE
  /\ UNCHANGED <<screen, world, slot, write, captured>>

-----------------------------------------------------------------------------
(* The screen asks.                                                        *)

(* The timer is there: LabPage's asks only if the page was opened with the *)
(* mode known.                                                             *)
Polls == Is("polls") /\ (at = "lab" => captured)

(* The function usePolling is given ignores the AbortSignal, so its abort  *)
(* of the pending request does nothing.                                    *)
Tick(i) ==
  /\ Polls
  /\ Is("pauses") => ~hidden
  /\ Ask(i, Load(subject))
  /\ UNCHANGED <<screen, world, write, labVars>>

Hide ==
  /\ ~hidden
  /\ hidden' = TRUE
  /\ UNCHANGED <<screen, up, truth, slot, write, labVars>>

Show(i) ==
  /\ hidden
  /\ hidden' = FALSE
  /\ IF Polls /\ Is("pauses") THEN Ask(i, Load(subject)) ELSE UNCHANGED slot
  /\ UNCHANGED <<screen, up, truth, write, labVars>>

(* The subject changes: the effect is cleaned up and run again.            *)
Turn(k, i) ==
  /\ Is("keyed")
  /\ k # subject
  /\ subject' = k
  /\ FirstFree(i)
  /\ slot' = [j \in Slots |->
       IF j = i /\ ~(hidden /\ Is("pauses")) THEN Load(k)
       ELSE [slot[j] EXCEPT !.live = FALSE]]
  /\ UNCHANGED <<at, shown, loading, error, world, write, labVars>>

-----------------------------------------------------------------------------
(* The server reads, and the answer arrives.                               *)

Read(i) ==
  /\ up
  /\ slot[i] # Free /\ slot[i].got = Unread
  /\ slot' = [slot EXCEPT ![i].got = truth[slot[i].of]]
  /\ UNCHANGED <<screen, world, write, labVars>>

(* Mutation: the cancelled flag is not looked at.                          *)
AnyAnswer(r) == TRUE

(* The cancelled flag of the effect run that asked.                        *)
Wanted(r) == r.live \/ ~Is("guarded")

(* hosts: creating is over when the list was asked for again.              *)
EndsWrite(r) == writing' = IF r.use = "reload" THEN "no" ELSE writing

Answer(i) ==
  /\ slot[i].got # Unread
  /\ slot' = [slot EXCEPT ![i] = Free]
  /\ EndsWrite(slot[i])
  /\ IF Wanted(slot[i])
     THEN /\ shown' = [of |-> slot[i].of, version |-> slot[i].got]
          /\ error' = (error /\ ~Is("heals"))
          /\ loading' = FALSE
     ELSE UNCHANGED <<shown, error, loading>>
  /\ UNCHANGED <<at, subject, world, saved, labVars>>

NotLoading(r) == loading /\ ~Wanted(r)

Fail(i) ==
  /\ ~up
  /\ slot[i] # Free
  /\ slot' = [slot EXCEPT ![i] = Free]
  /\ EndsWrite(slot[i])
  /\ error' = (error \/ (Wanted(slot[i]) /\ ~Is("silent")))
  /\ loading' = NotLoading(slot[i])
  /\ shown' = IF Wanted(slot[i]) /\ Is("wipes") THEN NoData ELSE shown
  /\ UNCHANGED <<at, subject, world, saved, labVars>>

-----------------------------------------------------------------------------
(* The screen writes: a host is created, an action reverted, an alert      *)
(* triaged, a scan started, a VM controlled, the demo reset, the report    *)
(* made as a PDF, a host's location saved.  What that does to the data is  *)
(* one of the server's changes.  One write at a time is a bound for a      *)
(* row's menu, which has no busy flag, and for the location, whose editor  *)
(* loses its flag when the tab is left.                                    *)

CreateHost == at = "hosts"
Revert == at = "actions" /\ View = "rows"
ChangeStatus == at = "alerts" /\ View = "rows"
TriggerScan == at = "vulns" /\ View \in {"rows", "empty"}
CallVm == at = "lab" /\ View = "rows"
ResetDemo == at = "lab" /\ labMode = "on"
MakePdf == at = "report"
SaveLocation == at = "host" /\ View = "rows"    \* of the host that is shown

Write ==
  /\ writing = "no"
  /\ \/ CreateHost \/ Revert \/ ChangeStatus \/ TriggerScan
     \/ CallVm \/ ResetDemo \/ MakePdf \/ SaveLocation
  /\ writing' = "sent"
  /\ saved' = IF SaveLocation THEN shown ELSE NoData
  /\ UNCHANGED <<screen, world, slot, labVars>>

(* hosts: refresh() clears the error, asks for the list and is awaited.    *)
Refresh(i) ==
  /\ Ask(i, [Load(subject) EXCEPT !.use = "reload"])
  /\ error' = FALSE
  /\ writing' = "reloading"
  /\ UNCHANGED shown

(* lab: loadVms() returns nothing, so its await does not wait.             *)
LoadVms(i) ==
  /\ Ask(i, Load(subject))
  /\ writing' = "no"
  /\ UNCHANGED <<shown, error>>

(* onSaved: setHost({...host, location}), with the host of the render that *)
(* sent the location and no cancelled flag.  The data is of two versions:  *)
(* the location is the present one, the rest that render's.                *)
OnSaved ==
  /\ shown' \in { [saved EXCEPT !.version = v] : v \in {saved.version, truth[saved.of]} }
  /\ writing' = "no"
  /\ UNCHANGED <<slot, error>>

NoReload == writing' = "no" /\ UNCHANGED <<slot, shown, error>>

Written(i) ==
  /\ writing = "sent"
  /\ \/ at = "hosts" /\ Refresh(i)
     \/ at = "lab" /\ LoadVms(i)
     \/ at = "host" /\ OnSaved
     \/ at \notin {"hosts", "host"} /\ NoReload
  /\ saved' = NoData
  /\ UNCHANGED <<at, subject, loading, world, labVars>>

(* revert and changeStatus ignore a failure, the editor of the location    *)
(* keeps it to itself.                                                     *)
WriteFails ==
  /\ writing = "sent"
  /\ ~up
  /\ writing' = "no" /\ saved' = NoData
  /\ error' = (error \/ at \notin {"actions", "alerts", "host"})
  /\ UNCHANGED <<at, subject, shown, loading, world, slot, labVars>>

-----------------------------------------------------------------------------
(* lib/useLabMode: one request for all; a failure is cached as off.        *)

LabAnswers(i) ==
  /\ labAsked
  /\ labAsked' = FALSE
  /\ labMode' \in IF up THEN {"on", "off"} ELSE {"off"}
  /\ CASE at = "lab" /\ labMode' = "on" ->
            Ask(i, Load(subject)) /\ UNCHANGED <<screen, write>>
       [] at = "lab" /\ labMode' = "off" ->   \* <Navigate to="/">
            Closed /\ UNCHANGED loading
       [] OTHER -> UNCHANGED <<screen, slot, write>>
  /\ UNCHANGED <<world, captured>>

-----------------------------------------------------------------------------
(* The world.                                                              *)

Change(k) ==
  /\ truth[k] < MaxVersion
  /\ truth' = [truth EXCEPT ![k] = @ + 1]
  /\ UNCHANGED <<screen, hidden, up, slot, write, labVars>>

Flip ==
  /\ up' = ~up
  /\ UNCHANGED <<screen, hidden, truth, slot, write, labVars>>

SlotEnds(i) == Read(i) \/ Answer(i) \/ Fail(i)

WriteEnds == WriteFails \/ \E i \in Slots : Written(i)

Next ==
  \/ \E s \in Screens, k \in Subjects, i \in Slots : Open(s, k, i)
  \/ \E k \in Subjects : OpenLab(k) \/ Change(k) \/ \E i \in Slots : Turn(k, i)
  \/ Leave \/ Reload \/ Hide \/ Flip \/ Write \/ WriteFails
  \/ \E i \in Slots : Tick(i) \/ Show(i) \/ SlotEnds(i) \/ Written(i) \/ LabAnswers(i)

(* A fetch ends, and the timers go on.                                     *)
Spec ==
  /\ Init /\ [][Next]_vars
  /\ WF_vars(\E i \in Slots : Tick(i))
  /\ \A i \in Slots : WF_vars(SlotEnds(i))
  /\ WF_vars(WriteEnds)
  /\ WF_vars(\E i \in Slots : LabAnswers(i))

=============================================================================
