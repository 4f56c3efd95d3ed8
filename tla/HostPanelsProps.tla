---------------------------- MODULE HostPanelsProps ----------------------------
(***************************************************************************)
(* What is checked of HostPanels and HostActions.                          *)
(***************************************************************************)
EXTENDS HostPanels

Present(l) == IF has = "ufw" THEN Range(l.ufw) ELSE l.live

Removals == { a \in Ids : action[a].kind \in {"removeRule", "unban"} }

(* A rule or a ban that goes with an action of the agent is the one the    *)
(* operator confirmed in that removal, however old the page was and        *)
(* whatever waited in between.  Two ways lose another one: by number, if   *)
(* the rules of ufw are no longer those of the page the number was read    *)
(* from; and by the --reload after each rule that is added or removed      *)
(* (firewall_rules.go:88, :136), which drops the rules firewalld has in    *)
(* its runtime only.                                                       *)
Confirmed ==
  \A a \in todo \ todo' :
    \A r \in Present(lists) \ Present(lists') :
      \/ a \in Removals /\ action[a].draft.meant = r
      \/ has = "ufw" /\ NumberedRules(lists.ufw) # action[a].draft.raw
      \/ has = "firewalld" /\ r \notin lists.permanent

RemovalIsConfirmed == [][Confirmed]_vars

(* Two unfinished actions for the same thing only come of two requests     *)
(* that were both past create_pending_action's check before either row was *)
(* there: a double click, a second answer or an action that has already    *)
(* gone to the agent does not do it.                                       *)
TwinsHaveCause ==
  ~overlap => \A a, b \in Open : KeyOf(a) = KeyOf(b) => a = b

(* A button that shows it is sending waits for exactly one request, and    *)
(* one that does not waits for none, whatever was closed, left, opened     *)
(* again or answered late in between.                                      *)
BusyMeansSent ==
  \A f \in DOMAIN form :
    Is(f, "busy") =>
      Cardinality({ i \in Slots : slot[i].form = f /\ slot[i].live })
        = IF form[f].busy THEN 1 ELSE 0

(* The page can be scrolled exactly when no dialog is on the screen,       *)
(* unless two were open at once or one came back with its tab.             *)
ScrollFreed ==
  ~disturbed => (shell.overflow = "hidden" <=> ModalsOf(tab, page, form) # {})

(* Closing the dialog of a scan by path gives the focus back to the button *)
(* that opened it, however often the page was drawn while it was open.     *)
Returned ==
  \A f \in (ModalsOf(tab, page, form) \ ModalsOf(tab', page', form')) \ {"removeRule"} :
    ~disturbed' /\ OnScreen(f, tab', page') => shell'.focus = Trigger(f)

FocusReturns == [][Returned]_vars

-----------------------------------------------------------------------------
(* Why these hold.                                                         *)

(* A host has the tool of the visit, and no row says another.              *)
Says(p) == p.tool \in {has, "none"}

ToolInv == has \in ToolsOf[visit] /\ Says(row) /\ Says(page)

(* A draft of a removal names a row that was offered; a rule or a ban that *)
(* is sent to the host is one.                                             *)
DraftOK(k, d) ==
  /\ k \in {"removeRule", "unban"} =>
       IF has = "ufw" THEN [at |-> d.id, item |-> d.meant] \in d.raw ELSE d.id = d.meant
  /\ k \in {"addRule", "ban"} \cap Followed => d.id \in Items

SlotOK(s) ==
  s # Free =>
    /\ s.form \in FormsOf[visit] /\ DraftOK(s.form, s.draft) /\ Says(s.was)
    /\ s.live => s.panel
    /\ s.phase = "checked" =>
         /\ s.form \in Followed
         /\ s.form \in Rules => s.tool = has

SlotInv == \A i \in Slots : SlotOK(slot[i])

ActionOK(c) ==
  c # NoAction =>
    /\ c.kind \in FormsOf[visit] \cap Followed
    /\ DraftOK(c.kind, c.draft)
    /\ c.kind \in Rules => c.tool = has

ActionInv ==
  /\ \A a \in todo \cup results : action[a] # NoAction
  /\ \A a \in Ids : ActionOK(action[a])

OfferOK(fs) ==
  \A f \in FormsOf[visit] \cap {"removeRule"} : fs[f].open => DraftOK(f, fs[f].draft)

(* Nothing is past the check beside another request or an unfinished       *)
(* action for the same.                                                    *)
TwinInv ==
  ~overlap =>
    /\ \A a, b \in Open : KeyOf(a) = KeyOf(b) => a = b
    /\ \A i, j \in Slots : slot[i].phase = "checked" /\ slot[j].phase = "checked"
                             /\ KeyIn(i) = KeyIn(j) => i = j
    /\ \A i \in Slots, a \in Open : slot[i].phase = "checked" => KeyIn(i) # KeyOf(a)

Waiting(sl, f) == { i \in Slots : sl[i].form = f /\ sl[i].live }

SentFor(fs, sl, f) ==
  /\ fs[f].busy => \E i \in Slots : Waiting(sl, f) = {i}
  /\ ~fs[f].busy => Waiting(sl, f) = {}

SentInv == \A f \in FormsOf[visit] : Is(f, "busy") => SentFor(form, slot, f)

(* The dialog that is open found the page free, and its button focused.    *)
ShellOK(s, open) ==
  /\ \A f, g \in open : f = g
  /\ s.overflow = IF open = {} THEN "auto" ELSE "hidden"
  /\ \A f \in open : /\ s.saved[f] = "auto"
                     /\ f # "removeRule" => s.before[f] = Trigger(f)

ShellInv == ~disturbed => ShellOK(shell, ModalsOf(tab, page, form))

IInv ==
  /\ TypeOK /\ ToolInv /\ SlotInv /\ ActionInv /\ OfferOK(form)
  /\ TwinInv /\ SentInv /\ ShellInv

=============================================================================
