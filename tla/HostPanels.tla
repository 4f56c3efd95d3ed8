------------------------------ MODULE HostPanels ------------------------------
(***************************************************************************)
(* The panels of a host's page: what the operator opens, types, confirms   *)
(* and sends, what an answer does to the panel it finds, and the page the  *)
(* poll draws anew under all that.  A visit is about one sub-tab and the   *)
(* overview.                                                               *)
(***************************************************************************)
EXTENDS HostActions

CONSTANTS
  Busy,      \* bound: visits with two requests under way at once, the others have one
  Followed   \* bound: the forms whose actions are followed to the host

(* What a form is.  "modal": a dialog with useModalShell.  "inside": its   *)
(* state is the dialog's and dies with it.  "busy": its button is disabled *)
(* while it sends.  "confirm": it closes when it sends.  "offer": its item *)
(* is a row of the snapshot.  "typed": its text is typed.  "direct": no    *)
(* action is created.                                                      *)
YaraForm == {"dialog", "modal", "busy", "typed"}
ClamavForm == {"dialog", "modal", "busy", "typed"}
AddRuleForm == {"dialog", "inside", "busy", "typed"}
RemoveRuleForm == {"dialog", "modal", "confirm", "offer"}
BanForm == {"dialog", "inside", "busy", "typed"}
UnbanButton == {"offer"}
RkhunterButton == {"busy"}
ChkrootkitButton == {"busy"}
LynisButton == {"busy"}
AideButton == {"busy"}
LocationForm == {"dialog", "busy", "typed", "direct"}
TokenButton == {"busy", "direct"}

Form ==
  [yara |-> YaraForm, clamav |-> ClamavForm, addRule |-> AddRuleForm,
   removeRule |-> RemoveRuleForm, ban |-> BanForm, unban |-> UnbanButton,
   rkhunter |-> RkhunterButton, chkrootkit |-> ChkrootkitButton,
   lynis |-> LynisButton, aide |-> AideButton,
   location |-> LocationForm, token |-> TokenButton]

Forms == DOMAIN Form
Is(f, trait) == trait \in Form[f]

(* What a visit of the page is about.                                      *)
FormsOf ==
  [antimalware |-> {"yara", "clamav"}, bans |-> {"ban", "unban"},
   rules |-> {"addRule"}, firewall |-> {"removeRule"}, place |-> {"location"},
   rkhunter |-> {"rkhunter"}, chkrootkit |-> {"chkrootkit"},
   lynis |-> {"lynis"}, aide |-> {"aide"}, enrollment |-> {"token"}]

(* A host has one firewall.                                                *)
ToolsOf ==
  [v \in DOMAIN FormsOf |->
     CASE v \in {"rules", "firewall"} -> Firewalls
       [] v = "bans" -> {"fail2ban"}
       [] OTHER -> {"scanner"}]

TabOf(f) == IF f \in {"location", "token"} THEN "overview" ELSE "panel"

VARIABLES
  visit,      \* what this visit of the page is about
  tab,        \* the tab that is selected
  page,       \* HostDetailPage: host, as polled
  form,       \* the state of each form
  slot,       \* the requests under way
  shell,      \* useModalShell: document.body and the focus
  disturbed,  \* history: a modal was not the only one, or came back open
  overlap     \* history: two requests for the same were past their check at once

pageVars == <<visit, tab, page, form, slot, shell, disturbed, overlap>>
vars == <<hostVars, pageVars>>

ASSUME FollowedAssumption == Followed \subseteq { f \in Forms : ~Is(f, "direct") }

Slots == IF visit \in Busy THEN 1..2 ELSE {1}
Modals == {"yara", "clamav", "removeRule"}
Body == <<"body", "body">>
Trigger(f) == <<"trigger", f>>
Inside(f) == <<"inside", f>>
Elements == {Body} \cup { Trigger(f) : f \in Forms } \cup { Inside(f) : f \in Forms }

Of(r) == [id |-> r, meant |-> r, raw |-> {}]
Untyped == Of(NoItem)

Fresh == [open |-> FALSE, busy |-> FALSE, draft |-> Untyped]

Free == [form |-> "none", draft |-> Untyped, tool |-> "none", phase |-> "free",
         live |-> FALSE, panel |-> FALSE, was |-> NoRow]

Requests ==
  [form : Forms, draft : Drafts, tool : Tools \cup {"none"},
   phase : {"sent", "checked", "accepted", "refused"},
   live : BOOLEAN, panel : BOOLEAN, was : Row]

TypeOK ==
  /\ HostTypeOK
  /\ visit \in DOMAIN FormsOf /\ tab \in {"overview", "panel"}
  /\ page \in Row
  /\ form \in [FormsOf[visit] -> [open : BOOLEAN, busy : BOOLEAN, draft : Drafts]]
  /\ slot \in [Slots -> Requests \cup {Free}]
  /\ shell \in [overflow : {"auto", "hidden"}, focus : Elements,
               saved : [Modals -> {"auto", "hidden"}], before : [Modals -> Elements]]
  /\ disturbed \in BOOLEAN /\ overlap \in BOOLEAN

-----------------------------------------------------------------------------
(* What is on the screen.  A sub-tab is there while its tool is reported;  *)
(* the antimalware panels are always there, but without ClamAV its dialog  *)
(* is not drawn.  The page itself keeps the state of the token.            *)

Mounted(f, t, p) ==
  \/ f = "token"
  \/ t = TabOf(f) /\ (f \in {"yara", "clamav", "location"} \/ p.tool # "none")

OnScreen(f, t, p) ==
  Mounted(f, t, p) /\ t = TabOf(f) /\ (f = "clamav" => p.tool # "none")

ModalsOf(t, p, fs) ==
  { f \in DOMAIN fs : Is(f, "modal") /\ fs[f].open /\ OnScreen(f, t, p) }

(* parseUFWRules; parseFirewalldRichRules and parseJails: the rows of the  *)
(* snapshot that have the shape of the backend the page names.             *)
Numbered(p) ==
  { [id |-> l.at, meant |-> l.item, raw |-> p.raw] : l \in { l \in p.raw : l.at > 0 } }

Worded(p) == { Of(l.item) : l \in { l \in p.raw : l.at = 0 } }

(* Mutation: rows are numbered from zero.                                  *)
CountedFromZero(p) ==
  IF p.tool = "ufw" THEN { [o EXCEPT !.id = @ - 1] : o \in Numbered(p) } ELSE Worded(p)

Offers(p) == IF p.tool = "ufw" THEN Numbered(p) ELSE Worded(p)

-----------------------------------------------------------------------------
(* useModalShell.  Its effect is cleaned up and run again whenever onClose *)
(* is another function: at every render of the panel.                      *)

(* Mutation: the overflow is not restored.                                 *)
CleanupKeepsLock(s, f, there) ==
  [s EXCEPT !.focus = IF s.before[f] \in there THEN s.before[f] ELSE @,
            !.saved[f] = "auto", !.before[f] = Body]

Cleanup(s, f, there) ==
  [s EXCEPT !.overflow = s.saved[f],
            !.focus = IF s.before[f] \in there THEN s.before[f] ELSE @,
            !.saved[f] = "auto", !.before[f] = Body]

(* Mutation: the effect notes the focus when the dialog has taken it.      *)
EffectNotesItself(s, f) ==
  [s EXCEPT !.saved[f] = s.overflow, !.before[f] = Inside(f), !.overflow = "hidden"]

Effect(s, f) ==
  [s EXCEPT !.saved[f] = s.overflow, !.before[f] = s.focus, !.overflow = "hidden"]

(* As React meets them.                                                    *)
Cleanups(s, S, there) ==
  LET c(x, f) == IF f \in S THEN Cleanup(x, f, there) ELSE x
  IN c(c(c(s, "yara"), "clamav"), "removeRule")

Effects(s, S) ==
  LET e(x, f) == IF f \in S THEN Effect(x, f) ELSE x
  IN e(e(e(s, "yara"), "clamav"), "removeRule")

(* React commits: elements go, a new confirmation takes the focus, then    *)
(* all clean-ups, then all effects.                                        *)
Committed(s, old, new, again, there) ==
  LET opened == new \ old
      lands == IF "removeRule" \in opened THEN Inside("removeRule")
               ELSE IF s.focus \in there THEN s.focus ELSE Body
      closed == Cleanups([s EXCEPT !.focus = lands],
                         (old \ new) \cup (again \cap old \cap new), there)
  IN Effects(closed, opened \cup (again \cap old \cap new))

(* A request when the state of the forms dead is gone, and with it the     *)
(* panels of the forms gone.                                               *)
Orphaned(r, dead, gone) ==
  [r EXCEPT !.live = @ /\ r.form \notin dead, !.panel = @ /\ r.form \notin gone]

(* The page is drawn for tab t, host p, forms fs and requests sl; again:   *)
(* the forms whose panel is rendered; at: where the operator put the focus.*)
Draw(t, p, fs, sl, again, at) ==
  LET gone == { f \in DOMAIN fs : Mounted(f, tab, page) /\ ~Mounted(f, t, p) }
      dead == gone \cup { f \in DOMAIN fs : Is(f, "inside") /\ ~fs[f].open }
      old == ModalsOf(tab, page, form)
      new == ModalsOf(t, p, form')
      there == { Trigger(f) : f \in { f \in DOMAIN fs : OnScreen(f, t, p) } }
               \cup { Inside(f) : f \in new }
  IN /\ tab' = t
     /\ page' = p
     /\ form' = [f \in DOMAIN fs |-> IF f \in dead THEN Fresh ELSE fs[f]]
     /\ slot' = [i \in Slots |-> Orphaned(sl[i], dead, gone)]
     /\ shell' = Committed([shell EXCEPT !.focus = at], old, new, again, there)
     /\ disturbed' = (disturbed \/ Cardinality(new) > 1
                      \/ \E f \in new \ old : form[f].open)
     /\ UNCHANGED <<visit, overlap>>

Panel(f) == IF f = "addRule" THEN {"removeRule"} ELSE {f}

-----------------------------------------------------------------------------
Init ==
  /\ visit \in DOMAIN FormsOf
  /\ \E t \in ToolsOf[visit] : HostInit(t)
  /\ tab = "overview"
  /\ page = row
  /\ form = [f \in FormsOf[visit] |-> Fresh]
  /\ slot = [i \in Slots |-> Free]
  /\ shell = [overflow |-> "auto", focus |-> Body,
              saved |-> [f \in Modals |-> "auto"],
              before |-> [f \in Modals |-> Body]]
  /\ disturbed = FALSE /\ overlap = FALSE

Here(f) == f \in DOMAIN form /\ OnScreen(f, tab, page)

-----------------------------------------------------------------------------
(* The operator.                                                           *)

SelectTab(t) ==
  /\ t # tab
  /\ Draw(t, page, form, slot, {}, Body)
  /\ UNCHANGED hostVars

Opens(f, draft) ==
  /\ ~form[f].open
  /\ Draw(tab, page, [form EXCEPT ![f].open = TRUE, ![f].draft = draft], slot,
          {f}, Trigger(f))
  /\ UNCHANGED hostVars

(* A row's button hands over what the row is at that moment.               *)
OpenDialog(f) ==
  /\ Here(f) /\ Is(f, "dialog")
  /\ \/ Is(f, "offer") /\ \E o \in Offers(page) : Opens(f, o)
     \/ ~Is(f, "offer") /\ Opens(f, Untyped)

Shut(f) == [form[f] EXCEPT !.open = FALSE, !.draft = Untyped]

CloseDialog(f) ==
  /\ Here(f) /\ Is(f, "dialog") /\ form[f].open
  /\ Draw(tab, page, [form EXCEPT ![f] = Shut(f)], slot, {f}, Body)
  /\ UNCHANGED hostVars

(* Every open modal listens to the document; stopPropagation does not keep *)
(* the others from hearing it.                                             *)
Escape ==
  LET open == ModalsOf(tab, page, form)
  IN /\ open # {}
     /\ Draw(tab, page, [f \in DOMAIN form |-> IF f \in open THEN Shut(f) ELSE form[f]],
             slot, open, shell.focus)
     /\ UNCHANGED hostVars

FocusField(f) ==
  /\ f \in ModalsOf(tab, page, form)
  /\ shell' = [shell EXCEPT !.focus = Inside(f)]
  /\ UNCHANGED <<hostVars, visit, tab, page, form, slot, disturbed, overlap>>

(* What is in a field is chosen when it is sent; typing draws the form.    *)
Type(f) ==
  /\ Here(f) /\ Is(f, "typed") /\ form[f].open
  /\ Draw(tab, page, form, slot, {f} \ {"addRule"},
          IF Is(f, "modal") THEN Inside(f) ELSE shell.focus)
  /\ UNCHANGED hostVars

-----------------------------------------------------------------------------
(* A request.                                                              *)

FirstFree(i) == slot[i] = Free /\ \A j \in 1..(i - 1) : slot[j] # Free

Request(f, draft) ==
  [form |-> f, draft |-> draft, tool |-> "none", phase |-> "sent",
   live |-> TRUE, panel |-> TRUE, was |-> IF f = "location" THEN page ELSE NoRow]

(* Mutation: the flag is set when the answer is there.                     *)
Unflagged(f) == IF Is(f, "confirm") THEN Shut(f) ELSE form[f]

Sending(f) == IF Is(f, "confirm") THEN Shut(f) ELSE [form[f] EXCEPT !.busy = Is(f, "busy")]

Sends(f, draft, i) ==
  /\ FirstFree(i)
  /\ Draw(tab, page, [form EXCEPT ![f] = Sending(f)],
          [slot EXCEPT ![i] = Request(f, draft)], Panel(f),
          IF Is(f, "modal") THEN Inside(f) ELSE shell.focus)
  /\ UNCHANGED hostVars

(* What the form names when it is sent.                                    *)
Named(f) ==
  IF f = "unban" THEN Offers(page)
  ELSE IF f \in Followed /\ Is(f, "typed") THEN { Of(r) : r \in Items }
  ELSE {form[f].draft}

(* A token is shown instead of its button.                                 *)
Submit(f, i) ==
  /\ Here(f)
  /\ ~form[f].busy
  /\ IF Is(f, "dialog") THEN form[f].open ELSE ~form[f].open
  /\ \E draft \in Named(f) : Sends(f, draft, i)

AtServer(i, phase) == slot' = [slot EXCEPT ![i].phase = phase]

Server == UNCHANGED <<visit, tab, page, form, shell, disturbed>>

KeyIn(i) == Key(slot[i].form, slot[i].tool, slot[i].draft.id)

(* A request that is not followed may be granted or refused.               *)
Decide(i) ==
  /\ slot[i].phase = "sent" /\ slot[i].form \notin Followed
  /\ \E phase \in {"accepted", "refused"} : AtServer(i, phase)
  /\ UNCHANGED <<hostVars, overlap>>
  /\ Server

(* The router and the first half of create_pending_action.                 *)
Check(i) ==
  LET s == slot[i]
      key == Key(s.form, row.tool, s.draft.id)
      ok == Supported(s.form) /\ ~Exists(key)
  IN /\ s.phase = "sent" /\ s.form \in Followed
     /\ slot' = [slot EXCEPT ![i].phase = IF ok THEN "checked" ELSE "refused",
                             ![i].tool = row.tool]
     /\ overlap' = (overlap \/ (ok /\ \E j \in Slots : slot[j].phase = "checked"
                                                      /\ KeyIn(j) = key))
     /\ UNCHANGED hostVars
     /\ Server

(* The second half.                                                        *)
InsertRow(i) ==
  LET s == slot[i]
  IN /\ s.phase = "checked"
     /\ AtServer(i, "accepted")
     /\ Insert(s.form, s.tool, s.draft)
     /\ UNCHANGED <<host, agent, row, overlap>>
     /\ Server

(* No answer: the request may have been handled.                           *)
Lose(i) ==
  /\ slot[i].phase \in {"sent", "accepted"}
  /\ AtServer(i, "refused")
  /\ UNCHANGED <<hostVars, overlap>>
  /\ Server

(* submit, run, save and generateToken after their await.                  *)
AfterOk(s, f) ==
  IF Is(f, "inside") THEN (IF s.panel THEN Shut(f) ELSE form[f])
  ELSE IF ~s.live \/ ~Is(f, "busy") THEN form[f]
  ELSE [form[f] EXCEPT !.busy = FALSE, !.open = f = "token"]

AfterError(s, f) ==
  IF s.live /\ Is(f, "busy") THEN [form[f] EXCEPT !.busy = FALSE] ELSE form[f]

(* LocationEditor's onSaved puts the host of its own render back.          *)
SavedOver(s, ok) == IF s.form = "location" /\ ok THEN s.was ELSE page

Answer(i) ==
  LET s == slot[i]
      ok == s.phase = "accepted"
      f == s.form
  IN /\ s.phase \in {"accepted", "refused"}
     /\ Draw(tab, SavedOver(s, ok),
             [form EXCEPT ![f] = IF ok THEN AfterOk(s, f) ELSE AfterError(s, f)],
             [slot EXCEPT ![i] = Free],
             IF s.panel \/ f = "location" THEN Panel(f) ELSE {}, shell.focus)
     /\ UNCHANGED hostVars

(* HostDetailPage's poll; the order of its answers is WebScreens' subject. *)
Poll ==
  /\ page # row \/ ModalsOf(tab, page, form) # {}
  /\ Draw(tab, row, form, slot, DOMAIN form, shell.focus)
  /\ UNCHANGED hostVars

-----------------------------------------------------------------------------
OfHost == HostNext /\ UNCHANGED pageVars

Operates ==
  \/ Escape
  \/ \E t \in {"overview", "panel"} : SelectTab(t)
  \/ \E f \in Forms : \/ OpenDialog(f) \/ CloseDialog(f) \/ FocusField(f)
                      \/ Type(f)
                      \/ \E i \in Slots : Submit(f, i)

Serves(i) == Decide(i) \/ Check(i) \/ InsertRow(i) \/ Answer(i)

Next == OfHost \/ Operates \/ Poll \/ \E i \in Slots : Serves(i) \/ Lose(i)

Spec == Init /\ [][Next]_vars

=============================================================================
