---------------------------- MODULE HostPanelsProofs ----------------------------
(***************************************************************************)
(* What the host page's panels, the server and the agent keep between      *)
(* them, for any rules, addresses, actions and edits of others.            *)
(***************************************************************************)
EXTENDS HostPanelsProps, FiniteSetTheorems, FunctionTheorems, SequenceTheorems, TLAPS

(* What each form is.                                                      *)
LEMMA FormTraits ==
  /\ Modals \subseteq Forms /\ Whole \cup Rules \subseteq Forms
  /\ \A f \in Forms :
       /\ Is(f, "modal") <=> f \in Modals
       /\ Is(f, "inside") <=> f \in {"addRule", "ban"}
       /\ Is(f, "confirm") <=> f = "removeRule"
       /\ Is(f, "offer") <=> f \in {"removeRule", "unban"}
       /\ Is(f, "direct") <=> f \in {"location", "token"}
       /\ Is(f, "busy") <=> f \notin {"removeRule", "unban"}
       /\ f \in {"addRule", "ban"} => Is(f, "typed")
       /\ f \in {"removeRule", "unban"} => ~Is(f, "typed")
       /\ f \in Modals => Is(f, "dialog")
       /\ Is(f, "direct") \/ f \in Kinds
       /\ f # "none"
<1>1. Forms = {"yara", "clamav", "addRule", "removeRule", "ban", "unban", "rkhunter",
               "chkrootkit", "lynis", "aide", "location", "token"}
  BY DEF Forms, Form
<1> USE DEF Is, Form, Modals, Kinds, Rules, Whole
<1>2. /\ Form["yara"] = YaraForm /\ Form["clamav"] = ClamavForm
      /\ Form["addRule"] = AddRuleForm /\ Form["removeRule"] = RemoveRuleForm
      /\ Form["ban"] = BanForm /\ Form["unban"] = UnbanButton
      /\ Form["rkhunter"] = RkhunterButton /\ Form["chkrootkit"] = ChkrootkitButton
      /\ Form["lynis"] = LynisButton /\ Form["aide"] = AideButton
      /\ Form["location"] = LocationForm /\ Form["token"] = TokenButton
  OBVIOUS
<1>3. Modals \subseteq Forms /\ Whole \cup Rules \subseteq Forms
  BY <1>1
<1> HIDE DEF Form
<1> QED
  BY <1>1, <1>2, <1>3
     DEF YaraForm, ClamavForm, AddRuleForm, RemoveRuleForm, BanForm, UnbanButton,
         RkhunterButton, ChkrootkitButton, LynisButton, AideButton, LocationForm, TokenButton

(* What each visit is about.                                               *)
LEMMA VisitTraits ==
  ASSUME NEW v \in DOMAIN FormsOf
  PROVE  /\ FormsOf[v] \subseteq Forms
         /\ ToolsOf[v] \subseteq Tools
         /\ FormsOf[v] \cap Rules # {} => ToolsOf[v] = Firewalls
         /\ FormsOf[v] \cap {"ban", "unban"} # {} => ToolsOf[v] = {"fail2ban"}
BY DEF FormsOf, ToolsOf, Forms, Form, Tools, Firewalls, Rules

-----------------------------------------------------------------------------
(* The lists of the host.                                                  *)
Lists == [ufw : Seq(Items), permanent : SUBSET Items, live : SUBSET Items]

(* A rule less: only the rule at that number may be gone.                  *)
LEMMA RemovedAt ==
  ASSUME NEW S, NEW s \in Seq(S), NEW n \in DOMAIN s
  PROVE  /\ RemoveAt(s, n) \in Seq(S)
         /\ \A r \in Range(s) \ Range(RemoveAt(s, n)) : r = s[n]
<1> DEFINE b == SubSeq(s, 1, n - 1)
           e == SubSeq(s, n + 1, Len(s))
<1>1. n \in 1..Len(s) /\ Len(s) \in Nat
  OBVIOUS
<1>2. /\ b \in Seq(S) /\ Len(b) = n - 1
      /\ \A i \in 1..(n - 1) : b[i] = s[i]
  BY <1>1, SubSeqProperties
<1>3. /\ e \in Seq(S) /\ Len(e) = Len(s) - n
      /\ \A i \in 1..(Len(s) - n) : e[i] = s[n + i]
  BY <1>1, SubSeqProperties
<1> HIDE DEF b, e
<1>4. /\ b \o e \in Seq(S) /\ Len(b \o e) = Len(s) - 1
      /\ \A i \in 1..(n - 1) : (b \o e)[i] = s[i]
      /\ \A i \in 1..(Len(s) - n) : (b \o e)[n - 1 + i] = s[n + i]
  <2>1. b \in Seq(S) /\ e \in Seq(S) /\ Len(b) = n - 1 /\ Len(e) = Len(s) - n
    BY <1>2, <1>3
  <2>2. /\ b \o e \in Seq(S) /\ Len(b \o e) = Len(b) + Len(e)
        /\ \A i \in 1..(Len(b) + Len(e)) :
             (b \o e)[i] = IF i <= Len(b) THEN b[i] ELSE e[i - Len(b)]
    BY <2>1, ConcatProperties
  <2>3. b \o e \in Seq(S) /\ Len(b \o e) = Len(s) - 1
    BY <1>1, <2>1, <2>2
  <2>4. ASSUME NEW i \in 1..(n - 1)
        PROVE  (b \o e)[i] = s[i]
    <3>1. i \in 1..(Len(b) + Len(e)) /\ i <= Len(b)
      BY <1>1, <2>1
    <3>2. (b \o e)[i] = b[i]
      BY <2>2, <3>1
    <3> QED  BY <1>2, <3>2
  <2>5. ASSUME NEW i \in 1..(Len(s) - n)
        PROVE  (b \o e)[n - 1 + i] = s[n + i]
    <3>1. /\ n - 1 + i \in 1..(Len(b) + Len(e))
          /\ ~ (n - 1 + i <= Len(b)) /\ (n - 1 + i) - Len(b) = i
      <4>1. n \in Nat /\ Len(b) + Len(e) = Len(s) - 1 /\ Len(b) = n - 1
        BY <1>1, <2>1
      <4>2. n - 1 + i \in 1..(Len(s) - 1)
        BY <1>1
      <4>3. ~ (n - 1 + i <= n - 1) /\ (n - 1 + i) - (n - 1) = i
        BY <4>1
      <4> QED  BY <4>1, <4>2, <4>3
    <3>2. (b \o e)[n - 1 + i] = e[i]
      BY <2>2, <3>1
    <3> QED  BY <1>3, <3>2
  <2> QED  BY <2>3, <2>4, <2>5
<1>5. ASSUME NEW i \in DOMAIN s, i # n
      PROVE  \E j \in DOMAIN (b \o e) : (b \o e)[j] = s[i]
  <2>1. DOMAIN (b \o e) = 1..(Len(s) - 1)
    BY <1>4
  <2>2. CASE i < n
    <3>1. i \in 1..(n - 1) /\ i \in 1..(Len(s) - 1)
      BY <1>1, <1>5, <2>2
    <3>2. (b \o e)[i] = s[i]
      BY <1>4, <3>1
    <3> QED  BY <2>1, <3>1, <3>2
  <2>3. CASE i > n
    <3>1. /\ i - n \in 1..(Len(s) - n) /\ i - 1 \in 1..(Len(s) - 1)
          /\ n - 1 + (i - n) = i - 1 /\ n + (i - n) = i
      BY <1>1, <1>5, <2>3
    <3>2. (b \o e)[n - 1 + (i - n)] = s[n + (i - n)]
      BY <1>4, <3>1
    <3> QED  BY <2>1, <3>1, <3>2
  <2> QED  BY <1>1, <1>5, <2>2, <2>3
<1>6. RemoveAt(s, n) = b \o e
  BY DEF RemoveAt, b, e
<1>7. \A x \in Range(s) \ {s[n]} : x \in Range(b \o e)
  <2> SUFFICES ASSUME NEW x \in Range(s), x # s[n]
               PROVE  x \in Range(b \o e)
    OBVIOUS
  <2>1. PICK i \in DOMAIN s : s[i] = x
    BY DEF Range
  <2>2. PICK j \in DOMAIN (b \o e) : (b \o e)[j] = s[i]
    BY <1>5, <2>1
  <2> QED  BY <2>1, <2>2 DEF Range
<1> QED  BY <1>4, <1>6, <1>7

LEMMA Appended ==
  ASSUME NEW S, NEW s \in Seq(S), NEW x \in S
  PROVE  /\ Append(s, x) \in Seq(S)
         /\ Range(s) \subseteq Range(Append(s, x))
BY DEF Range

(* What a command may leave behind.                                        *)
Leaves(c, l, new) ==
  /\ new \in Lists
  /\ Range(l.ufw) \ Range(new.ufw) # {} =>
       /\ c.kind = "removeRule" /\ c.tool = "ufw" /\ c.draft.id \in DOMAIN l.ufw
       /\ \A r \in Range(l.ufw) \ Range(new.ufw) : r = l.ufw[c.draft.id]
  /\ c.kind \in Rules =>
       \/ new.live = l.live /\ new.permanent = l.permanent
       \/ /\ new.live \in {l.live, new.permanent}
          /\ new.permanent = IF c.kind = "addRule" THEN l.permanent \cup {c.draft.id}
                                                   ELSE l.permanent \ {c.draft.id}
  /\ c.kind \notin Rules /\ c.kind \notin {"ban", "unban"} => new = l
  /\ c.kind \in {"ban", "unban"} =>
       l.live \ new.live \subseteq IF c.kind = "ban" THEN {} ELSE {c.draft.id}

LEMMA OutcomeFacts ==
  ASSUME NEW c, NEW l \in Lists, NEW new \in Outcomes(c, l),
         c.kind \in {"addRule", "ban"} => c.draft.id \in Items
  PROVE  Leaves(c, l, new)
<1> USE DEF Leaves
<1>1. CASE new = l
  BY <1>1 DEF Lists
<1>2. CASE c.kind = "addRule" /\ new \in AddRule(c, l)
  <2>1. CASE c.tool = "ufw"
    <3>1. PICK s : /\ new = [l EXCEPT !.ufw = s]
                   /\ s = l.ufw \/ s = Append(l.ufw, c.draft.id)
      BY <1>2, <2>1 DEF AddRule
    <3>2. l.ufw \in Seq(Items) /\ c.draft.id \in Items
      BY <1>2 DEF Lists
    <3>3. Append(l.ufw, c.draft.id) \in Seq(Items)
            /\ Range(l.ufw) \subseteq Range(Append(l.ufw, c.draft.id))
      BY <3>2, Appended
    <3>4. s \in Seq(Items) /\ Range(l.ufw) \subseteq Range(s)
      BY <3>1, <3>2, <3>3
    <3> QED  BY <1>2, <3>1, <3>4 DEF Lists, Rules
  <2>2. CASE c.tool # "ufw"
    <3> DEFINE p == l.permanent \cup {c.draft.id}
    <3>1. new \in Permanently(l, p) /\ p \in SUBSET Items
      BY <1>2, <2>2 DEF AddRule, Lists
    <3> HIDE DEF p
    <3>2. /\ new \in Lists /\ new.ufw = l.ufw /\ new.permanent = p
          /\ new.live \in {l.live, p}
      BY <3>1 DEF Permanently, Lists
    <3> QED  BY <1>2, <3>2 DEF Rules, p
  <2> QED  BY <2>1, <2>2
<1>3. CASE c.kind = "removeRule" /\ new \in RemoveRule(c, l)
  <2>1. CASE c.tool = "ufw"
    <3>1. c.draft.id \in DOMAIN l.ufw /\ new = [l EXCEPT !.ufw = RemoveAt(l.ufw, c.draft.id)]
      BY <1>3, <2>1 DEF RemoveRule
    <3>2. /\ RemoveAt(l.ufw, c.draft.id) \in Seq(Items)
          /\ \A r \in Range(l.ufw) \ Range(RemoveAt(l.ufw, c.draft.id)) : r = l.ufw[c.draft.id]
      BY <3>1, RemovedAt DEF Lists
    <3> QED  BY <1>3, <2>1, <3>1, <3>2 DEF Lists, Rules
  <2>2. CASE c.tool # "ufw"
    <3>1. new \in Permanently(l, l.permanent \ {c.draft.id})
      BY <1>3, <2>2 DEF RemoveRule
    <3> QED  BY <1>3, <3>1 DEF Permanently, Lists, Rules
  <2> QED  BY <2>1, <2>2
<1>4. CASE c.kind \in {"ban", "unban"} /\ new \in SetBan(c, l)
  BY <1>4 DEF SetBan, Lists, Rules
<1> QED  BY <1>1, <1>2, <1>3, <1>4 DEF Outcomes

-----------------------------------------------------------------------------
(* The types.                                                              *)
SlotTypes == Requests \cup {Free}
PanelStates == [open : BOOLEAN, busy : BOOLEAN, draft : Drafts]
Shells == [overflow : {"auto", "hidden"}, focus : Elements,
           saved : [Modals -> {"auto", "hidden"}], before : [Modals -> Elements]]

LEMMA Constants ==
  /\ Untyped \in Drafts /\ Fresh \in PanelStates /\ ~Fresh.open /\ ~Fresh.busy
  /\ NoRow \in Row /\ NoRow.tool = "none"
  /\ Free \notin Requests /\ ~Free.live /\ ~Free.panel /\ Free.form = "none"
  /\ Free.phase = "free" /\ Free.was = NoRow
  /\ Body \in Elements
  /\ \A f \in Forms : Trigger(f) \in Elements /\ Inside(f) \in Elements
<1>1. Untyped \in Drafts
  BY DEF Untyped, Of, Drafts, Targets, Lines
<1>2. Fresh \in PanelStates /\ ~Fresh.open /\ ~Fresh.busy
  BY <1>1 DEF Fresh, PanelStates
<1>3. NoRow \in Row /\ NoRow.tool = "none"
  BY DEF NoRow, Row
<1>4. /\ ~Free.live /\ ~Free.panel /\ Free.form = "none"
      /\ Free.phase = "free" /\ Free.was = NoRow
  BY DEF Free
<1>5. Free \notin Requests
  BY <1>4, FormTraits DEF Requests
<1> QED  BY <1>1, <1>2, <1>3, <1>4, <1>5 DEF Elements

LEMMA PageTypes ==
  ASSUME TypeOK
  PROVE  /\ visit \in DOMAIN FormsOf /\ FormsOf[visit] \subseteq Forms
         /\ DOMAIN form = FormsOf[visit]
         /\ form \in [FormsOf[visit] -> PanelStates] /\ slot \in [Slots -> SlotTypes]
         /\ shell \in Shells /\ page \in Row /\ row \in Row
         /\ tab \in {"overview", "panel"}
         /\ disturbed \in BOOLEAN /\ overlap \in BOOLEAN
BY VisitTraits DEF TypeOK, HostTypeOK, SlotTypes, PanelStates, Shells

(* A request whose form's state is gone is nobody's any more.              *)
LEMMA OrphanFacts ==
  ASSUME NEW r \in SlotTypes, NEW D, NEW G, "none" \notin D, "none" \notin G,
         NEW q, q = Orphaned(r, D, G)
  PROVE  /\ q \in SlotTypes /\ (q = Free <=> r = Free)
         /\ q.form = r.form /\ q.draft = r.draft /\ q.tool = r.tool
         /\ q.phase = r.phase /\ q.was = r.was
         /\ q.live <=> r.live /\ r.form \notin D
         /\ q.panel <=> r.panel /\ r.form \notin G
<1> USE DEF Orphaned
<1>1. CASE r \in Requests
  <2>1. q \in Requests
    BY <1>1 DEF Requests
  <2>2. /\ q.form = r.form /\ q.draft = r.draft /\ q.tool = r.tool
        /\ q.phase = r.phase /\ q.was = r.was
        /\ q.live <=> r.live /\ r.form \notin D
        /\ q.panel <=> r.panel /\ r.form \notin G
    BY <1>1 DEF Requests
  <2> QED  BY <1>1, <2>1, <2>2, Constants DEF SlotTypes
<1>2. CASE r = Free
  <2>1. Free \in [form : {"none"}, draft : {Untyped}, tool : {"none"}, phase : {"free"},
                  live : {FALSE}, panel : {FALSE}, was : {NoRow}]
    BY DEF Free
  <2>2. \A x \in [form : {"none"}, draft : {Untyped}, tool : {"none"}, phase : {"free"},
                  live : {FALSE}, panel : {FALSE}, was : {NoRow}] :
          [x EXCEPT !.live = @ /\ x.form \notin D, !.panel = @ /\ x.form \notin G] = x
    OBVIOUS
  <2>3. q = Free
    BY <1>2, <2>1, <2>2
  <2> QED  BY <1>2, <2>3, Constants DEF SlotTypes
<1> QED  BY <1>1, <1>2 DEF SlotTypes

(* Drawing the page: what it does to the forms and the requests.           *)
Gone(f) == form'[f] = Fresh /\ \A i \in Slots : slot'[i].form = f => ~slot'[i].live

FormDrawn(f, fs, sl) ==
  \/ Gone(f)
  \/ /\ form'[f] = fs[f]
     /\ \A i \in Slots : slot'[i].form = f => (slot'[i].live <=> sl[i].live)

SlotDrawn(i, sl) ==
  /\ slot'[i] = Free <=> sl[i] = Free
  /\ slot'[i].form = sl[i].form /\ slot'[i].draft = sl[i].draft
  /\ slot'[i].tool = sl[i].tool /\ slot'[i].phase = sl[i].phase
  /\ slot'[i].was = sl[i].was
  /\ slot'[i].live => sl[i].live
  /\ (sl[i].live => sl[i].panel) => (slot'[i].live => slot'[i].panel)

LEMMA DrawForms ==
  ASSUME TypeOK, NEW t, NEW p, NEW fs \in [FormsOf[visit] -> PanelStates],
         NEW sl \in [Slots -> SlotTypes], NEW again, NEW at, Draw(t, p, fs, sl, again, at)
  PROVE  /\ visit' = visit /\ Slots' = Slots /\ tab' = t /\ page' = p /\ overlap' = overlap
         /\ form' \in [FormsOf[visit] -> PanelStates] /\ slot' \in [Slots -> SlotTypes]
         /\ \A i \in Slots : SlotDrawn(i, sl)
         /\ \A f \in FormsOf[visit] :
              FormDrawn(f, fs, sl) /\ (Is(f, "inside") /\ ~fs[f].open => Gone(f))
         /\ \A f \in Modals \cap FormsOf[visit] :
              Mounted(f, tab, page) /\ Mounted(f, t, p) => form'[f] = fs[f]
<1> DEFINE gone == { f \in DOMAIN fs : Mounted(f, tab, page) /\ ~Mounted(f, t, p) }
           dead == gone \cup { f \in DOMAIN fs : Is(f, "inside") /\ ~fs[f].open }
<1>1. /\ visit' = visit /\ tab' = t /\ page' = p /\ overlap' = overlap
      /\ form' = [f \in FormsOf[visit] |-> IF f \in dead THEN Fresh ELSE fs[f]]
      /\ slot' = [i \in Slots |-> Orphaned(sl[i], dead, gone)]
  BY DEF Draw
<1>2. Slots' = Slots
  BY <1>1 DEF Slots
<1>3. /\ "none" \notin dead /\ "none" \notin gone /\ gone \subseteq dead
      /\ dead \subseteq FormsOf[visit]
  BY PageTypes, FormTraits
<1>4. \A f \in Modals \cap FormsOf[visit] :
        Mounted(f, tab, page) /\ Mounted(f, t, p) => f \notin dead
  BY PageTypes, FormTraits DEF Modals
<1>11. \A f \in FormsOf[visit] : Is(f, "inside") /\ ~fs[f].open => f \in dead
  OBVIOUS
<1> HIDE DEF gone, dead
<1>5. form' \in [FormsOf[visit] -> PanelStates]
  BY <1>1, Constants
<1>6. ASSUME NEW i \in Slots
      PROVE  /\ slot'[i] \in SlotTypes /\ (slot'[i] = Free <=> sl[i] = Free)
             /\ slot'[i].form = sl[i].form /\ slot'[i].draft = sl[i].draft
             /\ slot'[i].tool = sl[i].tool /\ slot'[i].phase = sl[i].phase
             /\ slot'[i].was = sl[i].was
             /\ slot'[i].live <=> sl[i].live /\ sl[i].form \notin dead
             /\ slot'[i].panel <=> sl[i].panel /\ sl[i].form \notin gone
  <2>1. sl[i] \in SlotTypes
    OBVIOUS
  <2>2. slot'[i] = Orphaned(sl[i], dead, gone)
    BY <1>1
  <2> QED  BY <1>3, <2>1, <2>2, OrphanFacts
<1>7. slot' \in [Slots -> SlotTypes]
  BY <1>1, <1>6
<1>8. ASSUME NEW i \in Slots
      PROVE  SlotDrawn(i, sl)
  BY <1>3, <1>6 DEF SlotDrawn
<1>9. ASSUME NEW f \in FormsOf[visit]
      PROVE  FormDrawn(f, fs, sl) /\ (f \in dead => Gone(f))
  <2>1. CASE f \in dead
    <3>1. form'[f] = Fresh
      BY <1>1, <2>1
    <3>2. ASSUME NEW i \in Slots, slot'[i].form = f PROVE ~slot'[i].live
      BY <1>6, <2>1, <3>2
    <3> QED  BY <3>1, <3>2 DEF FormDrawn, Gone
  <2>2. CASE f \notin dead
    <3>1. form'[f] = fs[f]
      BY <1>1, <2>2
    <3>2. ASSUME NEW i \in Slots, slot'[i].form = f PROVE slot'[i].live <=> sl[i].live
      BY <1>6, <2>2, <3>2
    <3> QED  BY <2>2, <3>1, <3>2 DEF FormDrawn
  <2> QED  BY <2>1, <2>2
<1>10. \A f \in Modals \cap FormsOf[visit] :
         Mounted(f, tab, page) /\ Mounted(f, t, p) => form'[f] = fs[f]
  BY <1>1, <1>4
<1> QED  BY <1>1, <1>2, <1>5, <1>7, <1>8, <1>9, <1>10, <1>11

-----------------------------------------------------------------------------
(* The document's overflow and the focus.                                  *)
LEMMA CleanupFacts ==
  ASSUME NEW s \in Shells, NEW f \in Modals, NEW there
  PROVE  /\ Cleanup(s, f, there) \in Shells
         /\ Cleanup(s, f, there).overflow = s.saved[f]
         /\ Cleanup(s, f, there).saved[f] = "auto"
         /\ Cleanup(s, f, there).focus = IF s.before[f] \in there THEN s.before[f] ELSE s.focus
BY Constants DEF Shells, Cleanup

LEMMA EffectFacts ==
  ASSUME NEW s \in Shells, NEW f \in Modals
  PROVE  /\ Effect(s, f) \in Shells
         /\ Effect(s, f).overflow = "hidden" /\ Effect(s, f).focus = s.focus
         /\ Effect(s, f).saved[f] = s.overflow /\ Effect(s, f).before[f] = s.focus
BY DEF Shells, Effect

LEMMA CleanupsFacts ==
  ASSUME NEW s \in Shells, NEW S, NEW there
  PROVE  /\ Cleanups(s, S, there) \in Shells
         /\ S = {} => Cleanups(s, S, there) = s
         /\ \A f \in Modals : S = {f} => Cleanups(s, S, there) = Cleanup(s, f, there)
<1> DEFINE c(x, f) == IF f \in S THEN Cleanup(x, f, there) ELSE x
<1>1. Cleanups(s, S, there) = c(c(c(s, "yara"), "clamav"), "removeRule")
  BY DEF Cleanups
<1>2. ASSUME NEW x \in Shells, NEW f \in Modals PROVE c(x, f) \in Shells
  BY CleanupFacts
<1>3. Modals = {"yara", "clamav", "removeRule"}
  BY DEF Modals
<1>4. Cleanups(s, S, there) \in Shells
  <2> HIDE DEF c
  <2> QED  BY <1>1, <1>2, <1>3
<1> QED  BY <1>1, <1>3, <1>4

LEMMA EffectsFacts ==
  ASSUME NEW s \in Shells, NEW S
  PROVE  /\ Effects(s, S) \in Shells
         /\ S = {} => Effects(s, S) = s
         /\ \A f \in Modals : S = {f} => Effects(s, S) = Effect(s, f)
<1> DEFINE e(x, f) == IF f \in S THEN Effect(x, f) ELSE x
<1>1. Effects(s, S) = e(e(e(s, "yara"), "clamav"), "removeRule")
  BY DEF Effects
<1>2. ASSUME NEW x \in Shells, NEW f \in Modals PROVE e(x, f) \in Shells
  BY EffectFacts
<1>3. Modals = {"yara", "clamav", "removeRule"}
  BY DEF Modals
<1>4. Effects(s, S) \in Shells
  <2> HIDE DEF e
  <2> QED  BY <1>1, <1>2, <1>3
<1> QED  BY <1>1, <1>3, <1>4

(* Where the focus lands when React has changed the elements.              *)
Lands(s, opened, there) ==
  IF "removeRule" \in opened THEN Inside("removeRule")
  ELSE IF s.focus \in there THEN s.focus ELSE Body

LEMMA LandsFacts ==
  ASSUME NEW s \in Shells, NEW opened, NEW there
  PROVE  LET x == [s EXCEPT !.focus = Lands(s, opened, there)]
         IN /\ x \in Shells /\ x.overflow = s.overflow
            /\ x.saved = s.saved /\ x.before = s.before
            /\ "removeRule" \notin opened /\ s.focus \in there => x.focus = s.focus
<1>1. Lands(s, opened, there) \in Elements
  BY Constants, FormTraits DEF Lands, Modals, Shells
<1> QED  BY <1>1 DEF Shells, Lands

LEMMA CommittedType ==
  ASSUME NEW s \in Shells, NEW old, NEW new, NEW again, NEW there
  PROVE  Committed(s, old, new, again, there) \in Shells
<1> DEFINE x == [s EXCEPT !.focus = Lands(s, new \ old, there)]
           y == Cleanups(x, (old \ new) \cup (again \cap old \cap new), there)
<1>1. Committed(s, old, new, again, there)
        = Effects(y, (new \ old) \cup (again \cap old \cap new))
  BY DEF Committed, Lands
<1>2. x \in Shells
  BY LandsFacts
<1> HIDE DEF x
<1>3. y \in Shells
  BY <1>2, CleanupsFacts
<1> HIDE DEF y
<1> QED  BY <1>1, <1>3, EffectsFacts

(* At most one dialog was open, and none opens.                            *)
LEMMA CommittedStays ==
  ASSUME NEW s \in Shells, NEW old, NEW new, NEW again, NEW there,
         old \subseteq Modals, new \subseteq old, ShellOK(s, old),
         \A f \in new : Trigger(f) \in there
  PROVE  /\ ShellOK(Committed(s, old, new, again, there), new)
         /\ \A f \in old \ new : f # "removeRule" /\ Trigger(f) \in there =>
              Committed(s, old, new, again, there).focus = Trigger(f)
<1> DEFINE x == [s EXCEPT !.focus = Lands(s, new \ old, there)]
           y == Cleanups(x, (old \ new) \cup (again \cap old \cap new), there)
           z == Committed(s, old, new, again, there)
<1>1. z = Effects(y, (new \ old) \cup (again \cap old \cap new))
  BY DEF Committed, Lands
<1>2. x \in Shells /\ x.overflow = s.overflow /\ x.saved = s.saved /\ x.before = s.before
  BY LandsFacts
<1> HIDE DEF x, z
<1>3. CASE old = {}
  <2>1. y = x
    BY <1>2, <1>3, CleanupsFacts
  <2>2. z = x
    BY <1>1, <1>2, <1>3, <2>1, EffectsFacts
  <2> QED  BY <1>2, <1>3, <2>2 DEF ShellOK, z
<1>4. ASSUME NEW f \in old
      PROVE  ShellOK(z, new) /\ \A g \in old \ new : g # "removeRule" /\ Trigger(g) \in there =>
               z.focus = Trigger(g)
  <2>1. old = {f} /\ f \in Modals
    BY <1>4 DEF ShellOK
  <2>2. /\ x.saved[f] = "auto" /\ x.overflow = "hidden"
        /\ f # "removeRule" => x.before[f] = Trigger(f)
    BY <1>2, <1>4 DEF ShellOK
  <2>3. CASE new = {}
    <3>1. y = Cleanup(x, f, there)
      BY <1>2, <2>1, <2>3, CleanupsFacts
    <3>2. /\ y \in Shells /\ y.overflow = "auto"
          /\ f # "removeRule" /\ Trigger(f) \in there => y.focus = Trigger(f)
      BY <1>2, <2>1, <2>2, <3>1, CleanupFacts
    <3> HIDE DEF y
    <3>3. z = y
      BY <1>1, <2>1, <2>3, <3>2, EffectsFacts
    <3> QED  BY <2>1, <2>3, <3>2, <3>3 DEF ShellOK
  <2>4. CASE new = {f} /\ f \in again
    <3>1. y = Cleanup(x, f, there)
      BY <1>2, <2>1, <2>4, CleanupsFacts
    <3>2. /\ y \in Shells /\ y.overflow = "auto"
          /\ f # "removeRule" => y.focus = Trigger(f)
      BY <1>2, <2>1, <2>2, <2>4, <3>1, CleanupFacts
    <3> HIDE DEF y
    <3>3. z = Effect(y, f)
      BY <1>1, <2>1, <2>4, <3>2, EffectsFacts
    <3> QED  BY <2>1, <2>4, <3>2, <3>3, EffectFacts DEF ShellOK
  <2>5. CASE new = {f} /\ f \notin again
    <3>1. y = x
      BY <1>2, <2>1, <2>5, CleanupsFacts
    <3>2. z = x
      BY <1>1, <1>2, <2>1, <2>5, <3>1, EffectsFacts
    <3> QED  BY <2>1, <2>2, <2>5, <3>2 DEF ShellOK
  <2> QED  BY <2>1, <2>3, <2>4, <2>5
<1> QED  BY <1>3, <1>4 DEF z

(* None was open, and one opens by its button.                             *)
LEMMA CommittedOpens ==
  ASSUME NEW s \in Shells, NEW f \in Modals, NEW again, NEW there,
         ShellOK(s, {}), s.focus = Trigger(f), Trigger(f) \in there
  PROVE  ShellOK(Committed(s, {}, {f}, again, there), {f})
<1> DEFINE x == [s EXCEPT !.focus = Lands(s, {f}, there)]
<1>1. /\ x \in Shells /\ x.overflow = "auto"
      /\ f # "removeRule" => x.focus = Trigger(f)
  <2>1. s.overflow = "auto"
    BY DEF ShellOK
  <2> QED  BY <2>1, LandsFacts
<1> HIDE DEF x
<1>2. Committed(s, {}, {f}, again, there) = Effects(Cleanups(x, {}, there), {f})
  <2>1. /\ {f} \ {} = {f} /\ ({} \ {f}) \cup (again \cap {} \cap {f}) = {}
        /\ {f} \cup (again \cap {} \cap {f}) = {f}
    OBVIOUS
  <2> QED  BY <2>1, Zenon DEF Committed, Lands, x
<1>3. Committed(s, {}, {f}, again, there) = Effect(x, f)
  BY <1>1, <1>2, CleanupsFacts, EffectsFacts
<1> QED  BY <1>1, <1>3, EffectFacts DEF ShellOK

LEMMA AtMostOne ==
  ASSUME NEW S, S \subseteq Modals, ~(Cardinality(S) > 1)
  PROVE  \A f, g \in S : f = g
<1> SUFFICES ASSUME NEW f \in S, NEW g \in S, f # g PROVE FALSE
  OBVIOUS
<1>1. IsFiniteSet({"yara"}) /\ IsFiniteSet({"yara", "clamav"}) /\ IsFiniteSet(Modals)
  <2>1. IsFiniteSet({"yara"})
    BY FS_Singleton
  <2>2. IsFiniteSet({"yara"} \cup {"clamav"})
    BY <2>1, FS_AddElement
  <2>3. IsFiniteSet({"yara"} \cup {"clamav"} \cup {"removeRule"})
    BY <2>2, FS_AddElement
  <2>4. /\ {"yara"} \cup {"clamav"} = {"yara", "clamav"}
        /\ {"yara"} \cup {"clamav"} \cup {"removeRule"} = Modals
    BY DEF Modals
  <2> QED  BY <2>1, <2>2, <2>3, <2>4
<1>2. IsFiniteSet(S)
  BY <1>1, FS_Subset
<1>3. IsFiniteSet({f}) /\ Cardinality({f}) = 1
  BY FS_Singleton
<1>4. Cardinality({f} \cup {g}) = 2
  <2>1. Cardinality({f} \cup {g}) = IF g \in {f} THEN Cardinality({f}) ELSE Cardinality({f}) + 1
    BY <1>3, FS_AddElement, Zenon
  <2> QED  BY <1>3, <2>1
<1>5. Cardinality({f} \cup {g}) <= Cardinality(S) /\ Cardinality(S) \in Nat
  BY <1>2, FS_Subset, FS_CardinalityType
<1> QED  BY <1>4, <1>5

(* The dialogs on the screen, before and after the page is drawn.          *)
LEMMA Dialogs ==
  ASSUME TypeOK, NEW t, NEW p, NEW fs \in [FormsOf[visit] -> PanelStates]
  PROVE  /\ ModalsOf(t, p, fs) \subseteq Modals \cap FormsOf[visit]
         /\ \A f \in Modals \cap FormsOf[visit] :
              f \in ModalsOf(t, p, fs) <=> fs[f].open /\ OnScreen(f, t, p)
BY PageTypes, FormTraits DEF ModalsOf

LEMMA DrawDialogs ==
  ASSUME TypeOK, NEW t, NEW p, NEW fs \in [FormsOf[visit] -> PanelStates],
         NEW sl \in [Slots -> SlotTypes], NEW again, NEW at, Draw(t, p, fs, sl, again, at)
  PROVE  /\ ModalsOf(tab', page', form') = ModalsOf(t, p, form')
         /\ ModalsOf(t, p, form') \subseteq Modals \cap FormsOf[visit]
         /\ \A f \in ModalsOf(t, p, form') : fs[f].open /\ OnScreen(f, t, p)
         /\ \A f \in Modals \cap FormsOf[visit] :
              fs[f].open /\ OnScreen(f, t, p) /\ OnScreen(f, tab, page) =>
                f \in ModalsOf(t, p, form')
         /\ ~disturbed' =>
              /\ ~disturbed
              /\ \A f, g \in ModalsOf(t, p, form') : f = g
              /\ \A f \in ModalsOf(t, p, form') \ ModalsOf(tab, page, form) : ~form[f].open
<1>1. /\ visit' = visit /\ tab' = t /\ page' = p
      /\ form' \in [FormsOf[visit] -> PanelStates]
      /\ \A f \in FormsOf[visit] : form'[f] = Fresh \/ form'[f] = fs[f]
      /\ \A f \in Modals \cap FormsOf[visit] :
           Mounted(f, tab, page) /\ Mounted(f, t, p) => form'[f] = fs[f]
  <2>1. /\ visit' = visit /\ tab' = t /\ page' = p
        /\ form' \in [FormsOf[visit] -> PanelStates]
    BY DrawForms
  <2>2. \A f \in FormsOf[visit] : form'[f] = Fresh \/ form'[f] = fs[f]
    <3>1. \A f \in FormsOf[visit] : FormDrawn(f, fs, sl)
      BY DrawForms
    <3> QED  BY <3>1 DEF FormDrawn, Gone
  <2>3. \A f \in Modals \cap FormsOf[visit] :
          Mounted(f, tab, page) /\ Mounted(f, t, p) => form'[f] = fs[f]
    BY DrawForms
  <2> QED  BY <2>1, <2>2, <2>3
<1>2. /\ ModalsOf(t, p, form') \subseteq Modals \cap FormsOf[visit]
      /\ \A f \in Modals \cap FormsOf[visit] :
           f \in ModalsOf(t, p, form') <=> form'[f].open /\ OnScreen(f, t, p)
  BY <1>1, Dialogs
<1>3. ASSUME ~disturbed'
      PROVE  /\ ~disturbed /\ ~(Cardinality(ModalsOf(t, p, form')) > 1)
             /\ \A f \in ModalsOf(t, p, form') \ ModalsOf(tab, page, form) : ~form[f].open
  BY <1>3, Zenon DEF Draw
<1>4. ASSUME ~disturbed'
      PROVE  \A f, g \in ModalsOf(t, p, form') : f = g
  BY <1>2, <1>3, <1>4, AtMostOne
<1>5. \A f \in ModalsOf(t, p, form') : fs[f].open /\ OnScreen(f, t, p)
  BY <1>1, <1>2, Constants
<1>6. \A f \in Modals \cap FormsOf[visit] :
        fs[f].open /\ OnScreen(f, t, p) /\ OnScreen(f, tab, page) => f \in ModalsOf(t, p, form')
  BY <1>1, <1>2 DEF OnScreen
<1> QED  BY <1>1, <1>2, <1>3, <1>4, <1>5, <1>6

(* The page is drawn and no dialog opens.                                  *)
LEMMA DrawStays ==
  ASSUME TypeOK, ShellInv, NEW t, NEW p, NEW fs \in [FormsOf[visit] -> PanelStates],
         NEW sl \in [Slots -> SlotTypes], NEW again, NEW at \in Elements,
         Draw(t, p, fs, sl, again, at),
         \A f \in Modals \cap FormsOf[visit] : fs[f].open => form[f].open
  PROVE  shell' \in Shells /\ disturbed' \in BOOLEAN /\ ShellInv' /\ Returned
<1> DEFINE old == ModalsOf(tab, page, form)
           new == ModalsOf(t, p, form')
           there == { Trigger(f) : f \in { f \in DOMAIN fs : OnScreen(f, t, p) } }
                    \cup { Inside(f) : f \in new }
           s == [shell EXCEPT !.focus = at]
<1>1. shell' = Committed(s, old, new, again, there) /\ disturbed' \in BOOLEAN
  BY DEF Draw
<1>2. s \in Shells /\ s.overflow = shell.overflow /\ s.saved = shell.saved
        /\ s.before = shell.before
  BY PageTypes DEF Shells
<1>3. old \subseteq Modals \cap FormsOf[visit]
  BY PageTypes, Dialogs
<1>4. /\ ModalsOf(tab', page', form') = new /\ tab' = t /\ page' = p
      /\ \A f \in new : f \in Modals \cap FormsOf[visit] /\ fs[f].open /\ OnScreen(f, t, p)
      /\ ~disturbed' => ~disturbed /\ \A f \in new \ old : ~form[f].open
  <2>1. tab' = t /\ page' = p
    BY DEF Draw
  <2> QED  BY <2>1, DrawDialogs
<1>5. \A f \in FormsOf[visit] : OnScreen(f, t, p) => Trigger(f) \in there
  BY PageTypes
<1> HIDE DEF s, there, new, old
<1>6. shell' \in Shells
  BY <1>1, <1>2, CommittedType
<1>7. ASSUME ~disturbed'
      PROVE  /\ ShellOK(shell', new)
             /\ \A f \in old \ new : f # "removeRule" /\ Trigger(f) \in there =>
                  shell'.focus = Trigger(f)
  <2>1. ShellOK(s, old)
    BY <1>2, <1>4, <1>7 DEF ShellInv, ShellOK, old
  <2>2. new \subseteq old
    BY <1>4, <1>7
  <2>3. \A f \in new : Trigger(f) \in there
    BY <1>4, <1>5
  <2> QED  BY <1>1, <1>2, <1>3, <2>1, <2>2, <2>3, CommittedStays
<1>8. ShellInv'
  BY <1>4, <1>7 DEF ShellInv
<1>9. Returned
  BY <1>3, <1>4, <1>5, <1>7 DEF Returned, old
<1> QED  BY <1>1, <1>6, <1>8, <1>9

(* The page is drawn and a dialog opens by its button.                     *)
LEMMA DrawOpens ==
  ASSUME TypeOK, ShellInv, NEW fs \in [FormsOf[visit] -> PanelStates],
         NEW again, NEW g \in Modals \cap FormsOf[visit],
         Draw(tab, page, fs, slot, again, Trigger(g)),
         OnScreen(g, tab, page), fs[g].open, ~form[g].open,
         \A f \in FormsOf[visit] : f # g => fs[f] = form[f]
  PROVE  shell' \in Shells /\ disturbed' \in BOOLEAN /\ ShellInv' /\ Returned
<1> DEFINE old == ModalsOf(tab, page, form)
           new == ModalsOf(tab, page, form')
           there == { Trigger(f) : f \in { f \in DOMAIN fs : OnScreen(f, tab, page) } }
                    \cup { Inside(f) : f \in new }
           s == [shell EXCEPT !.focus = Trigger(g)]
<1>0. slot \in [Slots -> SlotTypes] /\ Trigger(g) \in Elements /\ g \in FormsOf[visit]
        /\ form \in [FormsOf[visit] -> PanelStates]
  BY PageTypes, Constants
<1>1. shell' = Committed(s, old, new, again, there) /\ disturbed' \in BOOLEAN
  BY DEF Draw
<1>2. s \in Shells /\ s.overflow = shell.overflow /\ s.focus = Trigger(g)
  BY <1>0, PageTypes DEF Shells
<1>3. /\ old \subseteq Modals \cap FormsOf[visit]
      /\ \A f \in old : form[f].open /\ OnScreen(f, tab, page)
  BY <1>0, Dialogs
<1>4. /\ ModalsOf(tab', page', form') = new /\ tab' = tab /\ page' = page
      /\ \A f \in Modals \cap FormsOf[visit] : fs[f].open /\ OnScreen(f, tab, page) => f \in new
      /\ ~disturbed' => ~disturbed /\ \A f, h \in new : f = h
  <2>1. tab' = tab /\ page' = page
    BY DEF Draw
  <2> QED  BY <1>0, <2>1, DrawDialogs
<1>5. Trigger(g) \in there
  BY <1>0
<1> HIDE DEF s, there, new, old
<1>6. shell' \in Shells
  BY <1>1, <1>2, CommittedType
<1>7. g \in new /\ old \subseteq new /\ g \notin old
  BY <1>3, <1>4
<1>8. ASSUME ~disturbed'
      PROVE  ShellOK(shell', new)
  <2>1. new = {g} /\ old = {}
    BY <1>4, <1>7, <1>8
  <2>2. ShellOK(s, {})
    BY <1>2, <1>4, <1>8, <2>1 DEF ShellInv, ShellOK, old
  <2>3. ShellOK(Committed(s, {}, {g}, again, there), {g})
    BY <1>2, <1>5, <2>2, CommittedOpens
  <2> QED  BY <1>1, <2>1, <2>3
<1>9. ShellInv'
  BY <1>4, <1>8 DEF ShellInv
<1>10. Returned
  BY <1>4, <1>7 DEF Returned, old
<1> QED  BY <1>1, <1>6, <1>9, <1>10

-----------------------------------------------------------------------------
(* What the host, the agent and the table keep when only the page changes. *)
LEMMA HostSame ==
  ASSUME IInv, UNCHANGED <<hostVars, visit>>, DOMAIN form' = FormsOf[visit]
  PROVE  /\ HostTypeOK' /\ has' \in ToolsOf[visit] /\ Says(row)' /\ ActionInv'
         /\ Open' = Open /\ \A a \in Open : KeyOf(a)' = KeyOf(a)
         /\ \A r \in Row : Says(r)' <=> Says(r)
         /\ \A k, d : DraftOK(k, d)' <=> DraftOK(k, d)
<1>1. /\ HostTypeOK /\ ToolInv /\ ActionInv
      /\ UNCHANGED <<has, tool, lists, edits, todo, results, action, row, visit>>
  BY DEF IInv, TypeOK, hostVars
<1>2. HostTypeOK' /\ has' \in ToolsOf[visit] /\ Says(row)'
  BY <1>1 DEF HostTypeOK, ToolInv, Says
<1>3. /\ \A k, d : DraftOK(k, d)' <=> DraftOK(k, d)
      /\ \A r \in Row : Says(r)' <=> Says(r)
  BY <1>1 DEF DraftOK, Says
<1>4. ActionInv'
  BY <1>1 DEF ActionInv, ActionOK, DraftOK
<1>5. Open' = Open /\ \A a \in Open : KeyOf(a)' = KeyOf(a)
  BY <1>1 DEF Open, KeyOf
<1> QED  BY <1>2, <1>3, <1>4, <1>5

SlotsOK(sl) ==
  \A i \in Slots : SlotOK(sl[i]) /\ (sl[i].phase = "checked" => sl[i] = slot[i])

(* The flag of a form is right, or its state is about to go.               *)
Settled(fs, sl, f) ==
  Is(f, "busy") => SentFor(fs, sl, f) \/ (Is(f, "inside") /\ ~fs[f].open)

LEMMA DrawKeeps ==
  ASSUME IInv, UNCHANGED hostVars, NEW t \in {"overview", "panel"}, NEW p \in Row, Says(p),
         NEW fs \in [FormsOf[visit] -> PanelStates], NEW sl \in [Slots -> SlotTypes],
         NEW again, NEW at, Draw(t, p, fs, sl, again, at),
         SlotsOK(sl), OfferOK(fs), \A f \in FormsOf[visit] : Settled(fs, sl, f),
         shell' \in Shells, disturbed' \in BOOLEAN, ShellInv'
  PROVE  IInv'
<1>1. TypeOK /\ TwinInv /\ SentInv
  BY DEF IInv
<1>2. /\ visit' = visit /\ Slots' = Slots /\ tab' = t /\ page' = p /\ overlap' = overlap
      /\ form' \in [FormsOf[visit] -> PanelStates] /\ slot' \in [Slots -> SlotTypes]
  BY <1>1, DrawForms
<1>3. /\ \A i \in Slots : SlotDrawn(i, sl)
      /\ \A f \in FormsOf[visit] : FormDrawn(f, fs, sl)
      /\ \A f \in FormsOf[visit] : Is(f, "inside") /\ ~fs[f].open => Gone(f)
  BY <1>1, DrawForms
<1>4. \A f \in FormsOf[visit] : form'[f] = Fresh \/ form'[f] = fs[f]
  BY <1>3 DEF FormDrawn, Gone
<1>5. /\ HostTypeOK' /\ has' \in ToolsOf[visit] /\ Says(row)' /\ ActionInv'
      /\ Open' = Open /\ \A a \in Open : KeyOf(a)' = KeyOf(a)
      /\ has' = has
  BY <1>2, HostSame DEF hostVars
<1>6. TypeOK'
  BY <1>1, <1>2, <1>5, PageTypes DEF TypeOK, SlotTypes, PanelStates, Shells
<1>7. ToolInv'
  BY <1>2, <1>5 DEF ToolInv, Says
<1>8. SlotInv'
  <2>1. ASSUME NEW i \in Slots, slot'[i] # Free
        PROVE  SlotOK(slot[i])'
    BY <1>2, <1>3, <1>5, <2>1 DEF SlotsOK, SlotOK, SlotDrawn, DraftOK, Says
  <2>2. ASSUME NEW i \in Slots, slot'[i] = Free
        PROVE  SlotOK(slot[i])'
    BY <2>2 DEF SlotOK
  <2> QED  BY <1>2, <2>1, <2>2 DEF SlotInv
<1>9. OfferOK(form)'
  BY <1>2, <1>4, <1>5, Constants DEF OfferOK, DraftOK
<1>10. TwinInv'
  <2>1. ASSUME NEW i \in Slots, slot'[i].phase = "checked"
        PROVE  slot[i].phase = "checked" /\ KeyIn(i)' = KeyIn(i)
    BY <1>3, <2>1 DEF SlotsOK, SlotDrawn, KeyIn
  <2> QED  BY <1>1, <1>2, <1>5, <2>1 DEF TwinInv
<1>11. SentInv'
  <2> SUFFICES ASSUME NEW f \in FormsOf[visit], Is(f, "busy")
               PROVE  SentFor(form, slot, f)'
    BY <1>2 DEF SentInv
  <2>1. CASE Gone(f)
    BY <1>2, <2>1, Constants DEF SentFor, Waiting, Gone
  <2>2. CASE /\ ~Gone(f) /\ form'[f] = fs[f]
             /\ \A i \in Slots : slot'[i].form = f => (slot'[i].live <=> sl[i].live)
    <3>1. Waiting(slot, f)' = Waiting(sl, f)
      BY <1>2, <1>3, <2>2 DEF Waiting, SlotDrawn
    <3>2. SentFor(fs, sl, f)
      BY <1>3, <2>2 DEF Settled
    <3> QED  BY <1>2, <2>2, <3>1, <3>2 DEF SentFor
  <2> QED  BY <1>3, <2>1, <2>2 DEF FormDrawn
<1> QED  BY <1>5, <1>6, <1>7, <1>8, <1>9, <1>10, <1>11 DEF IInv

-----------------------------------------------------------------------------
(* What the operator does.                                                 *)
LEMMA PageFacts ==
  ASSUME IInv
  PROVE  /\ TypeOK /\ ShellInv
         /\ visit \in DOMAIN FormsOf /\ FormsOf[visit] \subseteq Forms
         /\ DOMAIN form = FormsOf[visit]
         /\ form \in [FormsOf[visit] -> PanelStates] /\ slot \in [Slots -> SlotTypes]
         /\ shell \in Shells /\ shell.focus \in Elements
         /\ page \in Row /\ row \in Row /\ Says(page) /\ Says(row)
         /\ tab \in {"overview", "panel"}
         /\ SlotsOK(slot) /\ OfferOK(form)
         /\ \A f \in FormsOf[visit] :
              (Is(f, "busy") => SentFor(form, slot, f)) /\ Settled(form, slot, f)
<1>1. TypeOK /\ ToolInv /\ SlotInv /\ OfferOK(form) /\ SentInv /\ ShellInv
  BY DEF IInv
<1>2. shell \in Shells /\ shell.focus \in Elements
  BY <1>1, PageTypes DEF Shells
<1> QED  BY <1>1, <1>2, PageTypes DEF ToolInv, SlotInv, SlotsOK, SentInv, Settled

(* The page is drawn after a step that opens no dialog.                    *)
LEMMA Redrawn ==
  ASSUME IInv, UNCHANGED hostVars, NEW t \in {"overview", "panel"}, NEW p \in Row, Says(p),
         NEW fs \in [FormsOf[visit] -> PanelStates], NEW sl \in [Slots -> SlotTypes],
         NEW again, NEW at \in Elements, Draw(t, p, fs, sl, again, at),
         SlotsOK(sl), OfferOK(fs), \A f \in FormsOf[visit] : Settled(fs, sl, f),
         \A f \in Modals \cap FormsOf[visit] : fs[f].open => form[f].open
  PROVE  IInv' /\ Returned
<1>1. TypeOK /\ ShellInv
  BY PageFacts
<1>2. shell' \in Shells /\ disturbed' \in BOOLEAN /\ ShellInv' /\ Returned
  BY <1>1, DrawStays
<1>3. IInv'
  BY <1>2, DrawKeeps
<1> QED  BY <1>2, <1>3

LEMMA SelectTabKeeps ==
  ASSUME IInv, NEW t \in {"overview", "panel"}, SelectTab(t)
  PROVE  IInv' /\ Returned
<1>1. Draw(t, page, form, slot, {}, Body) /\ UNCHANGED hostVars
  BY DEF SelectTab
<1> QED  BY <1>1, PageFacts, Constants, Redrawn

LEMMA PollKeeps ==
  ASSUME IInv, Poll
  PROVE  IInv' /\ Returned
<1>1. Draw(tab, row, form, slot, DOMAIN form, shell.focus) /\ UNCHANGED hostVars
  BY DEF Poll
<1> QED  BY <1>1, PageFacts, Redrawn

LEMMA TypeKeeps ==
  ASSUME IInv, NEW f \in Forms, Type(f)
  PROVE  IInv' /\ Returned
<1>1. PICK at \in Elements :
        Draw(tab, page, form, slot, {f} \ {"addRule"}, at) /\ UNCHANGED hostVars
  <2>1. (IF Is(f, "modal") THEN Inside(f) ELSE shell.focus) \in Elements
    BY PageFacts, Constants
  <2> QED  BY <2>1 DEF Type
<1> QED  BY <1>1, PageFacts, Redrawn

(* Only the flag and the requests of a form say whether it waits.          *)
LEMMA SentSame ==
  ASSUME IInv, NEW fs \in [FormsOf[visit] -> PanelStates],
         \A f \in FormsOf[visit] : fs[f].busy = form[f].busy
  PROVE  \A f \in FormsOf[visit] : Settled(fs, slot, f)
BY PageFacts DEF SentFor, Settled

LEMMA CloseDialogKeeps ==
  ASSUME IInv, NEW f \in Forms, CloseDialog(f)
  PROVE  IInv' /\ Returned
<1> DEFINE fs == [form EXCEPT ![f] = Shut(f)]
<1>1. /\ Draw(tab, page, fs, slot, {f}, Body) /\ UNCHANGED hostVars
      /\ f \in FormsOf[visit]
  BY PageFacts DEF CloseDialog, Here
<1>2. /\ fs \in [FormsOf[visit] -> PanelStates]
      /\ \A g \in FormsOf[visit] : fs[g].busy = form[g].busy /\ (fs[g].open => fs[g] = form[g])
  BY <1>1, PageFacts, Constants DEF Shut, PanelStates
<1> HIDE DEF fs
<1>3. OfferOK(fs)
  BY <1>2, PageFacts DEF OfferOK
<1>4. \A g \in FormsOf[visit] : Settled(fs, slot, g)
  BY <1>2, SentSame
<1>5. \A g \in Modals \cap FormsOf[visit] : fs[g].open => form[g].open
  BY <1>2
<1> QED  BY <1>1, <1>2, <1>3, <1>4, <1>5, PageFacts, Constants, Redrawn

LEMMA EscapeKeeps ==
  ASSUME IInv, Escape
  PROVE  IInv' /\ Returned
<1> DEFINE open == ModalsOf(tab, page, form)
           fs == [f \in DOMAIN form |-> IF f \in open THEN Shut(f) ELSE form[f]]
<1>1. Draw(tab, page, fs, slot, open, shell.focus) /\ UNCHANGED hostVars
  BY DEF Escape
<1> HIDE DEF open
<1>2. /\ fs \in [FormsOf[visit] -> PanelStates]
      /\ \A g \in FormsOf[visit] : fs[g].busy = form[g].busy /\ (fs[g].open => fs[g] = form[g])
  <2>1. ASSUME NEW g \in FormsOf[visit]
        PROVE  /\ Shut(g) \in PanelStates /\ Shut(g).busy = form[g].busy /\ ~Shut(g).open
               /\ form[g] \in PanelStates
    BY PageFacts, Constants DEF Shut, PanelStates
  <2> QED  BY <2>1, PageFacts
<1> HIDE DEF fs
<1>3. OfferOK(fs)
  BY <1>2, PageFacts DEF OfferOK
<1>4. \A g \in FormsOf[visit] : Settled(fs, slot, g)
  BY <1>2, SentSame
<1>5. \A g \in Modals \cap FormsOf[visit] : fs[g].open => form[g].open
  BY <1>2
<1> QED  BY <1>1, <1>2, <1>3, <1>4, <1>5, PageFacts, Redrawn

(* What a row offers: itself.                                              *)
LEMMA OfferFacts ==
  ASSUME NEW p \in Row, NEW o \in Offers(p)
  PROVE  /\ o \in Drafts
         /\ \A k \in {"removeRule", "unban"} : p.tool = has => DraftOK(k, o)
<1>1. CASE p.tool = "ufw"
  <2>1. PICK l \in p.raw : l.at > 0 /\ o = [id |-> l.at, meant |-> l.item, raw |-> p.raw]
    BY <1>1 DEF Offers, Numbered
  <2>2. l \in Lines /\ p.raw \in SUBSET Lines
    BY DEF Row
  <2>3. l.at \in Positions /\ l.item \in Items /\ l = [at |-> l.at, item |-> l.item]
    BY <2>1, <2>2 DEF Lines, Positions
  <2> QED  BY <1>1, <2>1, <2>2, <2>3 DEF Drafts, Targets, DraftOK
<1>2. CASE p.tool # "ufw"
  <2>1. PICK l \in p.raw : o = Of(l.item)
    BY <1>2 DEF Offers, Worded
  <2>2. l.item \in Items
    BY DEF Row, Lines
  <2> QED  BY <1>2, <2>1, <2>2 DEF Of, Drafts, Targets, DraftOK
<1> QED  BY <1>1, <1>2

(* The rows that can be removed are those of the host's tool.              *)
LEMMA HereFacts ==
  ASSUME IInv, NEW f \in Forms, Here(f)
  PROVE  /\ f \in FormsOf[visit] /\ OnScreen(f, tab, page)
         /\ f \in {"removeRule", "unban"} => page.tool = has
BY PageFacts DEF Here, OnScreen, Mounted, Says

LEMMA OpenDialogKeeps ==
  ASSUME IInv, NEW f \in Forms, OpenDialog(f)
  PROVE  IInv' /\ Returned
<1>1. f \in FormsOf[visit] /\ OnScreen(f, tab, page)
  BY HereFacts DEF OpenDialog
<1>2. PICK d \in Drafts : Opens(f, d) /\ (f = "removeRule" => DraftOK(f, d))
  <2>1. CASE Is(f, "offer")
    <3>1. PICK o \in Offers(page) : Opens(f, o)
      BY <2>1 DEF OpenDialog
    <3>2. page.tool = has /\ f \in {"removeRule", "unban"}
      BY <2>1, HereFacts, FormTraits DEF OpenDialog
    <3> QED  BY <3>1, <3>2, OfferFacts, PageFacts
  <2>2. CASE ~Is(f, "offer")
    <3>1. Opens(f, Untyped) /\ f # "removeRule"
      BY <2>2, FormTraits DEF OpenDialog
    <3> QED  BY <3>1, Constants
  <2> QED  BY <2>1, <2>2
<1> DEFINE fs == [form EXCEPT ![f].open = TRUE, ![f].draft = d]
<1>3. /\ ~form[f].open /\ UNCHANGED hostVars
      /\ Draw(tab, page, fs, slot, {f}, Trigger(f))
  BY <1>2 DEF Opens
<1>4. /\ fs \in [FormsOf[visit] -> PanelStates]
      /\ \A g \in FormsOf[visit] : fs[g].busy = form[g].busy /\ (g # f => fs[g] = form[g])
      /\ fs[f].open /\ fs[f].draft = d
  BY <1>1, PageFacts DEF PanelStates
<1> HIDE DEF fs
<1>5. OfferOK(fs)
  BY <1>2, <1>4, PageFacts DEF OfferOK
<1>6. \A g \in FormsOf[visit] : Settled(fs, slot, g)
  BY <1>4, SentSame
<1>7. CASE f \in Modals
  <2>1. shell' \in Shells /\ disturbed' \in BOOLEAN /\ ShellInv' /\ Returned
    BY <1>1, <1>3, <1>4, <1>7, PageFacts, DrawOpens
  <2>2. IInv'
    BY <1>3, <1>4, <1>5, <1>6, <2>1, PageFacts, DrawKeeps
  <2> QED  BY <2>1, <2>2
<1>8. CASE f \notin Modals
  <2>1. \A g \in Modals \cap FormsOf[visit] : fs[g].open => form[g].open
    BY <1>4, <1>8
  <2> QED  BY <1>3, <1>4, <1>5, <1>6, <2>1, PageFacts, Constants, Redrawn
<1> QED  BY <1>7, <1>8

LEMMA FocusFieldKeeps ==
  ASSUME IInv, NEW f \in Forms, FocusField(f)
  PROVE  IInv' /\ Returned
<1>1. /\ shell' = [shell EXCEPT !.focus = Inside(f)]
      /\ UNCHANGED <<hostVars, visit, tab, page, form, slot, disturbed, overlap>>
  BY DEF FocusField
<1>2. /\ shell' \in Shells /\ shell'.overflow = shell.overflow
      /\ shell'.saved = shell.saved /\ shell'.before = shell.before
  BY <1>1, PageFacts, Constants DEF Shells
<1>3. /\ HostTypeOK' /\ has' \in ToolsOf[visit] /\ Says(row)' /\ ActionInv'
      /\ Open' = Open /\ \A a \in Open : KeyOf(a)' = KeyOf(a)
      /\ has' = has
  BY <1>1, PageFacts, HostSame DEF hostVars
<1>4. TypeOK /\ ToolInv /\ SlotInv /\ OfferOK(form) /\ TwinInv /\ SentInv /\ ShellInv
        /\ Slots' = Slots
  BY <1>1 DEF IInv, Slots
<1>5. TypeOK' /\ ToolInv'
  BY <1>1, <1>2, <1>3, <1>4 DEF TypeOK, Shells, ToolInv, Says
<1>6. SlotInv' /\ OfferOK(form)'
  BY <1>1, <1>3, <1>4 DEF SlotInv, SlotOK, OfferOK, DraftOK, Says
<1>7. TwinInv' /\ SentInv'
  BY <1>1, <1>3, <1>4 DEF TwinInv, SentInv, SentFor, Waiting, KeyIn
<1>8. ModalsOf(tab, page, form)' = ModalsOf(tab, page, form)
  BY <1>1
<1>9. ShellInv' /\ Returned
  BY <1>1, <1>2, <1>4, <1>8 DEF ShellInv, ShellOK, Returned
<1> QED  BY <1>3, <1>5, <1>6, <1>7, <1>9 DEF IInv

(* What a form names when it is sent.                                      *)
LEMMA NamedFacts ==
  ASSUME IInv, NEW f \in Forms, Here(f), Is(f, "dialog") => form[f].open,
         NEW d \in Named(f)
  PROVE  d \in Drafts /\ DraftOK(f, d)
<1>1. f \in FormsOf[visit] /\ (f \in {"removeRule", "unban"} => page.tool = has)
  BY HereFacts
<1>2. CASE f = "unban"
  <2>1. d \in Offers(page)
    BY <1>2 DEF Named
  <2> QED  BY <1>1, <1>2, <2>1, OfferFacts, PageFacts
<1>3. CASE f # "unban" /\ f \in Followed /\ Is(f, "typed")
  <2>1. PICK r \in Items : d = Of(r)
    BY <1>3 DEF Named
  <2>2. f \notin {"removeRule", "unban"}
    BY <1>3, FormTraits
  <2> QED  BY <2>1, <2>2 DEF Of, Drafts, Targets, DraftOK
<1>4. CASE f # "unban" /\ ~(f \in Followed /\ Is(f, "typed"))
  <2>1. d = form[f].draft /\ d \in Drafts
    BY <1>1, <1>4, PageFacts DEF Named, PanelStates
  <2>2. CASE f = "removeRule"
    <3>1. form[f].open
      BY <2>2, FormTraits DEF Modals
    <3> QED  BY <1>1, <2>1, <2>2, <3>1, PageFacts DEF OfferOK
  <2>3. CASE f # "removeRule"
    BY <1>4, <2>3, <2>1, FormTraits DEF DraftOK
  <2> QED  BY <2>1, <2>2, <2>3
<1> QED  BY <1>2, <1>3, <1>4

LEMMA RequestFacts ==
  ASSUME IInv, NEW f \in FormsOf[visit], NEW d \in Drafts, DraftOK(f, d)
  PROVE  /\ Request(f, d) \in Requests /\ Request(f, d).form = f /\ Request(f, d).live
         /\ Request(f, d).phase = "sent" /\ SlotOK(Request(f, d))
<1> DEFINE r == Request(f, d)
<1>1. /\ r \in Requests /\ r.form = f /\ r.live /\ r.phase = "sent" /\ r.panel
      /\ r.draft = d /\ r.was \in {page, NoRow}
  <2>1. (IF f = "location" THEN page ELSE NoRow) \in Row
    BY PageFacts, Constants
  <2> QED  BY <2>1, PageFacts DEF Request, Requests
<1>2. Says(r.was)
  BY <1>1, PageFacts, Constants DEF Says
<1> HIDE DEF r
<1>3. SlotOK(r)
  BY <1>1, <1>2 DEF SlotOK
<1> QED  BY <1>1, <1>3 DEF r

LEMMA SubmitKeeps ==
  ASSUME IInv, NEW f \in Forms, NEW i \in Slots, Submit(f, i)
  PROVE  IInv' /\ Returned
<1>1. PICK d \in Named(f) : Sends(f, d, i)
  BY DEF Submit
<1>2. /\ f \in FormsOf[visit] /\ ~form[f].busy
      /\ d \in Drafts /\ DraftOK(f, d)
  BY HereFacts, NamedFacts DEF Submit
<1> DEFINE fs == [form EXCEPT ![f] = Sending(f)]
           sl == [slot EXCEPT ![i] = Request(f, d)]
<1>3. PICK at \in Elements : Draw(tab, page, fs, sl, Panel(f), at) /\ UNCHANGED hostVars
  <2>1. (IF Is(f, "modal") THEN Inside(f) ELSE shell.focus) \in Elements
    BY PageFacts, Constants
  <2> QED  BY <1>1, <2>1 DEF Sends
<1>4. slot[i] = Free
  BY <1>1 DEF Sends, FirstFree
<1>5. /\ fs \in [FormsOf[visit] -> PanelStates]
      /\ \A g \in FormsOf[visit] : g # f => fs[g] = form[g]
      /\ fs[f].open => form[f].open
      /\ f = "removeRule" => ~fs[f].open
      /\ Is(f, "busy") => fs[f].busy
  <2>1. CASE Is(f, "confirm")
    <3>1. f = "removeRule" /\ ~Is(f, "busy")
      BY <2>1, FormTraits
    <3>2. Sending(f) \in PanelStates /\ ~Sending(f).open
      BY <1>2, <2>1, PageFacts, Constants DEF Sending, Shut, PanelStates
    <3> HIDE DEF Sending
    <3> QED  BY <1>2, <3>1, <3>2, PageFacts
  <2>2. CASE ~Is(f, "confirm")
    <3>1. f # "removeRule"
      BY <2>2, FormTraits
    <3>2. /\ Sending(f) \in PanelStates /\ (Sending(f).open <=> form[f].open)
          /\ Sending(f).busy <=> Is(f, "busy")
      <4>1. PICK b \in BOOLEAN : b <=> Is(f, "busy")
        OBVIOUS
      <4>2. Sending(f) = [form[f] EXCEPT !.busy = b]
        BY <2>2, <4>1 DEF Sending, Is
      <4> QED  BY <1>2, <4>1, <4>2, PageFacts DEF PanelStates
    <3> HIDE DEF Sending
    <3> QED  BY <1>2, <3>1, <3>2, PageFacts
  <2> QED  BY <2>1, <2>2
<1>6. /\ sl \in [Slots -> SlotTypes] /\ sl[i].form = f /\ sl[i].live
      /\ sl[i].phase = "sent" /\ SlotOK(sl[i])
      /\ \A j \in Slots : j # i => sl[j] = slot[j]
  <2>1. /\ Request(f, d) \in SlotTypes /\ Request(f, d).form = f /\ Request(f, d).live
        /\ Request(f, d).phase = "sent" /\ SlotOK(Request(f, d))
    BY <1>2, RequestFacts DEF SlotTypes
  <2> QED  BY <2>1, PageFacts
<1> HIDE DEF fs, sl
<1>7. SlotsOK(sl) /\ OfferOK(fs)
  BY <1>5, <1>6, PageFacts DEF SlotsOK, OfferOK
<1>8. \A g \in FormsOf[visit] : Settled(fs, sl, g)
  <2>1. ASSUME NEW g \in FormsOf[visit], g # f
        PROVE  Settled(fs, sl, g)
    <3>1. Waiting(sl, g) = Waiting(slot, g)
      BY <1>4, <1>6, <2>1, Constants DEF Waiting
    <3> QED  BY <1>5, <2>1, <3>1, PageFacts DEF Settled, SentFor
  <2>2. Settled(fs, sl, f)
    <3> SUFFICES ASSUME Is(f, "busy") PROVE SentFor(fs, sl, f)
      BY DEF Settled
    <3>1. Waiting(slot, f) = {}
      BY <1>2, PageFacts DEF SentFor
    <3>2. Waiting(sl, f) = {i}
      BY <1>6, <3>1 DEF Waiting
    <3> QED  BY <1>5, <3>2 DEF SentFor
  <2> QED  BY <2>1, <2>2
<1>9. \A g \in Modals \cap FormsOf[visit] : fs[g].open => form[g].open
  BY <1>5
<1> QED  BY <1>3, <1>5, <1>6, <1>7, <1>8, <1>9, PageFacts, Redrawn

(* What an answer does to the form it finds.                               *)
LEMMA AnsweredForm ==
  ASSUME IInv, NEW s \in Requests, NEW f \in FormsOf[visit],
         s.live => s.panel, NEW x \in {AfterOk(s, f), AfterError(s, f)}
  PROVE  /\ x \in PanelStates
         /\ f # "token" => (x.open => form[f].open)
         /\ f = "removeRule" => x = form[f]
         /\ ~s.live => x = form[f] \/ (Is(f, "inside") /\ ~x.open)
         /\ s.live /\ Is(f, "busy") => ~x.busy \/ (Is(f, "inside") /\ ~x.open)
<1>1. form[f] \in PanelStates /\ f \in Forms
  BY PageFacts
<1>2. Shut(f) \in PanelStates /\ ~Shut(f).open
  BY <1>1, Constants DEF Shut, PanelStates
<1>3. s.live \in BOOLEAN /\ s.panel \in BOOLEAN
  BY DEF Requests
<1>4. ~Is("removeRule", "inside") /\ ~Is("removeRule", "busy")
  BY FormTraits DEF Modals
<1> USE DEF PanelStates
<1>5. /\ [form[f] EXCEPT !.busy = FALSE, !.open = f = "token"] \in PanelStates
      /\ ~[form[f] EXCEPT !.busy = FALSE, !.open = f = "token"].busy
      /\ [form[f] EXCEPT !.busy = FALSE, !.open = f = "token"].open <=> f = "token"
      /\ [form[f] EXCEPT !.busy = FALSE] \in PanelStates
      /\ ~[form[f] EXCEPT !.busy = FALSE].busy
      /\ [form[f] EXCEPT !.busy = FALSE].open = form[f].open
  BY <1>1
<1> HIDE DEF PanelStates
<1>6. CASE x = AfterOk(s, f)
  <2>1. CASE Is(f, "inside")
    BY <1>1, <1>2, <1>3, <1>4, <1>6, <2>1 DEF AfterOk
  <2>2. CASE ~Is(f, "inside") /\ (~s.live \/ ~Is(f, "busy"))
    BY <1>1, <1>6, <2>2 DEF AfterOk
  <2>3. CASE ~Is(f, "inside") /\ s.live /\ Is(f, "busy")
    BY <1>4, <1>5, <1>6, <2>3 DEF AfterOk
  <2> QED  BY <2>1, <2>2, <2>3
<1>7. CASE x = AfterError(s, f)
  BY <1>1, <1>3, <1>4, <1>5, <1>7 DEF AfterError
<1> QED  BY <1>6, <1>7

LEMMA AnswerKeeps ==
  ASSUME IInv, NEW i \in Slots, Answer(i)
  PROVE  IInv' /\ Returned
<1> DEFINE s == slot[i]
           f == s.form
           ok == s.phase = "accepted"
           x == IF ok THEN AfterOk(s, f) ELSE AfterError(s, f)
           p == SavedOver(s, ok)
           fs == [form EXCEPT ![f] = x]
           sl == [slot EXCEPT ![i] = Free]
<1>1. /\ s.phase \in {"accepted", "refused"} /\ UNCHANGED hostVars
      /\ Draw(tab, p, fs, sl, IF s.panel \/ f = "location" THEN Panel(f) ELSE {}, shell.focus)
  BY DEF Answer
<1>2. /\ s \in Requests /\ f \in FormsOf[visit] /\ s # Free /\ Says(s.was) /\ s.was \in Row
      /\ s.live => s.panel
  <2>1. s \in SlotTypes /\ s # Free
    BY <1>1, PageFacts, Constants
  <2>2. SlotOK(s)
    BY PageFacts DEF SlotsOK
  <2> QED  BY <2>1, <2>2 DEF SlotTypes, SlotOK, Requests
<1>3. p \in Row /\ Says(p)
  BY <1>2, PageFacts DEF SavedOver
<1>4. /\ x \in PanelStates
      /\ f # "token" => (x.open => form[f].open)
      /\ f = "removeRule" => x = form[f]
      /\ ~s.live => x = form[f] \/ (Is(f, "inside") /\ ~x.open)
      /\ s.live /\ Is(f, "busy") => ~x.busy \/ (Is(f, "inside") /\ ~x.open)
  <2>1. x \in {AfterOk(s, f), AfterError(s, f)}
    OBVIOUS
  <2> HIDE DEF x, s, f
  <2> QED  BY <1>2, <2>1, AnsweredForm
<1> HIDE DEF x, p
<1>5. /\ fs \in [FormsOf[visit] -> PanelStates] /\ fs[f] = x
      /\ \A g \in FormsOf[visit] : g # f => fs[g] = form[g]
  BY <1>2, <1>4, PageFacts
<1>6. /\ sl \in [Slots -> SlotTypes] /\ sl[i] = Free
      /\ \A j \in Slots : j # i => sl[j] = slot[j]
  BY PageFacts DEF SlotTypes
<1> HIDE DEF fs, sl
<1>7. SlotsOK(sl)
  BY <1>6, PageFacts, Constants DEF SlotsOK, SlotOK
<1>8. OfferOK(fs)
  BY <1>4, <1>5, PageFacts DEF OfferOK
<1>9. ASSUME NEW g \in FormsOf[visit]
      PROVE  Settled(fs, sl, g)
  <2> SUFFICES ASSUME Is(g, "busy"), ~(Is(g, "inside") /\ ~fs[g].open)
               PROVE  SentFor(fs, sl, g)
    BY DEF Settled
  <2>1. SentFor(form, slot, g)
    BY PageFacts
  <2>2. CASE g # f \/ ~s.live
    <3>1. fs[g] = form[g]
      BY <1>4, <1>5, <2>2
    <3>2. Waiting(sl, g) = Waiting(slot, g)
      BY <1>6, <2>2, Constants DEF Waiting
    <3> QED  BY <2>1, <3>1, <3>2 DEF SentFor
  <2>3. CASE g = f /\ s.live
    <3>1. ~fs[g].busy
      BY <1>4, <1>5, <2>3
    <3>2. i \in Waiting(slot, g)
      BY <2>3 DEF Waiting
    <3>3. Waiting(slot, g) = {i}
      BY <2>1, <3>2 DEF SentFor
    <3>4. Waiting(sl, g) = {}
      BY <1>6, <3>3, Constants DEF Waiting
    <3> QED  BY <3>1, <3>4 DEF SentFor
  <2> QED  BY <2>2, <2>3
<1>10. \A g \in Modals \cap FormsOf[visit] : fs[g].open => form[g].open
  BY <1>4, <1>5 DEF Modals
<1> HIDE DEF s, f, ok
<1> QED  BY <1>1, <1>3, <1>5, <1>6, <1>7, <1>8, <1>9, <1>10, PageFacts, Redrawn

-----------------------------------------------------------------------------
(* What the server does with a request.                                    *)
Moved(s, ph, tl) == [s EXCEPT !.phase = ph, !.tool = tl]

LEMMA Handled ==
  ASSUME IInv, NEW i \in Slots, slot[i].phase # "free", NEW tl \in Tools \cup {"none"},
         NEW ph \in {"sent", "checked", "accepted", "refused"},
         NEW r, r = Moved(slot[i], ph, tl)
  PROVE  /\ slot[i] \in Requests /\ slot[i] # Free /\ r \in Requests
         /\ r.form = slot[i].form /\ r.draft = slot[i].draft /\ r.was = slot[i].was
         /\ r.live = slot[i].live /\ r.panel = slot[i].panel
         /\ r.phase = ph /\ r.tool = tl
<1>1. slot[i] \in Requests /\ slot[i] # Free
  BY PageFacts, Constants DEF SlotTypes
<1> QED  BY <1>1 DEF Requests, Moved

LEMMA ServerKeeps ==
  ASSUME IInv, UNCHANGED <<has, row, visit, tab, page, form, shell, disturbed>>,
         NEW i \in Slots, slot[i].phase # "free", NEW r, slot' = [slot EXCEPT ![i] = r],
         r \in Requests, r.form = slot[i].form, r.draft = slot[i].draft, r.was = slot[i].was,
         r.live = slot[i].live, r.panel = slot[i].panel,
         r.phase = "checked" =>
           r.form \in Followed /\ (r.form \in Rules => r.tool = has)
  PROVE  /\ Slots' = Slots /\ slot' \in [Slots -> SlotTypes]
         /\ slot'[i] = r /\ \A j \in Slots : j # i => slot'[j] = slot[j]
         /\ ToolInv' /\ SlotInv' /\ OfferOK(form)' /\ SentInv' /\ ShellInv' /\ Returned
<1>1. TypeOK /\ ToolInv /\ SlotInv /\ OfferOK(form) /\ SentInv /\ ShellInv
  BY DEF IInv
<1>2. /\ Slots' = Slots /\ slot' \in [Slots -> SlotTypes]
      /\ slot'[i] = r /\ \A j \in Slots : j # i => slot'[j] = slot[j]
  BY PageFacts DEF SlotTypes, Slots
<1>3. ToolInv' /\ OfferOK(form)'
  BY <1>1 DEF ToolInv, Says, OfferOK, DraftOK
<1>4. \A s : SlotOK(s)' <=> SlotOK(s)
  BY DEF SlotOK, DraftOK, Says
<1>5. slot[i] # Free
  BY Constants
<1>6. SlotOK(r)
  BY <1>1, <1>5 DEF SlotInv, SlotOK
<1>7. SlotInv'
  <2>1. \A j \in Slots : SlotOK(slot'[j])
    BY <1>1, <1>2, <1>6 DEF SlotInv
  <2>2. \A j \in Slots : SlotOK(slot[j])'
    BY <2>1 DEF SlotOK, DraftOK, Says
  <2> QED  BY <1>2, <2>2 DEF SlotInv
<1>8. \A f : Waiting(slot, f)' = Waiting(slot, f)
  BY <1>2 DEF Waiting
<1>9. SentInv'
  <2> SUFFICES ASSUME NEW f \in FormsOf[visit], Is(f, "busy")
               PROVE  SentFor(form, slot, f)'
    BY DEF SentInv
  <2>1. SentFor(form, slot, f)
    BY <1>1 DEF SentInv
  <2> QED  BY <1>2, <1>8, <2>1 DEF SentFor
<1>10. ModalsOf(tab, page, form)' = ModalsOf(tab, page, form)
  OBVIOUS
<1>11. ShellInv' /\ Returned
  BY <1>1, <1>10 DEF ShellInv, ShellOK, Returned
<1> QED  BY <1>2, <1>3, <1>7, <1>9, <1>11

(* The row, the host and the agent are as they were.                       *)
LEMMA AnswerOfServer ==
  ASSUME IInv, UNCHANGED hostVars, Server, NEW i \in Slots, slot[i].phase # "free",
         NEW tl \in Tools \cup {"none"}, NEW ph \in {"accepted", "refused"},
         slot' = [slot EXCEPT ![i] = Moved(slot[i], ph, tl)], overlap' = overlap
  PROVE  IInv' /\ Returned
<1> DEFINE r == Moved(slot[i], ph, tl)
<1>1. /\ r \in Requests /\ slot[i] # Free
      /\ r.form = slot[i].form /\ r.draft = slot[i].draft /\ r.was = slot[i].was
      /\ r.live = slot[i].live /\ r.panel = slot[i].panel /\ r.phase = ph
  BY Handled
<1>2. slot' = [slot EXCEPT ![i] = r]
  OBVIOUS
<1> HIDE DEF r
<1>3. UNCHANGED <<has, row, visit, tab, page, form, shell, disturbed>>
  BY DEF Server, hostVars
<1>4. /\ Slots' = Slots /\ slot' \in [Slots -> SlotTypes]
      /\ slot'[i] = r /\ \A j \in Slots : j # i => slot'[j] = slot[j]
      /\ ToolInv' /\ SlotInv' /\ OfferOK(form)' /\ SentInv' /\ ShellInv' /\ Returned
  BY <1>1, <1>2, <1>3, ServerKeeps
<1>5. /\ HostTypeOK' /\ ActionInv'
      /\ Open' = Open /\ \A a \in Open : KeyOf(a)' = KeyOf(a)
  BY <1>3, PageFacts, HostSame
<1>6. TypeOK /\ TwinInv
  BY DEF IInv
<1>7. TypeOK'
  BY <1>3, <1>4, <1>5, <1>6 DEF TypeOK, SlotTypes
<1>8. TwinInv'
  <2>1. ASSUME NEW j \in Slots, slot'[j].phase = "checked"
        PROVE  slot[j].phase = "checked" /\ KeyIn(j)' = KeyIn(j)
    BY <1>1, <1>4, <2>1 DEF KeyIn
  <2> QED  BY <1>4, <1>5, <1>6, <2>1 DEF TwinInv
<1> QED  BY <1>4, <1>5, <1>7, <1>8 DEF IInv

(* The phase of a request alone.                                           *)
LEMMA PhaseOnly ==
  ASSUME IInv, NEW i \in Slots, slot[i].phase # "free", NEW ph, AtServer(i, ph)
  PROVE  /\ slot[i].tool \in Tools \cup {"none"}
         /\ slot' = [slot EXCEPT ![i] = Moved(slot[i], ph, slot[i].tool)]
<1>1. slot[i] \in Requests
  BY PageFacts, Constants DEF SlotTypes
<1>2. Moved(slot[i], ph, slot[i].tool) = [slot[i] EXCEPT !.phase = ph]
  BY <1>1 DEF Requests, Moved
<1>3. slot' = [slot EXCEPT ![i] = [slot[i] EXCEPT !.phase = ph]]
  BY DEF AtServer
<1> QED  BY <1>1, <1>2, <1>3 DEF Requests

LEMMA DecideKeeps ==
  ASSUME IInv, NEW i \in Slots, Decide(i) \/ Lose(i)
  PROVE  IInv' /\ Returned
<1>1. PICK ph \in {"accepted", "refused"} : AtServer(i, ph)
  BY DEF Decide, Lose
<1>2. /\ slot[i].phase # "free"
      /\ UNCHANGED hostVars /\ overlap' = overlap /\ Server
  BY DEF Decide, Lose
<1>3. /\ slot[i].tool \in Tools \cup {"none"}
      /\ slot' = [slot EXCEPT ![i] = Moved(slot[i], ph, slot[i].tool)]
  BY <1>1, <1>2, PhaseOnly
<1> QED  BY <1>2, <1>3, AnswerOfServer

LEMMA CheckKeeps ==
  ASSUME IInv, NEW i \in Slots, Check(i)
  PROVE  IInv' /\ Returned
<1> DEFINE s == slot[i]
           key == Key(s.form, row.tool, s.draft.id)
           ok == Supported(s.form) /\ ~Exists(key)
           ph == IF ok THEN "checked" ELSE "refused"
           r == Moved(slot[i], ph, row.tool)
<1>1. /\ s.phase = "sent" /\ s.form \in Followed
      /\ slot' = [slot EXCEPT ![i].phase = ph, ![i].tool = row.tool]
      /\ overlap' = (overlap \/ (ok /\ \E j \in Slots : slot[j].phase = "checked"
                                                       /\ KeyIn(j) = key))
      /\ UNCHANGED hostVars /\ Server
  BY DEF Check
<1>2. row.tool \in Tools \cup {"none"} /\ Says(row) /\ slot \in [Slots -> SlotTypes]
  BY PageFacts DEF Row
<1>3. slot' = [slot EXCEPT ![i] = r]
  <2> HIDE DEF ph
  <2> QED  BY <1>1, <1>2 DEF Moved
<1>4. /\ r \in Requests /\ slot[i] # Free
      /\ r.form = slot[i].form /\ r.draft = slot[i].draft /\ r.was = slot[i].was
      /\ r.live = slot[i].live /\ r.panel = slot[i].panel /\ r.phase = ph /\ r.tool = row.tool
  <2> HIDE DEF ok
  <2>1. ph \in {"sent", "checked", "accepted", "refused"}
    OBVIOUS
  <2> HIDE DEF ph
  <2> QED  BY <1>1, <1>2, <2>1, Handled
<1>5. /\ r.form \in Followed
      /\ r.phase = "checked" /\ r.form \in Rules => r.tool = has
  BY <1>1, <1>2, <1>4 DEF Supported, Rules, Says
<1> HIDE DEF r
<1>6. UNCHANGED <<has, row, visit, tab, page, form, shell, disturbed>>
  BY <1>1 DEF Server, hostVars
<1>7. /\ Slots' = Slots /\ slot' \in [Slots -> SlotTypes]
      /\ slot'[i] = r /\ \A j \in Slots : j # i => slot'[j] = slot[j]
      /\ ToolInv' /\ SlotInv' /\ OfferOK(form)' /\ SentInv' /\ ShellInv' /\ Returned
  <2>1. slot[i].phase # "free"
    BY <1>1
  <2> QED  BY <1>3, <1>4, <1>5, <1>6, <2>1, ServerKeeps
<1>8. /\ HostTypeOK' /\ ActionInv'
      /\ Open' = Open /\ \A a \in Open : KeyOf(a)' = KeyOf(a)
  BY <1>1, <1>6, PageFacts, HostSame
<1>9. TypeOK /\ TwinInv /\ overlap' \in BOOLEAN
  BY <1>1, PageFacts DEF IInv
<1>10. TypeOK'
  BY <1>6, <1>7, <1>8, <1>9 DEF TypeOK, SlotTypes
<1>11. TwinInv'
  <2> SUFFICES ASSUME ~overlap'
               PROVE  /\ \A a, b \in Open' : KeyOf(a)' = KeyOf(b)' => a = b
                      /\ \A j, k \in Slots : slot'[j].phase = "checked"
                           /\ slot'[k].phase = "checked" /\ KeyIn(j)' = KeyIn(k)' => j = k
                      /\ \A j \in Slots, a \in Open' : slot'[j].phase = "checked" =>
                           KeyIn(j)' # KeyOf(a)'
    BY <1>7 DEF TwinInv
  <2>1. /\ \A a, b \in Open : KeyOf(a) = KeyOf(b) => a = b
        /\ \A j, k \in Slots : slot[j].phase = "checked"
             /\ slot[k].phase = "checked" /\ KeyIn(j) = KeyIn(k) => j = k
        /\ \A j \in Slots, a \in Open : slot[j].phase = "checked" => KeyIn(j) # KeyOf(a)
    BY <1>1, <1>9 DEF TwinInv
  <2>2. \A j \in Slots : j # i => KeyIn(j)' = KeyIn(j) /\ slot'[j] = slot[j]
    BY <1>7 DEF KeyIn
  <2>3. ASSUME slot'[i].phase = "checked"
        PROVE  /\ KeyIn(i)' = key
               /\ \A a \in Open : KeyOf(a) # key
               /\ \A j \in Slots : slot[j].phase = "checked" => KeyIn(j) # key
    <3>1. ok
      BY <1>4, <1>7, <2>3
    <3>2. KeyIn(i)' = key
      BY <1>4, <1>7 DEF KeyIn
    <3>3. \A a \in Open : KeyOf(a) # key
      BY <3>1 DEF Exists
    <3>4. ~(ok /\ \E j \in Slots : slot[j].phase = "checked" /\ KeyIn(j) = key)
      BY <1>1
    <3> QED  BY <3>1, <3>2, <3>3, <3>4
  <2> HIDE DEF key
  <2> QED  BY <1>8, <2>1, <2>2, <2>3
<1> QED  BY <1>7, <1>8, <1>10, <1>11 DEF IInv

LEMMA InsertRowKeeps ==
  ASSUME IInv, NEW i \in Slots, InsertRow(i)
  PROVE  IInv' /\ Returned
<1> DEFINE s == slot[i]
           c == [kind |-> s.form, tool |-> s.tool, draft |-> s.draft, status |-> "pending"]
           r == Moved(slot[i], "accepted", slot[i].tool)
<1>1. /\ s.phase = "checked" /\ AtServer(i, "accepted") /\ FreeIds # {}
      /\ action' = [action EXCEPT ![CHOOSE a \in FreeIds : TRUE] = c]
      /\ UNCHANGED <<host, agent, row, overlap>> /\ Server
  BY DEF InsertRow, Insert
<1>2. /\ TypeOK /\ ToolInv /\ SlotInv /\ ActionInv /\ TwinInv /\ OfferOK(form)
      /\ HostTypeOK
  BY DEF IInv, TypeOK
<1>3. PICK n \in Ids : action[n] = NoAction /\ action' = [action EXCEPT ![n] = c]
  <2>1. (CHOOSE a \in FreeIds : TRUE) \in FreeIds
    BY <1>1
  <2> QED  BY <1>1, <2>1 DEF FreeIds
<1>4. /\ slot' = [slot EXCEPT ![i] = r] /\ r \in Requests /\ s \in Requests /\ s # Free
      /\ r.form = slot[i].form /\ r.draft = slot[i].draft /\ r.was = slot[i].was
      /\ r.live = slot[i].live /\ r.panel = slot[i].panel /\ r.phase = "accepted"
  <2>1. slot[i].tool \in Tools \cup {"none"} /\ slot' = [slot EXCEPT ![i] = r]
    BY <1>1, PhaseOnly
  <2> QED  BY <1>1, <2>1, Handled
<1> HIDE DEF r
<1>5. /\ UNCHANGED <<has, row, visit, tab, page, form, shell, disturbed>>
      /\ UNCHANGED <<tool, lists, edits, todo, results>>
  BY <1>1 DEF Server, host, agent
<1>6. /\ Slots' = Slots /\ slot' \in [Slots -> SlotTypes]
      /\ slot'[i] = r /\ \A j \in Slots : j # i => slot'[j] = slot[j]
      /\ ToolInv' /\ SlotInv' /\ OfferOK(form)' /\ SentInv' /\ ShellInv' /\ Returned
  <2>1. slot[i].phase # "free"
    BY <1>1
  <2> QED  BY <1>4, <1>5, <2>1, ServerKeeps
<1>7. /\ s.form \in FormsOf[visit] \cap Followed /\ DraftOK(s.form, s.draft)
      /\ s.form \in Rules => s.tool = has
  BY <1>1, <1>2, <1>4 DEF SlotInv, SlotOK
<1>8. c \in Action /\ c # NoAction /\ ActionOK(c) /\ c.status = "pending"
  <2>1. s.form \in Kinds
    BY <1>7, PageFacts, FormTraits, FollowedAssumption
  <2>2. c \in Action
    BY <1>4, <2>1 DEF Action, Requests, Unfinished
  <2>3. c # NoAction
    BY DEF NoAction
  <2> QED  BY <1>7, <2>2, <2>3 DEF ActionOK
<1>9. /\ action' \in [Ids -> Action \cup {NoAction}] /\ action'[n] = c
      /\ \A a \in Ids : a # n => action'[a] = action[a]
  BY <1>2, <1>3, <1>8 DEF HostTypeOK
<1>10. TypeOK'
  BY <1>1, <1>2, <1>5, <1>6, <1>9 DEF TypeOK, HostTypeOK, SlotTypes
<1>11. ActionInv'
  <2>1. \A x : ActionOK(x)' <=> ActionOK(x)
    BY <1>5 DEF ActionOK, DraftOK
  <2>2. \A a \in Ids : ActionOK(action'[a])
    BY <1>2, <1>8, <1>9 DEF ActionInv
  <2>3. \A a \in Ids : ActionOK(action[a])'
    BY <1>5, <2>2 DEF ActionOK, DraftOK
  <2>4. \A a \in todo \cup results : action'[a] # NoAction
    BY <1>2, <1>3, <1>8, <1>9 DEF ActionInv, HostTypeOK
  <2> QED  BY <1>5, <2>3, <2>4 DEF ActionInv
<1>13. /\ Open' = Open \cup {n} /\ n \notin Open
       /\ \A a \in Open : KeyOf(a)' = KeyOf(a)
       /\ KeyOf(n)' = KeyIn(i)
  <2>1. n \notin Open
    BY <1>3 DEF Open, NoAction, Unfinished
  <2>2. Open' = Open \cup {n}
    BY <1>3, <1>8, <1>9 DEF Open, Unfinished
  <2>3. \A a \in Open : KeyOf(a)' = KeyOf(a)
    BY <1>9, <2>1 DEF KeyOf, Open
  <2>4. KeyOf(n)' = KeyIn(i)
    <3>1. /\ action'[n].kind = s.form /\ action'[n].tool = s.tool
          /\ action'[n].draft.id = s.draft.id
      BY <1>9
    <3> QED  BY <3>1 DEF KeyOf, KeyIn
  <2> QED  BY <2>1, <2>2, <2>3, <2>4
<1>14. TwinInv'
  <2> SUFFICES ASSUME ~overlap'
               PROVE  /\ \A a, b \in Open' : KeyOf(a)' = KeyOf(b)' => a = b
                      /\ \A j, k \in Slots : slot'[j].phase = "checked"
                           /\ slot'[k].phase = "checked" /\ KeyIn(j)' = KeyIn(k)' => j = k
                      /\ \A j \in Slots, a \in Open' : slot'[j].phase = "checked" =>
                           KeyIn(j)' # KeyOf(a)'
    BY <1>6 DEF TwinInv
  <2>1. /\ \A a, b \in Open : KeyOf(a) = KeyOf(b) => a = b
        /\ \A j, k \in Slots : slot[j].phase = "checked"
             /\ slot[k].phase = "checked" /\ KeyIn(j) = KeyIn(k) => j = k
        /\ \A j \in Slots, a \in Open : slot[j].phase = "checked" => KeyIn(j) # KeyOf(a)
    BY <1>1, <1>2 DEF TwinInv
  <2>2. \A j \in Slots : slot'[j].phase = "checked" =>
          j # i /\ slot[j].phase = "checked" /\ KeyIn(j)' = KeyIn(j)
    BY <1>4, <1>6 DEF KeyIn
  <2>3. \A j \in Slots : slot'[j].phase = "checked" => KeyIn(j) # KeyIn(i)
    BY <1>1, <2>1, <2>2
  <2>4. \A a \in Open : KeyOf(a) # KeyIn(i)
    BY <1>1, <2>1
  <2>5. \A a, b \in Open' : KeyOf(a)' = KeyOf(b)' => a = b
    BY <1>13, <2>1, <2>4
  <2>6. \A j, k \in Slots : slot'[j].phase = "checked"
          /\ slot'[k].phase = "checked" /\ KeyIn(j)' = KeyIn(k)' => j = k
    BY <2>1, <2>2
  <2>7. \A j \in Slots, a \in Open' : slot'[j].phase = "checked" => KeyIn(j)' # KeyOf(a)'
    BY <1>13, <2>1, <2>2, <2>3
  <2> QED  BY <2>5, <2>6, <2>7
<1> QED  BY <1>6, <1>10, <1>11, <1>14 DEF IInv

-----------------------------------------------------------------------------
(* What happens on the host.                                               *)
LEMMA PageSame ==
  ASSUME IInv, UNCHANGED <<has, pageVars>>, Says(row)'
  PROVE  /\ Slots' = Slots /\ \A i \in Slots : KeyIn(i)' = KeyIn(i)
         /\ \A x : ActionOK(x)' <=> ActionOK(x)
         /\ HostTypeOK' => TypeOK'
         /\ ToolInv' /\ SlotInv' /\ OfferOK(form)' /\ SentInv' /\ ShellInv' /\ Returned
<1>1. TypeOK /\ ToolInv /\ SlotInv /\ OfferOK(form) /\ SentInv /\ ShellInv
  BY DEF IInv
<1>2. UNCHANGED <<has, visit, tab, page, form, slot, shell, disturbed, overlap>>
        /\ Slots' = Slots
  BY DEF pageVars, Slots
<1>3. ToolInv' /\ OfferOK(form)'
  BY <1>1, <1>2 DEF ToolInv, Says, OfferOK, DraftOK
<1>4. SlotInv'
  BY <1>1, <1>2 DEF SlotInv, SlotOK, DraftOK, Says
<1>5. \A f : Waiting(slot, f)' = Waiting(slot, f)
  BY <1>2 DEF Waiting
<1>6. SentInv'
  <2> SUFFICES ASSUME NEW f \in FormsOf[visit], Is(f, "busy")
               PROVE  SentFor(form, slot, f)'
    BY <1>2 DEF SentInv
  <2>1. SentFor(form, slot, f)
    BY <1>1 DEF SentInv
  <2> QED  BY <1>2, <1>5, <2>1 DEF SentFor
<1>7. ModalsOf(tab, page, form)' = ModalsOf(tab, page, form)
  BY <1>2
<1>8. ShellInv' /\ Returned
  BY <1>1, <1>2, <1>7 DEF ShellInv, ShellOK, Returned
<1>9. /\ \A i \in Slots : KeyIn(i)' = KeyIn(i)
      /\ \A x : ActionOK(x)' <=> ActionOK(x)
  BY <1>2 DEF KeyIn, ActionOK, DraftOK
<1>10. HostTypeOK' => TypeOK'
  BY <1>1, <1>2 DEF TypeOK
<1> QED  BY <1>2, <1>3, <1>4, <1>6, <1>8, <1>9, <1>10

LEMMA HostFacts ==
  ASSUME IInv
  PROVE  /\ HostTypeOK /\ lists \in Lists /\ tool \in {has, "none"} /\ has \in Tools
         /\ ActionInv /\ TwinInv /\ has \in ToolsOf[visit] /\ Says(row)
BY DEF IInv, TypeOK, HostTypeOK, Lists, ToolInv

(* The table is as it was.                                                 *)
LEMMA TableSame ==
  ASSUME IInv, UNCHANGED <<has, pageVars, todo, results, action, row>>, HostTypeOK'
  PROVE  IInv' /\ Returned
<1>1. Says(row)'
  BY HostFacts DEF Says
<1>2. /\ Slots' = Slots /\ \A i \in Slots : KeyIn(i)' = KeyIn(i)
      /\ \A x : ActionOK(x)' <=> ActionOK(x)
      /\ TypeOK'
      /\ ToolInv' /\ SlotInv' /\ OfferOK(form)' /\ SentInv' /\ ShellInv' /\ Returned
  BY <1>1, PageSame
<1>3. ActionInv'
  <2>1. \A a \in Ids : ActionOK(action[a])'
    BY HostFacts DEF ActionInv, ActionOK, DraftOK, pageVars
  <2> QED  BY <2>1, HostFacts DEF ActionInv
<1>4. Open' = Open /\ \A a \in Open : KeyOf(a)' = KeyOf(a)
  BY DEF Open, KeyOf
<1>5. TwinInv'
  BY <1>2, <1>4, HostFacts DEF TwinInv, pageVars
<1> QED  BY <1>2, <1>3, <1>5 DEF IInv

LEMMA SomeoneEditsKeeps ==
  ASSUME IInv, NEW r \in Items, SomeoneEdits(r), UNCHANGED pageVars
  PROVE  IInv' /\ Returned
<1>1. /\ edits < MaxEdits /\ edits' = edits + 1
      /\ UNCHANGED <<has, tool, todo, results, action, row>>
  BY DEF SomeoneEdits, Elsewhere, agent
<1>2. lists' \in Lists
  <2>1. CASE tool = "ufw"
    <3>1. PICK s \in Toggled(lists.ufw, r) : lists' = [lists EXCEPT !.ufw = s]
      BY <2>1 DEF SomeoneEdits
    <3>2. lists.ufw \in Seq(Items)
      BY HostFacts DEF Lists
    <3>3. s \in Seq(Items)
      <4>1. CASE Contains(lists.ufw, r)
        <5>1. PICK n \in DOMAIN lists.ufw : s = RemoveAt(lists.ufw, n)
          BY <3>1, <4>1 DEF Toggled
        <5> QED  BY <3>2, <5>1, RemovedAt
      <4>2. CASE ~Contains(lists.ufw, r)
        BY <3>1, <3>2, <4>2, Appended DEF Toggled
      <4> QED  BY <4>1, <4>2
    <3> QED  BY <3>1, <3>3, HostFacts DEF Lists
  <2>2. CASE tool = "firewalld"
    <3>1. lists' \in EditsByHand(lists, r)
      BY <2>2 DEF SomeoneEdits
    <3>2. /\ Touched(lists.permanent, r) \subseteq SUBSET Items
          /\ Touched(lists.live, r) \subseteq SUBSET Items
      BY HostFacts DEF Touched, Lists
    <3> QED  BY <3>1, <3>2, HostFacts DEF EditsByHand, Lists
  <2>3. CASE tool = "fail2ban"
    <3>1. PICK v \in Touched(lists.live, r) : lists' = [lists EXCEPT !.live = v]
      BY <2>3 DEF SomeoneEdits
    <3> QED  BY <3>1, HostFacts DEF Touched, Lists
  <2>4. tool \in {"ufw", "firewalld", "fail2ban"}
    BY DEF SomeoneEdits
  <2> QED  BY <2>1, <2>2, <2>3, <2>4
<1>4. edits' \in 0..MaxEdits
  BY <1>1, HostFacts, HostAssumption DEF HostTypeOK
<1>5. HostTypeOK'
  BY <1>1, <1>2, <1>4, HostFacts DEF HostTypeOK, Lists
<1> QED  BY <1>1, <1>5, TableSame

LEMMA SomeoneSwitchesKeeps ==
  ASSUME IInv, SomeoneSwitches, UNCHANGED pageVars
  PROVE  IInv' /\ Returned
<1>1. /\ edits < MaxEdits /\ edits' = edits + 1 /\ tool' \in {has, "none"}
      /\ UNCHANGED <<has, todo, results, action, row>>
  BY DEF SomeoneSwitches, Elsewhere, agent
<1>2. lists' \in Lists
  BY HostFacts DEF SomeoneSwitches, Lists
<1>3. edits' \in 0..MaxEdits
  BY <1>1, HostFacts, HostAssumption DEF HostTypeOK
<1>4. HostTypeOK'
  BY <1>1, <1>2, <1>3, HostFacts DEF HostTypeOK, Lists
<1> QED  BY <1>1, <1>4, TableSame

(* The snapshot the agent takes.                                           *)
LEMMA StoredType ==
  ASSUME IInv, NEW filled \in BOOLEAN
  PROVE  Stored(filled) \in Row /\ Says(Stored(filled))
<1>1. lists \in Lists /\ tool \in Tools \cup {"none"} /\ tool \in {has, "none"}
  BY HostFacts
<1>2. Raw \subseteq Lines
  <2>1. NumberedRules(lists.ufw) \subseteq Lines
    BY <1>1 DEF NumberedRules, Lines, Lists, Positions
  <2>2. { [at |-> 0, item |-> r] : r \in lists.live } \subseteq Lines
    BY <1>1 DEF Lines, Lists
  <2> QED  BY <2>1, <2>2 DEF Raw
<1>3. row \in Row
  BY HostFacts DEF HostTypeOK
<1> QED  BY <1>1, <1>2, <1>3 DEF Stored, Row, Says

(* A heartbeat finishes actions and sends others; it opens none again.     *)
LEMMA HeartbeatTable ==
  ASSUME IInv, NEW filled \in BOOLEAN, Heartbeat(filled)
  PROVE  /\ action' \in [Ids -> Action \cup {NoAction}]
         /\ Open' \subseteq Open
         /\ \A a \in Ids : /\ action'[a] = NoAction <=> action[a] = NoAction
                           /\ action'[a].kind = action[a].kind
                           /\ action[a] # NoAction =>
                                /\ action'[a].tool = action[a].tool
                                /\ action'[a].draft = action[a].draft
         /\ \A a \in todo' : a \in Ids /\ action[a] # NoAction
<1> DEFINE st(a) == IF a \in todo' THEN "sent" ELSE Reported(a)
<1>1. /\ action' = [a \in Ids |-> [action[a] EXCEPT !.status = st(a)]]
      /\ todo' = { a \in Ids : Reported(a) = "pending" }
  BY DEF Heartbeat
<1>2. /\ action \in [Ids -> Action \cup {NoAction}]
      /\ \A a \in results : action[a] # NoAction
  BY HostFacts DEF HostTypeOK, ActionInv
<1>3. NoAction \notin Action /\ NoAction.status = "none" /\ NoAction.kind = "none"
  BY DEF NoAction, Action, Unfinished
<1>4. ASSUME NEW a \in Ids, action[a] = NoAction
      PROVE  a \notin todo' /\ action'[a] = NoAction
  <2>1. Reported(a) = "none" /\ a \notin todo'
    BY <1>1, <1>2, <1>3, <1>4 DEF Reported
  <2>2. action'[a] = [NoAction EXCEPT !.status = "none"]
    BY <1>1, <1>4, <2>1
  <2>3. NoAction \in [kind : {"none"}, status : {"none"}]
    BY DEF NoAction
  <2>4. \A x \in [kind : {"none"}, status : {"none"}] : [x EXCEPT !.status = "none"] = x
    OBVIOUS
  <2> QED  BY <2>1, <2>2, <2>3, <2>4
<1>5. ASSUME NEW a \in Ids, action[a] # NoAction
      PROVE  /\ action'[a] \in Action
             /\ action'[a].kind = action[a].kind /\ action'[a].tool = action[a].tool
             /\ action'[a].draft = action[a].draft
             /\ action'[a].status \in Unfinished => action[a].status \in Unfinished
  <2>1. action[a] \in Action
    BY <1>2, <1>5
  <2>2. /\ st(a) \in Unfinished \cup {"finished"}
        /\ st(a) \in Unfinished => action[a].status \in Unfinished
    BY <1>1, <2>1 DEF Reported, Action, Unfinished
  <2>3. action'[a] = [action[a] EXCEPT !.status = st(a)]
    BY <1>1
  <2> HIDE DEF st
  <2> QED  BY <2>1, <2>2, <2>3 DEF Action
<1>6. action' \in [Ids -> Action \cup {NoAction}]
  <2>1. \A a \in Ids : action'[a] \in Action \cup {NoAction}
    BY <1>4, <1>5
  <2> HIDE DEF st
  <2> QED  BY <1>1, <2>1
<1> HIDE DEF st
<1>7. Open' \subseteq Open
  BY <1>3, <1>4, <1>5 DEF Open, Unfinished
<1> QED  BY <1>1, <1>3, <1>4, <1>5, <1>6, <1>7

LEMMA HeartbeatKeeps ==
  ASSUME IInv, NEW filled \in BOOLEAN, Heartbeat(filled), UNCHANGED pageVars
  PROVE  IInv' /\ Returned
<1>1. /\ UNCHANGED <<has, tool, lists, edits>> /\ results' = {}
      /\ row' = Stored(filled)
  BY DEF Heartbeat, host
<1>2. row' \in Row /\ Says(row)'
  BY <1>1, StoredType DEF Says
<1>3. /\ action' \in [Ids -> Action \cup {NoAction}]
      /\ Open' \subseteq Open
      /\ \A a \in todo' : a \in Ids /\ action[a] # NoAction
  BY HeartbeatTable
<1>4. ASSUME NEW a \in Ids
      PROVE  /\ action'[a] = NoAction <=> action[a] = NoAction
             /\ action'[a].kind = action[a].kind
             /\ action[a] # NoAction => /\ action'[a].tool = action[a].tool
                                        /\ action'[a].draft = action[a].draft
  BY HeartbeatTable
<1>5. HostTypeOK'
  BY <1>1, <1>2, <1>3, HostFacts DEF HostTypeOK
<1>6. /\ Slots' = Slots /\ \A i \in Slots : KeyIn(i)' = KeyIn(i)
      /\ \A x : ActionOK(x)' <=> ActionOK(x)
      /\ TypeOK'
      /\ ToolInv' /\ SlotInv' /\ OfferOK(form)' /\ SentInv' /\ ShellInv' /\ Returned
  BY <1>1, <1>2, <1>5, PageSame
<1>7. ActionInv'
  <2>1. ASSUME NEW a \in Ids PROVE ActionOK(action[a])'
    <3>1. ActionOK(action[a])
      BY HostFacts DEF ActionInv
    <3> QED  BY <1>1, <1>4, <3>1 DEF ActionOK, DraftOK, pageVars
  <2>2. \A a \in todo' \cup results' : action'[a] # NoAction
    BY <1>1, <1>3, <1>4
  <2> QED  BY <2>1, <2>2 DEF ActionInv
<1>9. \A a \in Open : KeyOf(a)' = KeyOf(a)
  <2>1. \A a \in Open : a \in Ids /\ action[a] # NoAction
    BY DEF Open, NoAction, Unfinished
  <2> QED  BY <1>4, <2>1 DEF KeyOf
<1>10. TwinInv'
  BY <1>3, <1>6, <1>9, HostFacts DEF TwinInv, pageVars
<1> QED  BY <1>6, <1>7, <1>10 DEF IInv

(* An action the agent has, and what it does to the lists.                 *)
LEMMA ExecuteFacts ==
  ASSUME IInv, NEW a \in Ids, Execute(a)
  PROVE  /\ action[a] \in Action /\ action[a].kind \in FormsOf[visit]
         /\ DraftOK(action[a].kind, action[a].draft)
         /\ action[a].kind \in {"addRule", "ban"} => action[a].draft.id \in Items
         /\ action[a].kind \in Rules => action[a].tool = has /\ has \in Firewalls
         /\ action[a].kind \in {"ban", "unban"} => has = "fail2ban"
         /\ lists \in Lists /\ lists' \in Outcomes(action[a], lists)
<1>1. action[a] # NoAction /\ lists' \in Outcomes(action[a], lists)
  BY HostFacts DEF Execute, ActionInv
<1>2. action[a] \in Action /\ ActionOK(action[a]) /\ lists \in Lists /\ has \in ToolsOf[visit]
  BY <1>1, HostFacts DEF HostTypeOK, ActionInv
<1>3. visit \in DOMAIN FormsOf
  BY PageFacts
<1> QED  BY <1>1, <1>2, <1>3, VisitTraits DEF ActionOK, DraftOK

LEMMA ExecuteKeeps ==
  ASSUME IInv, NEW a \in Ids, Execute(a), UNCHANGED pageVars
  PROVE  IInv' /\ Returned
<1> DEFINE c == action[a]
<1>1. /\ UNCHANGED <<has, tool, edits, action, row>>
      /\ a \in todo /\ results' = results \cup {a} /\ todo' = todo \ {a}
  BY DEF Execute
<1>2. /\ c \in Action /\ c.kind \in FormsOf[visit] /\ DraftOK(c.kind, c.draft)
      /\ c.kind \in {"addRule", "ban"} => c.draft.id \in Items
      /\ c.kind \in {"ban", "unban"} => has = "fail2ban"
      /\ lists \in Lists /\ lists' \in Outcomes(c, lists)
  BY ExecuteFacts
<1>3. lists' \in Lists
  <2>1. Leaves(c, lists, lists')
    BY <1>2, OutcomeFacts
  <2> QED  BY <2>1 DEF Leaves
<1>4. HostTypeOK'
  BY <1>1, <1>3, HostFacts DEF HostTypeOK, Lists
<1>5. Says(row)'
  BY <1>1, HostFacts DEF Says
<1>6. /\ Slots' = Slots /\ \A i \in Slots : KeyIn(i)' = KeyIn(i)
      /\ \A x : ActionOK(x)' <=> ActionOK(x)
      /\ TypeOK'
      /\ ToolInv' /\ SlotInv' /\ OfferOK(form)' /\ SentInv' /\ ShellInv' /\ Returned
  BY <1>1, <1>4, <1>5, PageSame
<1>7. ActionInv'
  <2>1. \A b \in Ids : ActionOK(action[b])'
    BY <1>1, HostFacts DEF ActionInv, ActionOK, DraftOK, pageVars
  <2>2. \A b \in todo' \cup results' : action'[b] # NoAction
    BY <1>1, HostFacts DEF ActionInv
  <2> QED  BY <2>1, <2>2 DEF ActionInv
<1>9. Open' = Open /\ \A b \in Open : KeyOf(b)' = KeyOf(b)
  BY <1>1 DEF Open, KeyOf
<1>10. TwinInv'
  BY <1>6, <1>9, HostFacts DEF TwinInv, pageVars
<1> QED  BY <1>6, <1>7, <1>10 DEF IInv

(* What goes was confirmed, but for the ways the property names.           *)
LEMMA ExecuteConfirmed ==
  ASSUME IInv, NEW a \in Ids, Execute(a), NEW r \in Present(lists) \ Present(lists')
  PROVE  \/ a \in Removals /\ action[a].draft.meant = r
         \/ has = "ufw" /\ NumberedRules(lists.ufw) # action[a].draft.raw
         \/ has = "firewalld" /\ r \notin lists.permanent
<1> DEFINE c == action[a]
<1>1. /\ c \in Action /\ DraftOK(c.kind, c.draft)
      /\ c.kind \in {"addRule", "ban"} => c.draft.id \in Items
      /\ c.kind \in Rules => c.tool = has /\ has \in Firewalls
      /\ c.kind \in {"ban", "unban"} => has = "fail2ban"
      /\ lists \in Lists /\ Leaves(c, lists, lists') /\ has' = has
  BY ExecuteFacts, OutcomeFacts DEF Execute
<1>2. CASE has = "ufw"
  <2>1. r \in Range(lists.ufw) \ Range(lists'.ufw)
    BY <1>1, <1>2 DEF Present
  <2>2. /\ c.kind = "removeRule" /\ c.draft.id \in DOMAIN lists.ufw
        /\ r = lists.ufw[c.draft.id]
    BY <1>1, <2>1 DEF Leaves
  <2>3. [at |-> c.draft.id, item |-> c.draft.meant] \in c.draft.raw
    BY <1>1, <1>2, <2>2 DEF DraftOK
  <2>4. ASSUME NumberedRules(lists.ufw) = c.draft.raw
        PROVE  c.draft.meant = r
    <3>1. PICK n \in DOMAIN lists.ufw :
            [at |-> c.draft.id, item |-> c.draft.meant] = [at |-> n, item |-> lists.ufw[n]]
      BY <2>3, <2>4 DEF NumberedRules
    <3> QED  BY <2>2, <3>1
  <2>5. a \in Removals
    BY <2>2 DEF Removals
  <2> QED  BY <1>2, <2>4, <2>5
<1>3. CASE has # "ufw"
  <2>1. r \in lists.live \ lists'.live
    BY <1>1, <1>3 DEF Present
  <2>2. CASE c.kind \in Rules
    <3>1. has = "firewalld"
      BY <1>1, <1>3, <2>2 DEF Firewalls
    <3>2. CASE r \notin lists.permanent
      BY <3>1, <3>2
    <3>3. CASE r \in lists.permanent
      <4>1. \/ lists'.live = lists.live /\ lists'.permanent = lists.permanent
            \/ /\ lists'.live \in {lists.live, lists'.permanent}
               /\ lists'.permanent = IF c.kind = "addRule" THEN lists.permanent \cup {c.draft.id}
                                                           ELSE lists.permanent \ {c.draft.id}
        BY <1>1, <2>2 DEF Leaves
      <4>2. c.kind # "addRule" /\ r = c.draft.id
        BY <2>1, <3>3, <4>1
      <4>3. c.kind = "removeRule" /\ a \in Removals
        BY <2>2, <4>2 DEF Rules, Removals
      <4>4. c.draft.meant = r
        BY <1>1, <1>3, <4>2, <4>3 DEF DraftOK
      <4> QED  BY <4>3, <4>4
    <3> QED  BY <3>2, <3>3
  <2>3. CASE c.kind \in {"ban", "unban"}
    <3>1. lists.live \ lists'.live \subseteq IF c.kind = "ban" THEN {} ELSE {c.draft.id}
      BY <1>1, <2>3 DEF Leaves
    <3>2. c.kind = "unban" /\ r = c.draft.id /\ a \in Removals
      BY <2>1, <2>3, <3>1 DEF Removals
    <3>3. c.draft.meant = r
      BY <1>1, <1>3, <3>2 DEF DraftOK
    <3> QED  BY <3>2, <3>3
  <2>4. CASE c.kind \notin Rules \cup {"ban", "unban"}
    BY <1>1, <2>1, <2>4 DEF Leaves
  <2> QED  BY <2>2, <2>3, <2>4
<1> QED  BY <1>2, <1>3

-----------------------------------------------------------------------------
(* The invariant holds when the page is opened, and every step keeps it.   *)
LEMMA InitGood == Init => IInv
<1> SUFFICES ASSUME Init PROVE IInv
  OBVIOUS
<1> DEFINE r == CHOOSE r \in Items : TRUE
<1>1. /\ visit \in DOMAIN FormsOf /\ has \in ToolsOf[visit] /\ tool = has
      /\ lists = [ufw |-> SetToSeq(Items), permanent |-> {r}, live |-> {r}]
      /\ edits = 0 /\ todo = {} /\ results = {}
      /\ action = [a \in Ids |-> NoAction] /\ row = [NoRow EXCEPT !.tool = has]
      /\ tab = "overview" /\ page = row
      /\ form = [f \in FormsOf[visit] |-> Fresh] /\ slot = [i \in Slots |-> Free]
      /\ shell = [overflow |-> "auto", focus |-> Body,
                  saved |-> [f \in Modals |-> "auto"], before |-> [f \in Modals |-> Body]]
      /\ disturbed = FALSE /\ overlap = FALSE
  BY DEF Init, HostInit
<1>2. /\ FormsOf[visit] \subseteq Forms /\ has \in Tools
  BY <1>1, VisitTraits
<1>3. SetToSeq(Items) \in Seq(Items)
  <2>1. Cardinality(Items) \in Nat /\ ExistsBijection(1..Cardinality(Items), Items)
    BY HostAssumption, FS_CardinalityType
  <2>2. \E f \in [1..Cardinality(Items) -> Items] : IsInjective(f)
    BY <2>1 DEF ExistsBijection, Bijection, Injection
  <2>3. SetToSeq(Items) \in [1..Cardinality(Items) -> Items]
    BY <2>2 DEF SetToSeq
  <2> QED  BY <2>1, <2>3
<1>4. r \in Items
  BY HostAssumption
<1> HIDE DEF r
<1>5. row \in Row /\ Says(row) /\ row.tool = has
  BY <1>1, <1>2, Constants DEF Row, Says, NoRow
<1>6. HostTypeOK
  BY <1>1, <1>2, <1>3, <1>4, <1>5, HostAssumption DEF HostTypeOK
<1>7. TypeOK
  BY <1>1, <1>2, <1>5, <1>6, Constants DEF TypeOK, PanelStates
<1>8. ToolInv /\ SlotInv /\ ActionInv
  BY <1>1, <1>5 DEF ToolInv, SlotInv, SlotOK, ActionInv, ActionOK
<1>9. OfferOK(form)
  BY <1>1, Constants DEF OfferOK
<1>10. TwinInv
  <2>1. Open = {} /\ \A i \in Slots : slot[i].phase # "checked"
    BY <1>1, Constants DEF Open, NoAction, Unfinished
  <2> QED  BY <2>1 DEF TwinInv
<1>11. SentInv
  BY <1>1, Constants DEF SentInv, SentFor, Waiting
<1>12. ShellInv
  <2>1. ModalsOf(tab, page, form) = {}
    BY <1>1, Constants DEF ModalsOf
  <2> QED  BY <1>1, <2>1 DEF ShellInv, ShellOK
<1> QED  BY <1>7, <1>8, <1>9, <1>10, <1>11, <1>12 DEF IInv

LEMMA StepKeeps ==
  ASSUME IInv, Next
  PROVE  IInv' /\ Returned
<1>1. CASE OfHost
  <2>1. HostNext /\ UNCHANGED pageVars
    BY <1>1 DEF OfHost
  <2> QED
    BY <2>1, SomeoneEditsKeeps, SomeoneSwitchesKeeps, HeartbeatKeeps, ExecuteKeeps
       DEF HostNext
<1>2. CASE Operates
  BY <1>2, EscapeKeeps, SelectTabKeeps, OpenDialogKeeps, CloseDialogKeeps, FocusFieldKeeps,
     TypeKeeps, SubmitKeeps DEF Operates
<1>3. CASE Poll
  BY <1>3, PollKeeps
<1>4. CASE \E i \in Slots : Serves(i) \/ Lose(i)
  BY <1>4, DecideKeeps, CheckKeeps, InsertRowKeeps, AnswerKeeps DEF Serves
<1> QED  BY <1>1, <1>2, <1>3, <1>4 DEF Next

LEMMA StutterKeeps ==
  ASSUME IInv, UNCHANGED vars
  PROVE  IInv'
<1>1. UNCHANGED <<has, pageVars, todo, results, action, row, lists, edits, tool>>
  BY DEF vars, hostVars
<1>2. HostTypeOK'
  BY <1>1, HostFacts DEF HostTypeOK
<1> QED  BY <1>1, <1>2, TableSame

LEMMA StepConfirms ==
  ASSUME IInv, Next
  PROVE  Confirmed
<1> SUFFICES ASSUME NEW a \in todo \ todo', NEW r \in Present(lists) \ Present(lists')
             PROVE  \/ a \in Removals /\ action[a].draft.meant = r
                    \/ has = "ufw" /\ NumberedRules(lists.ufw) # action[a].draft.raw
                    \/ has = "firewalld" /\ r \notin lists.permanent
  BY DEF Confirmed
<1>1. PICK b \in Ids : Execute(b)
  BY DEF Next, OfHost, HostNext, SomeoneEdits, SomeoneSwitches, Heartbeat, agent, hostVars,
         Operates, Escape, SelectTab, OpenDialog, Opens, CloseDialog, FocusField, Type,
         Submit, Sends, Poll, Serves, Decide, Check, InsertRow, Answer, Lose
<1>2. a = b
  BY <1>1 DEF Execute
<1> QED  BY <1>1, <1>2, ExecuteConfirmed

-----------------------------------------------------------------------------
(* The invariant of the panels, the requests, the table and the host.      *)
THEOREM Inductive == Spec => []IInv
<1>1. IInv /\ [Next]_vars => IInv'
  BY StepKeeps, StutterKeeps
<1> QED  BY InitGood, <1>1, PTL DEF Spec

(* The variables keep their types.                                         *)
THEOREM TypeCorrect == Spec => []TypeOK
<1>1. IInv => TypeOK
  BY DEF IInv
<1> QED  BY <1>1, Inductive, PTL

(* Two unfinished actions for the same thing only come of two requests     *)
(* that were both past the check of create_pending_action.                 *)
THEOREM TwinsHaveCauseHolds == Spec => []TwinsHaveCause
<1>1. IInv => TwinsHaveCause
  BY DEF IInv, TwinInv, TwinsHaveCause
<1> QED  BY <1>1, Inductive, PTL

(* A button shows it is sending exactly while one request of its form is   *)
(* awaited.                                                                *)
THEOREM BusyMeansSentHolds == Spec => []BusyMeansSent
<1>1. ASSUME IInv PROVE BusyMeansSent
  <2> SUFFICES ASSUME NEW f \in DOMAIN form, Is(f, "busy")
               PROVE  Cardinality(Waiting(slot, f)) = IF form[f].busy THEN 1 ELSE 0
    BY DEF BusyMeansSent, Waiting
  <2>1. SentFor(form, slot, f)
    BY <1>1, PageFacts
  <2>2. CASE form[f].busy
    <3>1. PICK i \in Slots : Waiting(slot, f) = {i}
      BY <2>1, <2>2 DEF SentFor
    <3> QED  BY <2>2, <3>1, FS_Singleton
  <2>3. CASE ~form[f].busy
    BY <2>1, <2>3, FS_EmptySet DEF SentFor
  <2> QED  BY <2>2, <2>3
<1> QED  BY <1>1, Inductive, PTL

(* The page can be scrolled exactly when no dialog is on the screen.       *)
THEOREM ScrollFreedHolds == Spec => []ScrollFreed
<1>1. IInv => ScrollFreed
  BY DEF IInv, ShellInv, ShellOK, ScrollFreed
<1> QED  BY <1>1, Inductive, PTL

(* A dialog that closes gives the focus back to the button that opened it. *)
THEOREM FocusReturnsHolds == Spec => FocusReturns
<1>1. IInv /\ [Next]_vars => [Returned]_vars
  BY StepKeeps
<1> QED  BY <1>1, Inductive, PTL DEF Spec, FocusReturns

(* What the agent takes away, the operator confirmed; by number, if the    *)
(* rules are those the number was read from.                               *)
THEOREM RemovalIsConfirmedHolds == Spec => RemovalIsConfirmed
<1>1. IInv /\ [Next]_vars => [Confirmed]_vars
  BY StepConfirms
<1> QED  BY <1>1, Inductive, PTL DEF Spec, RemovalIsConfirmed

=============================================================================
