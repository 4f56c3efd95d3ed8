---------------------------- MODULE WebScreensProofs ----------------------------
(***************************************************************************)
(* Theorems about WebScreens.                                              *)
(***************************************************************************)
EXTENDS WebScreensProps, TLAPS

Requests == Request \cup {Free}
Data == [of : Subjects, version : Versions] \cup {NoData}

-----------------------------------------------------------------------------
(* The traits the arguments below look at.                                 *)
LEMMA Traits ==
  /\ {"events", "actions", "alerts", "hosts", "rule", "action"} \cup TurnSafe \subseteq Screens
  /\ \A s \in {"events", "actions", "alerts", "hosts"} :
       "flag" \in Loader[s] /\ "silent" \notin Loader[s] /\ "wipes" \notin Loader[s]
  /\ "guarded" \notin Loader["hosts"]
  /\ \A s \in {"rule", "action"} : Loader[s] = {}
  /\ \A s \in TurnSafe : "guarded" \in Loader[s]
BY DEF Screens, Loader, TurnSafe, EventsLoader, ActionsLoader, AlertsLoader, HostsLoader,
       HostLoader, VulnsLoader, ReportLoader, TimelineLoader, AuditLoader, DocsLoader,
       RuleLoader, ActionLoader

(* What is in a free slot, and in none else.                               *)
LEMMA SlotFacts ==
  /\ Free \in Requests /\ ~Free.live /\ Free.got = Unread
  /\ \A k \in Subjects :
       /\ Load(k) \in Requests /\ Load(k) # Free /\ Load(k).of = k
       /\ [Load(k) EXCEPT !.use = "reload"] \in Requests
       /\ [Load(k) EXCEPT !.use = "reload"] # Free
       /\ [Load(k) EXCEPT !.use = "reload"].of = k
  /\ \A r \in Requests :
       r # Free => r.of \in Subjects /\ r.got \in Versions \cup {Unread}
  /\ \A r \in Requests : /\ [r EXCEPT !.live = FALSE] \in Requests
                         /\ ~[r EXCEPT !.live = FALSE].live
<1>1. Free \in Requests /\ ~Free.live /\ Free.got = Unread /\ Free.use = "free"
  BY DEF Requests, Free
<1>2. ASSUME NEW k \in Subjects
      PROVE  /\ Load(k) \in Request /\ Load(k).of = k /\ Load(k).use = "load"
             /\ [Load(k) EXCEPT !.use = "reload"] \in Request
             /\ [Load(k) EXCEPT !.use = "reload"].of = k
             /\ [Load(k) EXCEPT !.use = "reload"].use = "reload"
  BY DEF Load, Request
<1>3. \A r \in Requests :
        r # Free => r \in Request /\ r.of \in Subjects /\ r.got \in Versions \cup {Unread}
  BY DEF Requests, Request
<1>4. ASSUME NEW r \in Requests
      PROVE  [r EXCEPT !.live = FALSE] \in Requests /\ ~[r EXCEPT !.live = FALSE].live
  <2>1. CASE r \in Request
    BY <2>1 DEF Request, Requests
  <2>2. CASE r = Free
    <3>1. Free \in [use : {"free"}, of : {Nowhere}, live : {FALSE}, got : {Unread}]
      BY DEF Free
    <3>2. \A q \in [use : {"free"}, of : {Nowhere}, live : {FALSE}, got : {Unread}] :
            [q EXCEPT !.live = FALSE] = q
      OBVIOUS
    <3> QED  BY <1>1, <2>2, <3>1, <3>2
  <2> QED  BY <2>1, <2>2 DEF Requests
<1> QED  BY <1>1, <1>2, <1>3, <1>4 DEF Requests

(* An answer is no missing data.                                           *)
LEMMA AnswerIsData ==
  ASSUME NEW r \in Requests, r.got # Unread
  PROVE  /\ r # Free
         /\ [of |-> r.of, version |-> r.got] \in Data
         /\ [of |-> r.of, version |-> r.got] # NoData
<1>1. r # Free /\ r.of \in Subjects /\ r.got \in Versions
  BY SlotFacts DEF Requests, Request
<1>2. r.of # Nowhere
  BY <1>1, ScreensAssumption
<1> QED  BY <1>1, <1>2 DEF Data, NoData

LEMMA SlotSet ==
  ASSUME TypeOK, NEW i \in Slots, NEW r \in Requests, slot' = [slot EXCEPT ![i] = r]
  PROVE  /\ slot' \in [Slots -> Requests] /\ slot'[i] = r
         /\ \A j \in Slots : j # i => slot'[j] = slot[j]
BY DEF TypeOK, Requests

(* A request for the present subject, or none any more.                    *)
LEMMA SlotKept ==
  ASSUME TypeOK, SlotInv, at # Nowhere, UNCHANGED <<at, subject>>,
         NEW i \in Slots, NEW r \in Requests, r.live => r.of = subject,
         slot' = [slot EXCEPT ![i] = r]
  PROVE  /\ slot' \in [Slots -> Requests] /\ SlotInv'
         /\ r # Free => \E j \in Slots : slot'[j] # Free
<1>1. /\ slot' \in [Slots -> Requests] /\ slot'[i] = r
      /\ \A j \in Slots : j # i => slot'[j] = slot[j]
  BY SlotSet
<1> QED  BY <1>1 DEF SlotInv

LEMMA AskKept ==
  ASSUME TypeOK, SlotInv, at # Nowhere, UNCHANGED <<at, subject>>,
         NEW i \in Slots, Ask(i, Load(subject))
  PROVE  /\ slot' \in [Slots -> Requests] /\ SlotInv'
         /\ \E j \in Slots : slot'[j] # Free
<1>1. Load(subject) \in Requests /\ Load(subject) # Free /\ Load(subject).of = subject
  BY SlotFacts DEF TypeOK
<1> QED  BY <1>1, SlotKept DEF Ask

LEMMA NoneKept ==
  ASSUME slot' = NoneAsked
  PROVE  slot' \in [Slots -> Requests] /\ SlotInv'
BY SlotFacts DEF NoneAsked, SlotInv

-----------------------------------------------------------------------------
(* What each screen shows.                                                 *)
LEMMA ViewOf ==
  /\ at = Nowhere => View = "none"
  /\ at = "events" => View = EventsView
  /\ at = "actions" => View = ActionsView
  /\ at = "hosts" => View = HostsView
  /\ at = "badge" => View = BadgeView
  /\ at = "counts" => View = CountsView
  /\ at = "host" => View = HostView
  /\ at = "alerts" => View = AlertsView
  /\ at = "vulns" => View = VulnsView
  /\ at = "report" => View = ReportView
  /\ at = "timeline" => View = TimelineView
  /\ at = "audit" => View = AuditView
  /\ at = "index" => View = IndexView
  /\ at = "docs" => View = DocsView
  /\ at = "kb" => View = KbView
  /\ at = "hunting" => View = HuntingView
  /\ at = "purple" => View = PurpleView
  /\ at = "rule" => View = RuleView
  /\ at = "action" => View = ActionView
  /\ at = "event" => View = EventView
  /\ at = "lab" => View = LabView
BY DEF View, Nowhere

LEMMA Names ==
  Screens = {"events", "actions", "hosts", "badge", "counts", "host", "alerts", "vulns",
             "report", "timeline", "audit", "index", "docs", "kb", "hunting", "purple",
             "rule", "action", "event", "lab"}
BY DEF Screens, Loader

-----------------------------------------------------------------------------
(* A screen is opened, left, its page loaded again.                        *)
LEMMA MountedKept ==
  ASSUME TypeOK, NEW s \in Screens, NEW k \in Subjects, Mounted(s, k),
         slot' \in [Slots -> Requests], captured' \in BOOLEAN, SlotInv',
         s \in {"rule", "action"} => \E i \in Slots : slot'[i] # Free
  PROVE  IInv'
<1>1. /\ at' = s /\ subject' = k /\ shown' = NoData /\ error' = FALSE /\ writing' = "no" /\ saved' = NoData
      /\ loading' = (s # Nowhere /\ "flag" \in Loader[s]) /\ labAsked' = (labMode = "unknown")
      /\ UNCHANGED <<hidden, up, truth, labMode>>
  BY DEF Mounted, world
<1>2. loading' \in BOOLEAN /\ labAsked' \in BOOLEAN
  BY <1>1
<1>3. TypeOK'
  BY <1>1, <1>2 DEF TypeOK, Requests
<1>4. ToldInv'
  BY <1>1, Traits DEF ToldInv, Nowhere
<1>5. AskedInv' /\ SavedInv'
  BY <1>1 DEF AskedInv, SavedInv
<1> QED  BY <1>3, <1>4, <1>5 DEF IInv

LEMMA OpenKeeps ==
  ASSUME IInv, NEW s \in Screens, NEW k \in Subjects, NEW i \in Slots, Open(s, k, i)
  PROVE  IInv'
<1>1. TypeOK /\ SlotInv /\ at = Nowhere /\ Mounted(s, k) /\ captured' \in BOOLEAN
  BY DEF IInv, Open, TypeOK
<1>2. at' = s /\ subject' = k
  BY <1>1 DEF Mounted
<1>3. CASE slot' = NoneAsked /\ "pauses" \in Loader[s]
  <2>1. s \notin {"rule", "action"}
    BY <1>3, Traits
  <2> QED  BY <1>1, <1>3, <2>1, MountedKept, NoneKept
<1>4. CASE Ask(i, Load(k))
  <2>1. Load(k) \in Requests /\ Load(k) # Free /\ Load(k).of = k /\ ~Free.live
    BY SlotFacts
  <2>2. /\ slot' \in [Slots -> Requests] /\ slot'[i] = Load(k)
        /\ \A j \in Slots : j # i => slot'[j] = slot[j]
    BY <1>1, <1>4, <2>1, SlotSet DEF Ask
  <2>3. \A j \in Slots : j # i => slot'[j] = Free
    BY <1>1, <2>2 DEF SlotInv
  <2>4. s # Nowhere
    BY DEF Screens, Loader, Nowhere
  <2>5. SlotInv'
    BY <1>2, <2>1, <2>2, <2>3, <2>4 DEF SlotInv
  <2> QED  BY <1>1, <2>1, <2>2, <2>5, MountedKept
<1> QED  BY <1>3, <1>4 DEF Open

LEMMA OpenLabKeeps ==
  ASSUME IInv, NEW k \in Subjects, OpenLab(k)
  PROVE  IInv'
<1>1. TypeOK /\ Mounted("lab", k) /\ captured' \in BOOLEAN
  BY DEF IInv, OpenLab
<1>2. "lab" \in Screens /\ "lab" # Nowhere
  BY DEF Screens, Loader, Nowhere
<1>3. PICK A \in SUBSET Slots : slot' = [i \in Slots |-> IF i \in A THEN Load(k) ELSE Free]
  <2> DEFINE B == IF labMode # "on" THEN {} ELSE IF hidden THEN {1} ELSE {1, 2}
  <2>1. slot' = [i \in Slots |-> IF i \in B THEN Load(k) ELSE Free]
    BY DEF OpenLab
  <2>2. slot' = [i \in Slots |-> IF i \in B \cap Slots THEN Load(k) ELSE Free]
    BY <2>1
  <2> HIDE DEF B
  <2> QED  BY <2>2
<1>4. slot' \in [Slots -> Requests]
  BY <1>3, SlotFacts
<1>5. at' = "lab" /\ subject' = k
  BY <1>1 DEF Mounted
<1>6. \A i \in Slots : slot'[i] = Load(k) \/ slot'[i] = Free
  BY <1>3
<1>7. SlotInv'
  BY <1>2, <1>5, <1>6, SlotFacts DEF SlotInv
<1> QED  BY <1>1, <1>2, <1>4, <1>7, MountedKept

LEMMA LeaveKeeps ==
  ASSUME IInv, Leave \/ (at = "lab" /\ Closed /\ UNCHANGED <<loading, world, captured>>
                         /\ labMode' \in {"unknown", "on", "off"} /\ labAsked' \in BOOLEAN)
  PROVE  IInv'
<1>1. TypeOK
  BY DEF IInv
<1>2. /\ at' = Nowhere /\ subject' \in Subjects /\ slot' = NoneAsked /\ shown' = NoData
      /\ error' = FALSE /\ writing' = "no" /\ saved' = NoData /\ UNCHANGED <<hidden, up, truth>>
  BY ScreensAssumption DEF Leave, Closed, world
<1>3. /\ loading' \in BOOLEAN /\ captured' \in BOOLEAN /\ labAsked' \in BOOLEAN
      /\ labMode' \in {"unknown", "on", "off"}
  BY <1>1 DEF Leave, TypeOK
<1>4. TypeOK'
  BY <1>1, <1>2, <1>3, NoneKept DEF TypeOK, Requests
<1>5. ToldInv' /\ AskedInv' /\ SavedInv'
  BY <1>2 DEF ToldInv, AskedInv, SavedInv, Nowhere
<1> QED  BY <1>2, <1>4, <1>5, NoneKept DEF IInv

(* The world goes on, or one of the flags nobody's data depends on.        *)
LEMMA AsideKeeps ==
  ASSUME IInv, UNCHANGED <<screen, slot>>, hidden' \in BOOLEAN, up' \in BOOLEAN,
         truth' \in [Subjects -> Versions], writing' \in {"no", "sent", "reloading"},
         labMode' \in {"unknown", "on", "off"}, labAsked' \in BOOLEAN, captured' \in BOOLEAN,
         saved' \in Data, SavedInv', writing = "reloading" => writing' = writing
  PROVE  IInv'
<1>1. TypeOK /\ SlotInv /\ ToldInv /\ AskedInv
  BY DEF IInv
<1>2. UNCHANGED <<at, subject, shown, loading, error, slot>>
  BY DEF screen
<1>3. TypeOK'
  BY <1>1, <1>2 DEF TypeOK, Data
<1>4. SlotInv' /\ ToldInv' /\ AskedInv'
  BY <1>1, <1>2 DEF SlotInv, ToldInv, AskedInv
<1> QED  BY <1>3, <1>4 DEF IInv

LEMMA OutsideKeeps ==
  ASSUME IInv, Reload \/ Hide \/ Flip \/ Write \/ \E k \in Subjects : Change(k)
  PROVE  IInv'
<1>1. TypeOK /\ SavedInv
  BY DEF IInv
<1>2. CASE Reload \/ Hide \/ Flip
  <2>1. UNCHANGED <<at, writing, saved>> /\ SavedInv'
    BY <1>1, <1>2 DEF Reload, Hide, Flip, write, screen, SavedInv
  <2> QED
    BY <1>1, <1>2, <2>1, AsideKeeps DEF Reload, Hide, Flip, TypeOK, Data, world, screen, labVars
<1>3. CASE Write
  <2>1. at = "host" => shown # NoData
    BY <1>3, ViewOf DEF Write, CreateHost, Revert, ChangeStatus, TriggerScan, CallVm, ResetDemo,
                        MakePdf, SaveLocation, HostView, FirstOf, Missing
  <2>2. /\ UNCHANGED <<screen, slot, hidden, up, truth, labMode, labAsked, captured, at>>
        /\ writing = "no" /\ writing' = "sent" /\ saved' = IF SaveLocation THEN shown ELSE NoData
    BY <1>3 DEF Write, world, labVars, screen
  <2>3. saved' \in Data
    BY <1>1, <2>2 DEF TypeOK, Data
  <2>4. SavedInv'
    BY <1>3, <2>1, <2>2 DEF SavedInv, Write, CreateHost, Revert, ChangeStatus, TriggerScan,
                            CallVm, ResetDemo, MakePdf
  <2> QED  BY <1>1, <2>2, <2>3, <2>4, AsideKeeps DEF TypeOK
<1>4. ASSUME NEW k \in Subjects, Change(k)
      PROVE  IInv'
  <2>1. truth' \in [Subjects -> Versions]
    BY <1>1, <1>4, ScreensAssumption DEF Change, TypeOK, Versions
  <2>2. UNCHANGED <<at, writing, saved>> /\ SavedInv'
    BY <1>1, <1>4 DEF Change, write, screen, SavedInv
  <2> QED  BY <1>1, <1>4, <2>1, <2>2, AsideKeeps DEF Change, TypeOK, Data, labVars
<1> QED  BY <1>2, <1>3, <1>4

-----------------------------------------------------------------------------
(* The screen asks, for the subject it has.                                *)
LEMMA AskingKeeps ==
  ASSUME IInv, NEW i \in Slots, Tick(i) \/ Show(i)
  PROVE  IInv'
<1>1. TypeOK /\ SlotInv /\ ToldInv /\ AskedInv /\ SavedInv
  BY DEF IInv
<1>2. /\ UNCHANGED <<at, subject, shown, loading, error, up, truth, writing, saved,
                     labMode, labAsked, captured>>
      /\ hidden' \in BOOLEAN
  BY <1>1 DEF Tick, Show, screen, world, write, labVars, TypeOK
<1>3. CASE UNCHANGED slot
  BY <1>1, <1>2, <1>3, AsideKeeps DEF screen, TypeOK, SavedInv, Data
<1>4. CASE at # Nowhere /\ Ask(i, Load(subject))
  <2>1. /\ slot' \in [Slots -> Requests] /\ SlotInv'
        /\ \E j \in Slots : slot'[j] # Free
    BY <1>1, <1>2, <1>4, AskKept
  <2>2. TypeOK'
    BY <1>1, <1>2, <2>1 DEF TypeOK, Requests
  <2>3. ToldInv' /\ AskedInv' /\ SavedInv'
    BY <1>1, <1>2, <2>1 DEF ToldInv, AskedInv, SavedInv
  <2> QED  BY <2>1, <2>2, <2>3 DEF IInv
<1> QED  BY <1>3, <1>4 DEF Tick, Show, Polls, Is

(* The subject changes: all that was asked before is unwanted.             *)
LEMMA TurnKeeps ==
  ASSUME IInv, NEW k \in Subjects, NEW i \in Slots, Turn(k, i)
  PROVE  IInv'
<1>1. TypeOK /\ ToldInv /\ SavedInv /\ at # Nowhere /\ "keyed" \in Loader[at]
  BY DEF IInv, Turn, Is
<1>2. /\ UNCHANGED <<at, shown, loading, error, hidden, up, truth, writing, saved,
                     labMode, labAsked, captured>>
      /\ subject' = k
  BY DEF Turn, world, write, labVars
<1>3. slot \in [Slots -> Requests]
  BY <1>1 DEF TypeOK, Requests
<1>4. PICK A \in SUBSET Slots :
        slot' = [j \in Slots |-> IF j \in A THEN Load(k) ELSE [slot[j] EXCEPT !.live = FALSE]]
  <2> DEFINE B == IF hidden /\ Is("pauses") THEN {} ELSE {i}
  <2>1. slot' = [j \in Slots |-> IF j \in B THEN Load(k) ELSE [slot[j] EXCEPT !.live = FALSE]]
    BY DEF Turn
  <2>2. B \in SUBSET Slots
    OBVIOUS
  <2> HIDE DEF B
  <2> QED  BY <2>1, <2>2
<1>5. slot' \in [Slots -> Requests]
  BY <1>3, <1>4, SlotFacts
<1>6. \A j \in Slots : slot'[j] = Load(k) \/ slot'[j] = [slot[j] EXCEPT !.live = FALSE]
  BY <1>4
<1>7. SlotInv'
  <2>1. ASSUME NEW j \in Slots, slot'[j].live
        PROVE  slot'[j].of = k
    <3>1. slot[j] \in Requests
      BY <1>3
    <3>2. slot'[j] # [slot[j] EXCEPT !.live = FALSE]
      BY <2>1, <3>1, SlotFacts
    <3> QED  BY <1>6, <3>2, SlotFacts
  <2> QED  BY <1>1, <1>2, <2>1 DEF SlotInv
<1>8. at \notin {"rule", "action"}
  BY <1>1, Traits
<1>9. TypeOK'
  BY <1>1, <1>2, <1>5 DEF TypeOK, Requests
<1>10. ToldInv' /\ AskedInv' /\ SavedInv'
  BY <1>1, <1>2, <1>8 DEF ToldInv, AskedInv, SavedInv
<1> QED  BY <1>7, <1>9, <1>10 DEF IInv

LEMMA ReadKeeps ==
  ASSUME IInv, NEW i \in Slots, Read(i)
  PROVE  IInv'
<1>1. TypeOK /\ SlotInv /\ ToldInv /\ AskedInv /\ SavedInv
  BY DEF IInv
<1>2. UNCHANGED <<at, subject, shown, loading, error, hidden, up, truth, writing, saved,
                  labMode, labAsked, captured>>
  BY DEF Read, screen, world, write, labVars
<1> DEFINE r == [slot[i] EXCEPT !.got = truth[slot[i].of]]
<1>3. slot[i] \in Request /\ slot[i].of \in Subjects /\ slot[i] # Free
  BY <1>1 DEF Read, TypeOK, Request
<1>4. truth[slot[i].of] \in Versions
  BY <1>1, <1>3 DEF TypeOK
<1>5. r \in Requests /\ r # Free /\ r.live = slot[i].live /\ r.of = slot[i].of
  <2>1. r \in Request /\ r.use = slot[i].use /\ slot[i].use \in {"load", "reload"}
    BY <1>3, <1>4 DEF Request
  <2>2. r # Free
    BY <2>1 DEF Free
  <2> QED  BY <1>3, <2>1, <2>2 DEF Requests, Request
<1>6. slot' = [slot EXCEPT ![i] = r]
  BY DEF Read
<1> HIDE DEF r
<1>7. at # Nowhere /\ (r.live => r.of = subject)
  BY <1>1, <1>3, <1>5 DEF SlotInv
<1>8. slot' \in [Slots -> Requests] /\ SlotInv' /\ \E j \in Slots : slot'[j] # Free
  BY <1>1, <1>2, <1>5, <1>6, <1>7, SlotKept
<1>9. TypeOK'
  BY <1>1, <1>2, <1>8 DEF TypeOK, Requests
<1>10. ToldInv' /\ AskedInv' /\ SavedInv'
  BY <1>1, <1>2, <1>8 DEF ToldInv, AskedInv, SavedInv
<1> QED  BY <1>8, <1>9, <1>10 DEF IInv

(* An answer, or none: data or an error, if it is wanted.                  *)
LEMMA AnswerKeeps ==
  ASSUME IInv, NEW i \in Slots, Answer(i)
  PROVE  IInv'
<1>1. TypeOK /\ SlotInv /\ ToldInv /\ AskedInv /\ SavedInv
  BY DEF IInv
<1>2. /\ UNCHANGED <<at, subject, hidden, up, truth, saved, labMode, labAsked, captured>>
      /\ slot' = [slot EXCEPT ![i] = Free] /\ EndsWrite(slot[i])
  BY DEF Answer, world, labVars
<1> DEFINE d == [of |-> slot[i].of, version |-> slot[i].got]
<1>3. slot[i] \in Requests /\ slot[i].got # Unread
  BY <1>1 DEF Answer, TypeOK, Requests
<1>4. slot[i] # Free /\ d \in Data /\ d # NoData
  BY <1>3, AnswerIsData
<1>5. at # Nowhere
  BY <1>1, <1>4 DEF SlotInv
<1>6. slot' \in [Slots -> Requests] /\ SlotInv'
  BY <1>1, <1>2, <1>5, SlotFacts, SlotKept
<1>7. writing' \in {"no", "sent", "reloading"} /\ SavedInv'
  BY <1>1, <1>2 DEF EndsWrite, TypeOK, SavedInv
<1>8. CASE Wanted(slot[i])
  <2>1. shown' = d /\ loading' = FALSE /\ error' \in BOOLEAN
    BY <1>8 DEF Answer
  <2> HIDE DEF d
  <2>2. TypeOK'
    BY <1>1, <1>2, <1>4, <1>6, <1>7, <2>1 DEF TypeOK, Requests, Data
  <2>3. ToldInv' /\ AskedInv'
    BY <1>4, <2>1 DEF ToldInv, AskedInv
  <2> QED  BY <1>6, <1>7, <2>2, <2>3 DEF IInv
<1>9. CASE ~Wanted(slot[i])
  <2>1. UNCHANGED <<shown, error, loading>> /\ "guarded" \in Loader[at]
    BY <1>9 DEF Answer, Wanted, Is
  <2>2. at \notin {"hosts", "rule", "action"}
    BY <2>1, Traits
  <2>3. TypeOK'
    BY <1>1, <1>2, <1>6, <1>7, <2>1 DEF TypeOK, Requests
  <2>4. ToldInv' /\ AskedInv'
    BY <1>1, <1>2, <2>1, <2>2 DEF ToldInv, AskedInv
  <2> QED  BY <1>6, <1>7, <2>3, <2>4 DEF IInv
<1> QED  BY <1>8, <1>9

LEMMA FailKeeps ==
  ASSUME IInv, NEW i \in Slots, Fail(i)
  PROVE  IInv'
<1>1. TypeOK /\ SlotInv /\ ToldInv /\ AskedInv /\ SavedInv
  BY DEF IInv
<1>2. /\ UNCHANGED <<at, subject, hidden, up, truth, saved, labMode, labAsked, captured>>
      /\ slot' = [slot EXCEPT ![i] = Free] /\ EndsWrite(slot[i]) /\ slot[i] # Free
      /\ error' = (error \/ (Wanted(slot[i]) /\ ~Is("silent")))
      /\ loading' = (loading /\ ~Wanted(slot[i]))
      /\ shown' = IF Wanted(slot[i]) /\ Is("wipes") THEN NoData ELSE shown
  BY DEF Fail, world, labVars, NotLoading
<1>3. at # Nowhere
  BY <1>1, <1>2 DEF SlotInv
<1>4. slot' \in [Slots -> Requests] /\ SlotInv'
  BY <1>1, <1>2, <1>3, SlotFacts, SlotKept
<1>5. /\ writing' \in {"no", "sent", "reloading"} /\ error' \in BOOLEAN /\ loading' \in BOOLEAN
      /\ shown' \in Data /\ SavedInv'
  BY <1>1, <1>2 DEF EndsWrite, TypeOK, Data, SavedInv
<1>6. TypeOK'
  BY <1>1, <1>2, <1>4, <1>5 DEF TypeOK, Requests, Data
<1>7. CASE Wanted(slot[i])
  <2>1. at \in {"events", "actions", "alerts", "hosts", "rule", "action"} => error'
    BY <1>2, <1>7, Traits DEF Is
  <2> QED  BY <1>2, <1>4, <1>5, <1>6, <2>1 DEF IInv, ToldInv, AskedInv
<1>8. CASE ~Wanted(slot[i])
  <2>1. shown' = shown /\ (error' <=> error) /\ (loading' <=> loading)
    BY <1>2, <1>8
  <2>2. "guarded" \in Loader[at]
    BY <1>8 DEF Wanted, Is
  <2>3. at \notin {"hosts", "rule", "action"}
    BY <2>2, Traits
  <2>4. ToldInv' /\ AskedInv'
    BY <1>1, <1>2, <2>1, <2>3 DEF ToldInv, AskedInv
  <2> QED  BY <1>4, <1>5, <1>6, <2>4 DEF IInv
<1> QED  BY <1>7, <1>8

-----------------------------------------------------------------------------
(* The screen's own write ends.                                            *)
LEMMA WrittenKeeps ==
  ASSUME IInv, NEW i \in Slots, Written(i)
  PROVE  IInv'
<1>1. TypeOK /\ SlotInv /\ ToldInv /\ AskedInv /\ SavedInv /\ writing = "sent"
  BY DEF IInv, Written
<1>2. /\ UNCHANGED <<at, subject, loading, hidden, up, truth, labMode, labAsked, captured>>
      /\ saved' = NoData
  BY DEF Written, world, labVars
<1>3. CASE at = "hosts" /\ Refresh(i)
  <2> DEFINE r == [Load(subject) EXCEPT !.use = "reload"]
  <2>1. r \in Requests /\ r # Free /\ r.of = subject
    BY <1>1, SlotFacts DEF TypeOK
  <2>2. slot' = [slot EXCEPT ![i] = r] /\ error' = FALSE /\ writing' = "reloading"
        /\ UNCHANGED shown
    BY <1>3 DEF Refresh, Ask
  <2> HIDE DEF r
  <2>3. at # Nowhere
    BY <1>3 DEF Nowhere
  <2>4. slot' \in [Slots -> Requests] /\ SlotInv'
    BY <1>1, <1>2, <2>1, <2>2, <2>3, SlotKept
  <2>5. TypeOK'
    BY <1>1, <1>2, <2>2, <2>4 DEF TypeOK, Requests
  <2>6. ToldInv' /\ AskedInv' /\ SavedInv'
    BY <1>2, <1>3, <2>2 DEF ToldInv, AskedInv, SavedInv
  <2> QED  BY <2>4, <2>5, <2>6 DEF IInv
<1>4. CASE at = "lab" /\ LoadVms(i)
  <2>1. at # Nowhere /\ Ask(i, Load(subject)) /\ writing' = "no" /\ UNCHANGED <<shown, error>>
    BY <1>4 DEF LoadVms, Nowhere
  <2>2. slot' \in [Slots -> Requests] /\ SlotInv'
    BY <1>1, <1>2, <2>1, AskKept
  <2>3. TypeOK'
    BY <1>1, <1>2, <2>1, <2>2 DEF TypeOK, Requests
  <2>4. ToldInv' /\ AskedInv' /\ SavedInv'
    BY <1>2, <1>4 DEF ToldInv, AskedInv, SavedInv
  <2> QED  BY <2>2, <2>3, <2>4 DEF IInv
<1>5. CASE at \notin {"hosts", "host"} /\ NoReload
  BY <1>1, <1>2, <1>5, AsideKeeps DEF NoReload, screen, TypeOK, Data, SavedInv
<1>6. CASE at = "host" /\ OnSaved
  <2>1. saved \in Data /\ saved # NoData
    BY <1>1, <1>6 DEF TypeOK, Data, SavedInv
  <2>2. saved \in [of : Subjects, version : Versions]
    BY <2>1 DEF Data
  <2>3. PICK v \in {saved.version, truth[saved.of]} : shown' = [saved EXCEPT !.version = v]
    BY <1>6 DEF OnSaved
  <2>4. v \in Versions
    BY <1>1, <2>2, <2>3 DEF TypeOK
  <2>5. shown' \in Data
    BY <2>2, <2>3, <2>4 DEF Data
  <2>6. writing' = "no" /\ UNCHANGED <<slot, error>>
    BY <1>6 DEF OnSaved
  <2>7. TypeOK'
    BY <1>1, <1>2, <2>5, <2>6 DEF TypeOK, Requests, Data
  <2>8. SlotInv'
    BY <1>1, <1>2, <2>6 DEF SlotInv
  <2>9. ToldInv' /\ AskedInv' /\ SavedInv'
    BY <1>2, <1>6, <2>6 DEF ToldInv, AskedInv, SavedInv
  <2> QED  BY <2>7, <2>8, <2>9 DEF IInv
<1> QED  BY <1>3, <1>4, <1>5, <1>6 DEF Written

LEMMA WriteFailsKeeps ==
  ASSUME IInv, WriteFails
  PROVE  IInv'
<1>1. TypeOK /\ SlotInv /\ ToldInv /\ AskedInv /\ SavedInv /\ writing = "sent"
  BY DEF IInv, WriteFails
<1>2. /\ UNCHANGED <<at, subject, shown, loading, hidden, up, truth, slot,
                     labMode, labAsked, captured>>
      /\ writing' = "no" /\ error' = (error \/ at \notin {"actions", "alerts", "host"})
      /\ saved' = NoData
  BY DEF WriteFails, world, labVars
<1>3. error' \in BOOLEAN /\ (error => error')
  BY <1>1, <1>2 DEF TypeOK
<1>4. TypeOK'
  BY <1>1, <1>2, <1>3 DEF TypeOK
<1>5. SlotInv' /\ ToldInv' /\ AskedInv' /\ SavedInv'
  BY <1>1, <1>2, <1>3 DEF SlotInv, ToldInv, AskedInv, SavedInv
<1> QED  BY <1>4, <1>5 DEF IInv

(* The mode is known: the page of the laboratory loads, or goes elsewhere. *)
LEMMA LabAnswersKeeps ==
  ASSUME IInv, NEW i \in Slots, LabAnswers(i)
  PROVE  IInv'
<1>1. TypeOK /\ SlotInv /\ SavedInv
  BY DEF IInv
<1>2. /\ labAsked' = FALSE /\ labMode' \in {"unknown", "on", "off"} /\ labMode' # "unknown"
      /\ UNCHANGED <<world, captured>> /\ UNCHANGED <<hidden, up, truth>>
  BY DEF LabAnswers, world
<1>3. CASE at = "lab" /\ labMode' = "on"
  <2>1. Ask(i, Load(subject)) /\ UNCHANGED <<at, subject, shown, loading, error, writing, saved>>
    BY <1>3 DEF LabAnswers, screen, write
  <2>2. at # Nowhere
    BY <1>3 DEF Nowhere
  <2>3. slot' \in [Slots -> Requests] /\ SlotInv'
    BY <1>1, <2>1, <2>2, AskKept
  <2>4. TypeOK'
    BY <1>1, <1>2, <2>1, <2>3 DEF TypeOK, Requests
  <2>5. ToldInv' /\ AskedInv' /\ SavedInv'
    BY <1>3, <2>1 DEF ToldInv, AskedInv, SavedInv
  <2> QED  BY <2>3, <2>4, <2>5 DEF IInv
<1>4. CASE at = "lab" /\ labMode' = "off"
  <2>1. Closed /\ UNCHANGED loading
    BY <1>4 DEF LabAnswers
  <2> QED  BY <1>2, <1>4, <2>1, LeaveKeeps
<1>5. CASE at # "lab"
  <2>1. UNCHANGED <<screen, slot, writing, saved, at>>
    BY <1>5 DEF LabAnswers, write, screen
  <2>2. SavedInv'
    BY <1>1, <2>1 DEF SavedInv
  <2> QED  BY <1>1, <1>2, <2>1, <2>2, AsideKeeps DEF TypeOK, Data
<1> QED  BY <1>2, <1>3, <1>4, <1>5

-----------------------------------------------------------------------------
LEMMA InitGood ==
  ASSUME Init
  PROVE  IInv
<1>1. /\ slot = NoneAsked /\ at = Nowhere /\ subject \in Subjects /\ shown = NoData
      /\ truth = [k \in Subjects |-> 0]
  BY ScreensAssumption DEF Init
<1>2. 0 \in Versions
  BY ScreensAssumption DEF Versions
<1>3. slot \in [Slots -> Requests] /\ SlotInv
  BY <1>1, SlotFacts DEF NoneAsked, SlotInv
<1>4. TypeOK
  BY <1>1, <1>2, <1>3 DEF Init, TypeOK, Requests
<1>5. ToldInv /\ AskedInv /\ SavedInv
  BY <1>1 DEF ToldInv, AskedInv, SavedInv, Nowhere
<1> QED  BY <1>3, <1>4, <1>5 DEF IInv

LEMMA StepKeeps ==
  ASSUME IInv, [Next]_vars
  PROVE  IInv'
<1>1. CASE \E s \in Screens, k \in Subjects, i \in Slots : Open(s, k, i)
  BY <1>1, OpenKeeps
<1>2. ASSUME NEW k \in Subjects, OpenLab(k) \/ Change(k) \/ \E i \in Slots : Turn(k, i)
      PROVE  IInv'
  BY <1>2, OpenLabKeeps, OutsideKeeps, TurnKeeps
<1>3. CASE Leave \/ Reload \/ Hide \/ Flip \/ Write \/ WriteFails
  BY <1>3, LeaveKeeps, OutsideKeeps, WriteFailsKeeps
<1>4. ASSUME NEW i \in Slots,
             Tick(i) \/ Show(i) \/ SlotEnds(i) \/ Written(i) \/ LabAnswers(i)
      PROVE  IInv'
  BY <1>4, AskingKeeps, ReadKeeps, AnswerKeeps, FailKeeps, WrittenKeeps, LabAnswersKeeps
     DEF SlotEnds
<1>5. CASE UNCHANGED vars
  BY <1>5, AsideKeeps DEF vars, screen, IInv, TypeOK, Data, SavedInv
<1> QED  BY <1>1, <1>2, <1>3, <1>4, <1>5 DEF Next

(* Of every execution, with any subjects, requests at once and failures.   *)
THEOREM Inductive == Spec => []IInv
<1>1. Init => IInv
  BY InitGood
<1>2. IInv /\ [Next]_vars => IInv'
  BY StepKeeps
<1> QED  BY <1>1, <1>2, PTL DEF Spec

(* The state of a screen, of its requests and of the lab mode keep types.  *)
THEOREM TypeCorrect == Spec => []TypeOK
<1>1. IInv => TypeOK
  BY DEF IInv
<1> QED  BY <1>1, Inductive, PTL

-----------------------------------------------------------------------------
LEMMA CalmFollows ==
  ASSUME IInv
  PROVE  CalmIsTold
<1> SUFFICES ASSUME View = "empty", shown = NoData, at # "audit"
             PROVE  (error /\ at \in {"hosts", "alerts"}) \/ (at = "hosts" /\ writing = "reloading")
  BY DEF CalmIsTold
<1>1. at \in Screens \cup {Nowhere} /\ ToldInv
  BY DEF IInv, TypeOK
<1>2. CASE at \in {"events", "actions"}
  BY <1>1, <1>2, ViewOf DEF EventsView, ActionsView, FirstOf, ToldInv
<1>3. CASE at \in {"hosts", "alerts"}
  BY <1>1, <1>3, ViewOf DEF HostsView, AlertsView, FirstOf, ToldInv
<1>4. CASE at \in {"badge", "host", "vulns", "index", "rule", "action", "lab"}
  BY <1>4, ViewOf DEF BadgeView, HostView, VulnsView, IndexView, RuleView, ActionView, LabView,
                      FirstOf, Missing, Empty
<1>5. CASE at \in {"counts", "report", "timeline", "docs", "kb", "hunting", "purple", "event",
                   Nowhere}
  BY <1>5, ViewOf DEF CountsView, ReportView, TimelineView, DocsView, KbView, HuntingView,
                      PurpleView, EventView
<1> QED  BY <1>1, <1>2, <1>3, <1>4, <1>5, Names

LEMMA LoadingFollows ==
  ASSUME IInv
  PROVE  LoadingMeansAsked
<1> SUFFICES ASSUME View = "loading", at \notin {"index", "docs", "lab"}
             PROVE  Is("polls") \/ \E i \in Slots : slot[i] # Free
  BY DEF LoadingMeansAsked
<1>1. at \in Screens \cup {Nowhere} /\ AskedInv
  BY DEF IInv, TypeOK
<1>2. CASE at \in {"events", "actions", "hosts", "badge", "counts", "host", "alerts", "vulns"}
  BY <1>2 DEF Is, Nowhere, Loader, EventsLoader, ActionsLoader, HostsLoader, BadgeLoader,
              CountsLoader, HostLoader, AlertsLoader, VulnsLoader
<1>3. CASE at \in {"rule", "action"}
  BY <1>1, <1>3, ViewOf DEF RuleView, ActionView, FirstOf, Missing, AskedInv
<1>4. CASE at \in {"report", "timeline", "audit", "kb", "hunting", "purple", "event", Nowhere}
  BY <1>4, ViewOf DEF ReportView, TimelineView, AuditView, KbView, HuntingView, PurpleView,
                      EventView
<1> QED  BY <1>1, <1>2, <1>3, <1>4, Names

(* An empty list is told when the server has said so, or the error beside  *)
(* it is, but for the two screens the property names.                      *)
THEOREM CalmIsToldHolds == Spec => []CalmIsTold
<1>1. IInv => CalmIsTold
  BY CalmFollows
<1> QED  BY <1>1, Inductive, PTL

(* "Carregando" is told while a request or a timer may still end it.       *)
THEOREM LoadingMeansAskedHolds == Spec => []LoadingMeansAsked
<1>1. IInv => LoadingMeansAsked
  BY LoadingFollows
<1> QED  BY <1>1, Inductive, PTL

-----------------------------------------------------------------------------
(* Only an answer that is wanted changes what an open screen is about, or  *)
(* that of a location.                                                     *)
LEMMA ShownFrom ==
  ASSUME IInv, [Next]_vars, at' = at, at \in TurnSafe
  PROVE  \/ shown' = shown \/ shown' = NoData
         \/ \E i \in Slots : slot[i].live /\ shown'.of = slot[i].of
         \/ LocationSaved
<1>1. at # Nowhere /\ at # "lab" /\ "guarded" \in Loader[at]
  BY Traits DEF TurnSafe, Nowhere
<1>2. ASSUME NEW i \in Slots, Answer(i)
      PROVE  shown' = shown \/ (slot[i].live /\ shown'.of = slot[i].of)
  BY <1>1, <1>2 DEF Answer, Wanted, Is
<1>3. ASSUME NEW i \in Slots, Fail(i)
      PROVE  shown' = shown \/ shown' = NoData
  BY <1>3 DEF Fail
<1>4. ASSUME NEW i \in Slots, Tick(i) \/ Show(i) \/ Read(i) \/ LabAnswers(i)
      PROVE  shown' = shown
  BY <1>1, <1>4 DEF Tick, Show, Read, LabAnswers, screen
<1>5. ASSUME NEW k \in Subjects, OpenLab(k) \/ Change(k) \/ \E i \in Slots : Turn(k, i)
      PROVE  shown' = shown
  BY <1>1, <1>5 DEF OpenLab, Change, Turn, screen
<1>6. CASE Leave \/ Reload \/ Hide \/ Flip \/ Write \/ WriteFails
  BY <1>1, <1>6 DEF Leave, Closed, Reload, Hide, Flip, Write, WriteFails, screen
<1>7. CASE \E s \in Screens, k \in Subjects, i \in Slots : Open(s, k, i)
  BY <1>1, <1>7 DEF Open
<1>8. CASE UNCHANGED vars
  BY <1>8 DEF vars
<1>9. ASSUME NEW i \in Slots, Written(i)
      PROVE  shown' = shown \/ LocationSaved
  <2>1. CASE at = "host" /\ OnSaved
    <3>1. PICK v \in {saved.version, truth[saved.of]} : shown' = [saved EXCEPT !.version = v]
      BY <2>1 DEF OnSaved
    <3>2. saved \in [of : Subjects, version : Versions]
      BY <1>9, <2>1 DEF Written, IInv, TypeOK, SavedInv
    <3>3. shown'.of = saved.of
      BY <3>1, <3>2
    <3> QED  BY <1>9, <2>1, <3>3 DEF Written, OnSaved, LocationSaved
  <2> QED  BY <1>9, <2>1 DEF Written, Refresh, LoadVms, NoReload
<1> QED  BY <1>2, <1>3, <1>4, <1>5, <1>6, <1>7, <1>8, <1>9 DEF Next, SlotEnds

(* A screen with the cancelled flag never turns back to what it was asked  *)
(* about before, whichever answer comes last: on the page of a host, only  *)
(* onSaved's answer to a location does.                                    *)
THEOREM NeverTurnsBackHolds == Spec => NeverTurnsBack
<1>1. ASSUME IInv, [Next]_vars
      PROVE  [at' = at /\ at \in TurnSafe /\ subject' = subject /\ shown.of = subject
                => shown' = NoData \/ shown'.of = subject \/ LocationSaved]_vars
  BY <1>1, ShownFrom DEF IInv, SlotInv
<1> QED  BY <1>1, Inductive, PTL DEF Spec, NeverTurnsBack

=============================================================================
