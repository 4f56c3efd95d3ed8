------------------------------- MODULE Detection -------------------------------
(***************************************************************************)
(* The detection cycles of one host, and the operators who handle its      *)
(* alerts.                                                                 *)
(*                                                                         *)
(* A cycle evaluates the rules in the order of their files, in one         *)
(* transaction: it asks Loki, reads the open alert of every candidate,     *)
(* flushes an UPDATE or an INSERT, and lets the policy add an action.  One *)
(* exception rolls everything back.  Cycles overlap when one takes longer  *)
(* than the 30s of the schedule.                                           *)
(*                                                                         *)
(* A pattern stands for a rule and a dedup_key: the table has one row at   *)
(* most for it (uq_alert_host_rule_dedup), whatever the row's status.      *)
(***************************************************************************)
EXTENDS Naturals, Sequences

CONSTANTS
  Patterns,
  Rules,    \* the rules in order, each as the set of its patterns
  Acting,   \* patterns whose rule has a policy
  Targets,  \* addresses and paths that actions are about
  Target,   \* Target[p]: the target of an acting pattern
  Unfit,    \* acting patterns whose target is longer than its column
  Cycles,   \* cycles that may run at the same time
  Nobody    \* no pattern

ASSUME RulesAssumption ==
  /\ Rules \in Seq(SUBSET Patterns)
  /\ \A i, j \in DOMAIN Rules : i # j => Rules[i] \cap Rules[j] = {}
ASSUME NobodyAssumption == Nobody \notin Patterns
ASSUME ActingAssumption ==
  /\ Acting \subseteq Patterns
  /\ Unfit \subseteq Acting
  /\ Target \in [Acting -> Targets]

VARIABLES
  window,   \* patterns that Loki's answers make candidates at the moment
  status,   \* status[p]: the row of pattern p, "none" without one
  actions,  \* targets with an open action: pending, sent or executed
  cycle,    \* cycle[k]: the transaction of cycle k
  decided,  \* history: what an operator last made of the row
  ended     \* history: targets whose action failed, was reverted or deleted

vars == <<window, status, actions, cycle, decided, ended>>

Statuses == {"open", "acknowledged", "resolved"}

Idle == [pc |-> "idle", rule |-> 0, todo |-> {}, cur |-> Nobody,
         new |-> {}, rows |-> {}, acts |-> {}, refs |-> {}, bad |-> FALSE]

Pcs == {"idle", "rule", "candidates", "found", "missing", "lost", "policy"}

TypeOK ==
  /\ window \in SUBSET Patterns
  /\ status \in [Patterns -> Statuses \cup {"none"}]
  /\ actions \in SUBSET Targets
  /\ cycle \in [Cycles ->
       [pc   : Pcs,
        rule : 0..(Len(Rules) + 1),
        todo : SUBSET Patterns,            \* candidates of the rule, not handled yet
        cur  : Patterns \cup {Nobody},     \* the candidate being handled
        new  : SUBSET Patterns,            \* rows inserted, not committed
        rows : SUBSET Patterns,            \* rows it has locked: inserted or updated
        acts : SUBSET Acting,              \* patterns it added an action for
        refs : SUBSET Acting,              \* those whose INSERT has been flushed
        bad  : BOOLEAN]]                   \* an INSERT waiting to be flushed will fail
  /\ decided \in [Patterns -> Statuses \cup {"none"}]
  /\ ended \in SUBSET Targets

Init ==
  /\ window = {}
  /\ status = [p \in Patterns |-> "none"]
  /\ actions = {}
  /\ cycle = [k \in Cycles |-> Idle]
  /\ decided = [p \in Patterns |-> "none"]
  /\ ended = {}

-----------------------------------------------------------------------------
(* Events come in, and leave the window of their rule.                     *)

Appear(p) ==
  /\ p \notin window
  /\ window' = window \cup {p}
  /\ UNCHANGED <<status, actions, cycle, decided, ended>>

Fade(p) ==
  /\ p \in window
  /\ window' = window \ {p}
  /\ UNCHANGED <<status, actions, cycle, decided, ended>>

-----------------------------------------------------------------------------
(* A cycle.                                                                *)

Goes(k, r) == cycle' = [cycle EXCEPT ![k] = r]

Inside == UNCHANGED <<window, status, actions, decided, ended>>

Begin(k) ==
  /\ cycle[k].pc = "idle"
  /\ Goes(k, [Idle EXCEPT !.pc = "rule", !.rule = 1])
  /\ Inside

Asking(k) == cycle[k].pc = "rule" /\ cycle[k].rule <= Len(Rules)

QueryRule(k) ==
  /\ Asking(k)
  /\ Goes(k, [cycle[k] EXCEPT !.pc = "candidates",
                              !.todo = Rules[cycle[k].rule] \cap window])
  /\ Inside

(* Mutation: Loki's error is an error of the whole host.                   *)
AfterLokiErrorAbort(c) == Idle

(* Loki's error costs the rule this cycle, not the host.                   *)
AfterLokiError(c) == [c EXCEPT !.rule = @ + 1]

QueryFails(k) ==
  /\ Asking(k)
  /\ Goes(k, AfterLokiError(cycle[k]))
  /\ Inside

(* The SELECT of the open alert; the actions added so far are flushed.     *)
SelectOpen(k, p) ==
  /\ cycle[k].pc = "candidates"
  /\ p \in cycle[k].todo
  /\ ~cycle[k].bad
  /\ Goes(k, [cycle[k] EXCEPT !.pc = IF status[p] = "open" THEN "found" ELSE "missing",
                              !.cur = p,
                              !.todo = @ \ {p},
                              !.refs = cycle[k].acts])
  /\ Inside

Holds(j, p) == p \in cycle[j].rows

(* PostgreSQL lets a write of the row wait for the transaction that has it.*)
Waits(k, j) ==
  /\ j # k
  /\ cycle[k].pc \in {"found", "missing"}
  /\ Holds(j, cycle[k].cur)

Free(k) == \A j \in Cycles : ~Waits(k, j)

(* Found: the row's count, times and text are updated, not its status.     *)
FlushUpdate(k) ==
  /\ cycle[k].pc = "found"
  /\ Free(k)
  /\ Goes(k, [cycle[k] EXCEPT !.pc = "policy", !.rows = @ \cup {cycle[k].cur}])
  /\ Inside

(* Nothing has changed since the last cycle: no UPDATE is sent.            *)
FlushNothing(k) ==
  /\ \/ cycle[k].pc = "found"
     \/ cycle[k].pc = "lost" /\ cycle[k].cur \notin Acting
  /\ Goes(k, [cycle[k] EXCEPT !.pc = "policy"])
  /\ Inside

(* Mutation: the alert is committed before its action is added.            *)
FlushInsertCommitting(k) ==
  /\ cycle[k].pc = "missing"
  /\ Free(k)
  /\ status[cycle[k].cur] = "none"
  /\ status' = [status EXCEPT ![cycle[k].cur] = "open"]
  /\ Goes(k, [cycle[k] EXCEPT !.pc = "policy"])
  /\ UNCHANGED <<window, actions, decided, ended>>

(* Missing: the INSERT succeeds when there is no row of any status.        *)
FlushInsert(k) ==
  /\ cycle[k].pc = "missing"
  /\ Free(k)
  /\ status[cycle[k].cur] = "none"
  /\ Goes(k, [cycle[k] EXCEPT !.pc = "policy",
                              !.new = @ \cup {cycle[k].cur},
                              !.rows = @ \cup {cycle[k].cur}])
  /\ Inside

(* The policy adds an action unless one is open for the target: one that   *)
(* is committed, or its own.                                               *)
Adds(k) ==
  /\ cycle[k].cur \in Acting
  /\ Target[cycle[k].cur] \notin actions \cup {Target[q] : q \in cycle[k].acts}

Policy(k) ==
  /\ cycle[k].pc = "policy"
  /\ Goes(k, [cycle[k] EXCEPT !.pc = "candidates",
                              !.cur = Nobody,
                              !.acts = IF Adds(k) THEN @ \cup {cycle[k].cur} ELSE @,
                              !.bad = @ \/ (Adds(k) /\ cycle[k].cur \in Unfit)])
  /\ Inside

NextRule(k) ==
  /\ cycle[k].pc = "candidates"
  /\ cycle[k].todo = {}
  /\ Goes(k, [cycle[k] EXCEPT !.pc = "rule", !.rule = @ + 1])
  /\ Inside

AtEnd(k) == cycle[k].pc = "rule" /\ cycle[k].rule > Len(Rules)

(* Mutation: an update writes the whole row back as it was read.           *)
RowWritten(k, p) == IF p \in cycle[k].rows THEN "open" ELSE status[p]

RowKept(k, p) == IF p \in cycle[k].new THEN "open" ELSE status[p]

Commit(k) ==
  /\ AtEnd(k)
  /\ ~cycle[k].bad
  /\ status' = [p \in Patterns |-> RowKept(k, p)]
  /\ actions' = actions \cup {Target[p] : p \in cycle[k].acts}
  /\ Goes(k, Idle)
  /\ UNCHANGED <<window, decided, ended>>

(* What makes a flush fail: the key is taken, the row is gone, an added    *)
(* action does not fit or its alert is gone, or the database ends a        *)
(* deadlock.                                                               *)
KeyTaken(k) ==
  cycle[k].pc = "missing" /\ Free(k) /\ status[cycle[k].cur] # "none"

Deadlocked(k) == \E j \in Cycles : Waits(k, j) /\ Waits(j, k)

FlushFails(k) ==
  \/ KeyTaken(k)
  \/ cycle[k].pc = "lost"
  \/ /\ cycle[k].bad
     /\ AtEnd(k) \/ (cycle[k].pc = "candidates" /\ cycle[k].todo # {})
  \/ Deadlocked(k)

(* Any exception rolls the host back; the next cycle begins anew.          *)
Rollback(k) ==
  /\ FlushFails(k)
  /\ Goes(k, Idle)
  /\ Inside

(* The worker is killed, or the database cannot be reached.                *)
Crash(k) ==
  /\ cycle[k].pc # "idle"
  /\ Goes(k, Idle)
  /\ Inside

-----------------------------------------------------------------------------
(* Operators, and the life of actions (module ActionDelivery).             *)

Unlocked(p) == \A k \in Cycles : ~Holds(k, p)

SetStatus(p, s) ==
  /\ status[p] # "none"
  /\ Unlocked(p)
  /\ status' = [status EXCEPT ![p] = s]
  /\ decided' = [decided EXCEPT ![p] = s]
  /\ UNCHANGED <<window, actions, cycle, ended>>

(* A cycle that has read the row, or whose unflushed action refers to it,  *)
(* will find it gone.                                                      *)
Losing(c, p) ==
  [c EXCEPT !.pc = IF c.cur = p /\ c.pc \in {"found", "policy"} THEN "lost" ELSE @,
            !.bad = @ \/ p \in c.acts]

DeleteAlert(p) ==
  /\ status[p] # "none"
  /\ Unlocked(p)
  /\ \A k \in Cycles : p \notin cycle[k].refs
  /\ status' = [status EXCEPT ![p] = "none"]
  /\ decided' = [decided EXCEPT ![p] = "none"]
  /\ cycle' = [k \in Cycles |-> Losing(cycle[k], p)]
  /\ UNCHANGED <<window, actions, ended>>

ActionEnds(t) ==
  /\ t \in actions
  /\ actions' = actions \ {t}
  /\ ended' = ended \cup {t}
  /\ UNCHANGED <<window, status, cycle, decided>>

-----------------------------------------------------------------------------
Flush(k) == FlushUpdate(k) \/ FlushNothing(k) \/ FlushInsert(k)

Working(k) ==
  \/ Begin(k) \/ QueryRule(k) \/ QueryFails(k)
  \/ \E p \in Patterns : SelectOpen(k, p)
  \/ Flush(k) \/ Policy(k) \/ NextRule(k) \/ Commit(k) \/ Rollback(k)

World == \E p \in Patterns : Appear(p) \/ Fade(p)

Operator == \E p \in Patterns : DeleteAlert(p) \/ \E s \in Statuses : SetStatus(p, s)

Next ==
  \/ World \/ Operator
  \/ \E k \in Cycles : Working(k) \/ Crash(k)
  \/ \E t \in Targets : ActionEnds(t)

Spec == Init /\ [][Next]_vars

(* The schedule starts cycle after cycle.                                  *)
Fairness == \A k \in Cycles : WF_vars(Working(k))

(* Loki answers the rule of pattern p now and again.                       *)
QueryFor(k, p) == QueryRule(k) /\ p \in Rules[cycle[k].rule]

Answered(p) == \A k \in Cycles : SF_vars(QueryFor(k, p))

(* Workers stay up, operators acknowledge what is open and resolve.        *)
Triage(p) ==
  \/ status[p] = "open" /\ SetStatus(p, "acknowledged")
  \/ status[p] \in {"open", "acknowledged"} /\ SetStatus(p, "resolved")

TriageNext ==
  \/ World \/ \E k \in Cycles : Working(k)
  \/ \E t \in Targets : ActionEnds(t)
  \/ \E p \in Patterns : Triage(p)

TriageSpec == Init /\ [][TriageNext]_vars /\ Fairness

=============================================================================
