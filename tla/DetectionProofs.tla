---------------------------- MODULE DetectionProofs ----------------------------
(***************************************************************************)
(* What overlapping cycles and operators leave of the alerts, for any      *)
(* rules, patterns and number of cycles.                                   *)
(***************************************************************************)
EXTENDS DetectionProps, TLAPS

(* The transactions a cycle may be in.                                     *)
Transaction ==
  [pc   : Pcs,
   rule : 0..(Len(Rules) + 1),
   todo : SUBSET Patterns,
   cur  : Patterns \cup {Nobody},
   new  : SUBSET Patterns,
   rows : SUBSET Patterns,
   acts : SUBSET Acting,
   refs : SUBSET Acting,
   bad  : BOOLEAN]

LEMMA CycleType == TypeOK => cycle \in [Cycles -> Transaction]
  BY DEF TypeOK, Transaction

LEMMA RulesType ==
  /\ Len(Rules) \in Nat
  /\ \A i \in 1..Len(Rules) : Rules[i] \subseteq Patterns
  BY RulesAssumption

LEMMA IdleType ==
  /\ Idle \in Transaction
  /\ [Idle EXCEPT !.pc = "rule", !.rule = 1] \in Transaction
<1>1. Idle \in Transaction
  BY RulesType DEF Idle, Transaction, Pcs
<1>2. 1 \in 0..(Len(Rules) + 1) /\ "rule" \in Pcs
  BY RulesType DEF Pcs
<1> QED
  BY <1>1, <1>2 DEF Transaction

(* Writing one cycle's entry leaves the other cycles as they are.          *)
LEMMA OneCycle ==
  ASSUME TypeOK, NEW k \in Cycles, NEW r \in Transaction, Goes(k, r)
  PROVE  /\ cycle' \in [Cycles -> Transaction]
         /\ cycle'[k] = r
         /\ \A j \in Cycles : j # k => cycle'[j] = cycle[j]
  BY CycleType DEF Goes

(* A step inside a transaction that ends it, or that has just begun it.    *)
LEMMA Emptied ==
  ASSUME IInv, NEW k \in Cycles, NEW r \in Transaction, Goes(k, r), Inside,
         Shaped(r), r.new = {}, r.rows = {}
  PROVE  IInv'
<1>0. TypeOK /\ ShapeInv /\ LockInv /\ ResponseInv /\ DecisionStands /\ AlertHasAction
  BY DEF IInv
<1>1. /\ cycle' \in [Cycles -> Transaction]
      /\ cycle'[k] = r
      /\ \A j \in Cycles : j # k => cycle'[j] = cycle[j]
  BY <1>0, OneCycle
<1>2. TypeOK'
  BY <1>0, <1>1 DEF TypeOK, Inside, Transaction
<1>3. LockInv'
  BY <1>0, <1>1 DEF LockInv, Inside
<1>4. ResponseInv'
  BY <1>0, <1>1 DEF ResponseInv, Responded, Inside
<1>5. DecisionStands' /\ AlertHasAction'
  BY <1>0 DEF DecisionStands, AlertHasAction, Inside
<1>6. ShapeInv'
  BY <1>0, <1>1 DEF ShapeInv
<1> QED
  BY <1>2, <1>3, <1>4, <1>5, <1>6 DEF IInv

(* A step inside a transaction that locks no row and inserts none.         *)
LEMMA Neutral ==
  ASSUME IInv, NEW k \in Cycles, NEW r \in Transaction, Goes(k, r), Inside,
         r.new = cycle[k].new, r.rows = cycle[k].rows, r.acts = cycle[k].acts,
         Shaped(r), cycle[k].pc # "policy"
  PROVE  IInv'
<1>0. TypeOK /\ ShapeInv /\ LockInv /\ ResponseInv /\ DecisionStands /\ AlertHasAction
  BY DEF IInv
<1>1. /\ cycle' \in [Cycles -> Transaction]
      /\ cycle'[k] = r
      /\ \A j \in Cycles : j # k => cycle'[j] = cycle[j]
  BY <1>0, OneCycle
<1>2. TypeOK'
  BY <1>0, <1>1 DEF TypeOK, Inside, Transaction
<1>3. \A j \in Cycles : cycle'[j].new = cycle[j].new /\ cycle'[j].rows = cycle[j].rows
  BY <1>1
<1>4. LockInv'
  BY <1>0, <1>3 DEF LockInv, Inside
<1>5. ASSUME NEW j \in Cycles, NEW p \in cycle'[j].new \cap Acting
      PROVE  Responded(j, p)'
  <2>1. p \in cycle[j].new \cap Acting /\ Responded(j, p)
    BY <1>0, <1>3, <1>5 DEF ResponseInv
  <2>2. CASE j = k
    <3>1. Target[p] \in actions \cup ended \cup {Target[q] : q \in cycle[k].acts}
      BY <2>1, <2>2 DEF Responded
    <3> QED
      BY <1>1, <2>2, <3>1 DEF Responded, Inside
  <2>3. CASE j # k
    BY <1>1, <2>1, <2>3 DEF Responded, Inside
  <2> QED
    BY <2>2, <2>3
<1>6. ResponseInv'
  BY <1>5 DEF ResponseInv
<1>7. DecisionStands' /\ AlertHasAction'
  BY <1>0 DEF DecisionStands, AlertHasAction, Inside
<1>8. ShapeInv'
  BY <1>0, <1>1 DEF ShapeInv
<1> QED
  BY <1>2, <1>4, <1>6, <1>7, <1>8 DEF IInv

(* The UPDATE locks a row that no other transaction has.                   *)
LEMMA FlushUpdateInv ==
  ASSUME IInv, NEW k \in Cycles, FlushUpdate(k)
  PROVE  IInv'
<1> DEFINE c == cycle[k]
           r == [c EXCEPT !.pc = "policy", !.rows = @ \cup {c.cur}]
<1>0. TypeOK /\ ShapeInv /\ LockInv /\ ResponseInv /\ DecisionStands /\ AlertHasAction
  BY DEF IInv
<1>1. c \in Transaction /\ c.pc = "found" /\ c.cur \in Patterns /\ Shaped(c)
  BY <1>0, CycleType DEF FlushUpdate, ShapeInv, Shaped
<1>2. /\ r \in Transaction
      /\ r.pc = "policy" /\ r.new = c.new /\ r.acts = c.acts
      /\ r.rows = c.rows \cup {c.cur} /\ r.rule = c.rule /\ r.cur = c.cur
  BY <1>1 DEF Transaction, Pcs
<1>3. /\ cycle' \in [Cycles -> Transaction]
      /\ cycle'[k] = r
      /\ \A j \in Cycles : j # k => cycle'[j] = cycle[j]
  BY <1>0, <1>2, OneCycle DEF FlushUpdate
<1>4. \A j \in Cycles : j # k => c.cur \notin cycle[j].rows
  BY <1>1 DEF FlushUpdate, Free, Waits, Holds
<1> HIDE DEF r
<1>5. TypeOK'
  BY <1>0, <1>3 DEF TypeOK, FlushUpdate, Inside, Transaction
<1>6. ShapeInv'
  BY <1>0, <1>1, <1>2, <1>3 DEF ShapeInv, Shaped
<1>7. LockInv'
  BY <1>0, <1>2, <1>3, <1>4 DEF LockInv, FlushUpdate, Inside
<1>8. ASSUME NEW j \in Cycles, NEW p \in cycle'[j].new \cap Acting
      PROVE  Responded(j, p)'
  <2>1. p \in cycle[j].new \cap Acting /\ Responded(j, p)
    BY <1>0, <1>2, <1>3, <1>8 DEF ResponseInv
  <2> QED
    BY <1>1, <1>2, <1>3, <2>1 DEF Responded, FlushUpdate, Inside
<1>9. ResponseInv' /\ DecisionStands' /\ AlertHasAction'
  BY <1>0, <1>8 DEF ResponseInv, DecisionStands, AlertHasAction, FlushUpdate, Inside
<1> QED
  BY <1>5, <1>6, <1>7, <1>9 DEF IInv

(* The INSERT makes a row of a pattern that has none; the policy is next.  *)
LEMMA FlushInsertInv ==
  ASSUME IInv, NEW k \in Cycles, FlushInsert(k)
  PROVE  IInv'
<1> DEFINE c == cycle[k]
           r == [c EXCEPT !.pc = "policy", !.new = @ \cup {c.cur},
                          !.rows = @ \cup {c.cur}]
<1>0. TypeOK /\ ShapeInv /\ LockInv /\ ResponseInv /\ DecisionStands /\ AlertHasAction
  BY DEF IInv
<1>1. /\ c \in Transaction /\ c.pc = "missing" /\ c.cur \in Patterns /\ Shaped(c)
      /\ status[c.cur] = "none"
  BY <1>0, CycleType DEF FlushInsert, ShapeInv, Shaped
<1>2. /\ r \in Transaction
      /\ r.pc = "policy" /\ r.new = c.new \cup {c.cur} /\ r.acts = c.acts
      /\ r.rows = c.rows \cup {c.cur} /\ r.rule = c.rule /\ r.cur = c.cur
  BY <1>1 DEF Transaction, Pcs
<1>3. /\ cycle' \in [Cycles -> Transaction]
      /\ cycle'[k] = r
      /\ \A j \in Cycles : j # k => cycle'[j] = cycle[j]
  BY <1>0, <1>2, OneCycle DEF FlushInsert
<1>4. \A j \in Cycles : j # k => c.cur \notin cycle[j].rows
  BY <1>1 DEF FlushInsert, Free, Waits, Holds
<1> HIDE DEF r
<1>5. TypeOK'
  BY <1>0, <1>3 DEF TypeOK, FlushInsert, Inside, Transaction
<1>6. ShapeInv'
  BY <1>0, <1>1, <1>2, <1>3 DEF ShapeInv, Shaped
<1>7. LockInv'
  BY <1>0, <1>1, <1>2, <1>3, <1>4 DEF LockInv, FlushInsert, Inside
<1>8. ASSUME NEW j \in Cycles, NEW p \in cycle'[j].new \cap Acting
      PROVE  Responded(j, p)'
  <2>1. CASE j = k /\ p = c.cur
    BY <1>2, <1>3, <2>1 DEF Responded
  <2>2. CASE ~(j = k /\ p = c.cur)
    <3>1. p \in cycle[j].new \cap Acting /\ Responded(j, p)
      BY <1>0, <1>2, <1>3, <1>8, <2>2 DEF ResponseInv
    <3> QED
      BY <1>1, <1>2, <1>3, <3>1 DEF Responded, FlushInsert, Inside
  <2> QED
    BY <2>1, <2>2
<1>9. ResponseInv' /\ DecisionStands' /\ AlertHasAction'
  BY <1>0, <1>8 DEF ResponseInv, DecisionStands, AlertHasAction, FlushInsert, Inside
<1> QED
  BY <1>5, <1>6, <1>7, <1>9 DEF IInv

(* The policy adds the action of the alert, or has found one.              *)
LEMMA PolicyInv ==
  ASSUME IInv, NEW k \in Cycles, Policy(k)
  PROVE  IInv'
<1> DEFINE c == cycle[k]
           r == [c EXCEPT !.pc = "candidates", !.cur = Nobody,
                          !.acts = IF Adds(k) THEN @ \cup {c.cur} ELSE @,
                          !.bad = @ \/ (Adds(k) /\ c.cur \in Unfit)]
<1>0. TypeOK /\ ShapeInv /\ LockInv /\ ResponseInv /\ DecisionStands /\ AlertHasAction
  BY DEF IInv
<1>1. c \in Transaction /\ c.pc = "policy" /\ c.cur \in Patterns /\ Shaped(c)
  BY <1>0, CycleType DEF Policy, ShapeInv, Shaped
<1>a. /\ Adds(k) \in BOOLEAN
      /\ Adds(k) => c.cur \in Acting
      /\ c.cur \in Acting /\ ~Adds(k)
           => Target[c.cur] \in actions \cup {Target[q] : q \in c.acts}
  BY DEF Adds
<1>2. /\ r \in Transaction
      /\ r.pc = "candidates" /\ r.new = c.new /\ r.rows = c.rows /\ r.rule = c.rule
      /\ r.acts = IF Adds(k) THEN c.acts \cup {c.cur} ELSE c.acts
  <2> HIDE DEF Adds
  <2> QED
    BY <1>1, <1>a DEF Transaction, Pcs
<1>3. /\ cycle' \in [Cycles -> Transaction]
      /\ cycle'[k] = r
      /\ \A j \in Cycles : j # k => cycle'[j] = cycle[j]
  BY <1>0, <1>2, OneCycle DEF Policy
<1> HIDE DEF r
<1>5. TypeOK'
  BY <1>0, <1>3 DEF TypeOK, Policy, Inside, Transaction
<1>6. ShapeInv'
  BY <1>0, <1>1, <1>2, <1>3 DEF ShapeInv, Shaped
<1>7. LockInv'
  BY <1>0, <1>2, <1>3 DEF LockInv, Policy, Inside
<1>8. ASSUME NEW j \in Cycles, NEW p \in cycle'[j].new \cap Acting
      PROVE  Responded(j, p)'
  <2>1. p \in cycle[j].new \cap Acting /\ Responded(j, p)
    BY <1>0, <1>2, <1>3, <1>8 DEF ResponseInv
  <2>2. CASE j # k
    BY <1>3, <2>1, <2>2 DEF Responded, Policy, Inside
  <2>3. CASE j = k /\ p = c.cur
    <3>1. Target[p] \in actions \cup {Target[q] : q \in r.acts}
      BY <1>2, <1>a, <2>1, <2>3
    <3> QED
      BY <1>3, <2>3, <3>1 DEF Responded, Policy, Inside
  <2>4. CASE j = k /\ p # c.cur
    <3>1. Target[p] \in actions \cup ended \cup {Target[q] : q \in c.acts}
      BY <2>1, <2>4 DEF Responded
    <3>2. c.acts \subseteq r.acts
      BY <1>2
    <3> QED
      BY <1>3, <2>4, <3>1, <3>2 DEF Responded, Policy, Inside
  <2> QED
    BY <2>2, <2>3, <2>4
<1>9. ResponseInv' /\ DecisionStands' /\ AlertHasAction'
  BY <1>0, <1>8 DEF ResponseInv, DecisionStands, AlertHasAction, Policy, Inside
<1> QED
  BY <1>5, <1>6, <1>7, <1>9 DEF IInv

(* The commit makes rows that nobody has, with the actions they call for.  *)
LEMMA CommitInv ==
  ASSUME IInv, NEW k \in Cycles, Commit(k)
  PROVE  IInv'
<1>0. TypeOK /\ ShapeInv /\ LockInv /\ ResponseInv /\ DecisionStands /\ AlertHasAction
  BY DEF IInv
<1>1. cycle[k] \in Transaction /\ cycle[k].pc = "rule"
  BY <1>0, CycleType DEF Commit, AtEnd
<1>2. Idle.new = {} /\ Idle.rows = {} /\ Shaped(Idle)
  BY DEF Idle, Shaped
<1>3. /\ cycle' \in [Cycles -> Transaction]
      /\ cycle'[k] = Idle
      /\ \A j \in Cycles : j # k => cycle'[j] = cycle[j]
  BY <1>0, IdleType, OneCycle DEF Commit
<1>4. /\ \A p \in Patterns :
           status'[p] = IF p \in cycle[k].new THEN "open" ELSE status[p]
      /\ status' \in [Patterns -> Statuses \cup {"none"}]
      /\ decided' = decided /\ ended' = ended /\ window' = window
  BY <1>0 DEF Commit, RowKept, TypeOK, Statuses
<1>5. /\ actions' = actions \cup {Target[p] : p \in cycle[k].acts}
      /\ actions' \subseteq Targets
  BY <1>0, <1>1, ActingAssumption DEF Commit, TypeOK, Transaction
<1>6. TypeOK'
  BY <1>0, <1>3, <1>4, <1>5 DEF TypeOK, Transaction
<1>7. ShapeInv'
  BY <1>0, <1>2, <1>3 DEF ShapeInv
<1>8. LockInv'
  <2>1. ASSUME NEW j \in Cycles, j # k, NEW p \in cycle[j].new
        PROVE  p \in cycle[j].rows /\ status'[p] = "none"
    <3>1. p \in cycle[j].rows /\ status[p] = "none" /\ p \notin cycle[k].new
      BY <1>0, <2>1 DEF LockInv
    <3>2. p \in Patterns
      BY <1>0, <2>1, CycleType DEF Transaction
    <3> QED
      BY <1>4, <3>1, <3>2
  <2> QED
    BY <1>0, <1>2, <1>3, <2>1 DEF LockInv
<1>9. ASSUME NEW j \in Cycles, NEW p \in cycle'[j].new \cap Acting
      PROVE  Responded(j, p)'
  <2>1. j # k
    BY <1>2, <1>3, <1>9
  <2>2. Responded(j, p)
    BY <1>0, <1>3, <1>9, <2>1 DEF ResponseInv
  <2> QED
    BY <1>3, <1>4, <1>5, <2>1, <2>2 DEF Responded
<1>10. ResponseInv'
  BY <1>9 DEF ResponseInv
<1>11. DecisionStands'
  <2>1. ASSUME NEW p \in Patterns, decided'[p] # "none"
        PROVE  status'[p] = decided'[p]
    <3>1. status[p] = decided[p] /\ status[p] # "none"
      BY <1>0, <1>4, <2>1 DEF DecisionStands
    <3>2. p \notin cycle[k].new
      BY <1>0, <3>1 DEF LockInv
    <3> QED
      BY <1>4, <3>1, <3>2
  <2> QED
    BY <2>1 DEF DecisionStands
<1>12. AlertHasAction'
  <2>1. ASSUME NEW p \in Acting, status'[p] # "none"
        PROVE  Target[p] \in actions' \cup ended'
    <3>1. p \in Patterns
      BY ActingAssumption
    <3>2. CASE p \in cycle[k].new
      BY <1>0, <1>1, <1>4, <1>5, <3>2 DEF ResponseInv, Responded
    <3>3. CASE p \notin cycle[k].new
      BY <1>0, <1>4, <1>5, <2>1, <3>1, <3>3 DEF AlertHasAction
    <3> QED
      BY <3>2, <3>3
  <2> QED
    BY <2>1 DEF AlertHasAction
<1> QED
  BY <1>6, <1>7, <1>8, <1>10, <1>11, <1>12 DEF IInv

(* An operator's PATCH waits for the transaction that has the row.         *)
LEMMA SetStatusInv ==
  ASSUME IInv, NEW p \in Patterns, NEW s \in Statuses, SetStatus(p, s)
  PROVE  IInv'
<1>0. TypeOK /\ ShapeInv /\ LockInv /\ ResponseInv /\ DecisionStands /\ AlertHasAction
  BY DEF IInv
<1>1. /\ status[p] # "none" /\ s # "none"
      /\ status' = [status EXCEPT ![p] = s] /\ decided' = [decided EXCEPT ![p] = s]
      /\ UNCHANGED <<window, actions, cycle, ended>>
  BY DEF SetStatus, Statuses
<1>2. TypeOK'
  BY <1>0, <1>1 DEF TypeOK
<1>3. ShapeInv'
  BY <1>0, <1>1 DEF ShapeInv
<1>4. LockInv'
  BY <1>0, <1>1 DEF LockInv, TypeOK
<1>5. ResponseInv'
  BY <1>0, <1>1 DEF ResponseInv, Responded
<1>6. DecisionStands'
  BY <1>0, <1>1 DEF DecisionStands, TypeOK
<1>7. AlertHasAction'
  BY <1>0, <1>1 DEF AlertHasAction, TypeOK
<1> QED
  BY <1>2, <1>3, <1>4, <1>5, <1>6, <1>7 DEF IInv

(* What a cycle keeps when the row it has read is deleted.                 *)
LEMMA LosingType ==
  ASSUME NEW c \in Transaction, NEW p \in Patterns
  PROVE  /\ Losing(c, p) \in Transaction
         /\ Losing(c, p).new = c.new /\ Losing(c, p).rows = c.rows
         /\ Losing(c, p).acts = c.acts
         /\ Losing(c, p).rule = c.rule /\ Losing(c, p).cur = c.cur
         /\ Losing(c, p).pc = IF c.cur = p /\ c.pc \in {"found", "policy"}
                              THEN "lost" ELSE c.pc
<1>1. (p \in c.acts) \in BOOLEAN /\ "lost" \in Pcs
  BY DEF Pcs
<1> QED
  BY <1>1 DEF Losing, Transaction

(* Nobody deletes a row that a transaction has inserted or updated.        *)
LEMMA DeleteAlertInv ==
  ASSUME IInv, NEW p \in Patterns, DeleteAlert(p)
  PROVE  IInv'
<1>0. TypeOK /\ ShapeInv /\ LockInv /\ ResponseInv /\ DecisionStands /\ AlertHasAction
  BY DEF IInv
<1>1. /\ status' = [status EXCEPT ![p] = "none"]
      /\ decided' = [decided EXCEPT ![p] = "none"]
      /\ cycle' = [k \in Cycles |-> Losing(cycle[k], p)]
      /\ UNCHANGED <<window, actions, ended>>
      /\ \A k \in Cycles : p \notin cycle[k].rows
  BY DEF DeleteAlert, Unlocked, Holds
<1>2. ASSUME NEW k \in Cycles
      PROVE  /\ cycle'[k] \in Transaction
             /\ cycle'[k].new = cycle[k].new /\ cycle'[k].rows = cycle[k].rows
             /\ cycle'[k].acts = cycle[k].acts
             /\ cycle'[k].rule = cycle[k].rule /\ cycle'[k].cur = cycle[k].cur
             /\ cycle'[k].pc = IF cycle[k].cur = p /\ cycle[k].pc \in {"found", "policy"}
                               THEN "lost" ELSE cycle[k].pc
  <2>1. cycle[k] \in Transaction /\ cycle'[k] = Losing(cycle[k], p)
    BY <1>0, <1>1, CycleType
  <2> QED
    BY <2>1, LosingType
<1>3. cycle' \in [Cycles -> Transaction]
  BY <1>1, <1>2
<1>4. TypeOK'
  BY <1>0, <1>1, <1>3 DEF TypeOK, Transaction
<1>5. ShapeInv'
  BY <1>0, <1>2 DEF ShapeInv, Shaped
<1>6. LockInv'
  BY <1>0, <1>1, <1>2 DEF LockInv, TypeOK
<1>7. ASSUME NEW k \in Cycles, NEW q \in cycle'[k].new \cap Acting
      PROVE  Responded(k, q)'
  <2>1. q \in cycle[k].new \cap Acting /\ Responded(k, q) /\ q \in cycle[k].rows
    BY <1>0, <1>2, <1>7 DEF ResponseInv, LockInv
  <2>2. q # p
    BY <1>1, <2>1
  <2> QED
    BY <1>1, <1>2, <2>1, <2>2 DEF Responded
<1>8. ResponseInv'
  BY <1>7 DEF ResponseInv
<1>9. DecisionStands' /\ AlertHasAction'
  BY <1>0, <1>1, ActingAssumption DEF DecisionStands, AlertHasAction, TypeOK
<1> QED
  BY <1>4, <1>5, <1>6, <1>8, <1>9 DEF IInv

(* An action that ends is remembered, and the window is the world's.       *)
LEMMA OutsideInv ==
  ASSUME IInv,
         \/ World
         \/ \E t \in Targets : ActionEnds(t)
  PROVE  IInv'
<1>0. TypeOK /\ ShapeInv /\ LockInv /\ ResponseInv /\ DecisionStands /\ AlertHasAction
  BY DEF IInv
<1>1. /\ UNCHANGED <<status, cycle, decided>>
      /\ actions' \subseteq Targets /\ ended' \subseteq Targets
      /\ actions' \cup ended' = actions \cup ended
      /\ window' \subseteq Patterns
  BY <1>0 DEF World, Appear, Fade, ActionEnds, TypeOK
<1>2. TypeOK'
  BY <1>0, <1>1 DEF TypeOK
<1>3. ShapeInv' /\ LockInv' /\ DecisionStands'
  BY <1>0, <1>1 DEF ShapeInv, LockInv, DecisionStands
<1>4. ResponseInv' /\ AlertHasAction'
  BY <1>0, <1>1 DEF ResponseInv, Responded, AlertHasAction
<1> QED
  BY <1>2, <1>3, <1>4 DEF IInv

LEMMA InitInv == Init => IInv
<1> SUFFICES ASSUME Init PROVE IInv
  OBVIOUS
<1>1. /\ \A k \in Cycles : /\ cycle[k] = Idle
                           /\ cycle[k].new = {} /\ cycle[k].rows = {}
                           /\ Shaped(cycle[k])
      /\ cycle \in [Cycles -> Transaction]
  BY IdleType DEF Init, Idle, Shaped
<1>2. TypeOK
  BY <1>1 DEF Init, TypeOK, Transaction
<1>3. ShapeInv /\ LockInv /\ ResponseInv
  BY <1>1 DEF ShapeInv, LockInv, ResponseInv
<1>4. DecisionStands /\ AlertHasAction
  BY ActingAssumption DEF Init, DecisionStands, AlertHasAction
<1> QED
  BY <1>2, <1>3, <1>4 DEF IInv

(* Steps that only move on inside the transaction.                         *)
LEMMA MovesOnInv ==
  ASSUME IInv, NEW k \in Cycles,
         \/ QueryRule(k) \/ QueryFails(k) \/ FlushNothing(k) \/ NextRule(k)
         \/ \E p \in Patterns : SelectOpen(k, p)
  PROVE  IInv'
<1> DEFINE c == cycle[k]
<1>0. c \in Transaction /\ Shaped(c) /\ c.rule \in Nat /\ Len(Rules) \in Nat
  BY CycleType, RulesType DEF IInv, ShapeInv, Transaction
<1>1. CASE QueryRule(k)
  <2> DEFINE r == [c EXCEPT !.pc = "candidates", !.todo = Rules[c.rule] \cap window]
  <2>1. c.rule \in 1..Len(Rules)
    BY <1>0, <1>1 DEF QueryRule, Asking, Shaped
  <2>2. Rules[c.rule] \cap window \subseteq Patterns
    BY <2>1, RulesType
  <2>3. /\ r \in Transaction
        /\ r.pc = "candidates" /\ r.rule = c.rule
        /\ r.new = c.new /\ r.rows = c.rows /\ r.acts = c.acts
    BY <1>0, <2>2 DEF Transaction, Pcs
  <2>4. Shaped(r)
    BY <2>1, <2>3 DEF Shaped
  <2>5. Goes(k, r) /\ Inside /\ c.pc # "policy"
    BY <1>1 DEF QueryRule, Asking
  <2> HIDE DEF r
  <2> QED
    BY <2>3, <2>4, <2>5, Neutral
<1>2. CASE QueryFails(k)
  <2> DEFINE r == [c EXCEPT !.rule = @ + 1]
  <2>1. c.pc = "rule" /\ c.rule <= Len(Rules)
    BY <1>2 DEF QueryFails, Asking
  <2>2. r \in Transaction /\ Shaped(r)
        /\ r.new = c.new /\ r.rows = c.rows /\ r.acts = c.acts
    BY <1>0, <2>1 DEF Transaction, Pcs, Shaped
  <2> QED
    BY <1>2, <2>1, <2>2, Neutral DEF QueryFails, AfterLokiError
<1>3. CASE FlushNothing(k)
  <2> DEFINE r == [c EXCEPT !.pc = "policy"]
  <2>1. c.pc \in {"found", "lost"}
    BY <1>3 DEF FlushNothing
  <2>2. r \in Transaction /\ Shaped(r)
        /\ r.new = c.new /\ r.rows = c.rows /\ r.acts = c.acts
    BY <1>0, <2>1 DEF Transaction, Pcs, Shaped
  <2> QED
    BY <1>3, <2>1, <2>2, Neutral DEF FlushNothing
<1>4. CASE NextRule(k)
  <2> DEFINE r == [c EXCEPT !.pc = "rule", !.rule = @ + 1]
  <2>1. c.pc = "candidates" /\ c.rule \in 1..Len(Rules)
    BY <1>0, <1>4 DEF NextRule, Shaped
  <2>2. c.rule + 1 \in 0..(Len(Rules) + 1) /\ c.rule + 1 >= 1
    BY <1>0, <2>1
  <2>3. /\ r \in Transaction
        /\ r.pc = "rule" /\ r.rule = c.rule + 1
        /\ r.new = c.new /\ r.rows = c.rows /\ r.acts = c.acts
    BY <1>0, <2>2 DEF Transaction, Pcs
  <2>4. Shaped(r)
    BY <2>2, <2>3 DEF Shaped
  <2>5. Goes(k, r) /\ Inside
    BY <1>4 DEF NextRule
  <2> HIDE DEF r
  <2> QED
    BY <2>1, <2>3, <2>4, <2>5, Neutral
<1>5. ASSUME NEW p \in Patterns, SelectOpen(k, p)
      PROVE  IInv'
  <2> DEFINE r == [c EXCEPT !.pc = IF status[p] = "open" THEN "found" ELSE "missing",
                            !.cur = p, !.todo = @ \ {p}, !.refs = c.acts]
  <2>1. c.pc = "candidates"
    BY <1>5 DEF SelectOpen
  <2>2. r \in Transaction /\ Shaped(r)
        /\ r.new = c.new /\ r.rows = c.rows /\ r.acts = c.acts
    BY <1>0, <2>1 DEF Transaction, Pcs, Shaped
  <2> QED
    BY <1>5, <2>1, <2>2, Neutral DEF SelectOpen
<1> QED
  BY <1>1, <1>2, <1>3, <1>4, <1>5

(* Steps that begin a transaction, or leave nothing of it.                 *)
LEMMA EmptiesInv ==
  ASSUME IInv, NEW k \in Cycles, Begin(k) \/ Rollback(k) \/ Crash(k)
  PROVE  IInv'
<1> DEFINE r == [Idle EXCEPT !.pc = "rule", !.rule = 1]
<1>1. /\ Shaped(Idle) /\ Idle.new = {} /\ Idle.rows = {}
      /\ Shaped(r) /\ r.new = {} /\ r.rows = {}
  BY DEF Idle, Shaped
<1>2. CASE Begin(k)
  BY <1>1, <1>2, IdleType, Emptied DEF Begin
<1>3. CASE Rollback(k) \/ Crash(k)
  BY <1>1, <1>3, IdleType, Emptied DEF Rollback, Crash
<1> QED
  BY <1>2, <1>3

LEMMA NextInv == IInv /\ [Next]_vars => IInv'
<1> SUFFICES ASSUME IInv, [Next]_vars PROVE IInv'
  OBVIOUS
<1>1. CASE UNCHANGED vars
  BY <1>1
  DEF vars, IInv, TypeOK, ShapeInv, LockInv, ResponseInv, Responded,
      DecisionStands, AlertHasAction
<1>2. CASE World \/ \E t \in Targets : ActionEnds(t)
  BY <1>2, OutsideInv
<1>3. CASE Operator
  BY <1>3, SetStatusInv, DeleteAlertInv DEF Operator
<1>4. ASSUME NEW k \in Cycles, Working(k) \/ Crash(k)
      PROVE  IInv'
  BY <1>4, MovesOnInv, EmptiesInv, FlushUpdateInv, FlushInsertInv, PolicyInv, CommitInv
  DEF Working, Flush
<1> QED
  BY <1>1, <1>2, <1>3, <1>4 DEF Next

(* Rows stay with their writer, and every alert a transaction inserts with *)
(* its response, whatever the cycles and the operators do.                 *)
THEOREM Invariance == Spec => []IInv
  BY InitInv, NextInv, PTL DEF Spec

(* No cycle undoes what an operator made of an alert, however many cycles  *)
(* overlap and whatever they had read before.                              *)
THEOREM DecisionStandsHolds == Spec => []DecisionStands
<1>1. IInv => DecisionStands
  BY DEF IInv
<1> QED
  BY <1>1, Invariance, PTL

(* No alert of a rule with a policy is ever visible without its response,  *)
(* whatever fails or crashes between the two.                              *)
THEOREM AlertHasActionHolds == Spec => []AlertHasAction
<1>1. IInv => AlertHasAction
  BY DEF IInv
<1> QED
  BY <1>1, Invariance, PTL

=============================================================================
