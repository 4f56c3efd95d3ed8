---------------------------- MODULE DetectionProps -----------------------------
(***************************************************************************)
(* What is checked of Detection.                                           *)
(***************************************************************************)
EXTENDS Detection

(* What an operator made of an alert stands until an operator changes it:  *)
(* a cycle that read the alert open and updates it after the operator's    *)
(* PATCH does not open it again.                                           *)
DecisionStands ==
  \A p \in Patterns : decided[p] # "none" => status[p] = decided[p]

(* An alert of a rule with a policy is never visible without its response: *)
(* when a crash or an error comes between the two, neither stays.          *)
AlertHasAction ==
  \A p \in Acting : status[p] # "none" => Target[p] \in actions \cup ended

-----------------------------------------------------------------------------
(* Why both hold.  A row is written by one transaction at a time, and one  *)
(* that is inserted is nobody else's until its commit.                     *)
LockInv ==
  \A k \in Cycles :
    /\ \A j \in Cycles : j # k => cycle[j].rows \cap cycle[k].rows = {}
    /\ \A p \in cycle[k].new : p \in cycle[k].rows /\ status[p] = "none"

(* The response to an inserted alert: there, added, or the policy is next. *)
Responded(k, p) ==
  \/ Target[p] \in actions \cup ended \cup {Target[q] : q \in cycle[k].acts}
  \/ cycle[k].pc = "policy" /\ cycle[k].cur = p

ResponseInv == \A k \in Cycles : \A p \in cycle[k].new \cap Acting : Responded(k, p)

(* Inside a rule there is a rule, and inside a candidate a candidate.      *)
Shaped(c) ==
  /\ c.pc # "idle" => c.rule >= 1
  /\ c.pc \notin {"idle", "rule"} => c.rule <= Len(Rules)
  /\ c.pc \in {"found", "missing", "lost", "policy"} => c.cur \in Patterns

ShapeInv == \A k \in Cycles : Shaped(cycle[k])

IInv ==
  /\ TypeOK /\ ShapeInv /\ LockInv /\ ResponseInv
  /\ DecisionStands /\ AlertHasAction

-----------------------------------------------------------------------------
(* Cycles that overlap may fail one another's flush (unique key, deadlock) *)
(* and Loki may never answer the other rules; still, a pattern that lasts  *)
(* gets its alert, whatever operators do with the alerts of patterns that  *)
(* are over.  An alert that was acknowledged or resolved and whose pattern *)
(* goes on is Stuck: its key is taken and the lookup does not find it, so  *)
(* that each cycle which meets it fails and takes the others with it.      *)
Stuck(p) == p \in window /\ status[p] \in {"acknowledged", "resolved"}

EveryPatternAlerted ==
  \A p \in Patterns :
    Answered(p) =>
      (p \in window ~> status[p] # "none" \/ p \notin window \/ \E q \in Patterns : Stuck(q))

=============================================================================
