--------------------------- MODULE ActionLifecycle ---------------------------
(***************************************************************************)
(* What the platform promises about one action, whatever the heartbeats,   *)
(* retries and concurrent writers do.  Every action moves by itself; a     *)
(* step of the system moves any number of them.                            *)
(***************************************************************************)
CONSTANT Ids

VARIABLES
  status,   \* the row's status, "none" before and "deleted" after its life
  outcome   \* what the one execution on the host gave, "none" before it

Outcomes == {"executed", "failed"}

Init ==
  /\ status = [a \in Ids |-> "none"]
  /\ outcome = [a \in Ids |-> "none"]

Create(a) ==
  /\ status[a] = "none"
  /\ status'[a] = "pending"
  /\ outcome'[a] = outcome[a]

(* An action goes out once at most, and never after it has run. One whose  *)
(* revert races the heartbeat goes out as well.                            *)
Send(a) ==
  /\ status[a] \in {"pending", "reverted"}
  /\ outcome[a] = "none"
  /\ status'[a] = "sent"
  /\ outcome'[a] = outcome[a]

(* It runs once, and only after the server recorded it as sent.            *)
Run(a) ==
  /\ status[a] \in {"sent", "reverted", "deleted"}
  /\ outcome[a] = "none"
  /\ outcome'[a] \in Outcomes
  /\ status'[a] = status[a]

(* What the server records is what happened on the host; the answer may    *)
(* come after the action was reverted.                                     *)
Report(a) ==
  /\ status[a] \in {"sent", "reverted"}
  /\ outcome[a] \in Outcomes
  /\ status'[a] = outcome[a]
  /\ outcome'[a] = outcome[a]

Revert(a) ==
  /\ status[a] \in Outcomes \cup {"pending", "sent"}
  /\ status'[a] = "reverted"
  /\ outcome'[a] = outcome[a]

Delete(a) ==
  /\ status[a] \notin {"none", "deleted"}
  /\ status'[a] = "deleted"
  /\ outcome'[a] = outcome[a]

Rest(a) == status'[a] = status[a] /\ outcome'[a] = outcome[a]

Step(a) ==
  \/ Create(a) \/ Send(a) \/ Run(a) \/ Report(a) \/ Revert(a) \/ Delete(a)
  \/ Rest(a)

Next == \A a \in Ids : Step(a)

Spec == Init /\ [][Next]_<<status, outcome>>

=============================================================================
