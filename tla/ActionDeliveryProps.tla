------------------------- MODULE ActionDeliveryProps -------------------------
(***************************************************************************)
(* What is checked of ActionDelivery.                                      *)
(***************************************************************************)
EXTENDS ActionDelivery

(* No command runs twice, however calls time out, overlap and are retried: *)
(* a row leaves "pending" in the commit that sends it (agent_servicer).    *)
AtMostOnce == \A a \in Ids : ran[a] <= 1

(* A command only reaches the agent of the host its action is about.       *)
OwnHost ==
  \A h \in Hosts : \A a \in agent[h].todo \cup agent[h].batch : row[a].host = h

(* The table never tells of an execution that did not happen, nor calls a  *)
(* failed one executed (_apply_command_results).                           *)
StatusTruth ==
  \A a \in Ids : status[a] \in Outcomes => status[a] = outcome[a]

(* While an agent stays up, the result of what it ran is in its memory as  *)
(* long as the table still says "sent": the error path of tick gives the   *)
(* taken results back.                                                     *)
NoResultLost ==
  \A a \in Ids :
    status[a] = "sent" /\ ran[a] > 0 /\ a \notin forgotten
      => \E h \in Hosts :
           a \in agent[h].results \cup agent[h].taken \cup agent[h].batch

(* An unblock_ip exists only for an address that a block_ip of the same    *)
(* host really blocked (revert_action).                                    *)
UnblockIsJustified ==
  \A b \in Ids :
    row[b] # NoRow /\ row[b].kind = "unblock_ip"
      => \E a \in Ids : /\ row[a] # NoRow
                        /\ row[a] = [row[b] EXCEPT !.kind = "block_ip"]
                        /\ outcome[a] = "executed"

(* The table with its handlers implements the life of an action.           *)
Lifecycle == INSTANCE ActionLifecycle
ImplementsLifecycle == Lifecycle!Spec

(* When no answer is given up, every action gets an end: the retry of tick *)
(* and the next heartbeat deliver it, however many handlers fail.          *)
EverySettles ==
  \A a \in Ids : status[a] = "pending" ~> status[a] \notin {"pending", "sent"}

-----------------------------------------------------------------------------
(* The inductive invariant behind the safety properties.                   *)

Active(h, s) == call[h][s].phase \in {"started", "selected"}

(* An id has a row from its insert on.                                     *)
RowInv == \A a \in Ids : row[a] = NoRow <=> status[a] = "none"

(* The history, against the table: what has run was sent before.           *)
RanInv ==
  \A a \in Ids :
    /\ ran[a] \in {0, 1}
    /\ ran[a] = 0 <=> outcome[a] = "none"
    /\ status[a] \in {"none", "pending"} => ran[a] = 0

(* One active handler per host; one awaited call, only while waiting.      *)
CallInv ==
  \A h \in Hosts, s \in Slots :
    /\ \A u \in Slots : Active(h, s) /\ Active(h, u) => s = u
    /\ \A u \in Slots : call[h][s].live /\ call[h][u].live => s = u
    /\ call[h][s].live => agent[h].phase = "waiting"
    /\ call[h][s].phase \in {"replied", "failed"} => call[h][s].live
    /\ call[h][s].picks # {} => call[h][s].phase \in {"selected", "replied"}
    /\ call[h][s].results # {} => call[h][s].phase \in {"sent", "started", "selected"}

(* A command is in one place: selected, answered or to run.                *)
PickInv ==
  \A h \in Hosts, s \in Slots : \A a \in call[h][s].picks :
    /\ ran[a] = 0
    /\ status[a] # "none"
    /\ row[a].host = h
    /\ call[h][s].phase = "replied" => status[a] # "pending"
    /\ a \notin agent[h].todo
    /\ \A u \in Slots : a \in call[h][u].picks => u = s

TodoInv ==
  \A h \in Hosts :
    /\ agent[h].phase # "executing" => agent[h].todo = {}
    /\ agent[h].phase # "waiting" => agent[h].taken = {}
    /\ \A a \in agent[h].todo : /\ ran[a] = 0
                                /\ status[a] \notin {"none", "pending"}
                                /\ row[a].host = h

(* Results are of commands that ran on the host that reports them.         *)
ResultInv ==
  \A h \in Hosts :
    /\ \A a \in agent[h].results \cup agent[h].taken \cup agent[h].batch :
         ran[a] = 1 /\ row[a].host = h
    /\ \A s \in Slots : \A a \in call[h][s].results :
         ran[a] = 1 /\ row[a].host = h

(* What a handler loaded bounds what the row may have become.              *)
SeenInv ==
  \A h \in Hosts, s \in Slots :
    Active(h, s) =>
      \A a \in call[h][s].results :
        /\ call[h][s].seen[a] # "none"
        /\ call[h][s].seen[a] # "sent" => status[a] # "sent"
        /\ call[h][s].phase = "selected" /\ a \in Written(h, s) => Present(a)

(* The awaited call carries the taken results until they are committed.    *)
TakenInv ==
  \A h \in Hosts, s \in Slots :
    call[h][s].live =>
      /\ call[h][s].phase \in {"sent", "started", "selected"}
           => call[h][s].results = agent[h].taken
      /\ call[h][s].phase = "replied"
           => \A a \in agent[h].taken : status[a] # "sent"

(* What a client will insert, or loaded before its revert.                 *)
ClientInv ==
  \A o \in Clients :
    /\ client[o].op = "insert" => client[o].row.kind # "unblock_ip"
    /\ client[o].op = "revert" =>
         /\ status[client[o].id] # "none"
         /\ client[o].seen = "executed" => outcome[client[o].id] = "executed"

IInv ==
  /\ TypeOK /\ RowInv /\ RanInv /\ CallInv /\ PickInv /\ TodoInv
  /\ ResultInv /\ SeenInv /\ TakenInv /\ ClientInv
  /\ StatusTruth /\ NoResultLost /\ UnblockIsJustified

=============================================================================
