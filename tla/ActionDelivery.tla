---------------------------- MODULE ActionDelivery ----------------------------
(***************************************************************************)
(* Delivery of response actions to the agents, over heartbeats.            *)
(*                                                                         *)
(* The server keeps one row per action in the table "actions".  An agent   *)
(* calls Heartbeat every 30s: the call carries the results of the commands *)
(* it has run, the reply carries the host's pending actions as commands.   *)
(* Every other writer of the table (routers, detection worker) is a client *)
(* whose transaction reads first and writes later.                         *)
(*                                                                         *)
(* A handler is three steps, the points where its transaction reads or     *)
(* writes rows others may change: HbStart (the first read flushes the      *)
(* UPDATE of the host row, whose lock is held to the end), HbSelect        *)
(* (results flushed, pending rows read) and HbCommit.                      *)
(***************************************************************************)
EXTENDS Naturals, FiniteSets

CONSTANTS
  Hosts,        \* enrolled hosts, one agent each
  Ids,          \* action ids (uuid4: never reused)
  Targets,      \* what an action is applied to: an IP, a path
  ManualKinds,  \* action types operators create: scans, fail2ban, firewall
  PolicyKinds,  \* action types the policy creates besides block_ip
  Slots,        \* heartbeat calls of one host that may overlap (a bound)
  Clients,      \* transactions of other writers that may overlap (a bound)
  NoRow         \* the row of an id not allocated yet

Kinds == ManualKinds \cup PolicyKinds \cup {"block_ip", "unblock_ip"}

Row == [host : Hosts, kind : Kinds, target : Targets]

ASSUME NoRowAssumption == NoRow \notin Row

(* Only a revert creates an unblock_ip.                                    *)
ASSUME KindsAssumption == "unblock_ip" \notin ManualKinds \cup PolicyKinds

VARIABLES
  row,      \* row[a]: host, type and target of action a, never changed
  status,   \* status[a]: its column "status"; "none" before the insert
  call,     \* call[h][s]: a heartbeat call of h: request, handler, reply
  agent,    \* agent[h]: the memory of the heartbeat loop
  client,   \* client[o]: what another writer has read and will write
  ran,      \* history: how many times action a was executed by an agent
  outcome,  \* history: what its execution gave
  forgotten \* history: results an agent lost from memory when it stopped

serverVars == <<row, status>>
history == <<ran, outcome, forgotten>>
vars == <<row, status, call, agent, client, ran, outcome, forgotten>>

Outcomes == {"executed", "failed"}
Status == Outcomes \cup {"none", "pending", "sent", "reverted", "deleted"}
Open == {"pending", "sent"}

Present(a) == status[a] \notin {"none", "deleted"}

FreeCall == [phase |-> "free", live |-> FALSE, results |-> {}, picks |-> {},
             seen |-> [a \in Ids |-> "none"]]

IdleAgent == [phase |-> "idle", results |-> {}, taken |-> {}, todo |-> {},
              batch |-> {}]

IdleClient == [op |-> "idle"]

Call == [phase : {"free", "sent", "started", "selected", "replied", "failed"},
         live : BOOLEAN, results : SUBSET Ids, picks : SUBSET Ids,
         seen : [Ids -> Status]]

Agent == [phase : {"idle", "waiting", "executing"}, results : SUBSET Ids,
          taken : SUBSET Ids, todo : SUBSET Ids, batch : SUBSET Ids]

Client == {IdleClient} \cup [op : {"insert"}, row : Row]
                       \cup [op : {"revert"}, id : Ids, seen : Status]

(* Types of the variables. A result is the id of its command: its status   *)
(* is outcome[id], fixed by the execution that produced it.                *)
TypeOK ==
  /\ row \in [Ids -> Row \cup {NoRow}]
  /\ status \in [Ids -> Status]
  /\ call \in [Hosts -> [Slots -> Call]]
  /\ agent \in [Hosts -> Agent]
  /\ client \in [Clients -> Client]
  /\ ran \in [Ids -> Nat]
  /\ outcome \in [Ids -> Outcomes \cup {"none"}]
  /\ forgotten \in SUBSET Ids

Init ==
  /\ row = [a \in Ids |-> NoRow]
  /\ status = [a \in Ids |-> "none"]
  /\ call = [h \in Hosts |-> [s \in Slots |-> FreeCall]]
  /\ agent = [h \in Hosts |-> IdleAgent]
  /\ client = [o \in Clients |-> IdleClient]
  /\ ran = [a \in Ids |-> 0]
  /\ outcome = [a \in Ids |-> "none"]
  /\ forgotten = {}

-----------------------------------------------------------------------------
(* The heartbeat loop of an agent.                                         *)

(* A tick takes the queued results and sends them.                         *)
AgentTick(h, s) ==
  /\ agent[h].phase = "idle"
  /\ call[h][s].phase = "free"
  /\ call' = [call EXCEPT ![h][s] =
                [FreeCall EXCEPT !.phase = "sent", !.live = TRUE,
                                 !.results = agent[h].results]]
  /\ agent' = [agent EXCEPT ![h] =
                [@ EXCEPT !.phase = "waiting", !.taken = agent[h].results,
                          !.results = {}]]
  /\ UNCHANGED <<serverVars, client, history>>

(* A call the agent no longer awaits: an answer still on its way is lost,  *)
(* a request or a handler may go on.                                       *)
Abandoned(c) == IF c.phase \in {"sent", "started", "selected"}
                THEN [c EXCEPT !.live = FALSE] ELSE FreeCall

(* Mutation: an error drops the taken results.                             *)
AgentFailDropping(h, s) ==
  /\ agent[h].phase = "waiting"
  /\ call[h][s].live
  /\ call' = [call EXCEPT ![h][s] = Abandoned(@)]
  /\ agent' = [agent EXCEPT ![h] = [@ EXCEPT !.phase = "idle", !.taken = {}]]
  /\ UNCHANGED <<serverVars, client, history>>

(* The call ends in an error: the taken results go back to the queue.      *)
AgentFail(h, s) ==
  /\ agent[h].phase = "waiting"
  /\ call[h][s].live
  /\ call' = [call EXCEPT ![h][s] = Abandoned(@)]
  /\ agent' = [agent EXCEPT ![h] =
                [@ EXCEPT !.phase = "idle", !.taken = {},
                          !.results = agent[h].results \cup agent[h].taken]]
  /\ UNCHANGED <<serverVars, client, history>>

(* The error is the server's answer; or the deadline of 30s expired, or    *)
(* the connection broke, wherever the call was.                            *)
AgentError(h, s) == call[h][s].phase = "failed" /\ AgentFail(h, s)
AgentTimeout(h, s) == call[h][s].phase # "failed" /\ AgentFail(h, s)

(* The reply arrives: its commands are to be run, in the order the server  *)
(* listed them, which its SELECT leaves open.                              *)
AgentReceive(h, s) ==
  /\ agent[h].phase = "waiting"
  /\ call[h][s].live
  /\ call[h][s].phase = "replied"
  /\ call' = [call EXCEPT ![h][s] = FreeCall]
  /\ agent' = [agent EXCEPT ![h] =
                [@ EXCEPT !.phase = "executing", !.taken = {},
                          !.todo = call[h][s].picks]]
  /\ UNCHANGED <<serverVars, client, history>>

(* One command of the batch runs; its handler reports OK or not.           *)
AgentExecute(h, a) ==
  /\ agent[h].phase = "executing"
  /\ a \in agent[h].todo
  /\ agent' = [agent EXCEPT ![h] =
                [@ EXCEPT !.todo = agent[h].todo \ {a},
                          !.batch = agent[h].batch \cup {a}]]
  /\ ran' = [ran EXCEPT ![a] = @ + 1]
  /\ \E r \in Outcomes : outcome' = [outcome EXCEPT ![a] = r]
  /\ UNCHANGED <<serverVars, call, client, forgotten>>

(* The whole batch has run: only now its results are queued.               *)
AgentFinish(h) ==
  /\ agent[h].phase = "executing"
  /\ agent[h].todo = {}
  /\ agent' = [agent EXCEPT ![h] =
                [@ EXCEPT !.phase = "idle", !.batch = {},
                          !.results = agent[h].results \cup agent[h].batch]]
  /\ UNCHANGED <<serverVars, call, client, history>>

(* The process stops and is started again. Queue, batch and commands still *)
(* to run were in memory only.                                             *)
AgentCrash(h) ==
  /\ agent' = [agent EXCEPT ![h] = IdleAgent]
  /\ call' = [call EXCEPT ![h] =
                [s \in Slots |-> Abandoned(call[h][s])]]
  /\ forgotten' = forgotten \cup agent[h].results \cup agent[h].taken
                            \cup agent[h].batch
  /\ UNCHANGED <<serverVars, client, ran, outcome>>

-----------------------------------------------------------------------------
(* The server's Heartbeat handler.                                         *)

(* Mutation: nothing serialises the handlers of a host.                    *)
HostNeverLocked(h) == FALSE

(* Handlers of one host exclude each other from the first flush to the     *)
(* commit: each has updated hosts.last_heartbeat of the same row.          *)
HostLocked(h) == \E s \in Slots : call[h][s].phase \in {"started", "selected"}

(* Result rows a handler updates: the action exists, is the caller's, and  *)
(* the value assigned to status differs from the one loaded (the ORM       *)
(* writes changed columns only).                                           *)
Written(h, s) ==
  {a \in call[h][s].results :
      /\ call[h][s].seen[a] \notin {"none", "deleted"}
      /\ row[a].host = h
      /\ call[h][s].seen[a] # outcome[a]}

(* Rows a handler has updated but not committed are locked.                *)
RowFree(a) ==
  \A h \in Hosts, s \in Slots :
    call[h][s].phase = "selected" => a \notin Written(h, s)

(* The handler begins: host row locked, the rows of the results loaded.    *)
HbStart(h, s) ==
  /\ call[h][s].phase = "sent"
  /\ ~HostLocked(h)
  /\ call' = [call EXCEPT ![h][s] =
                [@ EXCEPT !.phase = "started",
                          !.seen = [a \in Ids |-> IF a \in call[h][s].results
                                                  THEN status[a] ELSE "none"]]]
  /\ UNCHANGED <<serverVars, agent, client, history>>

(* Mutations: sent actions are selected again; those of every host are.    *)
HbSelectResending(h, s) ==
  /\ call[h][s].phase = "started"
  /\ \A a \in Written(h, s) : Present(a)
  /\ call' = [call EXCEPT ![h][s] =
                [@ EXCEPT !.phase = "selected",
                          !.picks = {a \in Ids : /\ status[a] \in Open
                                                 /\ row[a].host = h}]]
  /\ UNCHANGED <<serverVars, agent, client, history>>

HbSelectAnyHost(h, s) ==
  /\ call[h][s].phase = "started"
  /\ \A a \in Written(h, s) : Present(a)
  /\ call' = [call EXCEPT ![h][s] =
                [@ EXCEPT !.phase = "selected",
                          !.picks = {a \in Ids : status[a] = "pending"}]]
  /\ UNCHANGED <<serverVars, agent, client, history>>

(* The SELECT of pending actions, before which the results are flushed:    *)
(* that fails when a loaded row is gone.                                   *)
HbSelect(h, s) ==
  /\ call[h][s].phase = "started"
  /\ \A a \in Written(h, s) : Present(a)
  /\ call' = [call EXCEPT ![h][s] =
                [@ EXCEPT !.phase = "selected",
                          !.picks = {a \in Ids : /\ status[a] = "pending"
                                                 /\ row[a].host = h}]]
  /\ UNCHANGED <<serverVars, agent, client, history>>

(* An answer is sent only to a caller that still waits.                    *)
Answer(h, s, c) == IF call[h][s].live THEN c ELSE FreeCall

(* Mutation: any result counts as executed.                                *)
HbCommitTrusting(h, s) ==
  /\ call[h][s].phase = "selected"
  /\ \A a \in call[h][s].picks : Present(a)
  /\ status' = [a \in Ids |-> IF a \in call[h][s].picks THEN "sent"
                              ELSE IF a \in Written(h, s) THEN "executed"
                              ELSE status[a]]
  /\ call' = [call EXCEPT ![h][s] =
                Answer(h, s, [FreeCall EXCEPT !.phase = "replied",
                                              !.live = TRUE,
                                              !.picks = call[h][s].picks])]
  /\ UNCHANGED <<row, agent, client, history>>

(* The commit: results applied, selected rows "sent" whatever they have    *)
(* become since, and the reply goes out.                                   *)
HbCommit(h, s) ==
  /\ call[h][s].phase = "selected"
  /\ \A a \in call[h][s].picks : Present(a)
  /\ status' = [a \in Ids |-> IF a \in call[h][s].picks THEN "sent"
                              ELSE IF a \in Written(h, s) THEN outcome[a]
                              ELSE status[a]]
  /\ call' = [call EXCEPT ![h][s] =
                Answer(h, s, [FreeCall EXCEPT !.phase = "replied",
                                              !.live = TRUE,
                                              !.picks = call[h][s].picks])]
  /\ UNCHANGED <<row, agent, client, history>>

(* The handler dies before its commit (row gone, database error, server    *)
(* restart, call cancelled), or the request does not even reach it: rolled *)
(* back, and the caller gets an error.                                     *)
HbAbort(h, s) ==
  /\ call[h][s].phase \in {"sent", "started", "selected"}
  /\ call' = [call EXCEPT ![h][s] =
                Answer(h, s, [FreeCall EXCEPT !.phase = "failed",
                                              !.live = TRUE])]
  /\ UNCHANGED <<serverVars, agent, client, history>>

-----------------------------------------------------------------------------
(* The other writers.                                                      *)

Exists(h, k, t, ss) ==
  \E a \in Ids : row[a] = [host |-> h, kind |-> k, target |-> t]
                 /\ status[a] \in ss

(* An operator asks for an action: 409 when one is pending or sent.        *)
CreateCheck(o, h, k, t) ==
  /\ client[o] = IdleClient
  /\ k \in ManualKinds
  /\ ~Exists(h, k, t, Open)
  /\ client' = [client EXCEPT ![o] =
        [op |-> "insert", row |-> [host |-> h, kind |-> k, target |-> t]]]
  /\ UNCHANGED <<serverVars, call, agent, history>>

(* The policy reacts to an alert: nothing when one is open or executed.    *)
PolicyCheck(o, h, k, t) ==
  /\ client[o] = IdleClient
  /\ k \in PolicyKinds \cup {"block_ip"}
  /\ ~Exists(h, k, t, Open \cup {"executed"})
  /\ client' = [client EXCEPT ![o] =
        [op |-> "insert", row |-> [host |-> h, kind |-> k, target |-> t]]]
  /\ UNCHANGED <<serverVars, call, agent, history>>

(* The transaction that found none commits its insert.                     *)
InsertCommit(o, a) ==
  /\ client[o].op = "insert"
  /\ status[a] = "none"
  /\ row' = [row EXCEPT ![a] = client[o].row]
  /\ status' = [status EXCEPT ![a] = "pending"]
  /\ client' = [client EXCEPT ![o] = IdleClient]
  /\ UNCHANGED <<call, agent, history>>

(* PATCH status=reverted: the row is loaded.                               *)
RevertRead(o, a) ==
  /\ client[o] = IdleClient
  /\ Present(a)
  /\ client' = [client EXCEPT ![o] =
                  [op |-> "revert", id |-> a, seen |-> status[a]]]
  /\ UNCHANGED <<serverVars, call, agent, history>>

(* Mutation: every reverted block_ip gets an unblock_ip.                   *)
NeedsUnblockAlways(o) == row[client[o].id].kind = "block_ip"

(* A block_ip loaded as executed gets an unblock_ip in the same commit.    *)
NeedsUnblock(o) ==
  /\ row[client[o].id].kind = "block_ip"
  /\ client[o].seen = "executed"

(* Mutation: a status the table's check constraint does not know.          *)
RevertedOtherwise(o) == "undone"

(* The status column is written only if it was loaded with another value.  *)
Reverted(o) == IF client[o].seen = "reverted" THEN status[client[o].id]
               ELSE "reverted"

RevertCommit(o) ==
  /\ client[o].op = "revert"
  /\ Present(client[o].id)
  /\ RowFree(client[o].id)
  /\ client' = [client EXCEPT ![o] = IdleClient]
  /\ \/ /\ ~NeedsUnblock(o)
        /\ status' = [status EXCEPT ![client[o].id] = Reverted(o)]
        /\ UNCHANGED row
     \/ /\ NeedsUnblock(o)
        /\ \E b \in Ids :
             /\ status[b] = "none"
             /\ status' = [status EXCEPT ![client[o].id] = Reverted(o),
                                         ![b] = "pending"]
             /\ row' = [row EXCEPT ![b] =
                          [row[client[o].id] EXCEPT !.kind = "unblock_ip"]]
  /\ UNCHANGED <<call, agent, history>>

(* A client's transaction ends without effect: the row it loaded is gone,  *)
(* the request is cancelled, the worker or the API process dies.           *)
ClientAbort(o) ==
  /\ client[o] # IdleClient
  /\ client' = [client EXCEPT ![o] = IdleClient]
  /\ UNCHANGED <<serverVars, call, agent, history>>

(* DELETE of an action, in whatever status.                                *)
DeleteAction(a) ==
  /\ Present(a)
  /\ RowFree(a)
  /\ status' = [status EXCEPT ![a] = "deleted"]
  /\ UNCHANGED <<row, call, agent, client, history>>

-----------------------------------------------------------------------------
AgentStep(h) ==
  \/ \E s \in Slots : AgentTick(h, s) \/ AgentError(h, s) \/ AgentReceive(h, s)
  \/ \E a \in Ids : AgentExecute(h, a)
  \/ AgentFinish(h)

ServerStep(h) ==
  \E s \in Slots : \/ HbStart(h, s)
                   \/ HbSelect(h, s)
                   \/ HbCommit(h, s)
                   \/ HbAbort(h, s)

ClientStep(o) ==
  \/ \E h \in Hosts, k \in Kinds, t \in Targets :
        CreateCheck(o, h, k, t) \/ PolicyCheck(o, h, k, t)
  \/ \E a \in Ids : InsertCommit(o, a) \/ RevertRead(o, a)
  \/ RevertCommit(o)
  \/ ClientAbort(o)

(* What happens while agents stay up and await every answer.               *)
ReliableNext ==
  \/ \E h \in Hosts : AgentStep(h) \/ ServerStep(h)
  \/ \E o \in Clients : ClientStep(o)
  \/ \E a \in Ids : DeleteAction(a)

Faults ==
  \E h \in Hosts : AgentCrash(h) \/ \E s \in Slots : AgentTimeout(h, s)

Next == ReliableNext \/ Faults

Spec == Init /\ [][Next]_vars

(* The agent's loop and the network go on; the server's handlers may fail  *)
(* any number of times but do not fail for ever. Clients owe nothing.      *)
Fairness ==
  \A h \in Hosts :
    /\ WF_vars(AgentStep(h))
    /\ WF_vars(ServerStep(h))
    /\ SF_vars(\E s \in Slots : HbStart(h, s))
    /\ SF_vars(\E s \in Slots : HbSelect(h, s))
    /\ SF_vars(\E s \in Slots : HbCommit(h, s))

ReliableSpec == Init /\ [][ReliableNext]_vars /\ Fairness

=============================================================================
