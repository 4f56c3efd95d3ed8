------------------------ MODULE ActionDeliveryProofs ------------------------
(***************************************************************************)
(* IInv is an inductive invariant of ActionDelivery, for any hosts, ids,   *)
(* slots and clients; the safety properties follow from it.                *)
(***************************************************************************)
EXTENDS ActionDeliveryProps, TLAPS

USE DEF Outcomes, Open, Status

(* The initial state.                                                      *)
LEMMA InitInv == Init => IInv
<1> SUFFICES ASSUME Init PROVE IInv
  OBVIOUS
<1>1. TypeOK
  BY DEF Init, TypeOK, FreeCall, IdleAgent, IdleClient, Call, Agent, Client
<1>2. RowInv /\ RanInv
  BY NoRowAssumption DEF Init, RowInv, RanInv
<1>3. CallInv /\ PickInv /\ SeenInv /\ TakenInv
  BY DEF Init, CallInv, PickInv, SeenInv, TakenInv, Active, FreeCall, IdleAgent
<1>4. TodoInv /\ ResultInv
  BY DEF Init, TodoInv, ResultInv, FreeCall, IdleAgent
<1>5. ClientInv
  BY DEF Init, ClientInv, IdleClient
<1>6. StatusTruth /\ NoResultLost /\ UnblockIsJustified
  BY DEF Init, StatusTruth, NoResultLost, UnblockIsJustified
<1> QED
  BY <1>1, <1>2, <1>3, <1>4, <1>5, <1>6 DEF IInv

(* An update of one call, or of one agent, leaves the others alone.        *)
LEMMA CallUpdate ==
  ASSUME TypeOK, NEW h \in Hosts, NEW s \in Slots, NEW c \in Call,
         call' = [call EXCEPT ![h][s] = c]
  PROVE  /\ call' \in [Hosts -> [Slots -> Call]]
         /\ call'[h][s] = c
         /\ \A g \in Hosts, u \in Slots :
              g # h \/ u # s => call'[g][u] = call[g][u]
  BY DEF TypeOK

LEMMA AgentUpdate ==
  ASSUME TypeOK, NEW h \in Hosts, NEW m \in Agent,
         agent' = [agent EXCEPT ![h] = m]
  PROVE  /\ agent' \in [Hosts -> Agent]
         /\ agent'[h] = m
         /\ \A g \in Hosts : g # h => agent'[g] = agent[g]
  BY DEF TypeOK

(* The agent sends its queued results.                                     *)
LEMMA AgentTickInv ==
  ASSUME IInv, NEW h \in Hosts, NEW s \in Slots, AgentTick(h, s)
  PROVE  IInv'
<1> USE DEF IInv, AgentTick, serverVars, history
<1>1. TypeOK'
  <2>1. [FreeCall EXCEPT !.phase = "sent", !.live = TRUE,
                         !.results = agent[h].results] \in Call
    BY DEF TypeOK, FreeCall, Call, Agent
  <2>2. [agent[h] EXCEPT !.phase = "waiting", !.taken = agent[h].results,
                         !.results = {}] \in Agent
    BY ZenonT(40) DEF TypeOK, Agent
  <2> QED
    BY <2>1, <2>2 DEF TypeOK
<1>2. RowInv' /\ RanInv' /\ StatusTruth' /\ UnblockIsJustified'
  BY DEF RowInv, RanInv, StatusTruth, UnblockIsJustified
<1>3. CallInv'
  BY DEF TypeOK, Call, Agent, CallInv, Active, FreeCall
<1>4. PickInv'
  BY DEF TypeOK, Call, Agent, PickInv, FreeCall
<1>5. TodoInv' /\ ResultInv'
  BY DEF TypeOK, Call, Agent, TodoInv, ResultInv, FreeCall
<1>6. SeenInv'
  BY DEF TypeOK, Call, Agent, SeenInv, Active, FreeCall, Written, Present
<1>7. TakenInv'
  BY DEF TypeOK, Call, Agent, TakenInv, CallInv, FreeCall
<1>8. ClientInv'
  BY DEF ClientInv
<1>9. NoResultLost'
  BY DEF TypeOK, Agent, NoResultLost, TodoInv
<1> QED
  BY <1>1, <1>2, <1>3, <1>4, <1>5, <1>6, <1>7, <1>8, <1>9

(* What is left of a call nobody awaits.                                   *)
LEMMA AbandonedCall ==
  ASSUME NEW c \in Call
  PROVE  /\ Abandoned(c) \in Call
         /\ ~Abandoned(c).live
         /\ Abandoned(c).results \subseteq c.results
         /\ Abandoned(c).picks \subseteq c.picks
         /\ Abandoned(c).phase \in {"sent", "started", "selected"}
              => Abandoned(c) = [c EXCEPT !.live = FALSE]
         /\ Abandoned(c).phase \notin {"sent", "started", "selected"}
              => Abandoned(c) = FreeCall
  BY DEF Abandoned, Call, FreeCall

(* The agent gets an error, or gives up, and requeues its results.         *)
LEMMA AgentFailInv ==
  ASSUME IInv, NEW h \in Hosts, NEW s \in Slots, AgentFail(h, s)
  PROVE  IInv'
<1>0. TypeOK /\ agent[h] \in Agent /\ call[h][s] \in Call
  BY DEF IInv, TypeOK
<1>a. /\ agent[h].phase = "waiting"
      /\ call[h][s].live
      /\ UNCHANGED <<row, status, client, ran, outcome, forgotten>>
  BY DEF AgentFail, serverVars, history
<1> DEFINE m == [agent[h] EXCEPT !.phase = "idle", !.taken = {},
                     !.results = agent[h].results \cup agent[h].taken]
<1>b. m \in Agent
  BY <1>0 DEF Agent
<1>m. /\ agent' \in [Hosts -> Agent]
      /\ agent'[h] = m
      /\ \A g \in Hosts : g # h => agent'[g] = agent[g]
  <2>1. agent' = [agent EXCEPT ![h] = m]
    BY DEF AgentFail
  <2> QED
    BY <1>0, <1>b, <2>1, AgentUpdate
<1>c. \A g \in Hosts : g # h => agent'[g] = agent[g]
  BY <1>m
<1>d. /\ agent'[h].phase = "idle"
      /\ agent'[h].results = agent[h].results \cup agent[h].taken
      /\ agent'[h].taken = {}
      /\ agent'[h].todo = agent[h].todo
      /\ agent'[h].batch = agent[h].batch
  BY <1>0, <1>m DEF Agent
<1>n. /\ call' \in [Hosts -> [Slots -> Call]]
      /\ call'[h][s] = Abandoned(call[h][s])
      /\ \A g \in Hosts, u \in Slots :
           g # h \/ u # s => call'[g][u] = call[g][u]
  <2>1. Abandoned(call[h][s]) \in Call
    BY <1>0, AbandonedCall
  <2>2. call' = [call EXCEPT ![h][s] = Abandoned(call[h][s])]
    BY DEF AgentFail
  <2> QED
    BY ZenonT(40), <1>0, <2>1, <2>2, CallUpdate
<1>e. \A g \in Hosts, u \in Slots :
        g # h \/ u # s => call'[g][u] = call[g][u]
  BY <1>n
<1>f. \/ /\ call'[h][s].phase = call[h][s].phase
         /\ call[h][s].phase \in {"sent", "started", "selected"}
         /\ ~call'[h][s].live
         /\ call'[h][s].results = call[h][s].results
         /\ call'[h][s].picks = call[h][s].picks
         /\ call'[h][s].seen = call[h][s].seen
      \/ call'[h][s] = FreeCall
  BY <1>0, <1>n DEF Abandoned, Call
<1>1. TypeOK'
  BY <1>0, <1>a, <1>m, <1>n DEF TypeOK
<1>2. RowInv' /\ RanInv' /\ StatusTruth' /\ UnblockIsJustified'
  BY <1>a DEF IInv, RowInv, RanInv, StatusTruth, UnblockIsJustified
<1>3. CallInv'
  BY <1>a, <1>c, <1>d, <1>e, <1>f DEF IInv, CallInv, Active, FreeCall
<1>4. PickInv'
  BY <1>a, <1>c, <1>d, <1>e, <1>f DEF IInv, PickInv, FreeCall
<1>5. TodoInv'
  BY <1>a, <1>c, <1>d DEF IInv, TodoInv
<1>6. ResultInv'
  BY <1>a, <1>c, <1>d, <1>e, <1>f DEF IInv, ResultInv, FreeCall
<1>7. SeenInv'
  BY <1>a, <1>e, <1>f DEF IInv, SeenInv, Active, FreeCall, Written, Present
<1>8. TakenInv'
  BY <1>a, <1>c, <1>e, <1>f DEF IInv, TakenInv, CallInv, FreeCall
<1>9. ClientInv'
  BY <1>a DEF IInv, ClientInv
<1>10. NoResultLost'
  BY <1>a, <1>c, <1>d DEF IInv, NoResultLost
<1> QED
  BY <1>1, <1>2, <1>3, <1>4, <1>5, <1>6, <1>7, <1>8, <1>9, <1>10 DEF IInv

(* The agent gets its commands.                                            *)
LEMMA AgentReceiveInv ==
  ASSUME IInv, NEW h \in Hosts, NEW s \in Slots, AgentReceive(h, s)
  PROVE  IInv'
<1>0. TypeOK /\ agent[h] \in Agent /\ call[h][s] \in Call
  BY DEF IInv, TypeOK
<1>a. /\ agent[h].phase = "waiting"
      /\ call[h][s].live
      /\ call[h][s].phase = "replied"
      /\ UNCHANGED <<row, status, client, ran, outcome, forgotten>>
  BY DEF AgentReceive, serverVars, history
<1>b1. /\ agent' = [agent EXCEPT ![h] = [agent[h] EXCEPT !.phase = "executing", !.taken = {},
                                      !.todo = call[h][s].picks]]
  BY DEF AgentReceive
<1>b2. agent'[h] = [agent[h] EXCEPT !.phase = "executing", !.taken = {},
                                      !.todo = call[h][s].picks]
  BY <1>b1, <1>0 DEF TypeOK
<1>b3. \A g \in Hosts : g # h => agent'[g] = agent[g]
  BY <1>b1, <1>0 DEF TypeOK
<1>b. /\ agent'[h].phase = "executing"
      /\ agent'[h].results = agent[h].results
      /\ agent'[h].taken = {}
      /\ agent'[h].todo = call[h][s].picks
      /\ agent'[h].batch = agent[h].batch
  BY <1>b2, <1>0 DEF Agent
<1>c. /\ call'[h][s] = FreeCall
      /\ \A g \in Hosts, u \in Slots :
           g # h \/ u # s => call'[g][u] = call[g][u]
  BY <1>0 DEF AgentReceive, TypeOK
<1>1. TypeOK'
  <2>1. agent'[h] \in Agent
    BY <1>0, <1>b2 DEF Agent, Call
  <2>2. FreeCall \in Call
    BY DEF FreeCall, Call
  <2>3. call' \in [Hosts -> [Slots -> Call]]
    BY <1>0, <2>2 DEF TypeOK, AgentReceive
  <2>4. agent' \in [Hosts -> Agent]
    BY <1>0, <1>b1, <1>b2, <2>1 DEF TypeOK
  <2> QED
    BY <1>a, <1>0, <2>3, <2>4 DEF TypeOK
<1>2. RowInv' /\ RanInv' /\ StatusTruth' /\ UnblockIsJustified'
  BY <1>a DEF IInv, RowInv, RanInv, StatusTruth, UnblockIsJustified
<1>3. CallInv'
  BY <1>a, <1>b, <1>b3, <1>c DEF IInv, CallInv, Active, FreeCall
<1>4. PickInv'
  BY <1>a, <1>b, <1>b3, <1>c DEF IInv, PickInv, FreeCall
<1>5. TodoInv'
  BY <1>a, <1>b, <1>b3, <1>c DEF IInv, TodoInv, PickInv, FreeCall
<1>6. ResultInv'
  BY <1>a, <1>b, <1>b3, <1>c DEF IInv, ResultInv, FreeCall
<1>7. SeenInv'
  BY <1>a, <1>c DEF IInv, SeenInv, Active, FreeCall, Written, Present
<1>8. TakenInv'
  BY <1>a, <1>b, <1>b3, <1>c DEF IInv, TakenInv, CallInv, FreeCall
<1>9. ClientInv'
  BY <1>a DEF IInv, ClientInv
<1>10. NoResultLost'
  BY <1>a, <1>b, <1>b3 DEF IInv, NoResultLost, TakenInv
<1> QED
  BY <1>1, <1>2, <1>3, <1>4, <1>5, <1>6, <1>7, <1>8, <1>9, <1>10 DEF IInv

(* The agent runs one command.                                             *)
LEMMA AgentExecuteInv ==
  ASSUME IInv, NEW h \in Hosts, NEW a \in Ids, AgentExecute(h, a)
  PROVE  IInv'
<1>0. TypeOK /\ agent[h] \in Agent
  BY DEF IInv, TypeOK
<1>a. /\ agent[h].phase = "executing"
      /\ a \in agent[h].todo
      /\ UNCHANGED <<row, status, call, client, forgotten>>
      /\ ran' = [ran EXCEPT ![a] = ran[a] + 1]
  BY DEF AgentExecute, serverVars
<1> DEFINE m == [agent[h] EXCEPT !.todo = agent[h].todo \ {a},
                                 !.batch = agent[h].batch \cup {a}]
<1>b. m \in Agent
  BY <1>0 DEF Agent
<1>m. /\ agent' \in [Hosts -> Agent]
      /\ agent'[h] = m
      /\ \A g \in Hosts : g # h => agent'[g] = agent[g]
  <2>1. agent' = [agent EXCEPT ![h] = m]
    BY DEF AgentExecute
  <2> QED
    BY <1>0, <1>b, <2>1, AgentUpdate
<1>c. \A g \in Hosts : g # h => agent'[g] = agent[g]
  BY <1>m
<1>d. /\ agent'[h].phase = agent[h].phase
      /\ agent'[h].results = agent[h].results
      /\ agent'[h].taken = agent[h].taken
      /\ agent'[h].todo = agent[h].todo \ {a}
      /\ agent'[h].batch = agent[h].batch \cup {a}
  BY <1>0, <1>m DEF Agent
<1>e. PICK r \in Outcomes : outcome' = [outcome EXCEPT ![a] = r]
  BY DEF AgentExecute
<1>f. /\ ran[a] = 0
      /\ outcome[a] = "none"
      /\ status[a] \notin {"none", "pending"}
      /\ row[a].host = h
  BY <1>a DEF IInv, TodoInv, RanInv
<1>g. /\ ran'[a] = 1 /\ outcome'[a] = r
      /\ \A b \in Ids : b # a => ran'[b] = ran[b] /\ outcome'[b] = outcome[b]
  BY <1>0, <1>a, <1>e, <1>f DEF TypeOK
<1>1. TypeOK'
  <2>1. ran' \in [Ids -> Nat] /\ outcome' \in [Ids -> Outcomes \cup {"none"}]
    BY <1>0, <1>a, <1>e DEF TypeOK
  <2> QED
    BY <1>0, <1>a, <1>m, <2>1 DEF TypeOK
<1>2. RowInv' /\ RanInv'
  BY <1>a, <1>f, <1>g DEF IInv, RowInv, RanInv
<1>3. StatusTruth'
  BY <1>a, <1>f, <1>g DEF IInv, StatusTruth
<1>4. UnblockIsJustified'
  <2>1. \A b \in Ids : outcome[b] = "executed" => outcome'[b] = "executed"
    BY <1>f, <1>g
  <2> QED
    BY <1>a, <2>1 DEF IInv, UnblockIsJustified
<1>5. CallInv'
  BY <1>a, <1>c, <1>d DEF IInv, CallInv, Active
<1>6. PickInv'
  <2> SUFFICES ASSUME NEW g \in Hosts, NEW u \in Slots,
                      NEW b \in call[g][u].picks
               PROVE  /\ ran'[b] = 0
                      /\ status[b] # "none"
                      /\ row[b].host = g
                      /\ call[g][u].phase = "replied" => status[b] # "pending"
                      /\ b \notin agent'[g].todo
                      /\ \A w \in Slots : b \in call[g][w].picks => w = u
    BY <1>a DEF PickInv
  <2>1. b \in Ids
    BY <1>0 DEF TypeOK, Call
  <2>2. b # a
    BY <1>a, <1>f DEF IInv, PickInv
  <2> QED
    BY <2>1, <2>2, <1>c, <1>d, <1>g DEF IInv, PickInv
<1>7. TodoInv'
  <2> SUFFICES ASSUME NEW g \in Hosts
               PROVE  /\ agent'[g].phase # "executing" => agent'[g].todo = {}
                      /\ agent'[g].phase # "waiting" => agent'[g].taken = {}
                      /\ \A b \in agent'[g].todo :
                           /\ ran'[b] = 0
                           /\ status[b] \notin {"none", "pending"}
                           /\ row[b].host = g
    BY <1>a DEF TodoInv
  <2>1. agent[g].todo \subseteq Ids
    BY <1>0 DEF TypeOK, Agent
  <2>2. a \notin agent'[g].todo
    BY <1>c, <1>d, <1>f DEF IInv, TodoInv
  <2> QED
    BY <2>1, <2>2, <1>a, <1>c, <1>d, <1>g DEF IInv, TodoInv
<1>8. ResultInv'
  <2>1. \A g \in Hosts, u \in Slots :
          /\ call[g][u].results \subseteq Ids
          /\ agent[g].results \cup agent[g].taken \cup agent[g].batch \subseteq Ids
    BY <1>0 DEF TypeOK, Call, Agent
  <2>2. \A b \in Ids : ran[b] = 1 => ran'[b] = 1
    BY <1>f, <1>g
  <2>3. \A g \in Hosts, u \in Slots : \A b \in call[g][u].results :
          ran'[b] = 1 /\ row[b].host = g
    BY <2>1, <2>2 DEF IInv, ResultInv
  <2>4. ASSUME NEW g \in Hosts,
               NEW b \in agent'[g].results \cup agent'[g].taken \cup agent'[g].batch
        PROVE  ran'[b] = 1 /\ row[b].host = g
    <3>1. CASE b = a /\ g = h
      BY <3>1, <1>f, <1>g
    <3>2. CASE b \in agent[g].results \cup agent[g].taken \cup agent[g].batch
      BY <3>2, <1>0, <2>2 DEF IInv, ResultInv, TypeOK, Agent
    <3> QED
      BY <3>1, <3>2, <1>c, <1>d
  <2> QED
    BY <1>a, <2>3, <2>4 DEF ResultInv
<1>9. SeenInv'
  <2> SUFFICES ASSUME NEW g \in Hosts, NEW u \in Slots, Active(g, u),
                      NEW b \in call[g][u].results
               PROVE  /\ call[g][u].seen[b] # "none"
                      /\ call[g][u].seen[b] # "sent" => status[b] # "sent"
                      /\ call[g][u].phase = "selected" /\ b \in Written(g, u)'
                           => Present(b)
    BY <1>a DEF SeenInv, Active, Present
  <2>1. b \in Ids
    BY <1>0 DEF TypeOK, Call
  <2>2. b # a
    BY <1>f DEF IInv, ResultInv
  <2>3. b \in Written(g, u)' => b \in Written(g, u)
    BY <1>a, <1>g, <2>1, <2>2 DEF Written
  <2> QED
    BY <2>3 DEF IInv, SeenInv
<1>10. TakenInv'
  BY <1>a, <1>c, <1>d DEF IInv, TakenInv
<1>11. ClientInv'
  <2>1. \A b \in Ids : outcome[b] = "executed" => outcome'[b] = "executed"
    BY <1>f, <1>g
  <2>2. \A o \in Clients : client[o].op = "revert" => client[o].id \in Ids
    BY <1>0 DEF TypeOK, Client, IdleClient
  <2> QED
    BY <1>a, <2>1, <2>2 DEF IInv, ClientInv
<1>12. NoResultLost'
  <2>1. \A b \in Ids \ {a} : ran'[b] = ran[b]
    BY <1>g
  <2> QED
    BY <1>a, <1>c, <1>d, <2>1 DEF IInv, NoResultLost
<1> QED
  BY <1>1, <1>2, <1>3, <1>4, <1>5, <1>6, <1>7, <1>8, <1>9, <1>10, <1>11, <1>12
  DEF IInv

(* The agent queues the results of a batch.                                *)
LEMMA AgentFinishInv ==
  ASSUME IInv, NEW h \in Hosts, AgentFinish(h)
  PROVE  IInv'
<1>0. TypeOK /\ agent[h] \in Agent
  BY DEF IInv, TypeOK
<1>a. /\ agent[h].phase = "executing"
      /\ agent[h].todo = {}
      /\ UNCHANGED <<row, status, call, client, ran, outcome, forgotten>>
  BY DEF AgentFinish, serverVars, history
<1> DEFINE m == [agent[h] EXCEPT !.phase = "idle", !.batch = {},
                     !.results = agent[h].results \cup agent[h].batch]
<1>b. m \in Agent
  BY <1>0 DEF Agent
<1>m. /\ agent' \in [Hosts -> Agent]
      /\ agent'[h] = m
      /\ \A g \in Hosts : g # h => agent'[g] = agent[g]
  <2>1. agent' = [agent EXCEPT ![h] = m]
    BY DEF AgentFinish
  <2> QED
    BY <1>0, <1>b, <2>1, AgentUpdate
<1>c. \A g \in Hosts : g # h => agent'[g] = agent[g]
  BY <1>m
<1>d. /\ agent'[h].phase = "idle"
      /\ agent'[h].results = agent[h].results \cup agent[h].batch
      /\ agent'[h].taken = agent[h].taken
      /\ agent'[h].todo = agent[h].todo
      /\ agent'[h].batch = {}
  BY <1>0, <1>m DEF Agent
<1>1. TypeOK'
  BY <1>0, <1>a, <1>m DEF TypeOK
<1>2. RowInv' /\ RanInv' /\ StatusTruth' /\ UnblockIsJustified'
  BY <1>a DEF IInv, RowInv, RanInv, StatusTruth, UnblockIsJustified
<1>3. CallInv' /\ PickInv'
  BY <1>a, <1>c, <1>d DEF IInv, CallInv, PickInv, Active
<1>4. TodoInv' /\ ResultInv'
  BY <1>a, <1>c, <1>d DEF IInv, TodoInv, ResultInv
<1>5. SeenInv' /\ ClientInv'
  BY <1>a DEF IInv, SeenInv, ClientInv, Active, Written, Present
<1>6. TakenInv'
  BY <1>a, <1>c, <1>d DEF IInv, TakenInv
<1>7. NoResultLost'
  BY <1>a, <1>c, <1>d DEF IInv, NoResultLost
<1> QED
  BY <1>1, <1>2, <1>3, <1>4, <1>5, <1>6, <1>7 DEF IInv

(* The agent forgets all and leaves its calls alone.                       *)
LEMMA AgentCrashInv ==
  ASSUME IInv, NEW h \in Hosts, AgentCrash(h)
  PROVE  IInv'
<1>0. TypeOK /\ agent[h] \in Agent
  BY DEF IInv, TypeOK
<1>a. /\ UNCHANGED <<row, status, client, ran, outcome>>
      /\ forgotten' = forgotten \cup agent[h].results \cup agent[h].taken
                                \cup agent[h].batch
  BY DEF AgentCrash, serverVars
<1>b. IdleAgent \in Agent
  BY DEF IdleAgent, Agent
<1>m. /\ agent' \in [Hosts -> Agent]
      /\ agent'[h] = IdleAgent
      /\ \A g \in Hosts : g # h => agent'[g] = agent[g]
  <2>1. agent' = [agent EXCEPT ![h] = IdleAgent]
    BY DEF AgentCrash
  <2> QED
    BY <1>0, <1>b, <2>1, AgentUpdate
<1>c. \A g \in Hosts : g # h => agent'[g] = agent[g]
  BY <1>m
<1>d. /\ agent'[h].phase = "idle"
      /\ agent'[h].results = {}
      /\ agent'[h].taken = {}
      /\ agent'[h].todo = {}
      /\ agent'[h].batch = {}
  BY <1>m DEF IdleAgent
<1>n. /\ call' \in [Hosts -> [Slots -> Call]]
      /\ \A u \in Slots : call'[h][u] = Abandoned(call[h][u])
      /\ \A g \in Hosts, u \in Slots : g # h => call'[g][u] = call[g][u]
  <2>1. [u \in Slots |-> Abandoned(call[h][u])] \in [Slots -> Call]
    BY <1>0, AbandonedCall DEF TypeOK
  <2> QED
    BY <1>0, <2>1 DEF TypeOK, AgentCrash
<1>e. \A g \in Hosts, u \in Slots : g # h => call'[g][u] = call[g][u]
  BY <1>n
<1>f. \A u \in Slots :
        \/ /\ call'[h][u].phase = call[h][u].phase
           /\ call[h][u].phase \in {"sent", "started", "selected"}
           /\ ~call'[h][u].live
           /\ call'[h][u].results = call[h][u].results
           /\ call'[h][u].picks = call[h][u].picks
           /\ call'[h][u].seen = call[h][u].seen
        \/ call'[h][u] = FreeCall
  <2> TAKE u \in Slots
  <2>1. call[h][u] \in Call
    BY <1>0 DEF TypeOK
  <2> QED
    BY <2>1, <1>n DEF Abandoned, Call
<1>1. TypeOK'
  <2>1. forgotten' \in SUBSET Ids
    BY <1>0, <1>a DEF TypeOK, Agent
  <2> QED
    BY <1>0, <1>a, <1>m, <1>n, <2>1 DEF TypeOK
<1>2. RowInv' /\ RanInv' /\ StatusTruth' /\ UnblockIsJustified'
  BY <1>a DEF IInv, RowInv, RanInv, StatusTruth, UnblockIsJustified
<1>3. CallInv'
  BY <1>a, <1>c, <1>d, <1>e, <1>f DEF IInv, CallInv, Active, FreeCall
<1>4. PickInv'
  BY <1>a, <1>c, <1>d, <1>e, <1>f DEF IInv, PickInv, FreeCall
<1>5. TodoInv'
  BY <1>a, <1>c, <1>d DEF IInv, TodoInv
<1>6. ResultInv'
  BY <1>a, <1>c, <1>d, <1>e, <1>f DEF IInv, ResultInv, FreeCall
<1>7. SeenInv'
  BY <1>a, <1>e, <1>f DEF IInv, SeenInv, Active, FreeCall, Written, Present
<1>8. TakenInv'
  BY <1>a, <1>c, <1>e, <1>f DEF IInv, TakenInv, FreeCall
<1>9. ClientInv'
  BY <1>a DEF IInv, ClientInv
<1>10. NoResultLost'
  BY <1>a, <1>c, <1>d DEF IInv, NoResultLost
<1> QED
  BY <1>1, <1>2, <1>3, <1>4, <1>5, <1>6, <1>7, <1>8, <1>9, <1>10 DEF IInv

-----------------------------------------------------------------------------
(* The handler.                                                            *)

LEMMA HbStartInv ==
  ASSUME IInv, NEW h \in Hosts, NEW s \in Slots, HbStart(h, s)
  PROVE  IInv'
<1>0. TypeOK /\ call[h][s] \in Call
  BY DEF IInv, TypeOK
<1>a. /\ call[h][s].phase = "sent"
      /\ \A u \in Slots : ~Active(h, u)
      /\ UNCHANGED <<row, status, agent, client, ran, outcome, forgotten>>
  BY DEF HbStart, HostLocked, Active, serverVars, history
<1> DEFINE loaded == [a \in Ids |-> IF a \in call[h][s].results
                                    THEN status[a] ELSE "none"]
           c == [call[h][s] EXCEPT !.phase = "started", !.seen = loaded]
<1>b. c \in Call
  <2>1. loaded \in [Ids -> Status]
    BY <1>0 DEF TypeOK
  <2> QED
    BY <1>0, <2>1 DEF Call
<1>m. /\ call' \in [Hosts -> [Slots -> Call]]
      /\ call'[h][s] = c
      /\ \A g \in Hosts, u \in Slots :
           g # h \/ u # s => call'[g][u] = call[g][u]
  <2>1. call' = [call EXCEPT ![h][s] = c]
    BY DEF HbStart
  <2> HIDE DEF c, loaded
  <2> QED
    BY ZenonT(40), <1>0, <1>b, <2>1, CallUpdate
<1>c. \A g \in Hosts, u \in Slots :
        g # h \/ u # s => call'[g][u] = call[g][u]
  BY <1>m
<1>d. /\ call'[h][s].phase = "started"
      /\ call'[h][s].live = call[h][s].live
      /\ call'[h][s].results = call[h][s].results
      /\ call'[h][s].picks = call[h][s].picks
      /\ call[h][s].results \subseteq Ids
      /\ \A a \in call[h][s].results : call'[h][s].seen[a] = status[a]
  BY <1>0, <1>m DEF Call
<1>1. TypeOK'
  BY <1>0, <1>a, <1>m DEF TypeOK
<1>2. RowInv' /\ RanInv' /\ StatusTruth' /\ UnblockIsJustified'
  BY <1>a DEF IInv, RowInv, RanInv, StatusTruth, UnblockIsJustified
<1>3. CallInv'
  BY <1>a, <1>c, <1>d DEF IInv, CallInv, Active
<1>4. PickInv'
  BY <1>a, <1>c, <1>d DEF IInv, PickInv, CallInv
<1>5. TodoInv' /\ NoResultLost' /\ ClientInv'
  BY <1>a DEF IInv, TodoInv, NoResultLost, ClientInv
<1>6. ResultInv'
  BY <1>a, <1>c, <1>d DEF IInv, ResultInv
<1>7. SeenInv'
  <2>1. \A a \in call[h][s].results : status[a] # "none"
    BY <1>d DEF IInv, ResultInv, RanInv
  <2> QED
    BY <2>1, <1>a, <1>c, <1>d DEF IInv, SeenInv, Active, Written, Present
<1>8. TakenInv'
  BY <1>a, <1>c, <1>d DEF IInv, TakenInv
<1> QED
  BY <1>1, <1>2, <1>3, <1>4, <1>5, <1>6, <1>7, <1>8 DEF IInv

(* The handler reads the pending rows.                                     *)
LEMMA HbSelectInv ==
  ASSUME IInv, NEW h \in Hosts, NEW s \in Slots, HbSelect(h, s)
  PROVE  IInv'
<1>0. TypeOK /\ call[h][s] \in Call
  BY DEF IInv, TypeOK
<1>a. /\ call[h][s].phase = "started"
      /\ \A a \in Written(h, s) : Present(a)
      /\ UNCHANGED <<row, status, agent, client, ran, outcome, forgotten>>
  BY DEF HbSelect, serverVars, history
<1> DEFINE picked == {a \in Ids : status[a] = "pending" /\ row[a].host = h}
           c == [call[h][s] EXCEPT !.phase = "selected", !.picks = picked]
<1>b. c \in Call
  BY <1>0 DEF Call
<1>m. /\ call' \in [Hosts -> [Slots -> Call]]
      /\ call'[h][s] = c
      /\ \A g \in Hosts, u \in Slots :
           g # h \/ u # s => call'[g][u] = call[g][u]
  <2>1. call' = [call EXCEPT ![h][s] = c]
    BY DEF HbSelect
  <2> HIDE DEF c
  <2> QED
    BY ZenonT(40), <1>0, <1>b, <2>1, CallUpdate
<1>c. \A g \in Hosts, u \in Slots :
        g # h \/ u # s => call'[g][u] = call[g][u]
  BY <1>m
<1>d. /\ call'[h][s].phase = "selected"
      /\ call'[h][s].live = call[h][s].live
      /\ call'[h][s].results = call[h][s].results
      /\ call'[h][s].seen = call[h][s].seen
      /\ \A a : a \in call'[h][s].picks
                  <=> a \in Ids /\ status[a] = "pending" /\ row[a].host = h
  BY <1>0, <1>m DEF Call
<1>1. TypeOK'
  BY <1>0, <1>a, <1>m DEF TypeOK
<1>2. RowInv' /\ RanInv' /\ StatusTruth' /\ UnblockIsJustified'
  BY <1>a DEF IInv, RowInv, RanInv, StatusTruth, UnblockIsJustified
<1>3. CallInv'
  BY <1>a, <1>c, <1>d DEF IInv, CallInv, Active
<1>4. PickInv'
  <2>1. \A a \in call'[h][s].picks :
          /\ ran[a] = 0
          /\ a \notin agent[h].todo
          /\ \A u \in Slots : u # s => a \notin call[h][u].picks
    BY <1>a, <1>d DEF IInv, RanInv, TodoInv, PickInv, CallInv, Active
  <2> QED
    BY <2>1, <1>a, <1>c, <1>d DEF IInv, PickInv
<1>5. TodoInv' /\ NoResultLost' /\ ClientInv'
  BY <1>a DEF IInv, TodoInv, NoResultLost, ClientInv
<1>6. ResultInv'
  BY <1>a, <1>c, <1>d DEF IInv, ResultInv
<1>7. SeenInv'
  BY <1>a, <1>c, <1>d DEF IInv, SeenInv, Active, Written, Present
<1>8. TakenInv'
  BY <1>a, <1>c, <1>d DEF IInv, TakenInv
<1> QED
  BY <1>1, <1>2, <1>3, <1>4, <1>5, <1>6, <1>7, <1>8 DEF IInv

(* The handler rolls back.                                                 *)
LEMMA HbAbortInv ==
  ASSUME IInv, NEW h \in Hosts, NEW s \in Slots, HbAbort(h, s)
  PROVE  IInv'
<1>0. TypeOK
  BY DEF IInv
<1>a. UNCHANGED <<row, status, agent, client, ran, outcome, forgotten>>
  BY DEF HbAbort, serverVars, history
<1> DEFINE f == [FreeCall EXCEPT !.phase = "failed", !.live = TRUE]
<1>b. Answer(h, s, f) \in Call
  BY DEF Answer, FreeCall, Call
<1>m. /\ call' \in [Hosts -> [Slots -> Call]]
      /\ call'[h][s] = Answer(h, s, f)
      /\ \A g \in Hosts, u \in Slots :
           g # h \/ u # s => call'[g][u] = call[g][u]
  <2>1. call' = [call EXCEPT ![h][s] = Answer(h, s, f)]
    BY DEF HbAbort
  <2> QED
    BY ZenonT(40), <1>0, <1>b, <2>1, CallUpdate
<1>c. \A g \in Hosts, u \in Slots :
        g # h \/ u # s => call'[g][u] = call[g][u]
  BY <1>m
<1>d. /\ call'[h][s].results = {}
      /\ call'[h][s].picks = {}
      /\ \/ call'[h][s].phase = "failed" /\ call'[h][s].live /\ call[h][s].live
         \/ call'[h][s].phase = "free" /\ ~call'[h][s].live
  <2>1. CASE call[h][s].live
    BY <1>m, <2>1 DEF Answer, FreeCall
  <2>2. CASE ~call[h][s].live
    BY <1>m, <2>2 DEF Answer, FreeCall
  <2> QED
    BY <2>1, <2>2
<1>1. TypeOK'
  BY <1>0, <1>a, <1>m DEF TypeOK
<1>2. RowInv' /\ RanInv' /\ StatusTruth' /\ UnblockIsJustified'
  BY <1>a DEF IInv, RowInv, RanInv, StatusTruth, UnblockIsJustified
<1>3. CallInv'
  BY <1>a, <1>c, <1>d DEF IInv, CallInv, Active
<1>4. PickInv'
  BY <1>a, <1>c, <1>d DEF IInv, PickInv
<1>5. TodoInv' /\ NoResultLost' /\ ClientInv'
  BY <1>a DEF IInv, TodoInv, NoResultLost, ClientInv
<1>6. ResultInv'
  BY <1>a, <1>c, <1>d DEF IInv, ResultInv
<1>7. SeenInv'
  BY <1>a, <1>c, <1>d DEF IInv, SeenInv, Active, Written, Present
<1>8. TakenInv'
  BY <1>a, <1>c, <1>d DEF IInv, TakenInv
<1> QED
  BY <1>1, <1>2, <1>3, <1>4, <1>5, <1>6, <1>7, <1>8 DEF IInv

(* What a commit writes: rows of the handler's host, which were pending or *)
(* have run.                                                               *)
LEMMA HbCommitWrites ==
  ASSUME IInv, NEW h \in Hosts, NEW s \in Slots, HbCommit(h, s)
  PROVE  /\ \A a \in Ids :
              \/ a \in call[h][s].picks /\ status'[a] = "sent"
              \/ a \notin call[h][s].picks /\ a \in Written(h, s) /\ status'[a] = outcome[a]
              \/ a \notin call[h][s].picks /\ a \notin Written(h, s) /\ status'[a] = status[a]
         /\ \A a \in call[h][s].picks :
              ran[a] = 0 /\ status[a] # "none" /\ row[a].host = h
         /\ \A a \in Written(h, s) :
              /\ a \in call[h][s].results
              /\ a \in Ids
              /\ ran[a] = 1
              /\ outcome[a] \in Outcomes
              /\ status[a] \notin {"none", "deleted"}
              /\ row[a].host = h
<1>0. TypeOK /\ call[h][s] \in Call /\ call[h][s].phase = "selected"
  BY DEF IInv, TypeOK, HbCommit
<1>e. \A a \in Ids :
        \/ a \in call[h][s].picks /\ status'[a] = "sent"
        \/ a \notin call[h][s].picks /\ a \in Written(h, s) /\ status'[a] = outcome[a]
        \/ a \notin call[h][s].picks /\ a \notin Written(h, s) /\ status'[a] = status[a]
  BY DEF HbCommit
<1>f. \A a \in call[h][s].picks :
        /\ ran[a] = 0
        /\ status[a] # "none"
        /\ row[a].host = h
  BY DEF IInv, PickInv
<1>g. \A a \in Written(h, s) :
        /\ a \in call[h][s].results
        /\ a \in Ids
        /\ ran[a] = 1
        /\ outcome[a] \in Outcomes
        /\ status[a] \notin {"none", "deleted"}
        /\ row[a].host = h
  <2> TAKE a \in Written(h, s)
  <2>1. a \in call[h][s].results /\ a \in Ids
    BY <1>0 DEF Written, Call
  <2>2. ran[a] = 1 /\ row[a].host = h
    BY <2>1 DEF IInv, ResultInv
  <2>3. outcome[a] \in Outcomes
    BY <1>0, <2>1, <2>2 DEF IInv, RanInv, TypeOK
  <2>4. Present(a)
    BY <1>0, <2>1 DEF IInv, SeenInv, Active
  <2> QED
    BY <2>1, <2>2, <2>3, <2>4 DEF Present
<1> QED
  BY <1>e, <1>f, <1>g

(* The handler commits and answers.                                        *)
LEMMA HbCommitInv ==
  ASSUME IInv, NEW h \in Hosts, NEW s \in Slots, HbCommit(h, s)
  PROVE  IInv'
<1>0. TypeOK /\ call[h][s] \in Call
  BY DEF IInv, TypeOK
<1>a. /\ call[h][s].phase = "selected"
      /\ UNCHANGED <<row, agent, client, ran, outcome, forgotten>>
  BY DEF HbCommit, history
<1> DEFINE picked == call[h][s].picks
           r == [FreeCall EXCEPT !.phase = "replied", !.live = TRUE,
                                 !.picks = picked]
<1>b. Answer(h, s, r) \in Call
  BY <1>0 DEF Answer, FreeCall, Call
<1>m. /\ call' \in [Hosts -> [Slots -> Call]]
      /\ call'[h][s] = Answer(h, s, r)
      /\ \A g \in Hosts, u \in Slots :
           g # h \/ u # s => call'[g][u] = call[g][u]
  <2>1. call' = [call EXCEPT ![h][s] = Answer(h, s, r)]
    BY DEF HbCommit
  <2> HIDE DEF r
  <2> QED
    BY ZenonT(40), <1>0, <1>b, <2>1, CallUpdate
<1>c. \A g \in Hosts, u \in Slots :
        g # h \/ u # s => call'[g][u] = call[g][u]
  BY <1>m
<1>d. /\ call'[h][s].results = {}
      /\ \/ /\ call'[h][s].phase = "replied" /\ call'[h][s].live
            /\ call[h][s].live
            /\ call'[h][s].picks = call[h][s].picks
         \/ /\ call'[h][s].phase = "free" /\ ~call'[h][s].live
            /\ call'[h][s].picks = {}
  <2>1. CASE call[h][s].live
    BY <1>m, <2>1 DEF Answer, FreeCall
  <2>2. CASE ~call[h][s].live
    BY <1>m, <2>2 DEF Answer, FreeCall
  <2> QED
    BY <2>1, <2>2
<1>e. \A a \in Ids :
        \/ a \in call[h][s].picks /\ status'[a] = "sent"
        \/ a \notin call[h][s].picks /\ a \in Written(h, s) /\ status'[a] = outcome[a]
        \/ a \notin call[h][s].picks /\ a \notin Written(h, s) /\ status'[a] = status[a]
  BY HbCommitWrites
<1>f. \A a \in call[h][s].picks :
        /\ ran[a] = 0
        /\ status[a] # "none"
        /\ row[a].host = h
  BY HbCommitWrites
<1>g. \A a \in Written(h, s) :
        /\ a \in call[h][s].results
        /\ a \in Ids
        /\ ran[a] = 1
        /\ outcome[a] \in Outcomes
        /\ status[a] \notin {"none", "deleted"}
        /\ row[a].host = h
  BY HbCommitWrites
<1>k. \A a \in Ids :
        /\ status'[a] = "none" <=> status[a] = "none"
        /\ status'[a] = "pending" => status[a] = "pending"
        /\ status'[a] = "sent" /\ ran[a] # 0 => status[a] = "sent"
        /\ row[a].host # h => status'[a] = status[a]
  BY <1>e, <1>f, <1>g
<1>1. TypeOK'
  <2>1. status' \in [Ids -> Status]
    <3>1. \A a \in Ids : status'[a] \in Status
      BY <1>0, <1>e, <1>g DEF TypeOK
    <3> QED
      BY <3>1 DEF HbCommit
  <2> QED
    BY <1>0, <1>a, <1>m, <2>1 DEF TypeOK
<1>2. RowInv' /\ RanInv'
  BY <1>a, <1>k DEF IInv, RowInv, RanInv
<1>3. StatusTruth'
  BY <1>a, <1>e DEF IInv, StatusTruth
<1>4. CallInv'
  BY <1>a, <1>c, <1>d DEF IInv, CallInv, Active
<1>5. PickInv'
  <2> SUFFICES ASSUME NEW g \in Hosts, NEW u \in Slots,
                      NEW a \in call'[g][u].picks
               PROVE  /\ ran[a] = 0
                      /\ status'[a] # "none"
                      /\ row[a].host = g
                      /\ call'[g][u].phase = "replied" => status'[a] # "pending"
                      /\ a \notin agent[g].todo
                      /\ \A w \in Slots : a \in call'[g][w].picks => w = u
    BY <1>a DEF PickInv
  <2>0. a \in call[g][u].picks
    BY <1>c, <1>d
  <2>1. a \in call[g][u].picks /\ a \in Ids
    BY <2>0, <1>0 DEF TypeOK, Call
  <2>2. \A w \in Slots : call'[g][w].picks \subseteq call[g][w].picks
    BY <1>c, <1>d
  <2>3. call'[g][u].phase = "replied" => status'[a] # "pending"
    <3>1. CASE g = h /\ u = s
      BY <3>1, <2>1, <1>e
    <3>2. CASE g # h \/ u # s
      BY <3>2, <2>1, <1>c, <1>k DEF IInv, PickInv
    <3> QED
      BY <3>1, <3>2
  <2> QED
    BY <2>1, <2>2, <2>3, <1>k DEF IInv, PickInv
<1>6. TodoInv'
  BY <1>0, <1>a, <1>k DEF IInv, TodoInv, TypeOK, Agent
<1>7. ResultInv'
  BY <1>a, <1>c, <1>d DEF IInv, ResultInv
<1>8. SeenInv'
  <2> SUFFICES ASSUME NEW g \in Hosts, NEW u \in Slots, Active(g, u)',
                      NEW a \in call'[g][u].results
               PROVE  /\ call'[g][u].seen[a] # "none"
                      /\ call'[g][u].seen[a] # "sent" => status'[a] # "sent"
                      /\ call'[g][u].phase = "selected" /\ a \in Written(g, u)'
                           => Present(a)'
    BY DEF SeenInv
  <2>1. u # s \/ g # h
    BY <1>d
  <2>2. call'[g][u] = call[g][u] /\ Active(g, u) /\ a \in call[g][u].results
    BY <2>1, <1>c DEF Active
  <2>3. g # h
    BY <2>1, <2>2, <1>a DEF IInv, CallInv, Active
  <2>4. a \in Ids /\ status'[a] = status[a]
    <3>1. a \in Ids
      BY <2>2, <1>0 DEF TypeOK, Call
    <3>2. row[a].host = g
      BY <2>2 DEF IInv, ResultInv
    <3> QED
      BY <2>3, <3>1, <3>2, <1>k
  <2>5. a \in Written(g, u)' <=> a \in Written(g, u)
    BY <2>2, <1>a DEF Written
  <2> QED
    BY <2>2, <2>4, <2>5 DEF IInv, SeenInv, Present
<1>9. TakenInv'
  <2> SUFFICES ASSUME NEW g \in Hosts, NEW u \in Slots, call'[g][u].live
               PROVE  /\ call'[g][u].phase \in {"sent", "started", "selected"}
                           => call'[g][u].results = agent[g].taken
                      /\ call'[g][u].phase = "replied"
                           => \A a \in agent[g].taken : status'[a] # "sent"
    BY <1>a DEF TakenInv
  <2>0. agent[g].taken \subseteq Ids
    BY <1>0 DEF TypeOK, Agent
  <2>1. CASE g = h /\ u = s
    <3>1. call[h][s].live /\ call[h][s].results = agent[h].taken
      BY <2>1, <1>a, <1>d DEF IInv, TakenInv
    <3>2. \A a \in agent[h].taken : status'[a] # "sent"
      <4> TAKE a \in agent[h].taken
      <4>1. a \in Ids /\ a \in call[h][s].results /\ ran[a] = 1 /\ row[a].host = h
        BY <2>0, <2>1, <3>1 DEF IInv, ResultInv
      <4>2. a \notin call[h][s].picks
        BY <4>1, <1>f
      <4>3. CASE a \in Written(h, s)
        BY <4>1, <4>2, <4>3, <1>e, <1>g
      <4>4. CASE a \notin Written(h, s)
        <5>1. call[h][s].seen[a] # "none"
          BY <4>1, <1>a DEF IInv, SeenInv, Active
        <5>2. outcome[a] \in Outcomes \cup {"none"}
          BY <4>1, <1>0 DEF TypeOK
        <5>3. call[h][s].seen[a] # "sent"
          BY <4>1, <4>4, <5>1, <5>2 DEF Written
        <5>4. status[a] # "sent"
          BY <4>1, <5>3, <1>a DEF IInv, SeenInv, Active
        <5> QED
          BY <4>1, <4>2, <4>4, <5>4, <1>e
      <4> QED
        BY <4>3, <4>4
    <3> QED
      BY <2>1, <3>2, <1>d
  <2>2. CASE g # h
    <3>1. \A a \in agent[g].taken : row[a].host = g
      BY DEF IInv, ResultInv
    <3> QED
      BY <2>0, <2>2, <3>1, <1>c, <1>k DEF IInv, TakenInv
  <2>3. CASE g = h /\ u # s
    <3>1. call'[g][u] = call[g][u]
      BY <2>3, <1>c
    <3>2. \A a \in agent[g].taken : status'[a] = "sent" => status[a] = "sent"
      BY <2>0, <1>k DEF IInv, ResultInv
    <3> QED
      BY <3>1, <3>2 DEF IInv, TakenInv
  <2> QED
    BY <2>1, <2>2, <2>3
<1>10. ClientInv'
  <2>1. \A o \in Clients : client[o].op = "revert" => client[o].id \in Ids
    BY <1>0 DEF TypeOK, Client, IdleClient
  <2> QED
    BY <2>1, <1>a, <1>k DEF IInv, ClientInv
<1>11. NoResultLost'
  BY <1>0, <1>a, <1>k DEF IInv, NoResultLost, TypeOK
<1>12. UnblockIsJustified'
  BY <1>a DEF IInv, UnblockIsJustified
<1> QED
  BY <1>1, <1>2, <1>3, <1>4, <1>5, <1>6, <1>7, <1>8, <1>9, <1>10, <1>11, <1>12
  DEF IInv

-----------------------------------------------------------------------------
(* The other writers.                                                      *)

(* What a writer other than the handler may do to the table.               *)
TableStep ==
  \A b \in Ids :
    \/ row'[b] = row[b] /\ status'[b] = status[b]
    \/ row'[b] = row[b] /\ Present(b) /\ status'[b] = "reverted"
    \/ row'[b] = row[b] /\ Present(b) /\ status'[b] = "deleted" /\ RowFree(b)
    \/ status[b] = "none" /\ status'[b] = "pending" /\ row'[b] \in Row

(* All the parts that such a step keeps by itself.                         *)
LEMMA TableStepInv ==
  ASSUME IInv, TableStep, UNCHANGED <<call, agent, ran, outcome, forgotten>>
  PROVE  /\ RowInv' /\ RanInv' /\ CallInv' /\ PickInv' /\ TodoInv'
         /\ ResultInv' /\ SeenInv' /\ TakenInv' /\ StatusTruth' /\ NoResultLost'
<1>0. TypeOK
  BY DEF IInv
<1>a. UNCHANGED <<call, agent, ran, outcome, forgotten>>
  OBVIOUS
<1>b. \A b \in Ids :
        /\ status'[b] = "none" => status[b] = "none"
        /\ status[b] # "none" => /\ row'[b] = row[b]
                                 /\ status'[b] # "none"
                                 /\ status'[b] = "pending" => status[b] = "pending"
        /\ status'[b] = "sent" => status[b] = "sent"
        /\ status'[b] \in Outcomes => status'[b] = status[b]
  BY DEF TableStep, Present
<1>c. \A b \in Ids : ran[b] # 0 => status[b] # "none"
  BY DEF IInv, RanInv
<1>1. RowInv'
  BY NoRowAssumption DEF TableStep, IInv, RowInv, Present
<1>2. RanInv'
  BY <1>a, <1>b DEF TableStep, IInv, RanInv
<1>3. CallInv'
  BY <1>a DEF IInv, CallInv, Active
<1>4. PickInv'
  <2>1. \A g \in Hosts, u \in Slots : call[g][u].picks \subseteq Ids
    BY <1>0 DEF TypeOK, Call
  <2> QED
    BY <2>1, <1>a, <1>b DEF IInv, PickInv
<1>5. TodoInv'
  <2>1. \A g \in Hosts : agent[g].todo \subseteq Ids
    BY <1>0 DEF TypeOK, Agent
  <2> QED
    BY <2>1, <1>a, <1>b DEF IInv, TodoInv
<1>6. ResultInv'
  <2>1. \A g \in Hosts, u \in Slots : call[g][u].results \subseteq Ids
    BY <1>0 DEF TypeOK, Call
  <2>2. \A b \in Ids : ran[b] = 1 => row'[b] = row[b]
    BY <1>b, <1>c
  <2>3. ASSUME NEW g \in Hosts,
               NEW b \in agent[g].results \cup agent[g].taken \cup agent[g].batch
        PROVE  ran[b] = 1 /\ row'[b].host = g
    <3>1. b \in Ids
      BY <1>0 DEF TypeOK, Agent
    <3>2. ran[b] = 1 /\ row[b].host = g
      BY DEF IInv, ResultInv
    <3> QED
      BY <3>1, <3>2, <2>2
  <2>4. \A g \in Hosts, u \in Slots : \A b \in call[g][u].results :
          ran[b] = 1 /\ row'[b].host = g
    BY <2>1, <2>2 DEF IInv, ResultInv
  <2> QED
    BY <2>3, <2>4, <1>a DEF ResultInv
<1>7. SeenInv'
  <2> SUFFICES ASSUME NEW g \in Hosts, NEW u \in Slots, Active(g, u),
                      NEW b \in call[g][u].results
               PROVE  /\ call[g][u].seen[b] # "none"
                      /\ call[g][u].seen[b] # "sent" => status'[b] # "sent"
                      /\ call[g][u].phase = "selected" /\ b \in Written(g, u)'
                           => Present(b)'
    BY <1>a DEF SeenInv, Active
  <2>1. b \in Ids /\ status[b] # "none" /\ row'[b] = row[b]
    BY <1>0, <1>b, <1>c DEF IInv, ResultInv, TypeOK, Call
  <2>2. b \in Written(g, u)' <=> b \in Written(g, u)
    BY <2>1, <1>a DEF Written
  <2>3. call[g][u].phase = "selected" /\ b \in Written(g, u) => ~RowFree(b)
    BY DEF RowFree
  <2> QED
    BY <2>1, <2>2, <2>3, <1>b DEF IInv, SeenInv, TableStep, Present
<1>8. TakenInv'
  <2>1. \A g \in Hosts : agent[g].taken \subseteq Ids
    BY <1>0 DEF TypeOK, Agent
  <2> QED
    BY <2>1, <1>a, <1>b DEF IInv, TakenInv
<1>9. StatusTruth' /\ NoResultLost'
  BY <1>a, <1>b DEF IInv, StatusTruth, NoResultLost
<1> QED
  BY <1>1, <1>2, <1>3, <1>4, <1>5, <1>6, <1>7, <1>8, <1>9

(* A client that has done with its transaction, or begins one.             *)
LEMMA ClientUpdate ==
  ASSUME TypeOK, NEW o \in Clients, NEW m \in Client,
         client' = [client EXCEPT ![o] = m]
  PROVE  /\ client' \in [Clients -> Client]
         /\ client'[o] = m
         /\ \A q \in Clients : q # o => client'[q] = client[q]
  BY DEF TypeOK

(* The idle client is a client.                                            *)
LEMMA IdleClientType == IdleClient \in Client
  BY DEF Client

(* A step of one client that leaves everything else alone.                 *)
LEMMA OnlyClientInv ==
  ASSUME IInv, UNCHANGED <<row, status, call, agent, ran, outcome, forgotten>>,
         client' \in [Clients -> Client], ClientInv'
  PROVE  IInv'
<1>a. UNCHANGED <<row, status, call, agent, ran, outcome, forgotten>>
  OBVIOUS
<1>1. TypeOK'
  BY <1>a DEF IInv, TypeOK
<1>2. TableStep
  BY <1>a DEF TableStep
<1>3. UnblockIsJustified'
  BY <1>a DEF IInv, UnblockIsJustified
<1> QED
  BY <1>1, <1>2, <1>3, <1>a, TableStepInv DEF IInv

(* A writer finds no open action and prepares an insert.                   *)
LEMMA CheckInv ==
  ASSUME IInv, NEW o \in Clients, NEW h \in Hosts, NEW k \in Kinds,
         NEW t \in Targets, CreateCheck(o, h, k, t) \/ PolicyCheck(o, h, k, t),
         k # "unblock_ip"
  PROVE  IInv'
<1>0. TypeOK
  BY DEF IInv
<1> DEFINE m == [op |-> "insert", row |-> [host |-> h, kind |-> k, target |-> t]]
<1>a. /\ client' = [client EXCEPT ![o] = m]
      /\ UNCHANGED <<row, status, call, agent, ran, outcome, forgotten>>
  BY DEF CreateCheck, PolicyCheck, serverVars, history
<1>b. m \in Client
  BY DEF Client, Row
<1>c. /\ client' \in [Clients -> Client]
      /\ client'[o] = m
      /\ \A q \in Clients : q # o => client'[q] = client[q]
  <2> HIDE DEF m
  <2> QED
    BY <1>0, <1>a, <1>b, ClientUpdate
<1>d. ClientInv'
  BY <1>a, <1>c DEF IInv, ClientInv
<1> QED
  BY <1>a, <1>c, <1>d, OnlyClientInv

(* A writer loads the row it will revert.                                  *)
LEMMA RevertReadInv ==
  ASSUME IInv, NEW o \in Clients, NEW a \in Ids, RevertRead(o, a)
  PROVE  IInv'
<1>0. TypeOK
  BY DEF IInv
<1> DEFINE m == [op |-> "revert", id |-> a, seen |-> status[a]]
<1>a. /\ client' = [client EXCEPT ![o] = m]
      /\ status[a] # "none"
      /\ UNCHANGED <<row, status, call, agent, ran, outcome, forgotten>>
  BY DEF RevertRead, Present, serverVars, history
<1>b. m \in Client
  BY <1>0 DEF Client, TypeOK
<1>c. /\ client' \in [Clients -> Client]
      /\ client'[o] = m
      /\ \A q \in Clients : q # o => client'[q] = client[q]
  <2> HIDE DEF m
  <2> QED
    BY <1>0, <1>a, <1>b, ClientUpdate
<1>d. ClientInv'
  <2>1. status[a] = "executed" => outcome[a] = "executed"
    BY DEF IInv, StatusTruth
  <2> QED
    BY <2>1, <1>a, <1>c DEF IInv, ClientInv
<1> QED
  BY <1>a, <1>c, <1>d, OnlyClientInv

(* A writer gives up.                                                      *)
LEMMA ClientAbortInv ==
  ASSUME IInv, NEW o \in Clients, ClientAbort(o)
  PROVE  IInv'
<1>0. TypeOK
  BY DEF IInv
<1>a. /\ client' = [client EXCEPT ![o] = IdleClient]
      /\ UNCHANGED <<row, status, call, agent, ran, outcome, forgotten>>
  BY DEF ClientAbort, serverVars, history
<1>c. /\ client' \in [Clients -> Client]
      /\ client'[o] = IdleClient
      /\ \A q \in Clients : q # o => client'[q] = client[q]
  BY <1>0, <1>a, IdleClientType, ClientUpdate
<1>d. ClientInv'
  BY <1>a, <1>c DEF IInv, ClientInv, IdleClient
<1> QED
  BY <1>a, <1>c, <1>d, OnlyClientInv

(* A prepared insert commits.                                              *)
LEMMA InsertCommitInv ==
  ASSUME IInv, NEW o \in Clients, NEW a \in Ids, InsertCommit(o, a)
  PROVE  IInv' /\ TableStep
<1>0. TypeOK
  BY DEF IInv
<1>a. /\ client[o].op = "insert"
      /\ status[a] = "none"
      /\ row' = [row EXCEPT ![a] = client[o].row]
      /\ status' = [status EXCEPT ![a] = "pending"]
      /\ client' = [client EXCEPT ![o] = IdleClient]
      /\ UNCHANGED <<call, agent, ran, outcome, forgotten>>
  BY DEF InsertCommit, history
<1>b. client[o].row \in Row /\ client[o].row.kind # "unblock_ip"
  <2>1. client[o] \in Client
    BY <1>0 DEF TypeOK
  <2> QED
    BY <2>1, <1>a DEF IInv, ClientInv, Client, IdleClient
<1>c. /\ client' \in [Clients -> Client]
      /\ client'[o] = IdleClient
      /\ \A q \in Clients : q # o => client'[q] = client[q]
  BY <1>0, <1>a, IdleClientType, ClientUpdate
<1>d. /\ row'[a] = client[o].row
      /\ status'[a] = "pending"
      /\ \A b \in Ids : b # a => row'[b] = row[b] /\ status'[b] = status[b]
  BY <1>0, <1>a DEF TypeOK
<1>1. TypeOK'
  BY <1>0, <1>a, <1>b, <1>c DEF TypeOK
<1>2. TableStep
  BY <1>a, <1>b, <1>d DEF TableStep
<1>3. ClientInv'
  BY <1>0, <1>a, <1>c, <1>d DEF IInv, ClientInv, IdleClient, TypeOK, Client
<1>4. UnblockIsJustified'
  <2>1. row[a] = NoRow
    BY <1>a DEF IInv, RowInv
  <2>2. \A b \in Ids : row'[b] # NoRow /\ row'[b].kind = "unblock_ip"
                         => row'[b] = row[b] /\ b # a
    BY <1>b, <1>d
  <2>3. \A b \in Ids : row[b] # NoRow => row'[b] = row[b]
    BY <2>1, <1>d
  <2> QED
    BY <2>2, <2>3, <1>a DEF IInv, UnblockIsJustified
<1> QED
  BY <1>1, <1>2, <1>3, <1>4, <1>a, TableStepInv DEF IInv

(* An action is deleted.                                                   *)
LEMMA DeleteActionInv ==
  ASSUME IInv, NEW a \in Ids, DeleteAction(a)
  PROVE  IInv' /\ TableStep
<1>0. TypeOK
  BY DEF IInv
<1>a. /\ Present(a) /\ RowFree(a)
      /\ status' = [status EXCEPT ![a] = "deleted"]
      /\ UNCHANGED <<row, call, agent, client, ran, outcome, forgotten>>
  BY DEF DeleteAction, history
<1>d. /\ status'[a] = "deleted"
      /\ \A b \in Ids : b # a => status'[b] = status[b]
  BY <1>0, <1>a DEF TypeOK
<1>1. TypeOK'
  BY <1>0, <1>a DEF TypeOK
<1>2. TableStep
  BY <1>a, <1>d DEF TableStep
<1>3. ClientInv'
  <2>1. \A q \in Clients : client[q].op = "revert" => client[q].id \in Ids
    BY <1>0 DEF TypeOK, Client, IdleClient
  <2> QED
    BY <2>1, <1>a, <1>d DEF IInv, ClientInv
<1>4. UnblockIsJustified'
  BY <1>a DEF IInv, UnblockIsJustified
<1> QED
  BY <1>1, <1>2, <1>3, <1>4, <1>a, TableStepInv DEF IInv

(* The row of an unblock differs from the block's in its kind only.        *)
LEMMA Unblocked ==
  ASSUME NEW r \in Row, r.kind = "block_ip"
  PROVE  LET u == [r EXCEPT !.kind = "unblock_ip"]
         IN  /\ u \in Row
             /\ [u EXCEPT !.kind = "block_ip"] = r
  BY DEF Row, Kinds

(* A revert commits, with or without an unblock.                           *)
LEMMA RevertCommitInv ==
  ASSUME IInv, NEW o \in Clients, RevertCommit(o)
  PROVE  IInv' /\ TableStep
<1>0. TypeOK
  BY DEF IInv
<1> DEFINE a == client[o].id
<1>a. /\ client[o].op = "revert"
      /\ Present(client[o].id)
      /\ client' = [client EXCEPT ![o] = IdleClient]
      /\ UNCHANGED <<call, agent, ran, outcome, forgotten>>
  BY DEF RevertCommit, history
<1>b. client[o].id \in Ids /\ client[o].seen \in Status
  <2>1. client[o] \in Client
    BY <1>0 DEF TypeOK
  <2> QED
    BY <2>1, <1>a DEF Client, IdleClient
<1> HIDE DEF a
<1>c. /\ client' \in [Clients -> Client]
      /\ client'[o] = IdleClient
      /\ \A q \in Clients : q # o => client'[q] = client[q]
  BY <1>0, <1>a, IdleClientType, ClientUpdate
<1>d. Reverted(o) = "reverted" \/ Reverted(o) = status[a]
  BY DEF Reverted, a
<1>e. a \in Ids /\ Present(a) /\ status[a] \in Status
  BY <1>0, <1>a, <1>b DEF a, TypeOK
<1>f. \A q \in Clients : client'[q].op = "revert"
                           => client'[q] = client[q] /\ client[q].id \in Ids
  BY <1>0, <1>c DEF TypeOK, Client, IdleClient
<1>1. CASE /\ status' = [status EXCEPT ![a] = Reverted(o)]
           /\ UNCHANGED row
  <2>1. /\ status'[a] = "reverted" \/ status'[a] = status[a]
        /\ \A b \in Ids : b # a => status'[b] = status[b]
    BY <1>0, <1>1, <1>d, <1>e DEF TypeOK
  <2>2. TypeOK'
    BY <1>0, <1>1, <1>a, <1>c, <1>d, <1>e DEF TypeOK
  <2>3. TableStep
    BY <1>1, <1>e, <2>1 DEF TableStep
  <2>4. ClientInv'
    BY <1>a, <1>c, <1>e, <1>f, <2>1 DEF IInv, ClientInv, Present, IdleClient
  <2>5. UnblockIsJustified'
    BY <1>1, <1>a DEF IInv, UnblockIsJustified
  <2> QED
    BY <2>2, <2>3, <2>4, <2>5, <1>a, TableStepInv DEF IInv
<1>2. ASSUME NeedsUnblock(o), NEW b \in Ids, status[b] = "none",
             status' = [status EXCEPT ![a] = Reverted(o), ![b] = "pending"],
             row' = [row EXCEPT ![b] = [row[a] EXCEPT !.kind = "unblock_ip"]]
      PROVE  IInv' /\ TableStep
  <2> DEFINE u == [row[a] EXCEPT !.kind = "unblock_ip"]
  <2>1. /\ row[a] \in Row /\ row[a] # NoRow
        /\ row[a].kind = "block_ip" /\ outcome[a] = "executed"
    BY <1>0, <1>2, <1>a, <1>e, NoRowAssumption
    DEF NeedsUnblock, a, IInv, TypeOK, RowInv, ClientInv, Present
  <2>2. u \in Row /\ [u EXCEPT !.kind = "block_ip"] = row[a]
    BY <2>1, Unblocked
  <2> HIDE DEF u
  <2>3. a # b
    BY <1>2, <1>e DEF Present
  <2>4. /\ status'[a] = "reverted" \/ status'[a] = status[a]
        /\ status'[b] = "pending"
        /\ \A d \in Ids : d # a /\ d # b => status'[d] = status[d]
        /\ row'[b] = u
        /\ \A d \in Ids : d # b => row'[d] = row[d]
    BY <1>0, <1>2, <1>d, <1>e, <2>3 DEF TypeOK, u
  <2>5. TypeOK'
    <3>1. status' \in [Ids -> Status]
      BY <1>0, <1>2, <1>d, <1>e DEF TypeOK
    <3>2. row' \in [Ids -> Row \cup {NoRow}]
      BY <1>0, <1>2, <2>2 DEF TypeOK, u
    <3> QED
      BY <1>0, <1>a, <1>c, <3>1, <3>2 DEF TypeOK
  <2>6. TableStep
    <3> SUFFICES ASSUME NEW d \in Ids
                 PROVE  \/ row'[d] = row[d] /\ status'[d] = status[d]
                        \/ row'[d] = row[d] /\ Present(d) /\ status'[d] = "reverted"
                        \/ status[d] = "none" /\ status'[d] = "pending" /\ row'[d] \in Row
      BY DEF TableStep
    <3> QED
      BY <1>2, <1>e, <2>2, <2>3, <2>4
  <2>7. ClientInv'
    <3>1. \A d \in Ids : status[d] # "none" => status'[d] # "none"
      BY <2>4, <1>e DEF Present
    <3> QED
      BY <3>1, <1>a, <1>c, <1>f DEF IInv, ClientInv, IdleClient
  <2>8. UnblockIsJustified'
    <3>1. row[b] = NoRow
      BY <1>2 DEF IInv, RowInv
    <3>2. \A d \in Ids : row[d] # NoRow => row'[d] = row[d]
      BY <3>1, <2>4
    <3>3. /\ row'[a] = row[a]
          /\ row'[a] = [row'[b] EXCEPT !.kind = "block_ip"]
      BY <2>2, <2>3, <2>4, <1>e
    <3> SUFFICES ASSUME NEW d \in Ids, row'[d] # NoRow, row'[d].kind = "unblock_ip"
                 PROVE  \E q \in Ids : /\ row'[q] # NoRow
                                       /\ row'[q] = [row'[d] EXCEPT !.kind = "block_ip"]
                                       /\ outcome[q] = "executed"
      BY <1>a DEF UnblockIsJustified
    <3>4. CASE d = b
      BY <3>3, <3>4, <2>1, <1>e
    <3>5. CASE d # b
      <4>1. row'[d] = row[d]
        BY <3>5, <2>4
      <4>2. PICK q \in Ids : /\ row[q] # NoRow
                             /\ row[q] = [row[d] EXCEPT !.kind = "block_ip"]
                             /\ outcome[q] = "executed"
        BY <4>1 DEF IInv, UnblockIsJustified
      <4> QED
        BY <4>1, <4>2, <3>2
    <3> QED
      BY <3>4, <3>5
  <2> QED
    BY <2>5, <2>6, <2>7, <2>8, <1>a, TableStepInv DEF IInv
<1> QED
  BY <1>1, <1>2 DEF RevertCommit, a

-----------------------------------------------------------------------------
(* Every step of the system keeps the invariant.                           *)
LEMMA NextInv == IInv /\ [Next]_vars => IInv'
<1> SUFFICES ASSUME IInv, [Next]_vars PROVE IInv'
  OBVIOUS
<1>1. CASE UNCHANGED vars
  <2>1. UNCHANGED <<row, status, call, agent, client, ran, outcome, forgotten>>
    BY <1>1 DEF vars
  <2>2. ClientInv' /\ client' \in [Clients -> Client]
    BY <2>1 DEF IInv, ClientInv, TypeOK
  <2> QED
    BY <2>1, <2>2, OnlyClientInv
<1>2. ASSUME NEW h \in Hosts, AgentStep(h)
      PROVE  IInv'
  <2>1. ASSUME NEW s \in Slots, AgentTick(h, s) PROVE IInv'
    BY <2>1, AgentTickInv
  <2>2. ASSUME NEW s \in Slots, AgentError(h, s) PROVE IInv'
    BY <2>2, AgentFailInv DEF AgentError
  <2>3. ASSUME NEW s \in Slots, AgentReceive(h, s) PROVE IInv'
    BY <2>3, AgentReceiveInv
  <2>4. ASSUME NEW a \in Ids, AgentExecute(h, a) PROVE IInv'
    BY <2>4, AgentExecuteInv
  <2>5. CASE AgentFinish(h)
    BY <2>5, AgentFinishInv
  <2> QED
    BY <1>2, <2>1, <2>2, <2>3, <2>4, <2>5 DEF AgentStep
<1>3. ASSUME NEW h \in Hosts, ServerStep(h)
      PROVE  IInv'
  BY <1>3, HbStartInv, HbSelectInv, HbCommitInv, HbAbortInv DEF ServerStep
<1>4. ASSUME NEW o \in Clients, ClientStep(o)
      PROVE  IInv'
  <2>1. ASSUME NEW h \in Hosts, NEW k \in Kinds, NEW t \in Targets,
               CreateCheck(o, h, k, t) \/ PolicyCheck(o, h, k, t)
        PROVE  IInv'
    <3>1. k # "unblock_ip"
      BY <2>1, KindsAssumption DEF CreateCheck, PolicyCheck
    <3> QED
      BY <2>1, <3>1, CheckInv
  <2>2. ASSUME NEW a \in Ids, InsertCommit(o, a) PROVE IInv'
    BY <2>2, InsertCommitInv
  <2>3. ASSUME NEW a \in Ids, RevertRead(o, a) PROVE IInv'
    BY <2>3, RevertReadInv
  <2>4. CASE RevertCommit(o)
    BY <2>4, RevertCommitInv
  <2>5. CASE ClientAbort(o)
    BY <2>5, ClientAbortInv
  <2> QED
    BY <1>4, <2>1, <2>2, <2>3, <2>4, <2>5 DEF ClientStep
<1>5. ASSUME NEW a \in Ids, DeleteAction(a)
      PROVE  IInv'
  BY <1>5, DeleteActionInv
<1>6. ASSUME NEW h \in Hosts, AgentCrash(h)
      PROVE  IInv'
  BY <1>6, AgentCrashInv
<1>7. ASSUME NEW h \in Hosts, NEW s \in Slots, AgentTimeout(h, s)
      PROVE  IInv'
  BY <1>7, AgentFailInv DEF AgentTimeout
<1> QED
  BY <1>1, <1>2, <1>3, <1>4, <1>5, <1>6, <1>7 DEF Next, ReliableNext, Faults

(* The invariant holds in every reachable state, for any number of hosts,  *)
(* actions, overlapping calls and writers.                                 *)
THEOREM Invariance == Spec => []IInv
<1>1. Init => IInv
  BY InitInv
<1>2. IInv /\ [Next]_vars => IInv'
  BY NextInv
<1> QED
  BY <1>1, <1>2, PTL DEF Spec

(* The variables keep their types: every status written is one the check   *)
(* constraint of the table allows.                                         *)
THEOREM TypeCorrect == Spec => []TypeOK
<1>1. IInv => TypeOK
  BY DEF IInv
<1> QED
  BY <1>1, Invariance, PTL

(* No agent runs a command twice.                                          *)
THEOREM AtMostOnceHolds == Spec => []AtMostOnce
<1>1. IInv => AtMostOnce
  BY DEF IInv, RanInv, AtMostOnce
<1> QED
  BY <1>1, Invariance, PTL

(* A command only reaches its own host.                                    *)
THEOREM OwnHostHolds == Spec => []OwnHost
<1>1. IInv => OwnHost
  BY DEF IInv, TodoInv, ResultInv, OwnHost
<1> QED
  BY <1>1, Invariance, PTL

(* The recorded status is what the execution gave.                         *)
THEOREM TableHolds == Spec => []StatusTruth
<1>1. IInv => StatusTruth
  BY DEF IInv
<1> QED
  BY <1>1, Invariance, PTL

(* No result of an agent that stays up is lost on the way to the table.    *)
THEOREM NoResultLostHolds == Spec => []NoResultLost
<1>1. IInv => NoResultLost
  BY DEF IInv
<1> QED
  BY <1>1, Invariance, PTL

(* No unblock is in the table without a block of its address that ran.     *)
THEOREM UnblockIsJustifiedHolds == Spec => []UnblockIsJustified
<1>1. IInv => UnblockIsJustified
  BY DEF IInv
<1> QED
  BY <1>1, Invariance, PTL

-----------------------------------------------------------------------------
(* The table implements the life of an action.                             *)

LEMMA InitRefines == Init => Lifecycle!Init
  BY DEF Init, Lifecycle!Init

(* Inserts, reverts and deletions are steps of the life of an action.      *)
LEMMA TableStepRefines ==
  ASSUME IInv, TableStep, UNCHANGED outcome
  PROVE  Lifecycle!Next
<1> SUFFICES ASSUME NEW a \in Ids PROVE Lifecycle!Step(a)
  BY DEF Lifecycle!Next
<1>1. status[a] \in Status /\ outcome'[a] = outcome[a]
  BY DEF IInv, TypeOK
<1> QED
  BY <1>1 DEF TableStep, Present, Lifecycle!Step, Lifecycle!Create,
     Lifecycle!Revert, Lifecycle!Delete, Lifecycle!Rest, Lifecycle!Outcomes

(* A commit sends and reports, each action by itself.                      *)
LEMMA HbCommitRefines ==
  ASSUME IInv, NEW h \in Hosts, NEW s \in Slots, HbCommit(h, s)
  PROVE  Lifecycle!Next
<1> SUFFICES ASSUME NEW a \in Ids PROVE Lifecycle!Step(a)
  BY DEF Lifecycle!Next
<1>1. status[a] \in Status /\ outcome'[a] = outcome[a]
  BY DEF IInv, TypeOK, HbCommit, history
<1>2. CASE a \in call[h][s].picks
  <2>1. ran[a] = 0 /\ status[a] # "none" /\ status'[a] = "sent"
    BY <1>2, HbCommitWrites
  <2>2. outcome[a] = "none" /\ status[a] \notin Outcomes
    BY <2>1 DEF IInv, RanInv, StatusTruth
  <2>3. status[a] # "deleted"
    BY <1>2 DEF HbCommit, Present
  <2> QED
    BY <1>1, <2>1, <2>2, <2>3
    DEF Lifecycle!Step, Lifecycle!Send, Lifecycle!Rest
<1>3. CASE a \notin call[h][s].picks /\ a \in Written(h, s)
  <2>1. /\ status'[a] = outcome[a]
        /\ outcome[a] \in Outcomes
        /\ status[a] \notin {"none", "deleted"}
        /\ ran[a] = 1
    BY <1>3, HbCommitWrites
  <2>2. status[a] # "pending"
    BY <2>1 DEF IInv, RanInv
  <2>3. status[a] \in Outcomes => status[a] = outcome[a]
    BY DEF IInv, StatusTruth
  <2> QED
    BY <1>1, <2>1, <2>2, <2>3
    DEF Lifecycle!Step, Lifecycle!Report, Lifecycle!Rest, Lifecycle!Outcomes
<1>4. CASE a \notin call[h][s].picks /\ a \notin Written(h, s)
  <2>1. status'[a] = status[a]
    BY <1>4, HbCommitWrites
  <2> QED
    BY <1>1, <2>1 DEF Lifecycle!Step, Lifecycle!Rest
<1> QED
  BY <1>2, <1>3, <1>4

(* The run of a command.                                                   *)
LEMMA AgentExecuteRefines ==
  ASSUME IInv, NEW h \in Hosts, NEW a \in Ids, AgentExecute(h, a)
  PROVE  Lifecycle!Next
<1> SUFFICES ASSUME NEW b \in Ids PROVE Lifecycle!Step(b)
  BY DEF Lifecycle!Next
<1>1. UNCHANGED status
  BY DEF AgentExecute, serverVars
<1>2. PICK r \in Outcomes : outcome' = [outcome EXCEPT ![a] = r]
  BY DEF AgentExecute
<1>3. CASE b = a
  <2>1. ran[a] = 0 /\ status[a] \notin {"none", "pending"}
    BY DEF IInv, TodoInv, AgentExecute
  <2>2. outcome[a] = "none"
    BY <2>1 DEF IInv, RanInv
  <2>3. status[a] \notin Outcomes /\ status[a] \in Status
    BY <2>2 DEF IInv, StatusTruth, TypeOK
  <2>4. outcome'[a] \in Outcomes
    BY <1>2 DEF IInv, TypeOK
  <2> QED
    BY <1>1, <1>3, <2>1, <2>2, <2>3, <2>4
    DEF Lifecycle!Step, Lifecycle!Run, Lifecycle!Outcomes
<1>4. CASE b # a
  BY <1>1, <1>2, <1>4 DEF IInv, TypeOK, Lifecycle!Step, Lifecycle!Rest
<1> QED
  BY <1>3, <1>4

(* Every step maps to a step or a stutter.                                 *)
LEMMA NextRefines ==
  IInv /\ [Next]_vars => [Lifecycle!Next]_<<status, outcome>>
<1> SUFFICES ASSUME IInv, [Next]_vars
             PROVE  Lifecycle!Next \/ UNCHANGED <<status, outcome>>
  OBVIOUS
<1>1. CASE UNCHANGED vars
  BY <1>1 DEF vars
<1>2. ASSUME NEW h \in Hosts, AgentStep(h)
      PROVE  Lifecycle!Next \/ UNCHANGED <<status, outcome>>
  BY <1>2, AgentExecuteRefines
  DEF AgentStep, AgentTick, AgentError, AgentFail, AgentReceive, AgentFinish,
      serverVars, history
<1>3. ASSUME NEW h \in Hosts, ServerStep(h)
      PROVE  Lifecycle!Next \/ UNCHANGED <<status, outcome>>
  BY <1>3, HbCommitRefines
  DEF ServerStep, HbStart, HbSelect, HbAbort, serverVars, history
<1>4. ASSUME NEW o \in Clients, ClientStep(o)
      PROVE  Lifecycle!Next \/ UNCHANGED <<status, outcome>>
  <2>1. ASSUME NEW a \in Ids, InsertCommit(o, a) PROVE Lifecycle!Next
    BY <2>1, InsertCommitInv, TableStepRefines DEF InsertCommit, history
  <2>2. CASE RevertCommit(o)
    BY <2>2, RevertCommitInv, TableStepRefines DEF RevertCommit, history
  <2> QED
    BY <1>4, <2>1, <2>2
    DEF ClientStep, CreateCheck, PolicyCheck, RevertRead, ClientAbort,
        serverVars, history
<1>5. ASSUME NEW a \in Ids, DeleteAction(a)
      PROVE  Lifecycle!Next
  BY <1>5, DeleteActionInv, TableStepRefines DEF DeleteAction, history
<1>6. CASE Faults
  BY <1>6 DEF Faults, AgentCrash, AgentTimeout, AgentFail, serverVars, history
<1> QED
  BY <1>1, <1>2, <1>3, <1>4, <1>5, <1>6 DEF Next, ReliableNext

(* Handlers, retries and concurrent writers move every action along its    *)
(* life and in no other way.                                               *)
THEOREM Refinement == Spec => ImplementsLifecycle
<1>1. Init => Lifecycle!Init
  BY InitRefines
<1>2. IInv /\ [Next]_vars => [Lifecycle!Next]_<<status, outcome>>
  BY NextRefines
<1> QED
  BY <1>1, <1>2, Invariance, PTL DEF Spec, ImplementsLifecycle, Lifecycle!Spec

=============================================================================
