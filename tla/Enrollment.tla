------------------------------ MODULE Enrollment ------------------------------
(***************************************************************************)
(* How a machine becomes the agent of a host: one-shot tokens on the       *)
(* host's row, the enrollment requests the server handles, the             *)
(* certificates it signs, and the four files each machine keeps.           *)
(* Source: server/app/services/enrollment.py, api/agents.py, and the       *)
(* agent's enrollclient and agentstate.                                    *)
(*                                                                         *)
(* A token and a certificate are numbered in the order they are made; the  *)
(* number of a certificate stands for its key pair and for the reply that  *)
(* carries it.  A file holds such a number, nothing, or a torn write.      *)
(***************************************************************************)
EXTENDS Integers, Sequences

CONSTANTS Hosts, Machines,
  MaxTokens,    \* tokens minted
  MaxRequests   \* enroll commands run

VARIABLES
  alive,     \* host -> whether its row exists
  token,     \* host -> hosts.enrollment_token while it has not expired
  minted,    \* the host each token was minted for
  request,   \* the handlers of /agents/enroll, one for each command
  certs,     \* the certificates signed, with the token each was given for
  command,   \* machine -> its `enroll` process
  disk,      \* machine -> what its four files hold
  raced      \* history: tokens that two requests matched before one was spent

enrollVars == <<alive, token, minted, request, certs, command, disk, raced>>

None == 0      \* no token, no file
Torn == 0 - 1  \* truncated, and not written again

(* Mutation: the state is written first.                                   *)
SaveOrderStateFirst == <<"state", "ca", "crt", "key">>

SaveOrder == <<"ca", "crt", "key", "state">>

Files == {"ca", "crt", "key", "state"}

NoCommand == [doing |-> "idle", request |-> 0, answer |-> 0, next |-> 1]
Ended(c) == [NoCommand EXCEPT !.answer = c.answer]

EnrollInit ==
  /\ alive = [h \in Hosts |-> TRUE]
  /\ token = [h \in Hosts |-> None]
  /\ minted = << >> /\ request = << >> /\ certs = << >>
  /\ command = [m \in Machines |-> NoCommand]
  /\ disk = [m \in Machines |-> [f \in Files |-> None]]
  /\ raced = {}

-----------------------------------------------------------------------------
(* Operators: a new token takes the place of the older one.                *)
MintToken(h) ==
  /\ alive[h] /\ Len(minted) < MaxTokens
  /\ minted' = Append(minted, h)
  /\ token' = [token EXCEPT ![h] = Len(minted) + 1]
  /\ UNCHANGED <<alive, request, certs, command, disk, raced>>

(* An expired token is found no more than a missing one.                   *)
TokenExpires(h) ==
  /\ token[h] # None
  /\ token' = [token EXCEPT ![h] = None]
  /\ UNCHANGED <<alive, minted, request, certs, command, disk, raced>>

-----------------------------------------------------------------------------
(* `enroll --token t` on machine m: nobody keeps two machines, or one      *)
(* machine twice, from being given the same command line.                  *)
EnrollStart(m, t) ==
  /\ command[m].doing = "idle" /\ Len(request) < MaxRequests
  /\ request' = Append(request, [token |-> t, at |-> "sent", host |-> minted[t], cert |-> 0])
  /\ command' = [command EXCEPT ![m] =
       [@ EXCEPT !.doing = "asking", !.request = Len(request) + 1]]
  /\ UNCHANGED <<alive, token, minted, certs, disk, raced>>

(* The client's 30 s are over, or the command is interrupted.  The handler *)
(* goes on.                                                                *)
GiveUp(m) ==
  /\ command[m].doing = "asking"
  /\ command' = [command EXCEPT ![m] = Ended(@)]
  /\ UNCHANGED <<alive, token, minted, request, certs, disk, raced>>

-----------------------------------------------------------------------------
(* The handler: validate_and_consume reads the row, spends the token and   *)
(* commits; a second commit follows, and the certificate is signed.        *)
MovesTo(q, at) == request' = [request EXCEPT ![q].at = at]

Validate(q) ==
  LET t == request[q].token  h == request[q].host IN
  /\ request[q].at = "sent" /\ alive[h] /\ token[h] = t
  /\ MovesTo(q, "matched")
  /\ raced' = IF \E p \in DOMAIN request : request[p].at = "matched" /\ request[p].token = t
              THEN raced \cup {t} ELSE raced
  /\ UNCHANGED <<alive, token, minted, certs, command, disk>>

(* Mutation: the token stays on the row.                                   *)
ConsumeKeeping(q) ==
  /\ request[q].at = "matched" /\ alive[request[q].host]
  /\ MovesTo(q, "spent")
  /\ UNCHANGED <<alive, token, minted, certs, command, disk, raced>>

(* The UPDATE is by host id: it takes away whatever token is there by now. *)
Consume(q) ==
  /\ request[q].at = "matched" /\ alive[request[q].host]
  /\ MovesTo(q, "spent")
  /\ token' = [token EXCEPT ![request[q].host] = None]
  /\ UNCHANGED <<alive, minted, certs, command, disk, raced>>

Sign(q) ==
  /\ request[q].at = "spent" /\ alive[request[q].host]
  /\ certs' = Append(certs, [host |-> request[q].host, token |-> request[q].token])
  /\ request' = [request EXCEPT ![q].at = "signed", ![q].cert = Len(certs) + 1]
  /\ UNCHANGED <<alive, token, minted, command, disk, raced>>

(* 401, an error of the database, a row that is gone, the end of the       *)
(* server.                                                                 *)
EnrollFails(q) ==
  /\ request[q].at \in {"sent", "matched", "spent"}
  /\ MovesTo(q, "failed")
  /\ command' = [m \in Machines |->
       IF command[m].request = q THEN Ended(command[m]) ELSE command[m]]
  /\ UNCHANGED <<alive, token, minted, certs, disk, raced>>

-----------------------------------------------------------------------------
(* agentstate.Save: four files, one after the other, over the older ones.  *)
EnrollAnswer(m) ==
  LET q == command[m].request IN
  /\ command[m].doing = "asking" /\ request[q].at = "signed"
  /\ command' = [command EXCEPT ![m].doing = "saving", ![m].answer = request[q].cert]
  /\ UNCHANGED <<alive, token, minted, request, certs, disk, raced>>

SaveFile(m) ==
  LET c == command[m] IN
  /\ c.doing = "saving"
  /\ disk' = [disk EXCEPT ![m][SaveOrder[c.next]] = c.answer]
  /\ command' = [command EXCEPT ![m] =
       IF c.next = Len(SaveOrder) THEN Ended(c) ELSE [c EXCEPT !.next = c.next + 1]]
  /\ UNCHANGED <<alive, token, minted, request, certs, raced>>

(* The command ends in the middle: a full disk, a signal, a power cut.     *)
SaveCut(m) ==
  /\ command[m].doing = "saving"
  /\ \/ disk' = [disk EXCEPT ![m][SaveOrder[command[m].next]] = Torn]
     \/ UNCHANGED disk
  /\ command' = [command EXCEPT ![m] = Ended(@)]
  /\ UNCHANGED <<alive, token, minted, request, certs, raced>>

-----------------------------------------------------------------------------
(* agentstate.Load and grpcclient.Dial.                                    *)
Loads(m) == disk[m]["state"] > 0
Dials(m) == disk[m]["ca"] > 0 /\ disk[m]["crt"] > 0 /\ disk[m]["key"] = disk[m]["crt"]

EnrollNext ==
  \/ \E h \in Hosts : MintToken(h) \/ TokenExpires(h)
  \/ \E q \in DOMAIN request : Validate(q) \/ Consume(q) \/ Sign(q) \/ EnrollFails(q)
  \/ \E m \in Machines :
       \/ \E t \in DOMAIN minted : EnrollStart(m, t)
       \/ GiveUp(m) \/ EnrollAnswer(m) \/ SaveFile(m) \/ SaveCut(m)

-----------------------------------------------------------------------------
EnrollTypeOK ==
  /\ alive \in [Hosts -> BOOLEAN]
  /\ minted \in Seq(Hosts)
  /\ token \in [Hosts -> 0 .. Len(minted)]
  /\ certs \in Seq([host : Hosts, token : Nat])
  /\ request \in Seq([token : Nat, host : Hosts, cert : Nat,
       at : {"sent", "matched", "spent", "signed", "failed"}])
  /\ command \in [Machines -> [doing : {"idle", "asking", "saving"},
       request : Nat, answer : Nat, next : 1 .. 4]]
  /\ disk \in [Machines -> [Files -> Nat \cup {Torn}]]
  /\ raced \subseteq 1 .. Len(minted)

=============================================================================
