---------------------------- MODULE HostSetupProofs ----------------------------
(***************************************************************************)
(* Theorems about HostSetup.                                               *)
(***************************************************************************)
EXTENDS HostSetupProps, TLAPS

Requests == [token : Nat, host : Hosts, cert : Nat,
             at : {"sent", "matched", "spent", "signed", "failed"}]
Certs == [host : Hosts, token : Nat]
Reports == [host : Hosts, cn : Hosts, gone : SUBSET Nat,
            at : {"sent", "replacing", "stored", "over"}]
Commands == [doing : {"idle", "asking", "saving"}, request : Nat, answer : Nat, next : 1 .. 4]
Disks == [Files -> Nat \cup {Torn}]

EnrollInv == EnrollTypeOK /\ TokenInv /\ FileInv

-----------------------------------------------------------------------------
(* What Append and EXCEPT do to a sequence.                                *)
LEMMA AppendFacts ==
  ASSUME NEW S, NEW s \in Seq(S), NEW e \in S
  PROVE  /\ Append(s, e) \in Seq(S)
         /\ Len(s) \in Nat /\ Len(Append(s, e)) = Len(s) + 1
         /\ DOMAIN s = 1 .. Len(s) /\ DOMAIN Append(s, e) = 1 .. Len(s) + 1
         /\ \A i \in DOMAIN s : Append(s, e)[i] = s[i]
         /\ Append(s, e)[Len(s) + 1] = e
  OBVIOUS

LEMMA ExceptFacts ==
  ASSUME NEW S, NEW s \in Seq(S), NEW i \in DOMAIN s, NEW e \in S
  PROVE  /\ [s EXCEPT ![i] = e] \in Seq(S)
         /\ DOMAIN [s EXCEPT ![i] = e] = DOMAIN s
         /\ \A j \in DOMAIN s : [s EXCEPT ![i] = e][j] = IF j = i THEN e ELSE s[j]
  OBVIOUS

LEMMA RequestTypes ==
  ASSUME EnrollTypeOK
  PROVE  /\ request \in Seq(Requests) /\ Len(request) \in Nat /\ DOMAIN request = 1 .. Len(request)
         /\ \A q \in DOMAIN request :
              /\ request[q] \in Requests
              /\ request[q].token \in Nat /\ request[q].host \in Hosts /\ request[q].cert \in Nat
              /\ request[q].at \in {"sent", "matched", "spent", "signed", "failed"}
<1>1. request \in Seq(Requests)
  BY DEF EnrollTypeOK, Requests
<1>2. ASSUME NEW q \in DOMAIN request PROVE request[q] \in Requests
  BY <1>1
<1> QED  BY <1>1, <1>2 DEF Requests

LEMMA CommandTypes ==
  ASSUME EnrollTypeOK, NEW m \in Machines
  PROVE  /\ command[m] \in Commands
         /\ command[m].request \in Nat /\ command[m].answer \in Nat /\ command[m].next \in 1 .. 4
         /\ command[m].doing \in {"idle", "asking", "saving"}
         /\ disk[m] \in Disks
         /\ \A f \in Files : disk[m][f] \in Int
<1>1. command[m] \in Commands /\ disk[m] \in Disks
  BY DEF EnrollTypeOK, Commands, Disks
<1> QED  BY <1>1 DEF Commands, Disks, Torn

(* A command that ends keeps its answer.                                   *)
LEMMA EndedFacts ==
  ASSUME NEW c \in Commands
  PROVE  /\ Ended(c) \in Commands /\ Ended(c).doing = "idle" /\ Ended(c).answer = c.answer
         /\ Ended(c).next = 1
BY DEF Ended, NoCommand, Commands

(* A request moves on: nothing but its position changes.                   *)
LEMMA MovesToFacts ==
  ASSUME EnrollTypeOK, NEW q \in DOMAIN request,
         NEW a \in {"sent", "matched", "spent", "signed", "failed"}, MovesTo(q, a)
  PROVE  /\ request' \in Seq(Requests) /\ DOMAIN request' = DOMAIN request
         /\ \A p \in DOMAIN request :
              /\ request'[p].token = request[p].token
              /\ request'[p].host = request[p].host
              /\ request'[p].cert = request[p].cert
              /\ request'[p].at = IF p = q THEN a ELSE request[p].at
<1> DEFINE e == [request[q] EXCEPT !.at = a]
<1>1. request \in Seq(Requests)
  BY DEF EnrollTypeOK, Requests
<1>2. request[q] \in Requests
  BY <1>1
<1>3. e \in Requests /\ e.token = request[q].token /\ e.host = request[q].host
      /\ e.cert = request[q].cert /\ e.at = a
  BY <1>2 DEF Requests
<1>4. request' = [request EXCEPT ![q] = e]
  BY DEF MovesTo
<1> HIDE DEF e
<1> QED  BY <1>1, <1>3, <1>4, ExceptFacts

-----------------------------------------------------------------------------
(* Steps that leave commands, files and certificates alone, and keep the   *)
(* certificates of the requests, keep FileInv.                             *)
LEMMA FilesAside ==
  ASSUME FileInv, UNCHANGED <<certs, command, disk>>,
         DOMAIN request' = DOMAIN request,
         \A p \in DOMAIN request : request'[p].cert = request[p].cert
  PROVE  FileInv'
BY DEF FileInv, SavingInv, ApartInv

(* So do steps that at most end commands.                                  *)
LEMMA CommandsEnd ==
  ASSUME EnrollTypeOK, FileInv, UNCHANGED <<certs, disk>>,
         DOMAIN request' = DOMAIN request,
         \A p \in DOMAIN request : request'[p].cert = request[p].cert,
         \A m \in Machines : command'[m] \in {command[m], Ended(command[m])}
  PROVE  FileInv'
<1>1. ASSUME NEW m \in Machines
      PROVE  /\ command'[m].answer = command[m].answer
             /\ \/ command'[m] = command[m]
                \/ command'[m].doing = "idle" /\ command'[m].next = 1
  BY CommandTypes, EndedFacts
<1>2. ASSUME NEW m \in Machines PROVE SavingInv(m)'
  BY <1>1 DEF FileInv, SavingInv
<1>3. ASSUME NEW m \in Machines, NEW n \in Machines PROVE ApartInv(m, n)'
  <2>1. CASE command'[m].doing = "idle"
    BY <2>1 DEF ApartInv
  <2>2. CASE command'[m] = command[m] /\ command[m].doing # "idle"
    <3>1. SavingInv(m) /\ ApartInv(m, n)
      BY DEF FileInv
    <3> QED  BY <1>1, <2>2, <3>1 DEF SavingInv, ApartInv
  <2> QED  BY <1>1, <2>1, <2>2
<1> QED  BY <1>2, <1>3 DEF FileInv

LEMMA MintTokenKeeps ==
  ASSUME EnrollInv, NEW h \in Hosts, MintToken(h)
  PROVE  EnrollInv'
<1> USE DEF EnrollInv
<1>1. /\ minted \in Seq(Hosts) /\ minted' = Append(minted, h) /\ token \in [Hosts -> 0 .. Len(minted)]
      /\ token' = [token EXCEPT ![h] = Len(minted) + 1]
      /\ UNCHANGED <<alive, request, certs, command, disk, raced>>
  BY DEF MintToken, EnrollTypeOK
<1>2. /\ minted' \in Seq(Hosts) /\ Len(minted) \in Nat /\ Len(minted') = Len(minted) + 1
      /\ DOMAIN minted = 1 .. Len(minted) /\ DOMAIN minted' = 1 .. Len(minted) + 1
      /\ \A i \in DOMAIN minted : minted'[i] = minted[i]
  BY <1>1, AppendFacts
<1>3. EnrollTypeOK'
  BY <1>1, <1>2 DEF EnrollTypeOK
<1>4. TokenInv'
  BY <1>1, <1>2, RequestTypes DEF TokenInv, RequestInv, PairInv, Holds
<1>5. FileInv'
  BY <1>1, FilesAside
<1> QED  BY <1>3, <1>4, <1>5

LEMMA TokenExpiresKeeps ==
  ASSUME EnrollInv, NEW h \in Hosts, TokenExpires(h)
  PROVE  EnrollInv'
<1> USE DEF EnrollInv
<1>1. /\ token \in [Hosts -> 0 .. Len(minted)] /\ token' = [token EXCEPT ![h] = 0]
      /\ UNCHANGED <<alive, minted, request, certs, command, disk, raced>>
  BY DEF TokenExpires, EnrollTypeOK, None
<1>2. Len(minted) \in Nat /\ DOMAIN minted = 1 .. Len(minted)
  BY DEF EnrollTypeOK
<1>3. EnrollTypeOK'
  BY <1>1, <1>2 DEF EnrollTypeOK
<1>4. TokenInv'
  BY <1>1, <1>2, RequestTypes DEF TokenInv, RequestInv, PairInv, Holds
<1>5. FileInv'
  BY <1>1, FilesAside
<1> QED  BY <1>3, <1>4, <1>5

(* A request that fails, or is refused, keeps no token from anybody.       *)
LEMMA ValidateKeeps ==
  ASSUME EnrollInv, NEW q \in DOMAIN request, Validate(q)
  PROVE  EnrollInv'
<1> USE DEF EnrollInv
<1>1. /\ request[q].at = "sent" /\ token[request[q].host] = request[q].token
      /\ MovesTo(q, "matched")
      /\ raced \subseteq raced'
      /\ raced' \subseteq raced \cup {request[q].token}
      /\ \A p \in DOMAIN request :
           request[p].at = "matched" /\ request[p].token = request[q].token => request[q].token \in raced'
      /\ UNCHANGED <<alive, token, minted, certs, command, disk>>
  BY DEF Validate
<1>2. /\ request' \in Seq(Requests) /\ DOMAIN request' = DOMAIN request
      /\ \A p \in DOMAIN request :
           /\ request'[p].token = request[p].token
           /\ request'[p].host = request[p].host
           /\ request'[p].cert = request[p].cert
           /\ request'[p].at = IF p = q THEN "matched" ELSE request[p].at
  BY <1>1, MovesToFacts
<1>3. EnrollTypeOK'
  <2>1. request[q].token \in 1 .. Len(minted)
    BY SMTT(40) DEF EnrollTypeOK, TokenInv, RequestInv
  <2> QED  BY <1>1, <1>2, <2>1 DEF EnrollTypeOK, Requests
<1>4. TokenInv'
  <2>1. ASSUME NEW p \in DOMAIN request PROVE RequestInv(p)'
    BY <1>1, <1>2 DEF TokenInv, RequestInv
  <2>2. ASSUME NEW p \in DOMAIN request, p # q, Holds(p), request[p].token = request[q].token
        PROVE  request[q].token \in raced'
    <3>1. RequestInv(p) /\ RequestInv(q)
      BY DEF TokenInv
    <3> QED  BY <1>1, <2>2, <3>1 DEF RequestInv, Holds
  <2>3. ASSUME NEW p \in DOMAIN request, NEW r \in DOMAIN request, p # r PROVE PairInv(p, r)'
    <3>1. PairInv(p, r)
      BY <2>3 DEF TokenInv
    <3> QED  BY <1>1, <1>2, <2>2, <2>3, <3>1 DEF PairInv, Holds
  <2> QED  BY <1>1, <1>2, <2>1, <2>3 DEF TokenInv
<1>5. FileInv'
  BY <1>1, <1>2, FilesAside
<1> QED  BY <1>3, <1>4, <1>5

LEMMA ConsumeKeeps ==
  ASSUME EnrollInv, NEW q \in DOMAIN request, Consume(q)
  PROVE  EnrollInv'
<1> USE DEF EnrollInv
<1>1. /\ request[q].at = "matched" /\ MovesTo(q, "spent")
      /\ token' = [token EXCEPT ![request[q].host] = 0]
      /\ UNCHANGED <<alive, minted, certs, command, disk, raced>>
  BY DEF Consume, None
<1>2. /\ request' \in Seq(Requests) /\ DOMAIN request' = DOMAIN request
      /\ \A p \in DOMAIN request :
           /\ request'[p].token = request[p].token
           /\ request'[p].host = request[p].host
           /\ request'[p].cert = request[p].cert
           /\ request'[p].at = IF p = q THEN "spent" ELSE request[p].at
  BY <1>1, MovesToFacts
<1>3. Len(minted) \in Nat /\ DOMAIN minted = 1 .. Len(minted)
      /\ token \in [Hosts -> 0 .. Len(minted)]
  BY DEF EnrollTypeOK
<1>4. token' \in [Hosts -> 0 .. Len(minted)]
  BY <1>1, <1>3, RequestTypes
<1>5. EnrollTypeOK'
  BY <1>1, <1>2, <1>4 DEF EnrollTypeOK, Requests
<1>6. TokenInv'
  <2>1. ASSUME NEW p \in DOMAIN request PROVE RequestInv(p)'
    <3>1. RequestInv(p) /\ request[p].host \in Hosts /\ request[q].host \in Hosts
      BY RequestTypes DEF TokenInv
    <3>2. /\ token'[request[p].host] \in {0, token[request[p].host]}
          /\ token'[request[q].host] = 0
      BY <1>1, <1>3, <3>1
    <3>3. request[p].token # 0
      BY <1>3, <3>1 DEF RequestInv
    <3> QED  BY <1>1, <1>2, <3>1, <3>2, <3>3 DEF RequestInv
  <2>2. ASSUME NEW p \in DOMAIN request, NEW r \in DOMAIN request, p # r PROVE PairInv(p, r)'
    <3>1. PairInv(p, r)
      BY <2>2 DEF TokenInv
    <3> QED  BY <1>1, <1>2, <3>1 DEF PairInv, Holds
  <2> QED  BY <1>1, <1>2, <2>1, <2>2 DEF TokenInv
<1>7. FileInv'
  BY <1>1, <1>2, FilesAside
<1> QED  BY <1>5, <1>6, <1>7

LEMMA EnrollFailsKeeps ==
  ASSUME EnrollInv, NEW q \in DOMAIN request, EnrollFails(q)
  PROVE  EnrollInv'
<1> USE DEF EnrollInv
<1>1. /\ request[q].at \in {"sent", "matched", "spent"} /\ MovesTo(q, "failed")
      /\ command' = [m \in Machines |->
           IF command[m].request = q THEN Ended(command[m]) ELSE command[m]]
      /\ UNCHANGED <<alive, token, minted, certs, disk, raced>>
  BY DEF EnrollFails
<1>2. /\ request' \in Seq(Requests) /\ DOMAIN request' = DOMAIN request
      /\ \A p \in DOMAIN request :
           /\ request'[p].token = request[p].token
           /\ request'[p].host = request[p].host
           /\ request'[p].cert = request[p].cert
           /\ request'[p].at = IF p = q THEN "failed" ELSE request[p].at
  BY <1>1, MovesToFacts
<1>3. ASSUME NEW m \in Machines
      PROVE  Ended(command[m]) \in Commands /\ command[m] \in Commands
  BY CommandTypes, EndedFacts
<1>4. EnrollTypeOK'
  BY <1>1, <1>2, <1>3 DEF EnrollTypeOK, Requests, Commands
<1>5. TokenInv'
  <2>1. ASSUME NEW p \in DOMAIN request PROVE RequestInv(p)'
    BY <1>1, <1>2 DEF TokenInv, RequestInv
  <2>2. ASSUME NEW p \in DOMAIN request, NEW r \in DOMAIN request, p # r PROVE PairInv(p, r)'
    <3>1. PairInv(p, r)
      BY <2>2 DEF TokenInv
    <3> QED  BY <1>1, <1>2, <3>1 DEF PairInv, Holds
  <2> QED  BY <1>1, <1>2, <2>1, <2>2 DEF TokenInv
<1>6. FileInv'
  BY <1>1, <1>2, CommandsEnd
<1> QED  BY <1>4, <1>5, <1>6

LEMMA GiveUpKeeps ==
  ASSUME EnrollInv, NEW m \in Machines, GiveUp(m)
  PROVE  EnrollInv'
<1> USE DEF EnrollInv
<1>1. /\ command' = [command EXCEPT ![m] = Ended(command[m])]
      /\ UNCHANGED <<alive, token, minted, request, certs, disk, raced>>
  BY DEF GiveUp
<1>2. EnrollTypeOK'
  BY <1>1, EndedFacts, CommandTypes DEF EnrollTypeOK, Commands
<1>3. TokenInv'
  BY <1>1 DEF TokenInv, RequestInv, PairInv, Holds
<1>4. \A n \in Machines : command'[n] \in {command[n], Ended(command[n])}
  BY <1>1 DEF EnrollTypeOK
<1>5. FileInv'
  BY <1>1, <1>4, CommandsEnd
<1> QED  BY <1>2, <1>3, <1>5

LEMMA EnrollStartKeeps ==
  ASSUME EnrollInv, NEW m \in Machines, NEW t \in DOMAIN minted, EnrollStart(m, t)
  PROVE  EnrollInv'
<1> USE DEF EnrollInv
<1> DEFINE e == [token |-> t, at |-> "sent", host |-> minted[t], cert |-> 0]
           c == [command[m] EXCEPT !.doing = "asking", !.request = Len(request) + 1]
<1>1. /\ command[m].doing = "idle" /\ request' = Append(request, e)
      /\ command' = [command EXCEPT ![m] = c]
      /\ UNCHANGED <<alive, token, minted, certs, disk, raced>>
  BY DEF EnrollStart
<1>2. minted \in Seq(Hosts) /\ t \in Nat /\ minted[t] \in Hosts
  BY DEF EnrollTypeOK
<1>3. /\ e \in Requests /\ e.token = t /\ e.at = "sent" /\ e.host = minted[t] /\ e.cert = 0
  BY <1>2 DEF Requests
<1>4. command[m] \in Commands /\ Len(request) \in Nat /\ Len(request) + 1 \in Nat
  BY CommandTypes, RequestTypes
<1>5. /\ c \in Commands /\ c.doing = "asking" /\ c.request = Len(request) + 1
      /\ c.answer = command[m].answer /\ c.next = command[m].next
  <2> HIDE DEF e
  <2> QED  BY <1>4 DEF Commands
<1> HIDE DEF e, c
<1>6. /\ request' \in Seq(Requests) /\ DOMAIN request = 1 .. Len(request)
      /\ DOMAIN request' = 1 .. Len(request) + 1
      /\ \A p \in DOMAIN request : request'[p] = request[p]
      /\ request'[Len(request) + 1] = e
  BY <1>1, <1>3, RequestTypes, AppendFacts
<1>7. EnrollTypeOK'
  BY <1>1, <1>5, <1>6 DEF EnrollTypeOK, Requests, Commands
<1>8. Len(certs) \in Nat /\ DOMAIN certs = 1 .. Len(certs)
  BY DEF EnrollTypeOK
<1>9. TokenInv'
  <2>1. ASSUME NEW p \in DOMAIN request' PROVE RequestInv(p)'
    <3>1. CASE p \in DOMAIN request
      BY <1>1, <1>6, <3>1 DEF TokenInv, RequestInv
    <3>2. CASE p = Len(request) + 1
      BY <1>1, <1>2, <1>3, <1>6, <1>8, <3>2 DEF RequestInv
    <3> QED  BY <1>4, <1>6, <3>1, <3>2
  <2>2. ASSUME NEW p \in DOMAIN request', NEW r \in DOMAIN request', p # r PROVE PairInv(p, r)'
    <3>1. CASE p \in DOMAIN request /\ r \in DOMAIN request
      <4>1. PairInv(p, r)
        BY <2>2, <3>1 DEF TokenInv
      <4> QED  BY <1>1, <1>6, <3>1, <4>1 DEF PairInv, Holds
    <3>2. CASE p = Len(request) + 1
      BY <1>3, <1>6, <3>2 DEF PairInv, Holds
    <3>3. CASE r = Len(request) + 1
      BY <1>3, <1>6, <3>3 DEF PairInv, Holds
    <3> QED  BY <1>4, <1>6, <3>1, <3>2, <3>3
  <2>3. ASSUME NEW i \in DOMAIN certs'
        PROVE  \E p \in DOMAIN request' : request'[p].cert = i /\ request'[p].token = certs'[i].token
    <3>1. PICK p \in DOMAIN request : request[p].cert = i /\ request[p].token = certs[i].token
      BY <1>1 DEF TokenInv
    <3>2. p \in DOMAIN request'
      BY <1>4, <1>6
    <3> QED  BY <1>1, <1>6, <3>1, <3>2
  <2> QED  BY <2>1, <2>2, <2>3 DEF TokenInv
<1>10. FileInv'
  <2>1. \A n \in Machines : command'[n] = IF n = m THEN c ELSE command[n]
    BY <1>1 DEF EnrollTypeOK
  <2>2. ASSUME NEW n \in Machines PROVE SavingInv(n)'
    <3>1. SavingInv(n)
      BY DEF FileInv
    <3>2. CASE n = m
      BY <1>1, <1>4, <1>5, <1>6, <2>1, <3>1, <3>2 DEF SavingInv
    <3>3. CASE n # m
      BY <1>1, <1>4, <1>6, <2>1, <3>1, <3>3 DEF SavingInv
    <3> QED  BY <3>2, <3>3
  <2>3. ASSUME NEW n \in Machines, NEW o \in Machines PROVE ApartInv(n, o)'
    <3>1. SavingInv(n) /\ SavingInv(o) /\ ApartInv(n, o)
      BY DEF FileInv
    <3>2. CASE n = m
      BY <1>1, <1>3, <1>4, <1>5, <1>6, <2>1, <3>1, <3>2 DEF SavingInv, ApartInv
    <3>3. CASE n # m
      BY <1>1, <1>4, <1>5, <1>6, <2>1, <3>1, <3>3 DEF SavingInv, ApartInv
    <3> QED  BY <3>2, <3>3
  <2> QED  BY <2>2, <2>3 DEF FileInv
<1> QED  BY <1>7, <1>9, <1>10

LEMMA SignKeeps ==
  ASSUME EnrollInv, NEW q \in DOMAIN request, Sign(q)
  PROVE  EnrollInv'
<1> USE DEF EnrollInv
<1> DEFINE e == [request[q] EXCEPT !.at = "signed", !.cert = Len(certs) + 1]
           c == [host |-> request[q].host, token |-> request[q].token]
<1>1. /\ request[q].at = "spent" /\ certs' = Append(certs, c)
      /\ request' = [request EXCEPT ![q] = e]
      /\ UNCHANGED <<alive, token, minted, command, disk, raced>>
  BY DEF Sign
<1>2. certs \in Seq(Certs)
  BY DEF EnrollTypeOK, Certs
<1>3. c \in Certs /\ c.token = request[q].token
  BY RequestTypes DEF Certs
<1>4. Len(certs) \in Nat /\ Len(certs) + 1 \in Nat
  BY <1>2
<1>5. /\ e \in Requests /\ e.at = "signed" /\ e.cert = Len(certs) + 1
      /\ e.host = request[q].host /\ e.token = request[q].token
  <2> HIDE DEF c
  <2>1. request[q] \in Requests
    BY RequestTypes
  <2> QED  BY <1>4, <2>1 DEF Requests
<1> HIDE DEF e, c
<1>6. /\ certs' \in Seq(Certs) /\ DOMAIN certs = 1 .. Len(certs)
      /\ Len(certs') = Len(certs) + 1 /\ DOMAIN certs' = 1 .. Len(certs) + 1
      /\ \A i \in DOMAIN certs : certs'[i] = certs[i]
      /\ certs'[Len(certs) + 1] = c
  BY <1>1, <1>2, <1>3, AppendFacts
<1>7. /\ request' \in Seq(Requests) /\ DOMAIN request' = DOMAIN request
      /\ \A p \in DOMAIN request : request'[p] = IF p = q THEN e ELSE request[p]
  BY <1>1, <1>5, RequestTypes, ExceptFacts
<1>8. EnrollTypeOK'
  BY <1>1, <1>6, <1>7 DEF EnrollTypeOK, Requests, Certs
<1>9. request[q].cert = 0 /\ RequestInv(q)
  BY <1>1 DEF TokenInv, RequestInv
<1>10. TokenInv'
  <2>1. ASSUME NEW p \in DOMAIN request PROVE RequestInv(p)'
    <3>1. RequestInv(p) /\ request[p].cert \in Nat
      BY RequestTypes DEF TokenInv
    <3>2. CASE p = q
      BY <1>1, <1>4, <1>5, <1>6, <1>7, <1>9, <3>2 DEF RequestInv
    <3>3. CASE p # q
      BY <1>1, <1>4, <1>6, <1>7, <3>1, <3>3 DEF RequestInv
    <3> QED  BY <3>2, <3>3
  <2>2. ASSUME NEW p \in DOMAIN request, NEW r \in DOMAIN request, p # r PROVE PairInv(p, r)'
    <3>1. /\ PairInv(p, r) /\ RequestInv(p) /\ RequestInv(r)
          /\ request[p].cert \in Nat /\ request[r].cert \in Nat
      BY <2>2, RequestTypes DEF TokenInv
    <3>2. request'[p].cert = request'[r].cert => request'[p].cert = 0
      BY <1>4, <1>5, <1>7, <2>2, <3>1 DEF PairInv, RequestInv
    <3>3. ASSUME NEW o \in DOMAIN request
          PROVE  /\ request'[o].token = request[o].token
                 /\ Holds(o)' <=> Holds(o)
      BY <1>1, <1>5, <1>7 DEF Holds
    <3> QED  BY <1>1, <3>1, <3>2, <3>3 DEF PairInv
  <2>3. ASSUME NEW i \in DOMAIN certs'
        PROVE  \E p \in DOMAIN request : request'[p].cert = i /\ request'[p].token = certs'[i].token
    <3>1. CASE i = Len(certs) + 1
      BY <1>3, <1>5, <1>6, <1>7, <3>1
    <3>2. CASE i \in DOMAIN certs
      <4>1. PICK p \in DOMAIN request : request[p].cert = i /\ request[p].token = certs[i].token
        BY <3>2 DEF TokenInv
      <4>2. p # q
        BY <1>6, <1>9, <3>2, <4>1
      <4> QED  BY <1>6, <1>7, <3>2, <4>1, <4>2
    <3> QED  BY <1>4, <1>6, <3>1, <3>2
  <2> QED  BY <1>7, <2>1, <2>2, <2>3 DEF TokenInv
<1>11. FileInv'
  <2>1. ASSUME NEW m \in Machines PROVE SavingInv(m)'
    <3>1. SavingInv(m) /\ command[m].answer \in Nat /\ \A f \in Files : disk[m][f] \in Int
      BY CommandTypes DEF FileInv
    <3>2. command[m].doing = "saving" => command[m].request # q
      BY <1>9, <3>1 DEF SavingInv
    <3> QED  BY <1>1, <1>4, <1>6, <1>7, <3>1, <3>2 DEF SavingInv
  <2>2. ASSUME NEW m \in Machines, NEW n \in Machines PROVE ApartInv(m, n)'
    <3>1. /\ SavingInv(m) /\ SavingInv(n) /\ ApartInv(m, n)
          /\ command[n].answer \in Nat /\ \A f \in Files : disk[n][f] \in Int
      BY CommandTypes DEF FileInv
    <3>2. CASE command[m].request = q
      BY <1>1, <1>4, <1>5, <1>6, <1>7, <3>1, <3>2 DEF SavingInv, ApartInv
    <3>3. CASE command[m].request # q
      BY <1>1, <1>7, <3>1, <3>3 DEF SavingInv, ApartInv
    <3> QED  BY <3>2, <3>3
  <2> QED  BY <2>1, <2>2 DEF FileInv
<1> QED  BY <1>8, <1>10, <1>11

LEMMA EnrollAnswerKeeps ==
  ASSUME EnrollInv, NEW m \in Machines, EnrollAnswer(m)
  PROVE  EnrollInv'
<1> USE DEF EnrollInv
<1> DEFINE q == command[m].request
           c == [command[m] EXCEPT !.doing = "saving", !.answer = request[q].cert]
<1>1. /\ command[m].doing = "asking" /\ request[q].at = "signed"
      /\ command' = [command EXCEPT ![m] = c]
      /\ UNCHANGED <<alive, token, minted, request, certs, disk, raced>>
  BY DEF EnrollAnswer
<1>2. q \in DOMAIN request
  BY <1>1 DEF FileInv, SavingInv
<1>3. /\ request[q].cert # 0 /\ request[q].cert <= Len(certs) /\ request[q].cert \in Nat
  BY <1>1, <1>2, RequestTypes DEF TokenInv, RequestInv
<1>4. command[m] \in Commands
  BY CommandTypes
<1>5. /\ c \in Commands /\ c.doing = "saving" /\ c.answer = request[q].cert
      /\ c.request = q /\ c.next = command[m].next
  BY <1>3, <1>4 DEF Commands
<1>6. \A n \in Machines : command'[n] = IF n = m THEN c ELSE command[n]
  BY <1>1 DEF EnrollTypeOK
<1> HIDE DEF c
<1>7. EnrollTypeOK'
  BY <1>1, <1>5 DEF EnrollTypeOK, Commands
<1>8. TokenInv'
  BY <1>1 DEF TokenInv, RequestInv, PairInv, Holds
<1>9. FileInv'
  <2>1. ASSUME NEW n \in Machines PROVE SavingInv(n)'
    <3>1. SavingInv(n) /\ ApartInv(m, n)
      BY DEF FileInv
    <3>2. CASE n = m
      <4>1. c.next = 1 /\ \A f \in Files : disk[m][f] # c.answer
        BY <1>1, <1>3, <1>5, <3>1, <3>2 DEF SavingInv, ApartInv
      <4> QED  BY <1>1, <1>2, <1>3, <1>5, <1>6, <3>1, <3>2, <4>1 DEF SavingInv, Files
    <3>3. CASE n # m
      BY <1>1, <1>6, <3>1, <3>3 DEF SavingInv
    <3> QED  BY <3>2, <3>3
  <2>2. ASSUME NEW n \in Machines, NEW o \in Machines PROVE ApartInv(n, o)'
    <3>1. ApartInv(n, o) /\ SavingInv(n) /\ SavingInv(o)
      BY DEF FileInv
    <3>2. CASE n = m
      BY <1>1, <1>5, <1>6, <3>1, <3>2 DEF ApartInv
    <3>3. CASE n # m /\ o # m
      BY <1>1, <1>6, <3>1, <3>3 DEF ApartInv
    <3>4. CASE n # m /\ o = m
      <4>1. ASSUME command[n].doing = "asking", request[command[n].request].cert # 0
            PROVE  request[command[n].request].cert # c.answer
        <5>1. command[n].request # q /\ command[n].request \in DOMAIN request
          BY <1>1, <3>1, <3>4, <4>1 DEF ApartInv, SavingInv
        <5> QED  BY <1>2, <1>5, <4>1, <5>1 DEF TokenInv, PairInv
      <4> QED  BY <1>1, <1>5, <1>6, <3>1, <3>4, <4>1 DEF ApartInv
    <3> QED  BY <3>2, <3>3, <3>4
  <2> QED  BY <2>1, <2>2 DEF FileInv
<1> QED  BY <1>7, <1>8, <1>9

LEMMA SaveFileKeeps ==
  ASSUME EnrollInv, NEW m \in Machines, SaveFile(m)
  PROVE  EnrollInv'
<1> USE DEF EnrollInv
<1> DEFINE c == command[m]
           f == SaveOrder[c.next]
           d == [disk[m] EXCEPT ![f] = c.answer]
           k == IF c.next = Len(SaveOrder) THEN Ended(c) ELSE [c EXCEPT !.next = c.next + 1]
<1>1. /\ c.doing = "saving" /\ disk' = [disk EXCEPT ![m] = d]
      /\ command' = [command EXCEPT ![m] = k]
      /\ UNCHANGED <<alive, token, minted, request, certs, raced>>
  <2>1. command' = [command EXCEPT ![m] = k]
    BY Zenon DEF SaveFile
  <2>2. disk' = [disk EXCEPT ![m] = d]
    BY Zenon DEF SaveFile
  <2> QED  BY <2>1, <2>2 DEF SaveFile
<1>2. /\ c \in Commands /\ disk[m] \in Disks /\ c.next \in 1 .. 4 /\ c.answer \in Nat
  BY CommandTypes
<1>3. /\ Len(SaveOrder) = 4 /\ f \in Files
      /\ f = "state" <=> c.next = 4
      /\ \A i \in 1 .. 4 : SaveOrder[i] = f <=> i = c.next
  BY <1>2 DEF SaveOrder, Files
<1>4. /\ d \in Disks /\ \A g \in Files : d[g] = IF g = f THEN c.answer ELSE disk[m][g]
  <2> HIDE DEF f
  <2> QED  BY <1>2, <1>3 DEF Disks
<1>5. /\ k \in Commands /\ k.answer = c.answer
      /\ c.next = 4 => k.doing = "idle" /\ k.next = 1
      /\ c.next # 4 => k.doing = "saving" /\ k.next = c.next + 1 /\ k.request = c.request
  <2>1. CASE c.next = 4
    BY <1>2, <1>3, <2>1, EndedFacts
  <2>2. CASE c.next # 4
    <3>1. k = [c EXCEPT !.next = c.next + 1] /\ c.next + 1 \in 1 .. 4
      BY <1>2, <1>3, <2>2
    <3> HIDE DEF k
    <3> QED  BY <1>1, <1>2, <2>2, <3>1 DEF Commands
  <2> QED  BY <2>1, <2>2
<1>6. /\ \A n \in Machines : command'[n] = IF n = m THEN k ELSE command[n]
      /\ \A n \in Machines : disk'[n] = IF n = m THEN d ELSE disk[n]
  BY <1>1 DEF EnrollTypeOK
<1>7. \A i \in 1 .. 4 : SaveOrder[i] \in Files
  BY DEF SaveOrder, Files
<1> HIDE DEF c, f, d, k
<1>8. EnrollTypeOK'
  BY <1>1, <1>4, <1>5 DEF EnrollTypeOK, Commands, Disks
<1>9. TokenInv'
  BY <1>1 DEF TokenInv, RequestInv, PairInv, Holds
<1>10. SavingInv(m) /\ c.request \in DOMAIN request /\ request[c.request].cert = c.answer
  BY <1>1 DEF FileInv, SavingInv, c
<1>11. FileInv'
  <2>1. ASSUME NEW n \in Machines PROVE SavingInv(n)'
    <3>1. CASE n = m
      <4>1. \A g \in Files : disk'[m][g] <= Len(certs)
        BY <1>4, <1>6, <1>10 DEF SavingInv, c
      <4>2. ASSUME c.next # 4, NEW i \in 1 .. 4, i < k.next
            PROVE  disk'[m][SaveOrder[i]] = c.answer
        <5>1. disk'[m][SaveOrder[i]] = IF i = c.next THEN c.answer ELSE disk[m][SaveOrder[i]]
          BY <1>3, <1>4, <1>6, <1>7
        <5>2. i # c.next => i < c.next
          BY <1>2, <1>5, <4>2
        <5> QED  BY <1>1, <1>10, <5>1, <5>2 DEF SavingInv, c
      <4>3. c.next # 4 => disk'[m]["state"] # c.answer
        BY <1>1, <1>3, <1>4, <1>6, <1>10 DEF SavingInv, c, Files
      <4> QED  BY <1>1, <1>5, <1>6, <1>10, <3>1, <4>1, <4>2, <4>3 DEF SavingInv, c
    <3>2. CASE n # m
      <4>1. SavingInv(n)
        BY DEF FileInv
      <4> QED  BY <1>1, <1>6, <3>2, <4>1 DEF SavingInv
    <3> QED  BY <3>1, <3>2
  <2>2. ASSUME NEW n \in Machines, NEW o \in Machines PROVE ApartInv(n, o)'
    <3>1. ApartInv(n, o) /\ SavingInv(n) /\ SavingInv(o)
      BY DEF FileInv
    <3>2. CASE n = m
      BY <1>1, <1>5, <1>6, <3>1, <3>2 DEF ApartInv, c
    <3>3. CASE n # m /\ o # m
      BY <1>1, <1>6, <3>1, <3>3 DEF ApartInv
    <3>4. CASE n # m /\ o = m
      <4>1. ASSUME command[n].doing = "asking", request[command[n].request].cert # 0
            PROVE  request[command[n].request].cert # c.answer
        <5>1. command[n].request # c.request /\ command[n].request \in DOMAIN request
          BY <1>1, <3>1, <3>4, <4>1 DEF ApartInv, SavingInv, c
        <5> QED  BY <1>10, <4>1, <5>1 DEF TokenInv, PairInv
      <4>2. command[n].doing # "idle" /\ k.doing # "idle" => k.request # command[n].request
        BY <1>1, <1>2, <1>5, <3>1, <3>4 DEF ApartInv, c
      <4> QED  BY <1>1, <1>4, <1>5, <1>6, <3>1, <3>4, <4>1, <4>2 DEF ApartInv, c
    <3> QED  BY <3>2, <3>3, <3>4
  <2> QED  BY <2>1, <2>2 DEF FileInv
<1> QED  BY <1>8, <1>9, <1>11

LEMMA SaveCutKeeps ==
  ASSUME EnrollInv, NEW m \in Machines, SaveCut(m)
  PROVE  EnrollInv'
<1> USE DEF EnrollInv
<1> DEFINE f == SaveOrder[command[m].next]
           d == [disk[m] EXCEPT ![f] = Torn]
<1>1. /\ disk' = [disk EXCEPT ![m] = d] \/ disk' = disk
      /\ command' = [command EXCEPT ![m] = Ended(command[m])]
      /\ UNCHANGED <<alive, token, minted, request, certs, raced>>
  BY DEF SaveCut
<1>2. f \in Files
  BY CommandTypes DEF SaveOrder, Files
<1>3. disk[m] \in Disks /\ Torn \in Int /\ Torn < 0
  BY CommandTypes DEF Torn
<1>4. d \in Disks /\ \A g \in Files : d[g] \in {Torn, disk[m][g]}
  <2> HIDE DEF f
  <2> QED  BY <1>2, <1>3 DEF Disks
<1> HIDE DEF f, d
<1>5. /\ \A n \in Machines : command'[n] \in {command[n], Ended(command[n])}
      /\ \A n \in Machines : \A g \in Files : disk'[n][g] \in {Torn, disk[n][g]}
      /\ command'[m] = Ended(command[m])
      /\ \A n \in Machines : n # m => disk'[n] = disk[n]
  BY <1>1, <1>4 DEF EnrollTypeOK
<1>6. EnrollTypeOK'
  BY <1>1, <1>4, EndedFacts, CommandTypes DEF EnrollTypeOK, Commands, Disks
<1>7. TokenInv'
  BY <1>1 DEF TokenInv, RequestInv, PairInv, Holds
<1>8. FileInv'
  <2>1. ASSUME NEW n \in Machines
        PROVE  /\ command'[n].answer = command[n].answer
               /\ \/ command'[n] = command[n]
                  \/ command'[n].doing = "idle" /\ command'[n].next = 1
    BY <1>5, CommandTypes, EndedFacts
  <2>2. Len(certs) \in Nat
    BY DEF EnrollTypeOK
  <2>3. ASSUME NEW n \in Machines PROVE SavingInv(n)'
    <3>1. SavingInv(n) /\ \A g \in Files : disk'[n][g] <= Len(certs)
      <4>1. SavingInv(n)
        BY DEF FileInv
      <4>2. \A g \in Files : disk[n][g] <= Len(certs) /\ disk'[n][g] \in {Torn, disk[n][g]}
        BY <1>5, <4>1 DEF SavingInv
      <4>3. Torn <= Len(certs)
        BY <1>3, <2>2
      <4> QED  BY <4>1, <4>2, <4>3
    <3>2. CASE command'[n].doing = "idle"
      <4>1. command'[n].next = 1
        BY <2>1, <3>1, <3>2 DEF SavingInv
      <4> QED  BY <1>1, <2>1, <3>1, <3>2, <4>1 DEF SavingInv
    <3>3. CASE command'[n].doing # "idle"
      <4>1. command'[n] = command[n] /\ n # m
        BY <1>5, <2>1, <3>3, CommandTypes, EndedFacts
      <4> QED  BY <1>1, <1>5, <3>1, <4>1 DEF SavingInv
    <3> QED  BY <3>2, <3>3
  <2>4. ASSUME NEW n \in Machines, NEW o \in Machines PROVE ApartInv(n, o)'
    <3>1. ApartInv(n, o) /\ SavingInv(n)
      BY DEF FileInv
    <3>2. CASE command'[n].doing = "idle"
      BY <3>2 DEF ApartInv
    <3>3. CASE command'[n].doing # "idle"
      <4>1. command'[n] = command[n]
        BY <2>1, <3>3
      <4>2. command[n].doing = "asking" => request[command[n].request].cert \in Nat
        BY <3>1, RequestTypes DEF SavingInv
      <4> QED  BY <1>1, <1>3, <1>5, <2>1, <3>1, <3>3, <4>1, <4>2 DEF ApartInv
    <3> QED  BY <3>2, <3>3
  <2> QED  BY <2>3, <2>4 DEF FileInv
<1> QED  BY <1>6, <1>7, <1>8

-----------------------------------------------------------------------------
(* The whole of EnrollNext.                                                *)
LEMMA EnrollKeeps ==
  ASSUME EnrollInv, EnrollNext
  PROVE  EnrollInv' /\ alive' = alive
<1>1. ASSUME NEW h \in Hosts, MintToken(h) PROVE EnrollInv' /\ alive' = alive
  BY <1>1, MintTokenKeeps DEF MintToken
<1>2. ASSUME NEW h \in Hosts, TokenExpires(h) PROVE EnrollInv' /\ alive' = alive
  BY <1>2, TokenExpiresKeeps DEF TokenExpires
<1>3. ASSUME NEW q \in DOMAIN request, Validate(q) PROVE EnrollInv' /\ alive' = alive
  BY <1>3, ValidateKeeps DEF Validate
<1>4. ASSUME NEW q \in DOMAIN request, Consume(q) PROVE EnrollInv' /\ alive' = alive
  BY <1>4, ConsumeKeeps DEF Consume
<1>5. ASSUME NEW q \in DOMAIN request, Sign(q) PROVE EnrollInv' /\ alive' = alive
  BY <1>5, SignKeeps DEF Sign
<1>6. ASSUME NEW q \in DOMAIN request, EnrollFails(q) PROVE EnrollInv' /\ alive' = alive
  BY <1>6, EnrollFailsKeeps DEF EnrollFails
<1>7. ASSUME NEW m \in Machines, NEW t \in DOMAIN minted, EnrollStart(m, t)
      PROVE  EnrollInv' /\ alive' = alive
  BY <1>7, EnrollStartKeeps DEF EnrollStart
<1>8. ASSUME NEW m \in Machines, GiveUp(m) PROVE EnrollInv' /\ alive' = alive
  BY <1>8, GiveUpKeeps DEF GiveUp
<1>9. ASSUME NEW m \in Machines, EnrollAnswer(m) PROVE EnrollInv' /\ alive' = alive
  BY <1>9, EnrollAnswerKeeps DEF EnrollAnswer
<1>10. ASSUME NEW m \in Machines, SaveFile(m) PROVE EnrollInv' /\ alive' = alive
  BY <1>10, SaveFileKeeps DEF SaveFile
<1>11. ASSUME NEW m \in Machines, SaveCut(m) PROVE EnrollInv' /\ alive' = alive
  BY <1>11, SaveCutKeeps DEF SaveCut
<1> QED
  BY <1>1, <1>2, <1>3, <1>4, <1>5, <1>6, <1>7, <1>8, <1>9, <1>10, <1>11 DEF EnrollNext

-----------------------------------------------------------------------------
(* The inventories and the scans.                                          *)
Scans == [at : {"idle", "asking", "replacing"}, host : Hosts \cup {NoHost},
          read : SUBSET DOMAIN reports, gone : SUBSET DOMAIN reports]

InventoryInv == InventoryTypeOK /\ ReportInv /\ ScanInv

LEMMA ReportTypes ==
  ASSUME InventoryTypeOK
  PROVE  /\ reports \in Seq(Reports) /\ Len(reports) \in Nat /\ DOMAIN reports = 1 .. Len(reports)
         /\ DOMAIN reports \subseteq Nat
         /\ \A r \in DOMAIN reports :
              /\ reports[r] \in Reports
              /\ reports[r].host \in Hosts /\ reports[r].cn \in Hosts
              /\ reports[r].at \in {"sent", "replacing", "stored", "over"}
<1>1. reports \in Seq(Reports)
  BY DEF InventoryTypeOK, Reports
<1>2. ASSUME NEW r \in DOMAIN reports PROVE reports[r] \in Reports
  BY <1>1
<1> QED  BY <1>1, <1>2 DEF Reports

LEMMA ScanTypes ==
  ASSUME InventoryTypeOK, NEW k \in Workers
  PROVE  /\ scan[k] \in Scans
         /\ scan[k].host \in Hosts \cup {NoHost}
         /\ scan[k].at \in {"idle", "asking", "replacing"}
         /\ scan[k].read \subseteq DOMAIN reports /\ scan[k].gone \subseteq DOMAIN reports
<1>1. scan[k] \in Scans
  BY DEF InventoryTypeOK, Scans
<1> QED  BY <1>1 DEF Scans

LEMMA NoScanFacts ==
  /\ NoScan.at = "idle" /\ NoScan.host = NoHost /\ NoScan \in Scans
BY DEF NoScan, Scans

(* A report moves on.                                                      *)
LEMMA ReportMoves ==
  ASSUME InventoryTypeOK, NEW r \in DOMAIN reports,
         NEW a \in {"sent", "replacing", "stored", "over"}, NEW g \in SUBSET Nat,
         reports' = [reports EXCEPT ![r].at = a, ![r].gone = g]
  PROVE  /\ reports' \in Seq(Reports) /\ DOMAIN reports' = DOMAIN reports
         /\ \A p \in DOMAIN reports :
              /\ reports'[p].host = reports[p].host
              /\ reports'[p].cn = reports[p].cn
              /\ reports'[p].at = IF p = r THEN a ELSE reports[p].at
<1> DEFINE e == [reports[r] EXCEPT !.at = a, !.gone = g]
<1>1. reports \in Seq(Reports) /\ reports[r] \in Reports
  BY ReportTypes
<1>2. e \in Reports /\ e.host = reports[r].host /\ e.cn = reports[r].cn /\ e.at = a
  BY <1>1 DEF Reports
<1>3. reports' = [reports EXCEPT ![r] = e]
  OBVIOUS
<1> DEFINE x == [reports EXCEPT ![r] = e]
<1> HIDE DEF e
<1>4. /\ x \in Seq(Reports) /\ DOMAIN x = DOMAIN reports
      /\ \A p \in DOMAIN reports : x[p] = IF p = r THEN e ELSE reports[p]
  BY <1>1, <1>2, ExceptFacts
<1>5. reports' = x
  BY <1>3
<1> HIDE DEF x
<1> QED  BY <1>2, <1>4, <1>5

(* A host that a step does not touch, or for which it only adds something  *)
(* to come, keeps its invariant.                                           *)
LEMMA HostAside ==
  ASSUME NEW h \in Hosts, HostInv(h),
         alive'[h] = alive[h], packages'[h] = packages[h], vulns'[h] = vulns[h],
         h \in upset => h \in upset', Coming(h) => Coming(h)',
         \A k \in Workers : scan'[k] = scan[k] \/ (scan[k].host # h /\ scan'[k].host # h)
  PROVE  HostInv(h)'
<1>1. Scanning(h)' = Scanning(h) /\ \A k \in Scanning(h) : k \in Workers /\ scan'[k] = scan[k]
  BY DEF Scanning
<1>2. ASSUME NEW k \in Scanning(h), h \notin upset' PROVE AloneInv(h, k)'
  <2>1. AloneInv(h, k)
    BY <1>2 DEF HostInv
  <2> QED  BY <1>1, <2>1 DEF AloneInv
<1> QED  BY <1>1, <1>2 DEF HostInv

LEMMA ReportInvAside ==
  ASSUME ReportInv, UNCHANGED packages, DOMAIN reports' = DOMAIN reports,
         \A p \in DOMAIN reports :
           /\ reports'[p].host = reports[p].host /\ reports'[p].cn = reports[p].cn
           /\ reports'[p].at \in {"replacing", "stored"} =>
                reports[p].at \in {"replacing", "stored"} \/ reports[p].cn = reports[p].host
  PROVE  ReportInv'
BY DEF ReportInv

LEMMA SubmitInventoryKeeps ==
  ASSUME InventoryInv, NEW r \in DOMAIN reports, SubmitInventory(r), alive' = alive
  PROVE  InventoryInv'
<1> USE DEF InventoryInv
<1> DEFINE h == reports[r].host
<1>1. /\ reports[r].at = "sent" /\ reports[r].cn = h
      /\ reports' = [reports EXCEPT ![r].at = "replacing", ![r].gone = packages[h]]
      /\ UNCHANGED <<packages, vulns, queued, scan, asked, upset>>
  BY DEF SubmitInventory
<1>2. packages[h] \in SUBSET Nat
  BY ReportTypes DEF InventoryTypeOK
<1> HIDE DEF h
<1>3. /\ reports' \in Seq(Reports) /\ DOMAIN reports' = DOMAIN reports
      /\ \A p \in DOMAIN reports :
           /\ reports'[p].host = reports[p].host
           /\ reports'[p].cn = reports[p].cn
           /\ reports'[p].at = IF p = r THEN "replacing" ELSE reports[p].at
  BY <1>1, <1>2, ReportMoves
<1>4. InventoryTypeOK'
  BY <1>1, <1>3 DEF InventoryTypeOK, Reports
<1>5. ReportInv'
  BY <1>1, <1>3, ReportInvAside DEF h
<1>6. ASSUME NEW g \in Hosts PROVE Coming(g) => Coming(g)'
  BY <1>1, <1>3 DEF Coming, Stored
<1>7. ASSUME NEW g \in Hosts PROVE HostInv(g)'
  BY <1>1, <1>6, HostAside DEF ScanInv
<1> QED  BY <1>1, <1>4, <1>5, <1>7 DEF ScanInv

LEMMA ReportFailsKeeps ==
  ASSUME InventoryInv, NEW r \in DOMAIN reports, ReportFails(r), alive' = alive
  PROVE  InventoryInv'
<1> USE DEF InventoryInv
<1>1. /\ reports[r].at \in {"sent", "replacing"}
      /\ reports' = [reports EXCEPT ![r].at = "over", ![r].gone = {}]
      /\ UNCHANGED <<packages, vulns, queued, scan, asked, upset>>
  BY DEF ReportFails
<1>2. /\ reports' \in Seq(Reports) /\ DOMAIN reports' = DOMAIN reports
      /\ \A p \in DOMAIN reports :
           /\ reports'[p].host = reports[p].host
           /\ reports'[p].cn = reports[p].cn
           /\ reports'[p].at = IF p = r THEN "over" ELSE reports[p].at
  <2>1. {} \in SUBSET Nat
    OBVIOUS
  <2> QED  BY <1>1, <2>1, ReportMoves
<1>3. InventoryTypeOK'
  BY <1>1, <1>2 DEF InventoryTypeOK, Reports
<1>4. ReportInv'
  BY <1>1, <1>2, ReportInvAside
<1>5. ASSUME NEW g \in Hosts PROVE Coming(g) => Coming(g)'
  BY <1>1, <1>2 DEF Coming, Stored
<1>6. ASSUME NEW g \in Hosts PROVE HostInv(g)'
  BY <1>1, <1>5, HostAside DEF ScanInv
<1> QED  BY <1>1, <1>3, <1>4, <1>6 DEF ScanInv

LEMMA StoreKeeps ==
  ASSUME InventoryInv, NEW r \in DOMAIN reports, Store(r), alive' = alive
  PROVE  InventoryInv'
<1> USE DEF InventoryInv
<1>1. PICK h \in Hosts : h = reports[r].host
  BY ReportTypes
<1>2. PICK some \in {{r}, {}} :
          packages' = [packages EXCEPT ![h] = (packages[h] \ reports[r].gone) \cup some]
  BY <1>1 DEF Store
<1> DEFINE new == (packages[h] \ reports[r].gone) \cup some
<1>3. /\ reports[r].at = "replacing" /\ alive[h]
      /\ packages' = [packages EXCEPT ![h] = new]
      /\ reports' = [reports EXCEPT ![r].at = "stored", ![r].gone = {}]
      /\ UNCHANGED <<vulns, queued, scan, asked, upset>>
  BY <1>1, <1>2 DEF Store
<1>4. h \in Hosts /\ reports[r].cn = h
  BY <1>3, <1>1 DEF ReportInv
<1>5. /\ new \in SUBSET DOMAIN reports
      /\ \A p \in new : p = r \/ p \in packages[h]
  BY <1>4 DEF InventoryTypeOK
<1> HIDE DEF new
<1>6. /\ reports' \in Seq(Reports) /\ DOMAIN reports' = DOMAIN reports
      /\ \A p \in DOMAIN reports :
           /\ reports'[p].host = reports[p].host
           /\ reports'[p].cn = reports[p].cn
           /\ reports'[p].at = IF p = r THEN "stored" ELSE reports[p].at
  <2>1. {} \in SUBSET Nat
    OBVIOUS
  <2> QED  BY <1>3, <2>1, ReportMoves
<1>7. /\ packages'[h] = new
      /\ \A g \in Hosts : g # h => packages'[g] = packages[g]
  BY <1>3, <1>4 DEF InventoryTypeOK
<1>8. InventoryTypeOK'
  BY <1>3, <1>5, <1>6 DEF InventoryTypeOK, Reports
<1>9. ReportInv'
  <2>1. ASSUME NEW p \in DOMAIN reports', reports'[p].at \in {"replacing", "stored"}
        PROVE  reports'[p].cn = reports'[p].host
    BY <1>4, <1>1, <1>6, <2>1 DEF ReportInv
  <2>2. ASSUME NEW g \in Hosts, NEW p \in packages'[g]
        PROVE  p \in DOMAIN reports' /\ reports'[p].cn = g
    BY <1>4, <1>5, <1>6, <1>7 DEF ReportInv
  <2> QED  BY <2>1, <2>2 DEF ReportInv
<1>10. /\ \A g \in Hosts : Coming(g) => Coming(g)'
      /\ Coming(h)'
  BY <1>3, <1>4, <1>1, <1>6 DEF Coming, Stored
<1>11. ASSUME NEW g \in Hosts PROVE HostInv(g)'
  <2>1. CASE g = h
    <3>1. Scanning(h)' = Scanning(h)
      BY <1>3 DEF Scanning
    <3>2. HostInv(h)
      BY <1>4 DEF ScanInv
    <3>3. ASSUME NEW k \in Scanning(h), h \notin upset PROVE AloneInv(h, k)'
      <4>1. AloneInv(h, k)
        BY <3>2, <3>3 DEF HostInv
      <4> QED  BY <1>3, <1>10, <3>1, <4>1 DEF AloneInv
    <3> QED  BY <1>3, <1>5, <1>7, <1>10, <2>1, <3>1, <3>2, <3>3 DEF HostInv
  <2>2. CASE g # h
    BY <1>3, <1>7, <1>10, <2>2, HostAside DEF ScanInv
  <2> QED  BY <2>1, <2>2
<1> QED  BY <1>3, <1>8, <1>9, <1>11 DEF ScanInv

(* Both ends of a stored report: scheduled, or not.                        *)
LEMMA OverFacts ==
  ASSUME InventoryTypeOK, NEW r \in DOMAIN reports,
         reports' = [reports EXCEPT ![r].at = "over"]
  PROVE  /\ reports' \in Seq(Reports) /\ DOMAIN reports' = DOMAIN reports
         /\ \A p \in DOMAIN reports :
              /\ reports'[p].host = reports[p].host
              /\ reports'[p].cn = reports[p].cn
              /\ reports'[p].at = IF p = r THEN "over" ELSE reports[p].at
<1> DEFINE e == [reports[r] EXCEPT !.at = "over"]
<1>1. reports \in Seq(Reports) /\ reports[r] \in Reports
  BY ReportTypes
<1>2. e \in Reports /\ e.host = reports[r].host /\ e.cn = reports[r].cn /\ e.at = "over"
  BY <1>1 DEF Reports
<1>3. reports' = [reports EXCEPT ![r] = e]
  OBVIOUS
<1> HIDE DEF e
<1>4. /\ reports' \in Seq(Reports) /\ DOMAIN reports' = DOMAIN reports
      /\ \A p \in DOMAIN reports : reports'[p] = IF p = r THEN e ELSE reports[p]
  BY SMTT(40), <1>1, <1>2, <1>3, ExceptFacts
<1> QED  BY <1>2, <1>4

LEMMA ScheduleKeeps ==
  ASSUME InventoryInv, NEW r \in DOMAIN reports, Schedule(r), alive' = alive
  PROVE  InventoryInv'
<1> USE DEF InventoryInv
<1> DEFINE h == reports[r].host
<1>1. /\ reports[r].at = "stored" /\ reports' = [reports EXCEPT ![r].at = "over"]
      /\ queued' = [queued EXCEPT ![h] = queued[h] + 1]
      /\ UNCHANGED <<packages, vulns, scan, asked, upset>>
  BY DEF Schedule
<1>2. h \in Hosts /\ queued \in [Hosts -> Nat]
  BY ReportTypes DEF InventoryTypeOK
<1>3. h = reports[r].host
  OBVIOUS
<1> HIDE DEF h
<1>4. /\ reports' \in Seq(Reports) /\ DOMAIN reports' = DOMAIN reports
      /\ \A p \in DOMAIN reports :
           /\ reports'[p].host = reports[p].host
           /\ reports'[p].cn = reports[p].cn
           /\ reports'[p].at = IF p = r THEN "over" ELSE reports[p].at
  BY <1>1, OverFacts
<1>5. /\ queued' \in [Hosts -> Nat] /\ queued'[h] > 0
      /\ \A g \in Hosts : queued[g] > 0 => queued'[g] > 0
  BY <1>1, <1>2
<1>6. InventoryTypeOK'
  BY <1>1, <1>4, <1>5 DEF InventoryTypeOK, Reports
<1>7. ReportInv'
  BY <1>1, <1>4, ReportInvAside
<1>8. ASSUME NEW g \in Hosts PROVE Coming(g) => Coming(g)'
  BY <1>3, <1>4, <1>5 DEF Coming, Stored
<1>9. ASSUME NEW g \in Hosts PROVE HostInv(g)'
  BY <1>1, <1>8, HostAside DEF ScanInv
<1> QED  BY <1>1, <1>6, <1>7, <1>9 DEF ScanInv

LEMMA ScheduleFailsKeeps ==
  ASSUME InventoryInv, NEW r \in DOMAIN reports, ScheduleFails(r), alive' = alive
  PROVE  InventoryInv'
<1> USE DEF InventoryInv
<1> DEFINE h == reports[r].host
<1>1. /\ reports[r].at = "stored" /\ reports' = [reports EXCEPT ![r].at = "over"]
      /\ upset' = upset \cup {h}
      /\ UNCHANGED <<packages, vulns, queued, scan, asked>>
  BY DEF ScheduleFails
<1>2. h \in Hosts
  BY ReportTypes
<1>3. h = reports[r].host
  OBVIOUS
<1> HIDE DEF h
<1>4. /\ reports' \in Seq(Reports) /\ DOMAIN reports' = DOMAIN reports
      /\ \A p \in DOMAIN reports :
           /\ reports'[p].host = reports[p].host
           /\ reports'[p].cn = reports[p].cn
           /\ reports'[p].at = IF p = r THEN "over" ELSE reports[p].at
  BY <1>1, OverFacts
<1>5. InventoryTypeOK'
  BY <1>1, <1>2, <1>4 DEF InventoryTypeOK, Reports
<1>6. ReportInv'
  BY <1>1, <1>4, ReportInvAside
<1>7. ASSUME NEW g \in Hosts PROVE HostInv(g)'
  <2>1. CASE g = h
    BY <1>1, <2>1 DEF ScanInv, HostInv, Scanning
  <2>2. CASE g # h
    <3>1. Coming(g) => Coming(g)'
      BY <1>1, <1>3, <1>4, <2>2 DEF Coming, Stored
    <3> QED  BY <1>1, <3>1, HostAside DEF ScanInv
  <2> QED  BY <2>1, <2>2
<1> QED  BY <1>1, <1>5, <1>6, <1>7 DEF ScanInv

LEMMA TriggerScanKeeps ==
  ASSUME InventoryInv, NEW h \in Hosts, TriggerScan(h), alive' = alive
  PROVE  InventoryInv'
<1> USE DEF InventoryInv
<1>1. /\ queued' = [queued EXCEPT ![h] = queued[h] + 1] /\ asked' = asked + 1
      /\ UNCHANGED <<packages, vulns, reports, scan, upset>>
  BY DEF TriggerScan
<1>2. queued \in [Hosts -> Nat]
  BY DEF InventoryTypeOK
<1>3. queued' \in [Hosts -> Nat] /\ \A g \in Hosts : queued[g] > 0 => queued'[g] > 0
  BY <1>1, <1>2
<1>4. InventoryTypeOK' /\ ReportInv'
  BY <1>1, <1>3 DEF InventoryTypeOK, ReportInv
<1>5. ASSUME NEW g \in Hosts PROVE Coming(g) => Coming(g)'
  BY <1>1, <1>3 DEF Coming, Stored
<1>6. ASSUME NEW g \in Hosts PROVE HostInv(g)'
  BY <1>1, <1>5, HostAside DEF ScanInv
<1> QED  BY <1>1, <1>4, <1>6 DEF ScanInv

-----------------------------------------------------------------------------
(* A scan moves: only worker k, and only the host it scans.                *)
LEMMA ScanMoves ==
  ASSUME InventoryTypeOK, NEW k \in Workers, NEW x \in Scans,
         scan' = [scan EXCEPT ![k] = x]
  PROVE  /\ scan' \in [Workers -> Scans]
         /\ \A j \in Workers : scan'[j] = IF j = k THEN x ELSE scan[j]
BY DEF InventoryTypeOK, Scans

LEMMA TakeKeeps ==
  ASSUME InventoryInv, NEW k \in Workers, NEW h \in Hosts, Take(k, h), alive' = alive
  PROVE  InventoryInv'
<1> USE DEF InventoryInv
<1>1. /\ scan[k].at = "idle" /\ queued[h] > 0
      /\ queued' = [queued EXCEPT ![h] = queued[h] - 1]
      /\ UNCHANGED <<packages, vulns, reports, asked>>
  BY DEF Take
<1>2. /\ queued \in [Hosts -> Nat] /\ queued' \in [Hosts -> Nat]
      /\ \A g \in Hosts : g # h => queued'[g] = queued[g]
  <2>1. queued \in [Hosts -> Nat]
    BY DEF InventoryTypeOK
  <2> QED  BY <1>1, <2>1
<1>3. \A g \in Hosts : g # h /\ Coming(g) => Coming(g)'
  BY <1>1, <1>2 DEF Coming, Stored
<1>4. scan[k].host = NoHost /\ HostInv(h)
  BY <1>1 DEF ScanInv
<1>5. ReportInv'
  BY <1>1 DEF ReportInv
<1>6. CASE alive[h] /\ packages[h] # {}
  <2> DEFINE x == [NoScan EXCEPT !.at = "asking", !.host = h, !.read = packages[h]]
  <2>1. /\ scan' = [scan EXCEPT ![k] = x]
        /\ upset' = IF Scanning(h) = {} THEN upset \ {h} ELSE upset \cup {h}
    BY <1>6 DEF Take
  <2>2. packages[h] \in SUBSET DOMAIN reports
    BY DEF InventoryTypeOK
  <2>3. x \in Scans /\ x.at = "asking" /\ x.host = h /\ x.read = packages[h]
    BY <2>2 DEF NoScan, Scans
  <2> HIDE DEF x
  <2>4. /\ scan' \in [Workers -> Scans]
        /\ \A j \in Workers : scan'[j] = IF j = k THEN x ELSE scan[j]
    BY <2>1, <2>3, ScanMoves
  <2>5. InventoryTypeOK'
    BY <1>1, <1>2, <2>1, <2>4 DEF InventoryTypeOK, Scans
  <2>6. \A j \in Workers : scan'[j].at = "idle" <=> scan'[j].host = NoHost
    BY <2>3, <2>4, NoHostAssumption DEF ScanInv
  <2>7. Scanning(h)' = Scanning(h) \cup {k}
    BY <2>3, <2>4 DEF Scanning
  <2>8. HostInv(h)'
    <3>1. CASE Scanning(h) = {}
      <4>1. Scanning(h)' = {k} /\ AloneInv(h, k)'
        BY <1>1, <2>3, <2>4, <2>7, <3>1 DEF AloneInv
      <4> QED  BY <1>1, <1>4, <1>6, <4>1 DEF HostInv
    <3>2. CASE Scanning(h) # {}
      BY <1>1, <1>4, <1>6, <2>1, <3>2 DEF HostInv
    <3> QED  BY <3>1, <3>2
  <2>9. ASSUME NEW g \in Hosts, g # h PROVE HostInv(g)'
    <3>1. g \in upset => g \in upset'
      BY <2>1, <2>9
    <3>2. \A j \in Workers : scan'[j] = scan[j] \/ (scan[j].host # g /\ scan'[j].host # g)
      BY <1>4, <2>3, <2>4, <2>9, NoHostAssumption
    <3> QED  BY <1>1, <1>3, <2>9, <3>1, <3>2, HostAside DEF ScanInv
  <2> QED  BY <1>5, <2>5, <2>6, <2>8, <2>9 DEF ScanInv
<1>7. CASE ~ (alive[h] /\ packages[h] # {})
  <2>1. UNCHANGED <<scan, upset>>
    BY <1>7 DEF Take
  <2>2. InventoryTypeOK'
    BY <1>1, <1>2, <2>1 DEF InventoryTypeOK
  <2>3. packages[h] = {} /\ (alive[h] \/ vulns[h] = {})
    BY <1>4, <1>7 DEF HostInv
  <2>4. Scanning(h)' = Scanning(h)
    BY <2>1 DEF Scanning
  <2>5. ASSUME NEW j \in Scanning(h), h \notin upset PROVE AloneInv(h, j)'
    <3>1. AloneInv(h, j)
      BY <1>4, <2>5 DEF HostInv
    <3> QED  BY <1>1, <2>1, <2>3, <2>4, <3>1 DEF AloneInv
  <2>6. HostInv(h)'
    BY <1>1, <1>4, <2>1, <2>3, <2>4, <2>5 DEF HostInv
  <2>7. ASSUME NEW g \in Hosts, g # h PROVE HostInv(g)'
    BY <1>1, <1>3, <2>1, <2>7, HostAside DEF ScanInv
  <2> QED  BY <1>5, <2>1, <2>2, <2>6, <2>7 DEF ScanInv
<1> QED  BY <1>6, <1>7

LEMMA DeleteResultsKeeps ==
  ASSUME InventoryInv, NEW k \in Workers, DeleteResults(k), alive' = alive
  PROVE  InventoryInv'
<1> USE DEF InventoryInv
<1>1. /\ scan[k].at = "asking"
      /\ scan' = [scan EXCEPT ![k].at = "replacing", ![k].gone = vulns[scan[k].host]]
      /\ UNCHANGED <<packages, vulns, reports, queued, asked, upset>>
  BY DEF DeleteResults
<1>2. PICK h \in Hosts : h = scan[k].host
  BY <1>1, ScanTypes DEF ScanInv
<1> DEFINE x == [scan[k] EXCEPT !.at = "replacing", !.gone = vulns[h]]
<1>3. scan' = [scan EXCEPT ![k] = x]
  BY <1>1, <1>2
<1>4. scan[k] \in Scans /\ vulns[h] \in SUBSET DOMAIN reports
  BY ScanTypes DEF InventoryTypeOK
<1>5. x \in Scans /\ x.at = "replacing" /\ x.host = h /\ x.gone = vulns[h] /\ x.read = scan[k].read
  BY <1>2, <1>4 DEF Scans
<1> HIDE DEF x
<1>6. /\ scan' \in [Workers -> Scans]
      /\ \A j \in Workers : scan'[j] = IF j = k THEN x ELSE scan[j]
  BY <1>3, <1>5, ScanMoves
<1>7. InventoryTypeOK' /\ ReportInv'
  BY <1>1, <1>6 DEF InventoryTypeOK, Scans, ReportInv
<1>8. \A j \in Workers : scan'[j].at = "idle" <=> scan'[j].host = NoHost
  BY <1>1, <1>2, <1>5, <1>6, NoHostAssumption DEF ScanInv
<1>9. \A g \in Hosts : Coming(g)' <=> Coming(g)
  BY <1>1 DEF Coming, Stored
<1>10. HostInv(h)'
  <2>1. Scanning(h)' = Scanning(h) /\ HostInv(h)
    BY <1>2, <1>5, <1>6 DEF Scanning, ScanInv
  <2>2. ASSUME NEW j \in Scanning(h), h \notin upset PROVE AloneInv(h, j)'
    <3>1. AloneInv(h, j) /\ j = k
      BY <1>2, <2>1, <2>2 DEF HostInv, AloneInv, Scanning
    <3> QED  BY <1>1, <1>5, <1>6, <1>9, <2>1, <3>1 DEF AloneInv
  <2> QED  BY <1>1, <1>9, <2>1, <2>2 DEF HostInv
<1>11. ASSUME NEW g \in Hosts, g # h PROVE HostInv(g)'
  <2>1. \A j \in Workers : scan'[j] = scan[j] \/ (scan[j].host # g /\ scan'[j].host # g)
    BY <1>2, <1>5, <1>6, <1>11
  <2> QED  BY <1>1, <1>9, <2>1, HostAside DEF ScanInv
<1> QED  BY <1>7, <1>8, <1>10, <1>11 DEF ScanInv

LEMMA PersistKeeps ==
  ASSUME InventoryInv, NEW k \in Workers, Persist(k), alive' = alive
  PROVE  InventoryInv'
<1> USE DEF InventoryInv
<1>1. PICK h \in Hosts : h = scan[k].host
  BY ScanTypes DEF ScanInv, Persist
<1>2. PICK found \in SUBSET scan[k].read :
         /\ vulns' = [vulns EXCEPT ![h] = (vulns[h] \ scan[k].gone) \cup found]
         /\ upset' = IF found = scan[k].read THEN upset ELSE upset \cup {h}
  BY <1>1 DEF Persist, Detailed
<1> DEFINE new == (vulns[h] \ scan[k].gone) \cup found
<1>3. /\ scan[k].at = "replacing" /\ alive[h]
      /\ vulns' = [vulns EXCEPT ![h] = new]
      /\ scan' = [scan EXCEPT ![k] = NoScan]
      /\ upset' = IF found = scan[k].read THEN upset ELSE upset \cup {h}
      /\ UNCHANGED <<packages, reports, queued, asked>>
  BY <1>1, <1>2 DEF Persist
<1>4. new \in SUBSET DOMAIN reports
  BY ScanTypes DEF InventoryTypeOK
<1>5. scan[k].gone = vulns[h] => new = found
  OBVIOUS
<1> HIDE DEF new
<1>6. /\ scan' \in [Workers -> Scans]
      /\ \A j \in Workers : scan'[j] = IF j = k THEN NoScan ELSE scan[j]
  BY <1>3, NoScanFacts, ScanMoves
<1>7. vulns'[h] = new /\ \A g \in Hosts : g # h => vulns'[g] = vulns[g]
  BY <1>3 DEF InventoryTypeOK
<1>8. InventoryTypeOK' /\ ReportInv' /\ upset \subseteq upset'
  BY <1>1, <1>3, <1>4, <1>6 DEF InventoryTypeOK, Scans, ReportInv
<1>9. \A j \in Workers : scan'[j].at = "idle" <=> scan'[j].host = NoHost
  BY <1>6, NoScanFacts DEF ScanInv
<1>10. \A g \in Hosts : Coming(g)' <=> Coming(g)
  BY <1>3 DEF Coming, Stored
<1>11. HostInv(h)'
  <2>1. HostInv(h) /\ k \in Scanning(h) /\ Scanning(h)' = Scanning(h) \ {k}
    BY <1>1, <1>6, NoScanFacts, NoHostAssumption DEF Scanning, ScanInv
  <2>2. ASSUME h \notin upset'
        PROVE  /\ Scanning(h)' = {}
               /\ vulns'[h] = packages[h] \/ Coming(h) \/ packages[h] = {}
    <3>1. AloneInv(h, k) /\ found = scan[k].read
      BY <1>3, <2>1, <2>2 DEF HostInv
    <3> QED  BY <1>3, <1>5, <1>7, <2>1, <3>1 DEF AloneInv
  <2> QED  BY <1>3, <1>10, <2>1, <2>2 DEF HostInv
<1>12. ASSUME NEW g \in Hosts, g # h PROVE HostInv(g)'
  <2>1. \A j \in Workers : scan'[j] = scan[j] \/ (scan[j].host # g /\ scan'[j].host # g)
    BY <1>1, <1>6, <1>12, NoScanFacts, NoHostAssumption
  <2> QED  BY <1>3, <1>7, <1>10, <1>12, <2>1, HostAside DEF ScanInv
<1> QED  BY <1>8, <1>9, <1>11, <1>12 DEF ScanInv

LEMMA ScanFailsKeeps ==
  ASSUME InventoryInv, NEW k \in Workers, ScanFails(k), alive' = alive
  PROVE  InventoryInv'
<1> USE DEF InventoryInv
<1>1. PICK h \in Hosts : h = scan[k].host
  BY ScanTypes DEF ScanInv, ScanFails
<1>2. /\ scan' = [scan EXCEPT ![k] = NoScan] /\ upset' = upset \cup {h}
      /\ UNCHANGED <<packages, vulns, reports, queued, asked>>
  BY <1>1 DEF ScanFails
<1>3. /\ scan' \in [Workers -> Scans]
      /\ \A j \in Workers : scan'[j] = IF j = k THEN NoScan ELSE scan[j]
  BY <1>2, NoScanFacts, ScanMoves
<1>4. InventoryTypeOK' /\ ReportInv'
  BY <1>2, <1>3 DEF InventoryTypeOK, Scans, ReportInv
<1>5. \A j \in Workers : scan'[j].at = "idle" <=> scan'[j].host = NoHost
  BY <1>3, NoScanFacts DEF ScanInv
<1>6. \A g \in Hosts : Coming(g)' <=> Coming(g)
  BY <1>2 DEF Coming, Stored
<1>7. HostInv(h)'
  <2>1. HostInv(h) /\ Scanning(h)' \subseteq Scanning(h)
    BY <1>1, <1>3, NoScanFacts, NoHostAssumption DEF Scanning, ScanInv
  <2> QED  BY <1>2, <2>1 DEF HostInv
<1>8. ASSUME NEW g \in Hosts, g # h PROVE HostInv(g)'
  <2>1. \A j \in Workers : scan'[j] = scan[j] \/ (scan[j].host # g /\ scan'[j].host # g)
    BY <1>1, <1>3, <1>8, NoScanFacts, NoHostAssumption
  <2> QED  BY <1>2, <1>6, <1>8, <2>1, HostAside DEF ScanInv
<1> QED  BY <1>4, <1>5, <1>7, <1>8 DEF ScanInv

LEMMA InventoryKeeps ==
  ASSUME InventoryInv, InventoryNext, alive' = alive
  PROVE  InventoryInv'
<1>1. ASSUME NEW r \in DOMAIN reports,
             SubmitInventory(r) \/ Store(r) \/ ReportFails(r) \/ Schedule(r) \/ ScheduleFails(r)
      PROVE  InventoryInv'
  BY <1>1, SubmitInventoryKeeps, StoreKeeps, ReportFailsKeeps, ScheduleKeeps, ScheduleFailsKeeps
<1>2. ASSUME NEW h \in Hosts, TriggerScan(h) PROVE InventoryInv'
  BY <1>2, TriggerScanKeeps
<1>3. ASSUME NEW h \in Hosts, NEW k \in Workers, Take(k, h) PROVE InventoryInv'
  BY <1>3, TakeKeeps
<1>4. ASSUME NEW k \in Workers, DeleteResults(k) \/ Persist(k) \/ ScanFails(k)
      PROVE  InventoryInv'
  BY <1>4, DeleteResultsKeeps, PersistKeeps, ScanFailsKeeps
<1> QED  BY <1>1, <1>2, <1>3, <1>4 DEF InventoryNext

-----------------------------------------------------------------------------
(* What joins the two.                                                     *)
Inv == EnrollInv /\ InventoryInv

LEMMA EnrollInvAside ==
  ASSUME EnrollInv, UNCHANGED enrollVars
  PROVE  EnrollInv'
BY DEF EnrollInv, enrollVars, EnrollTypeOK, TokenInv, RequestInv, PairInv, Holds,
       FileInv, SavingInv, ApartInv

LEMMA InventoryInvAside ==
  ASSUME InventoryInv, UNCHANGED inventoryVars, alive' = alive
  PROVE  InventoryInv'
<1>1. UNCHANGED <<packages, vulns, reports, queued, scan, asked, upset>>
  BY DEF inventoryVars
<1>2. InventoryTypeOK' /\ ReportInv'
  BY <1>1 DEF InventoryInv, InventoryTypeOK, ReportInv
<1>3. ASSUME NEW h \in Hosts PROVE HostInv(h)' = HostInv(h)
  BY <1>1 DEF HostInv, AloneInv, Scanning, Coming, Stored
<1>4. ScanInv'
  BY <1>1, <1>3 DEF InventoryInv, ScanInv
<1> QED  BY <1>2, <1>4 DEF InventoryInv

LEMMA SendInventoryKeeps ==
  ASSUME Inv, NEW m \in Machines, SendInventory(m)
  PROVE  Inv'
<1> USE DEF Inv
<1> DEFINE h == certs[disk[m]["state"]].host
           n == certs[disk[m]["crt"]].host
           e == [host |-> h, cn |-> n, at |-> "sent", gone |-> {}]
<1>1. EnrollInv' /\ alive' = alive
  BY EnrollInvAside DEF SendInventory, enrollVars
<1>2. /\ reports' = Append(reports, e)
      /\ UNCHANGED <<packages, vulns, queued, scan, asked, upset>>
  BY DEF SendInventory, Report
<1>3. ASSUME NEW f \in Files, disk[m][f] > 0
      PROVE  certs[disk[m][f]].host \in Hosts
  <2>1. certs \in Seq(Certs) /\ disk[m][f] \in Int /\ disk[m][f] <= Len(certs)
    BY CommandTypes DEF EnrollInv, FileInv, SavingInv, EnrollTypeOK, Certs
  <2>2. disk[m][f] \in 1 .. Len(certs)
    BY <1>3, <2>1
  <2>3. certs[disk[m][f]] \in Certs
    BY <2>1, <2>2
  <2> QED  BY <2>3 DEF Certs
<1>4. h \in Hosts /\ n \in Hosts
  BY <1>3 DEF SendInventory, Loads, Dials, Files
<1> HIDE DEF h, n
<1>5. e \in Reports /\ e.at = "sent"
  BY <1>4 DEF Reports
<1> HIDE DEF e
<1>6. /\ reports' \in Seq(Reports) /\ DOMAIN reports = 1 .. Len(reports) /\ Len(reports) \in Nat
      /\ DOMAIN reports' = 1 .. Len(reports) + 1
      /\ \A p \in DOMAIN reports : reports'[p] = reports[p]
      /\ reports'[Len(reports) + 1] = e
  BY <1>2, <1>5, ReportTypes, AppendFacts DEF InventoryInv
<1>7. DOMAIN reports \subseteq DOMAIN reports'
  BY <1>6
<1>8. InventoryTypeOK'
  <2>1. /\ packages \in [Hosts -> SUBSET DOMAIN reports'] /\ vulns \in [Hosts -> SUBSET DOMAIN reports']
    BY <1>7 DEF InventoryInv, InventoryTypeOK
  <2>2. scan \in [Workers -> [at : {"idle", "asking", "replacing"}, host : Hosts \cup {NoHost},
                   read : SUBSET DOMAIN reports', gone : SUBSET DOMAIN reports']]
    <3> DEFINE S == [at : {"idle", "asking", "replacing"}, host : Hosts \cup {NoHost},
                     read : SUBSET DOMAIN reports', gone : SUBSET DOMAIN reports']
    <3>1. Scans \subseteq S
      BY <1>7 DEF Scans
    <3>2. scan \in [Workers -> Scans]
      BY DEF InventoryInv, InventoryTypeOK, Scans
    <3> HIDE DEF S
    <3>3. scan \in [Workers -> S]
      BY <3>1, <3>2
    <3> QED  BY <3>3 DEF S
  <2> QED  BY <1>2, <1>6, <2>1, <2>2 DEF InventoryInv, InventoryTypeOK, Reports
<1>9. ReportInv'
  <2>1. ASSUME NEW p \in DOMAIN reports', reports'[p].at \in {"replacing", "stored"}
        PROVE  reports'[p].cn = reports'[p].host
    BY <1>5, <1>6, <2>1 DEF InventoryInv, ReportInv
  <2>2. ASSUME NEW g \in Hosts, NEW p \in packages[g]
        PROVE  p \in DOMAIN reports' /\ reports'[p].cn = g
    BY <1>6, <1>7 DEF InventoryInv, ReportInv
  <2> QED  BY <1>2, <2>1, <2>2 DEF ReportInv
<1>10. ASSUME NEW g \in Hosts PROVE Coming(g) => Coming(g)'
  BY <1>2, <1>6, <1>7 DEF Coming, Stored
<1>11. ASSUME NEW g \in Hosts PROVE HostInv(g)'
  BY <1>1, <1>2, <1>10, HostAside DEF InventoryInv, ScanInv
<1> QED  BY <1>1, <1>2, <1>8, <1>9, <1>11 DEF InventoryInv, ScanInv

LEMMA DeleteHostKeeps ==
  ASSUME Inv, NEW h \in Hosts, DeleteHost(h)
  PROVE  Inv'
<1> USE DEF Inv
<1>1. /\ alive' = [alive EXCEPT ![h] = FALSE]
      /\ token' = [token EXCEPT ![h] = 0]
      /\ packages' = [packages EXCEPT ![h] = {}]
      /\ vulns' = [vulns EXCEPT ![h] = {}]
      /\ UNCHANGED <<minted, request, certs, command, disk, raced>>
      /\ UNCHANGED <<reports, queued, scan, asked, upset>>
  BY DEF DeleteHost, HostGone, None
<1>2. /\ alive \in [Hosts -> BOOLEAN] /\ token \in [Hosts -> 0 .. Len(minted)]
      /\ Len(minted) \in Nat /\ DOMAIN minted = 1 .. Len(minted)
      /\ packages \in [Hosts -> SUBSET DOMAIN reports] /\ vulns \in [Hosts -> SUBSET DOMAIN reports]
  BY DEF EnrollInv, EnrollTypeOK, InventoryInv, InventoryTypeOK
<1>3. /\ alive'[h] = FALSE /\ packages'[h] = {} /\ vulns'[h] = {} /\ token'[h] = 0
      /\ \A g \in Hosts : g # h => alive'[g] = alive[g] /\ packages'[g] = packages[g]
                                   /\ vulns'[g] = vulns[g] /\ token'[g] = token[g]
  BY <1>1, <1>2
<1>4. EnrollTypeOK' /\ InventoryTypeOK'
  <2>1. token' \in [Hosts -> 0 .. Len(minted)] /\ alive' \in [Hosts -> BOOLEAN]
    BY <1>1, <1>2
  <2> QED  BY <1>1, <2>1 DEF EnrollInv, EnrollTypeOK, InventoryInv, InventoryTypeOK
<1>5. TokenInv'
  <2>1. ASSUME NEW q \in DOMAIN request PROVE RequestInv(q)'
    <3>1. RequestInv(q) /\ request[q].host \in Hosts
      BY RequestTypes DEF EnrollInv, TokenInv
    <3>2. request[q].token # 0 /\ token'[request[q].host] \in {0, token[request[q].host]}
      BY <1>2, <1>3, <3>1 DEF RequestInv
    <3> QED  BY <1>1, <3>1, <3>2 DEF RequestInv
  <2> QED  BY <1>1, <2>1 DEF EnrollInv, TokenInv, PairInv, Holds
<1>6. FileInv'
  BY <1>1, FilesAside DEF EnrollInv
<1>7. ReportInv'
  BY <1>1, <1>3 DEF InventoryInv, ReportInv
<1>8. \A g \in Hosts : Coming(g)' <=> Coming(g)
  BY <1>1 DEF Coming, Stored
<1>9. ASSUME NEW g \in Hosts PROVE HostInv(g)'
  <2>1. HostInv(g)
    BY DEF InventoryInv, ScanInv
  <2>2. CASE g = h
    <3>1. Scanning(h)' = Scanning(h)
      BY <1>1 DEF Scanning
    <3>2. ASSUME NEW k \in Scanning(h), h \notin upset PROVE AloneInv(h, k)'
      <4>1. AloneInv(h, k)
        BY <2>1, <2>2, <3>2 DEF HostInv
      <4> QED  BY <1>3, <3>1, <4>1 DEF AloneInv
    <3> QED  BY <1>1, <1>3, <2>2, <3>1, <3>2 DEF HostInv
  <2>3. CASE g # h
    BY <1>1, <1>3, <1>8, <2>1, <2>3, HostAside
  <2> QED  BY <2>2, <2>3
<1> QED  BY <1>1, <1>4, <1>5, <1>6, <1>7, <1>9 DEF EnrollInv, InventoryInv, ScanInv

-----------------------------------------------------------------------------
LEMMA InitInv == Init => Inv
<1> SUFFICES ASSUME Init PROVE Inv
  OBVIOUS
<1>1. /\ alive = [h \in Hosts |-> TRUE] /\ token = [h \in Hosts |-> 0]
      /\ minted = << >> /\ request = << >> /\ certs = << >>
      /\ command = [m \in Machines |-> NoCommand]
      /\ disk = [m \in Machines |-> [f \in Files |-> 0]]
      /\ raced = {}
  BY DEF Init, EnrollInit, None
<1>2. NoCommand \in Commands /\ NoCommand.doing = "idle" /\ NoCommand.answer = 0 /\ NoCommand.next = 1
  BY DEF NoCommand, Commands
<1>3. EnrollTypeOK
  BY <1>1, <1>2 DEF EnrollTypeOK, Commands
<1>4. TokenInv
  BY <1>1 DEF TokenInv
<1>5. FileInv
  BY <1>1, <1>2 DEF FileInv, SavingInv, ApartInv
<1>6. /\ packages = [h \in Hosts |-> {}] /\ vulns = [h \in Hosts |-> {}] /\ reports = << >>
      /\ queued = [h \in Hosts |-> 0] /\ scan = [k \in Workers |-> NoScan]
      /\ asked = 0 /\ upset = {}
  BY DEF Init, InventoryInit
<1>7. InventoryTypeOK
  BY <1>6, NoScanFacts DEF InventoryTypeOK, Scans
<1>8. ReportInv
  BY <1>6 DEF ReportInv
<1>9. ScanInv
  <2>1. \A h \in Hosts : Scanning(h) = {}
    BY <1>6, NoScanFacts, NoHostAssumption DEF Scanning
  <2> QED  BY <1>1, <1>6, <2>1, NoScanFacts DEF ScanInv, HostInv
<1> QED  BY <1>3, <1>4, <1>5, <1>7, <1>8, <1>9 DEF Inv, EnrollInv, InventoryInv

LEMMA NextInv == Inv /\ [Next]_vars => Inv'
<1> SUFFICES ASSUME Inv, [Next]_vars PROVE Inv'
  OBVIOUS
<1>1. CASE EnrollNext /\ UNCHANGED inventoryVars
  BY <1>1, EnrollKeeps, InventoryInvAside DEF Inv
<1>2. CASE InventoryNext /\ UNCHANGED enrollVars
  BY <1>2, InventoryKeeps, EnrollInvAside DEF Inv, enrollVars
<1>3. ASSUME NEW m \in Machines, SendInventory(m) PROVE Inv'
  BY <1>3, SendInventoryKeeps
<1>4. ASSUME NEW h \in Hosts, DeleteHost(h) PROVE Inv'
  BY <1>4, DeleteHostKeeps
<1>5. CASE UNCHANGED vars
  BY <1>5, EnrollInvAside, InventoryInvAside DEF Inv, vars, enrollVars, inventoryVars
<1> QED  BY <1>1, <1>2, <1>3, <1>4, <1>5 DEF Next

LEMMA Invariant == Spec => []Inv
BY InitInv, NextInv, PTL DEF Spec

(* Every variable stays in its type: what validate_and_consume, Save,      *)
(* SubmitInventory and the scans write.                                    *)
THEOREM TypeCorrect == Spec => []TypeOK
<1>1. Inv => TypeOK
  BY DEF Inv, EnrollInv, InventoryInv, TypeOK
<1> QED  BY <1>1, Invariant, PTL

(* Two certificates of one token take two requests that read it side by    *)
(* side (enrollment.py, between the SELECT and the commit).                *)
THEOREM TokenSpentOnceHolds == Spec => []TokenSpentOnce
<1>1. Inv => TokenSpentOnce
  <2> SUFFICES ASSUME Inv, NEW i \in DOMAIN certs, NEW j \in DOMAIN certs,
                      i # j, certs[i].token = certs[j].token
               PROVE  certs[i].token \in raced
    BY DEF TokenSpentOnce
  <2> USE DEF Inv, EnrollInv
  <2>1. PICK p \in DOMAIN request : request[p].cert = i /\ request[p].token = certs[i].token
    BY DEF TokenInv
  <2>2. PICK q \in DOMAIN request : request[q].cert = j /\ request[q].token = certs[j].token
    BY DEF TokenInv
  <2>3. i # 0 /\ j # 0
    <3>1. DOMAIN certs = 1 .. Len(certs) /\ Len(certs) \in Nat
      BY DEF EnrollTypeOK
    <3> QED  BY <3>1
  <2>4. Holds(p) /\ Holds(q)
    BY <2>1, <2>2, <2>3 DEF TokenInv, RequestInv, Holds
  <2> QED  BY <2>1, <2>2, <2>4 DEF TokenInv, PairInv
<1> QED  BY <1>1, Invariant, PTL

-----------------------------------------------------------------------------
(* The last state is whole: of one machine.                                *)
WholeAt(m) ==
  disk[m]["state"] > 0 /\ disk[m]["state"] = command[m].answer =>
    \A f \in Files : disk[m][f] = command[m].answer

(* Steps that save nothing at most end commands, or ask anew.              *)
LEMMA WholeAside ==
  ASSUME LastStateIsWhole, UNCHANGED disk,
         \A m \in Machines : command'[m].answer = command[m].answer
  PROVE  LastStateIsWhole'
BY DEF LastStateIsWhole, Loads

LEMMA EnrollAnswerWhole ==
  ASSUME EnrollInv, LastStateIsWhole, NEW m \in Machines, EnrollAnswer(m)
  PROVE  LastStateIsWhole'
<1> USE DEF EnrollInv
<1> DEFINE q == command[m].request
           c == [command[m] EXCEPT !.doing = "saving", !.answer = request[q].cert]
<1>1. /\ command[m].doing = "asking" /\ request[q].at = "signed"
      /\ command' = [command EXCEPT ![m] = c] /\ disk' = disk
  BY DEF EnrollAnswer
<1>2. q \in DOMAIN request /\ ApartInv(m, m)
  BY <1>1 DEF FileInv, SavingInv
<1>3. request[q].cert # 0 /\ request[q].cert \in Nat
  BY <1>1, <1>2, RequestTypes DEF TokenInv, RequestInv
<1>4. c.answer = request[q].cert
  BY CommandTypes DEF Commands
<1>5. disk[m]["state"] # c.answer
  BY <1>1, <1>2, <1>3, <1>4 DEF ApartInv, Files
<1>6. \A n \in Machines : command'[n] = IF n = m THEN c ELSE command[n]
  BY <1>1 DEF EnrollTypeOK
<1> HIDE DEF c, q
<1>7. ASSUME NEW n \in Machines PROVE WholeAt(n)'
  <2>1. CASE n = m
    BY <1>1, <1>5, <1>6, <2>1 DEF WholeAt
  <2>2. CASE n # m
    BY <1>1, <1>6, <2>2 DEF WholeAt, LastStateIsWhole, Loads
  <2> QED  BY <2>1, <2>2
<1> QED  BY <1>7 DEF WholeAt, LastStateIsWhole, Loads

LEMMA SaveFileWhole ==
  ASSUME EnrollInv, LastStateIsWhole, NEW m \in Machines, SaveFile(m)
  PROVE  LastStateIsWhole'
<1> USE DEF EnrollInv
<1> DEFINE c == command[m]
           f == SaveOrder[c.next]
           d == [disk[m] EXCEPT ![f] = c.answer]
           k == IF c.next = Len(SaveOrder) THEN Ended(c) ELSE [c EXCEPT !.next = c.next + 1]
<1>1. /\ c.doing = "saving" /\ disk' = [disk EXCEPT ![m] = d]
      /\ command' = [command EXCEPT ![m] = k]
  <2>1. command' = [command EXCEPT ![m] = k]
    BY Zenon DEF SaveFile
  <2>2. disk' = [disk EXCEPT ![m] = d]
    BY Zenon DEF SaveFile
  <2> QED  BY <2>1, <2>2 DEF SaveFile
<1>2. /\ c \in Commands /\ disk[m] \in Disks /\ c.next \in 1 .. 4 /\ SavingInv(m)
  BY CommandTypes DEF FileInv
<1>3. /\ Len(SaveOrder) = 4 /\ f \in Files
      /\ f = "state" <=> c.next = 4
      /\ SaveOrder[1] = "ca" /\ SaveOrder[2] = "crt" /\ SaveOrder[3] = "key"
  BY <1>2 DEF SaveOrder, Files
<1>4. \A g \in Files : d[g] = IF g = f THEN c.answer ELSE disk[m][g]
  <2> HIDE DEF f
  <2> QED  BY <1>2, <1>3 DEF Disks
<1>5. k.answer = c.answer
  <2>1. CASE c.next = 4
    BY <1>2, <1>3, <2>1, EndedFacts
  <2>2. CASE c.next # 4
    <3>1. k = [c EXCEPT !.next = c.next + 1]
      BY <1>2, <1>3, <2>2
    <3> HIDE DEF k
    <3> QED  BY <1>2, <3>1 DEF Commands
  <2> QED  BY <2>1, <2>2
<1>6. /\ \A n \in Machines : command'[n] = IF n = m THEN k ELSE command[n]
      /\ \A n \in Machines : disk'[n] = IF n = m THEN d ELSE disk[n]
  BY <1>1 DEF EnrollTypeOK
<1>7. /\ \A i \in 1 .. 4 : i < c.next => disk[m][SaveOrder[i]] = c.answer
      /\ disk[m]["state"] # c.answer
  BY <1>1, <1>2 DEF SavingInv
<1> HIDE DEF c, f, d, k
<1>8. CASE c.next = 4
  <2>1. disk[m]["ca"] = c.answer /\ disk[m]["crt"] = c.answer /\ disk[m]["key"] = c.answer
    BY <1>3, <1>7, <1>8
  <2>2. \A g \in Files : d[g] = c.answer
    BY <1>3, <1>4, <1>8, <2>1 DEF Files
  <2>3. ASSUME NEW n \in Machines PROVE WholeAt(n)'
    BY <1>5, <1>6, <2>2 DEF WholeAt, LastStateIsWhole, Loads
  <2> QED  BY <2>3 DEF WholeAt, LastStateIsWhole, Loads
<1>9. CASE c.next # 4
  <2>1. d["state"] # c.answer
    BY <1>3, <1>4, <1>7, <1>9 DEF Files
  <2>2. ASSUME NEW n \in Machines PROVE WholeAt(n)'
    BY <1>5, <1>6, <2>1 DEF WholeAt, LastStateIsWhole, Loads
  <2> QED  BY <2>2 DEF WholeAt, LastStateIsWhole, Loads
<1> QED  BY <1>8, <1>9

LEMMA SaveCutWhole ==
  ASSUME EnrollInv, LastStateIsWhole, NEW m \in Machines, SaveCut(m)
  PROVE  LastStateIsWhole'
<1> USE DEF EnrollInv
<1> DEFINE f == SaveOrder[command[m].next]
           d == [disk[m] EXCEPT ![f] = Torn]
<1>1. /\ command[m].doing = "saving"
      /\ disk' = [disk EXCEPT ![m] = d] \/ disk' = disk
      /\ command' = [command EXCEPT ![m] = Ended(command[m])]
  BY DEF SaveCut
<1>2. f \in Files /\ disk[m] \in Disks /\ Torn < 0 /\ Torn \in Int
  BY CommandTypes DEF SaveOrder, Files, Torn
<1>3. d["state"] \in {Torn, disk[m]["state"]}
  <2> HIDE DEF f
  <2> QED  BY <1>2 DEF Disks, Files
<1>4. disk[m]["state"] # command[m].answer /\ command[m].answer \in Nat
  BY <1>1, CommandTypes DEF FileInv, SavingInv
<1>5. Ended(command[m]).answer = command[m].answer
  BY CommandTypes, EndedFacts
<1> HIDE DEF f, d
<1>6. /\ \A n \in Machines : command'[n].answer = command[n].answer
      /\ disk'[m] = d \/ disk'[m] = disk[m]
      /\ \A n \in Machines : n # m => disk'[n] = disk[n]
  BY <1>1, <1>5 DEF EnrollTypeOK
<1>7. ASSUME NEW n \in Machines PROVE WholeAt(n)'
  <2>1. CASE n = m
    <3>1. disk'[m]["state"] # command[m].answer
      BY <1>2, <1>3, <1>4, <1>6
    <3> QED  BY <1>6, <2>1, <3>1 DEF WholeAt
  <2>2. CASE n # m
    BY <1>6, <2>2 DEF WholeAt, LastStateIsWhole, Loads
  <2> QED  BY <2>1, <2>2
<1> QED  BY <1>7 DEF WholeAt, LastStateIsWhole, Loads

LEMMA EnrollWhole ==
  ASSUME EnrollInv, LastStateIsWhole, EnrollNext
  PROVE  LastStateIsWhole'
<1>1. ASSUME NEW h \in Hosts, MintToken(h) \/ TokenExpires(h) PROVE LastStateIsWhole'
  BY <1>1, WholeAside DEF MintToken, TokenExpires
<1>2. ASSUME NEW q \in DOMAIN request, Validate(q) \/ Consume(q) \/ Sign(q)
      PROVE  LastStateIsWhole'
  <2>1. disk' = disk /\ command' = command
    BY <1>2 DEF Validate, Consume, Sign
  <2> QED  BY <2>1, WholeAside
<1>3. ASSUME NEW q \in DOMAIN request, EnrollFails(q) PROVE LastStateIsWhole'
  <2>1. /\ disk' = disk
        /\ command' = [m \in Machines |->
             IF command[m].request = q THEN Ended(command[m]) ELSE command[m]]
    BY <1>3 DEF EnrollFails
  <2>2. ASSUME NEW m \in Machines PROVE command'[m].answer = command[m].answer
    BY <2>1, CommandTypes, EndedFacts DEF EnrollInv
  <2> QED  BY <2>1, <2>2, WholeAside
<1>4. ASSUME NEW m \in Machines, NEW t \in DOMAIN minted, EnrollStart(m, t)
      PROVE  LastStateIsWhole'
  <2> DEFINE c == [command[m] EXCEPT !.doing = "asking", !.request = Len(request) + 1]
  <2>1. disk' = disk /\ command' = [command EXCEPT ![m] = c]
    BY <1>4 DEF EnrollStart
  <2>2. c.answer = command[m].answer
    BY CommandTypes DEF EnrollInv, Commands
  <2> HIDE DEF c
  <2>3. ASSUME NEW n \in Machines PROVE command'[n].answer = command[n].answer
    BY <2>1, <2>2 DEF EnrollInv, EnrollTypeOK
  <2> QED  BY <2>1, <2>3, WholeAside
<1>5. ASSUME NEW m \in Machines, GiveUp(m) PROVE LastStateIsWhole'
  <2>1. disk' = disk /\ command' = [command EXCEPT ![m] = Ended(command[m])]
    BY <1>5 DEF GiveUp
  <2>2. ASSUME NEW n \in Machines PROVE command'[n].answer = command[n].answer
    BY <2>1, CommandTypes, EndedFacts DEF EnrollInv, EnrollTypeOK
  <2> QED  BY <2>1, <2>2, WholeAside
<1>6. ASSUME NEW m \in Machines, EnrollAnswer(m) \/ SaveFile(m) \/ SaveCut(m)
      PROVE  LastStateIsWhole'
  BY <1>6, EnrollAnswerWhole, SaveFileWhole, SaveCutWhole
<1> QED  BY <1>1, <1>2, <1>3, <1>4, <1>5, <1>6 DEF EnrollNext

(* state.json is the last file Save writes: an agent that finds the last   *)
(* enrollment's state finds its key, certificate and CA.                   *)
THEOREM LastStateIsWholeHolds == Spec => []LastStateIsWhole
<1>1. Init => LastStateIsWhole
  <2> SUFFICES ASSUME Init PROVE LastStateIsWhole
    OBVIOUS
  <2>1. \A m \in Machines : disk[m]["state"] = 0
    BY DEF Init, EnrollInit, None, Files
  <2> QED  BY <2>1 DEF LastStateIsWhole, Loads
<1>2. Inv /\ LastStateIsWhole /\ [Next]_vars => LastStateIsWhole'
  <2> SUFFICES ASSUME Inv, LastStateIsWhole, [Next]_vars PROVE LastStateIsWhole'
    OBVIOUS
  <2>1. CASE EnrollNext /\ UNCHANGED inventoryVars
    BY <2>1, EnrollWhole DEF Inv
  <2>2. CASE \/ InventoryNext /\ UNCHANGED enrollVars
             \/ \E m \in Machines : SendInventory(m)
             \/ \E h \in Hosts : DeleteHost(h)
             \/ UNCHANGED vars
    <3>1. disk' = disk /\ command' = command
      BY <2>2 DEF SendInventory, DeleteHost, enrollVars, vars
    <3> QED  BY <3>1, WholeAside
  <2> QED  BY <2>1, <2>2 DEF Next
<1> QED  BY <1>1, <1>2, Invariant, PTL DEF Spec

(* Packages come from a machine with the host's own certificate            *)
(* (SubmitInventory's check of the CN against the host_id).                *)
THEOREM PackagesAreTheirsHolds == Spec => []PackagesAreTheirs
<1>1. Inv => PackagesAreTheirs
  BY DEF Inv, InventoryInv, ReportInv, PackagesAreTheirs
<1> QED  BY <1>1, Invariant, PTL

(* When nothing is pending, the vulnerabilities listed are of the packages *)
(* installed, unless scans met, failed or were not scheduled.              *)
THEOREM VulnsAreCurrentHolds == Spec => []VulnsAreCurrent
<1>1. Inv => VulnsAreCurrent
  BY DEF Inv, InventoryInv, ScanInv, HostInv, VulnsAreCurrent, Pending
<1> QED  BY <1>1, Invariant, PTL

=============================================================================
