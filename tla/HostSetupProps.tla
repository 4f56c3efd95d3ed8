---------------------------- MODULE HostSetupProps ----------------------------
(***************************************************************************)
(* What is checked of HostSetup, and the invariants it is proved from.     *)
(***************************************************************************)
EXTENDS HostSetup

TypeOK == EnrollTypeOK /\ InventoryTypeOK

(* A token is one-shot: two certificates of one token were asked for by    *)
(* requests that both read it before either spent it, the window between   *)
(* the SELECT and the commit of validate_and_consume.                      *)
TokenSpentOnce ==
  \A i, j \in DOMAIN certs :
    i # j /\ certs[i].token = certs[j].token => certs[i].token \in raced

(* state.json is written last: an agent that finds the state of the last   *)
(* enrollment finds all of it, wherever an enrollment was cut.  (While an  *)
(* older state is there, the rest may be of two enrollments.)              *)
LastStateIsWhole ==
  \A m \in Machines :
    Loads(m) /\ disk[m]["state"] = command[m].answer => \A f \in Files : disk[m][f] = command[m].answer

(* The packages of a host come from a machine that holds a certificate of  *)
(* that host, also when its files are of two enrollments of two hosts.     *)
PackagesAreTheirs ==
  \A h \in Hosts : \A r \in packages[h] : reports[r].cn = h

Stored(h) == \E r \in DOMAIN reports : reports[r].host = h /\ reports[r].at = "stored"

Coming(h) == queued[h] > 0 \/ Stored(h)
Pending(h) == Coming(h) \/ Scanning(h) # {}

(* When all is done, what is listed as vulnerable is what is installed,    *)
(* unless the last scan of the host met another one, failed, was not       *)
(* scheduled, or left out what OSV gave no details of (osv.py:202): a scan *)
(* reads after the commit of the inventory it is for.  A host of which no  *)
(* package is left keeps its list: its scan ends before the DELETE         *)
(* (vuln_scan.py:63).                                                      *)
VulnsAreCurrent ==
  \A h \in Hosts :
    \/ Pending(h) \/ h \in upset
    \/ vulns[h] = packages[h]
    \/ alive[h] /\ packages[h] = {}

-----------------------------------------------------------------------------
(* Why they hold.                                                          *)

(* A spent token is on no row, so that requests which hold one token       *)
(* matched it side by side; a certificate belongs to one request.          *)
RequestInv(q) ==
  /\ request[q].token \in DOMAIN minted
  /\ request[q].host = minted[request[q].token]
  /\ request[q].cert # 0 <=> request[q].at = "signed"
  /\ request[q].cert <= Len(certs)
  /\ request[q].at \in {"spent", "signed"} => token[request[q].host] # request[q].token

Holds(q) == request[q].at \in {"matched", "spent", "signed"}

PairInv(p, q) ==
  /\ request[p].cert = request[q].cert => request[p].cert = 0
  /\ request[p].token = request[q].token /\ Holds(p) /\ Holds(q) => request[p].token \in raced

TokenInv ==
  /\ \A q \in DOMAIN request : RequestInv(q)
  /\ \A p, q \in DOMAIN request : p # q => PairInv(p, q)
  /\ \A i \in DOMAIN certs :
       \E q \in DOMAIN request : request[q].cert = i /\ request[q].token = certs[i].token

(* What a command saves is in the files it is past, and not in the state.  *)
SavingInv(m) ==
  LET c == command[m] IN
  /\ c.answer <= Len(certs)
  /\ \A f \in Files : disk[m][f] <= Len(certs)
  /\ c.doing # "idle" => c.request \in DOMAIN request
  /\ c.doing # "saving" => c.next = 1
  /\ c.doing = "saving" =>
       /\ c.answer > 0 /\ request[c.request].cert = c.answer
       /\ \A i \in 1 .. 4 : i < c.next => disk[m][SaveOrder[i]] = c.answer
       /\ disk[m]["state"] # c.answer

(* A request is one command's.  What a command waits for is in no file and *)
(* was no command's answer.                                                *)
ApartInv(m, n) ==
  LET c == command[m]  sent == request[c.request].cert IN
  /\ n # m /\ c.doing # "idle" /\ command[n].doing # "idle" => command[n].request # c.request
  /\ c.doing = "asking" /\ sent # 0 =>
       command[n].answer # sent /\ \A f \in Files : disk[n][f] # sent

FileInv ==
  /\ \A m \in Machines : SavingInv(m)
  /\ \A m, n \in Machines : ApartInv(m, n)

(* Packages come from reports that passed the check of the name.           *)
ReportInv ==
  /\ \A r \in DOMAIN reports :
       reports[r].at \in {"replacing", "stored"} => reports[r].cn = reports[r].host
  /\ \A h \in Hosts : \A r \in packages[h] : r \in DOMAIN reports /\ reports[r].cn = h

(* Unless upset, a host has one scan at most, which has read what is there *)
(* now or will be followed by another, and replaces what is there now; or  *)
(* nothing is installed any more.                                          *)
AloneInv(h, k) ==
  /\ Scanning(h) = {k}
  /\ alive[h] => scan[k].read = packages[h] \/ Coming(h) \/ packages[h] = {}
  /\ alive[h] /\ scan[k].at = "replacing" => scan[k].gone = vulns[h]

HostInv(h) ==
  /\ ~ alive[h] => packages[h] = {} /\ vulns[h] = {}
  /\ h \notin upset =>
       /\ \A k \in Scanning(h) : AloneInv(h, k)
       /\ Scanning(h) = {} =>
            vulns[h] = packages[h] \/ Coming(h) \/ (alive[h] /\ packages[h] = {})

ScanInv ==
  /\ \A k \in Workers : scan[k].at = "idle" <=> scan[k].host = NoHost
  /\ \A h \in Hosts : HostInv(h)

=============================================================================
