------------------------------- MODULE Inventory -------------------------------
(***************************************************************************)
(* What a host has installed and what is known to be wrong with it: the    *)
(* inventories agents submit, the scans they schedule, and the two tables  *)
(* each of them replaces, host_packages and host_vulnerabilities.          *)
(* Source: agent_servicer.SubmitInventory, services/vuln_scan.py,          *)
(* services/osv.py, workers/vuln.py.                                       *)
(*                                                                         *)
(* Rows are told apart by the inventory they come from: packages[h] and    *)
(* vulns[h] are sets of numbers of reports.  A report without packages     *)
(* leaves no number.  Its number is in vulns[h] when all that OSV knows of *)
(* its packages is listed, be it nothing.                                  *)
(***************************************************************************)
EXTENDS Enrollment

CONSTANTS Workers,
  NoHost,       \* of a worker that runs no scan
  MaxReports,   \* inventories submitted
  MaxAsked      \* scans operators ask for

ASSUME NoHostAssumption == NoHost \notin Hosts

VARIABLES
  packages,   \* host -> the reports its rows of host_packages come from
  vulns,      \* host -> the reports host_vulnerabilities lists completely
  reports,    \* the SubmitInventory calls
  queued,     \* host -> scans in the broker
  scan,       \* worker -> the scan it runs
  asked,      \* how many scans operators have asked for (a bound, no code)
  upset       \* history: hosts whose last scan met another, failed, was
              \* incomplete or never was

inventoryVars == <<packages, vulns, reports, queued, scan, asked, upset>>

NoScan == [at |-> "idle", host |-> NoHost, read |-> {}, gone |-> {}]

InventoryInit ==
  /\ packages = [h \in Hosts |-> {}] /\ vulns = [h \in Hosts |-> {}]
  /\ reports = << >>
  /\ queued = [h \in Hosts |-> 0]
  /\ scan = [k \in Workers |-> NoScan]
  /\ asked = 0
  /\ upset = {}

-----------------------------------------------------------------------------
(* An agent whose certificate names host cn reports for host h.            *)
Report(h, cn) ==
  /\ Len(reports) < MaxReports
  /\ reports' = Append(reports, [host |-> h, cn |-> cn, at |-> "sent", gone |-> {}])
  /\ UNCHANGED <<packages, vulns, queued, scan, asked, upset>>

(* Mutation: any certificate will do.                                      *)
SubmitAnyInventory(r) ==
  LET h == reports[r].host IN
  /\ reports[r].at = "sent" /\ alive[h]
  /\ reports' = [reports EXCEPT ![r].at = "replacing", ![r].gone = packages[h]]
  /\ UNCHANGED <<packages, vulns, queued, scan, asked, upset>>

(* The certificate's name is checked, the host is there, its packages are  *)
(* deleted: what the statement sees is what goes.                          *)
SubmitInventory(r) ==
  LET h == reports[r].host IN
  /\ reports[r].at = "sent" /\ reports[r].cn = h /\ alive[h]
  /\ reports' = [reports EXCEPT ![r].at = "replacing", ![r].gone = packages[h]]
  /\ UNCHANGED <<packages, vulns, queued, scan, asked, upset>>

(* What is reported is inserted and committed: nothing, if the report      *)
(* names no package.  (inventoryCmd does not send such a report; the       *)
(* servicer takes it.)                                                     *)
Store(r) ==
  LET h == reports[r].host IN
  /\ reports[r].at = "replacing" /\ alive[h]
  /\ \E new \in {{r}, {}} :
       packages' = [packages EXCEPT ![h] = (@ \ reports[r].gone) \cup new]
  /\ reports' = [reports EXCEPT ![r].at = "stored", ![r].gone = {}]
  /\ UNCHANGED <<vulns, queued, scan, asked, upset>>

(* Refused, not there, cancelled, or a key of an inventory that was stored *)
(* meanwhile: nothing is written.                                          *)
ReportFails(r) ==
  /\ reports[r].at \in {"sent", "replacing"}
  /\ reports' = [reports EXCEPT ![r].at = "over", ![r].gone = {}]
  /\ UNCHANGED <<packages, vulns, queued, scan, asked, upset>>

(* The scan is handed to the broker after the commit.                      *)
Schedule(r) ==
  LET h == reports[r].host IN
  /\ reports[r].at = "stored"
  /\ reports' = [reports EXCEPT ![r].at = "over"]
  /\ queued' = [queued EXCEPT ![h] = @ + 1]
  /\ UNCHANGED <<packages, vulns, scan, asked, upset>>

(* The broker is away, or the handler ends at its commit.                  *)
ScheduleFails(r) ==
  /\ reports[r].at = "stored"
  /\ reports' = [reports EXCEPT ![r].at = "over"]
  /\ upset' = upset \cup {reports[r].host}
  /\ UNCHANGED <<packages, vulns, queued, scan, asked>>

-----------------------------------------------------------------------------
(* POST /hosts/{id}/scan.                                                  *)
TriggerScan(h) ==
  /\ alive[h] /\ asked < MaxAsked
  /\ asked' = asked + 1
  /\ queued' = [queued EXCEPT ![h] = @ + 1]
  /\ UNCHANGED <<packages, vulns, reports, scan, upset>>

Scanning(h) == {k \in Workers : scan[k].host = h}

(* A worker takes a scan and reads the packages.  The scan of a host that  *)
(* is not there or has no packages ends at once: what earlier scans found  *)
(* stays.                                                                  *)
Take(k, h) ==
  /\ scan[k].at = "idle" /\ queued[h] > 0
  /\ queued' = [queued EXCEPT ![h] = @ - 1]
  /\ IF alive[h] /\ packages[h] # {}
     THEN /\ scan' = [scan EXCEPT ![k] = [NoScan EXCEPT
                        !.at = "asking", !.host = h, !.read = packages[h]]]
          /\ upset' = IF Scanning(h) = {} THEN upset \ {h} ELSE upset \cup {h}
     ELSE UNCHANGED <<scan, upset>>
  /\ UNCHANGED <<packages, vulns, reports, asked>>

(* OSV has answered; the results of earlier scans are deleted.             *)
DeleteResults(k) ==
  /\ scan[k].at = "asking"
  /\ scan' = [scan EXCEPT ![k].at = "replacing", ![k].gone = vulns[scan[k].host]]
  /\ UNCHANGED <<packages, vulns, reports, queued, asked, upset>>

(* What OSV has told of a scan's packages.  It is asked for the details of *)
(* each vulnerability by itself, and a vulnerability whose details did not *)
(* come is left out without a word.                                        *)
Detailed(k) == SUBSET scan[k].read

(* Mutation: the results of earlier scans stay.                            *)
PersistAdding(k) ==
  LET h == scan[k].host IN
  /\ scan[k].at = "replacing" /\ alive[h]
  /\ \E found \in Detailed(k) :
       /\ vulns' = [vulns EXCEPT ![h] = @ \cup found]
       /\ upset' = IF found = scan[k].read THEN upset ELSE upset \cup {h}
  /\ scan' = [scan EXCEPT ![k] = NoScan]
  /\ UNCHANGED <<packages, reports, queued, asked>>

Persist(k) ==
  LET h == scan[k].host IN
  /\ scan[k].at = "replacing" /\ alive[h]
  /\ \E found \in Detailed(k) :
       /\ vulns' = [vulns EXCEPT ![h] = (@ \ scan[k].gone) \cup found]
       /\ upset' = IF found = scan[k].read THEN upset ELSE upset \cup {h}
  /\ scan' = [scan EXCEPT ![k] = NoScan]
  /\ UNCHANGED <<packages, reports, queued, asked>>

(* OSV's list does not come, the distribution is not mapped, a key was     *)
(* inserted by the scan this one met, the host is gone, the worker ends:   *)
(* nothing is written.                                                     *)
ScanFails(k) ==
  /\ scan[k].at # "idle"
  /\ scan' = [scan EXCEPT ![k] = NoScan]
  /\ upset' = upset \cup {scan[k].host}
  /\ UNCHANGED <<packages, vulns, reports, queued, asked>>

-----------------------------------------------------------------------------
(* The host's rows go with it.                                             *)
HostGone(h) ==
  /\ packages' = [packages EXCEPT ![h] = {}]
  /\ vulns' = [vulns EXCEPT ![h] = {}]
  /\ UNCHANGED <<reports, queued, scan, asked, upset>>

InventoryNext ==
  \/ \E r \in DOMAIN reports :
       \/ SubmitInventory(r) \/ Store(r) \/ ReportFails(r)
       \/ Schedule(r) \/ ScheduleFails(r)
  \/ \E h \in Hosts : TriggerScan(h) \/ \E k \in Workers : Take(k, h)
  \/ \E k \in Workers : DeleteResults(k) \/ Persist(k) \/ ScanFails(k)

-----------------------------------------------------------------------------
InventoryTypeOK ==
  /\ reports \in Seq([host : Hosts, cn : Hosts, gone : SUBSET Nat,
       at : {"sent", "replacing", "stored", "over"}])
  /\ packages \in [Hosts -> SUBSET DOMAIN reports]
  /\ vulns \in [Hosts -> SUBSET DOMAIN reports]
  /\ queued \in [Hosts -> Nat]
  /\ scan \in [Workers -> [at : {"idle", "asking", "replacing"},
       host : Hosts \cup {NoHost}, read : SUBSET DOMAIN reports, gone : SUBSET DOMAIN reports]]
  /\ asked \in Nat
  /\ upset \subseteq Hosts

=============================================================================
