------------------------------- MODULE HostSetup -------------------------------
(***************************************************************************)
(* Enrollment and Inventory together: what a machine may report follows    *)
(* from the files its enrollments left, and from the host's row.           *)
(* Source: the commands of the agent's main.go, api/hosts.py.              *)
(***************************************************************************)
EXTENDS Inventory

vars == <<alive, token, minted, request, certs, command, disk, raced,
          packages, vulns, reports, queued, scan, asked, upset>>

Init == EnrollInit /\ InventoryInit

(* `sentinel-agent inventory`: the state says for which host, the          *)
(* certificate who asks.  A process of its own, also during an enrollment; *)
(* it reads the state first, which is written last, so that reading the    *)
(* files at once shows the same mixtures.                                  *)
SendInventory(m) ==
  /\ Loads(m) /\ Dials(m)
  /\ Report(certs[disk[m]["state"]].host, certs[disk[m]["crt"]].host)
  /\ UNCHANGED enrollVars

DeleteHost(h) ==
  /\ alive[h]
  /\ alive' = [alive EXCEPT ![h] = FALSE]
  /\ HostGone(h)
  /\ token' = [token EXCEPT ![h] = None]
  /\ UNCHANGED <<minted, request, certs, command, disk, raced>>

Next ==
  \/ EnrollNext /\ UNCHANGED inventoryVars
  \/ InventoryNext /\ UNCHANGED enrollVars
  \/ \E m \in Machines : SendInventory(m)
  \/ \E h \in Hosts : DeleteHost(h)

Spec == Init /\ [][Next]_vars

=============================================================================
