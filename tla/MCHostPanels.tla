----------------------------- MODULE MCHostPanels ------------------------------
(* An instance of HostPanels for TLC: two items, two actions.              *)
EXTENDS HostPanelsProps

CONSTANTS r1, r2, a1, a2

=============================================================================
