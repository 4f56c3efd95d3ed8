------------------------------ MODULE MCHostSetup ------------------------------
(* An instance of HostSetup for TLC.                                       *)
EXTENDS HostSetupProps, TLC

CONSTANTS h1, h2, m1, k1, k2

Symmetric == Permutations({h1, h2}) \cup Permutations({k1, k2})

=============================================================================
