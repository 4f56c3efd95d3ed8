------------------------------ MODULE MCAgentBus -------------------------------
(* Instances of AgentBus for TLC.                                          *)
EXTENDS AgentBusProps

CONSTANTS sshd, mac, n1, n2

OneCollector == {sshd}

=============================================================================
