------------------------------- MODULE MCLogTail -------------------------------
(* Instances of LogTail for TLC: its constants are numbers of the cfg.     *)
EXTENDS LogTail

=============================================================================
