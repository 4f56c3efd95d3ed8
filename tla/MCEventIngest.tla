----------------------------- MODULE MCEventIngest -----------------------------
(* Instances of EventIngest for TLC: three events of the host, one of      *)
(* another, a batch that is full with two.                                 *)
EXTENDS EventIngestProps

CONSTANTS e1, e2, e3, foreign

ThreeOwn == {e1, e2, e3}
Mixed == ThreeOwn \cup {foreign}

=============================================================================
