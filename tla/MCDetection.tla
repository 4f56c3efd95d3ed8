------------------------------ MODULE MCDetection ------------------------------
(* Instances of Detection for TLC: patterns a and b act on one target, c   *)
(* on none.                                                                *)
EXTENDS DetectionProps, TLC

CONSTANTS a, b, c, ip, k1, k2

OneRule == << {a, b} >>
TwoRules == << {c}, {a} >>
SameTarget == a :> ip @@ b :> ip
OneTarget == a :> ip

CycleSymmetry == Permutations({k1, k2})

=============================================================================
