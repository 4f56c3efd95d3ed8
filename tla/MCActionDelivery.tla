--------------------------- MODULE MCActionDelivery ---------------------------
(* Instances of ActionDelivery for TLC.                                    *)
EXTENDS ActionDeliveryProps, TLC

CONSTANTS h1, h2, a1, a2, t1, s1, s2, c1, c2

OneHost == {h1}
OneId == {a1}
TwoIds == {a1, a2}
OneTarget == {t1}
OneSlot == {s1}
TwoSlots == {s1, s2}
OneClient == {c1}
Scan == {"run_scan"}
NoKinds == {}

(* Ids and slots are interchangeable; no liveness is checked under a       *)
(* symmetry.                                                               *)
IdSymmetry == Permutations(TwoIds) \cup Permutations(TwoSlots)

=============================================================================
