---------------------------- MODULE MCWebSession ----------------------------
(* Instances of WebSession for TLC: two tabs of one browser, two people.   *)
EXTENDS WebSessionProps, TLC

CONSTANTS t1, t2, c1, c2, ana, bia

OneTab == {t1}
TwoTabs == {t1, t2}
OneCall == {c1}
TwoCalls == {c1, c2}
OneUser == {ana}
TwoUsers == {ana, bia}

Symmetry == Permutations(Tabs) \cup Permutations(Calls) \cup Permutations(Users)

=============================================================================
