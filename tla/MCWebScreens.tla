---------------------------- MODULE MCWebScreens ----------------------------
(* An instance of WebScreens for TLC: two subjects, two requests at once.  *)
EXTENDS WebScreensProps

CONSTANTS k1, k2

TwoSubjects == {k1, k2}

=============================================================================
