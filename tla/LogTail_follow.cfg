\* Split lines, rotations of both kinds, one restart.
SPECIFICATION FairTail
CONSTANTS
  MaxLines = 4
  MaxRotations = 2
  MaxRestarts = 1
INVARIANTS InOrderOnce TornOnlyIfSplit
PROPERTY WholeLinesArrive
CHECK_DEADLOCK FALSE
