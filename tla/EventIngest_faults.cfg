\* Every fault: Loki fails, the call is cancelled, the server stops.
SPECIFICATION FairSpec
CONSTANTS
  e1 = e1  e2 = e2  e3 = e3  foreign = foreign
  Events <- Mixed
  Own <- ThreeOwn
  BatchSize = 2
INVARIANTS QuietEventsKept ClosedIsDrained BatchBounded
PROPERTY EveryEventLeaves
CHECK_DEADLOCK FALSE
