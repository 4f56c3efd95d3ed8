\* One collector, the watcher and the scans around a channel of one event.
SPECIFICATION FairSpec
CONSTANTS
  sshd = sshd  mac = mac
  Collectors <- OneCollector
  BusCap = 1
  OutCap = 1
  MaxEvents = 3
  n1 = n1  n2 = n2  NoTimer = NoTimer
  Timers = {n1, n2}
INVARIANTS NothingDropped PumpsNeverPanic TimerPanicsOnlyStopping WrittenIsDue Debounced
PROPERTY EndsWhenItMust
CHECK_DEADLOCK FALSE
