\* Answers are awaited to the end; handlers may fail.
SPECIFICATION ReliableSpec
CONSTANTS
  h1 = h1  h2 = h2
  a1 = a1  a2 = a2
  t1 = t1
  s1 = s1  s2 = s2
  c1 = c1  c2 = c2
  NoRow = NoRow
  Hosts <- OneHost
  Ids <- TwoIds
  Targets <- OneTarget
  ManualKinds <- Scan
  PolicyKinds <- NoKinds
  Slots <- OneSlot
  Clients <- OneClient
PROPERTY EverySettles
