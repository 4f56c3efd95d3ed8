\* One machine that enrolls twice, two hosts, two inventories, two workers.
SPECIFICATION Spec
CONSTANTS
  h1 = h1  h2 = h2  m1 = m1  k1 = k1  k2 = k2
  NoHost = NoHost
  Hosts = {h1, h2}
  Machines = {m1}
  Workers = {k1, k2}
  MaxTokens = 2
  MaxRequests = 2
  MaxReports = 2
  MaxAsked = 1
SYMMETRY Symmetric
INVARIANTS TokenSpentOnce LastStateIsWhole PackagesAreTheirs VulnsAreCurrent
CHECK_DEADLOCK FALSE
