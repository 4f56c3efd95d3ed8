SPECIFICATION Spec
CONSTANTS
  t1 = t1  t2 = t2  c1 = c1  c2 = c2  ana = ana  bia = bia
  Tabs <- TwoTabs
  Calls <- OneCall
  Users <- TwoUsers
  MaxSessions = 2
  MaxLost = 1
INVARIANTS ReuseHasCause IdentityKept
SYMMETRY Symmetry
