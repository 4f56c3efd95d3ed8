SPECIFICATION FairSpec
CONSTANTS
  t1 = t1  t2 = t2  c1 = c1  c2 = c2  ana = ana  bia = bia
  Tabs <- OneTab
  Calls <- TwoCalls
  Users <- OneUser
  MaxSessions = 2
  MaxLost = 1
INVARIANT OneRefresh
PROPERTY SharesRenewal
