SPECIFICATION Spec
CONSTANTS
  r1 = r1  r2 = r2  a1 = a1  a2 = a2  NoItem = NoItem
  Items = {r1, r2}
  Ids = {a1, a2}
  MaxEdits = 1
  Busy = {"antimalware", "rkhunter", "chkrootkit", "lynis", "aide"}
  Followed = {"addRule", "removeRule", "ban", "unban", "rkhunter", "chkrootkit", "lynis", "aide"}
INVARIANTS TwinsHaveCause BusyMeansSent ScrollFreed
PROPERTIES RemovalIsConfirmed FocusReturns
