\* Cycles overlap and fail one another; operators triage alerts.
SPECIFICATION TriageSpec
CONSTANTS
  a = a  b = b  c = c  ip = ip  k1 = k1  k2 = k2
  Patterns = {a, c}
  Rules <- TwoRules
  Acting = {a}
  Targets = {ip}
  Target <- OneTarget
  Unfit = {}
  Cycles = {k1, k2}
  Nobody = Nobody
PROPERTY EveryPatternAlerted
CHECK_DEADLOCK FALSE
