\* Two cycles overlap, operators and crashes.
SPECIFICATION Spec
CONSTANTS
  a = a  b = b  c = c  ip = ip  k1 = k1  k2 = k2
  Patterns = {a, b}
  Rules <- OneRule
  Acting = {a, b}
  Targets = {ip}
  Target <- SameTarget
  Unfit = {b}
  Cycles = {k1, k2}
  Nobody = Nobody
SYMMETRY CycleSymmetry
INVARIANTS DecisionStands AlertHasAction
CHECK_DEADLOCK FALSE
