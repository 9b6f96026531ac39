SPECIFICATION Spec
CONSTANTS
  Sessions = {1}
  Workers = {w1, w2}
  None = none
  Variants = 1
  MaxFaults = 1
  MaxStream = 1
  MaxRevision = 2
  MaxPosts = 2
  MaxClicks = 1
INVARIANT DecisionDurable
CHECK_DEADLOCK FALSE
