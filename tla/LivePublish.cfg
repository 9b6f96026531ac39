SPECIFICATION Spec
CONSTANTS
  Sessions = {1}
  Workers = {w1, w2}
  None = none
  Variants = 2
  MaxFaults = 0
  MaxStream = 1
  MaxRevision = 2
  MaxPosts = 2
  MaxClicks = 1
INVARIANT PublicationsFenced
CHECK_DEADLOCK FALSE
