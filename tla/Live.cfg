SPECIFICATION Spec
CONSTANTS
  Sessions = {1}
  Workers = {w1, w2}
  None = none
  Variants = 2
  MaxFaults = 1
  MaxStream = 1
  MaxRevision = 2
  MaxPosts = 2
  MaxClicks = 1
SYMMETRY WorkerSymmetry
INVARIANTS
  LiveTypeOK
  HandedOutOnce
  CyclingHasVariants
  AcceptedIsChosen
PROPERTIES
  AppliedOnce
  NoLostWakeup
CHECK_DEADLOCK FALSE
