SPECIFICATION BackendSpec
CONSTANTS
  Refreshers = {r1, r2}
  NoHolder = NoHolder
  MaxTokens = 3
  MaxMishaps = 2
  Members = {m1, m2, m3}
  Resets = {e1, e2}
  Votes = {1}
  NoVote = NoVote
  VoteTTL = 1
  LeaseTTL = 1
  MaxTime = 1
  Probes = {p1, p2}
  ResetTimes = {0, 1, 2}
  BatchTimes = {0, 2}
  Tolerance = 1
  MaxUsed = 1
  MaxProbeTime = 1
  MaxBindings = 2
  Orders = {1, 2, 3}
  MaxMembershipTime = 2
  MaxAdjustments = 1
  Minute = 2
  Keep = 3
  Window = 1
  Patience = 0
  MaxTick = 4
  MaxStarted = 2
  MaxSeries = 2
  Users = {u1, u2, u3}
  FirstOwner = u1
  RetentionElapses = TRUE
  Invites = {i1}
  Applications = {j1, j2}
  MaxShare = 2
  Shares = {0, 1}
  SlotCounts = {1}
INVARIANTS
  TokenUsable
  CancelledSpendsNothing
  OneExecution
  BatchWhole
  BaselineInWindow
  AcknowledgedIsStored
  HistoryExact
  OneOwner
  ArchivedTakesNobody
  SharedModeHasNoShares
PROPERTIES
  NewerTokenKept
  MajorityOfMembers
  UseNotForgotten
  EntitlementKept
  PaidCountsOnce
  JoiningUsesReservation
  InvitesSettleOnce
CHECK_DEADLOCK FALSE
