SPECIFICATION RouteSpec
CONSTANTS
  u1 = u1
  u2 = u2
  i1 = i1
  j1 = j1
  Users = {u1, u2}
  FirstOwner = u1
  Invites = {i1}
  Applications = {j1}
  RetentionElapses = FALSE
  MaxShare = 1
  Shares = {0}
  SlotCounts = {1}
CHECK_DEADLOCK FALSE
INVARIANT LeaversUnrouted
