SPECIFICATION Spec
CONSTANTS
  u1 = u1
  u2 = u2
  u3 = u3
  i1 = i1
  j1 = j1
  j2 = j2
  Users = {u1, u2, u3}
  FirstOwner = u1
  Invites = {i1}
  Applications = {j1, j2}
  RetentionElapses = TRUE
  MaxShare = 2
  Shares = {0, 1, 2}
  SlotCounts = {1}
CHECK_DEADLOCK FALSE
INVARIANT MemberSharesWithin100
