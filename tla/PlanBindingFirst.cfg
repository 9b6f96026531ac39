SPECIFICATION BindingSpec
CONSTANTS
  Accounts = {1, 2}
  Requests = {r1}
  Quiescers = {q1, q2}
  Users = {u1}
  Probe = Probe
  StateProbe = StateProbe
  MaxMinute = 0
  StateTTL = 30
  CleanupPeriod = 10
  MaxConcurrency <- Unlimited
  RPMLimit <- Unlimited
  PolicyEnabled = FALSE
  PolicyMembers = {}
  BaseLimit <- NoLimit
  MemberMax <- NoLimit
  p1 = p1
  p2 = p2
  Plans = {p1, p2}
  Unbound = Unbound
  Absent = {p2}
  StartBinding <- UnboundStart
  CreateWith = {1, 2}
  MaxGeneration = 3
INVARIANT RebindHoldsAccount
CHECK_DEADLOCK FALSE
