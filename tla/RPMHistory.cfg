SPECIFICATION HistorySpec
CONSTANTS
  Accounts = {1}
  Requests = {r1, r2, r3}
  Quiescers = {}
  Users = {u1}
  Probe = Probe
  StateProbe = StateProbe
  MaxMinute = 1
  StateTTL = 30
  CleanupPeriod = 10
  MaxConcurrency <- None
  RPMLimit <- One
  PolicyEnabled = FALSE
  PolicyMembers = {}
  BaseLimit <- NoLimit
  MemberMax <- NoLimit
INVARIANT RPMPerMinute
