SPECIFICATION FairSpec
CONSTANTS
  Accounts = {1, 2}
  Requests = {r1, r2}
  Quiescers = {q1, q2}
  u1 = u1
  u2 = u2
  Users = {u1}
  Probe = Probe
  StateProbe = StateProbe
  MaxMinute = 0
  StateTTL = 1
  CleanupPeriod = 1
  MaxConcurrency <- MCMaxConcurrency
  RPMLimit <- MCRPMLimit
  PolicyEnabled = FALSE
  PolicyMembers = {}
  BaseLimit <- MCBaseLimit
  MemberMax <- MCMemberMax
INVARIANT QuiesceFlagOwned
PROPERTIES
  ImplementsGate
  QuiesceCompletes
  AccountsReopen
