SPECIFICATION Spec
CONSTANTS
  Accounts = {1}
  Requests = {r1, r2, r3, r4}
  Quiescers = {q1, q2}
  u1 = u1
  u2 = u2
  Users = {u1, u2}
  Probe = Probe
  StateProbe = StateProbe
  MaxMinute = 1
  StateTTL = 1
  CleanupPeriod = 1
  MaxConcurrency <- MCMaxConcurrency
  RPMLimit <- MCRPMLimit
  PolicyEnabled = TRUE
  PolicyMembers = {u1, u2}
  BaseLimit <- MCBaseLimit
  MemberMax <- MCMemberMax
SYMMETRY Symmetry
INVARIANTS
  TypeOK
  DrainedExclusive
  CountersExact
  BaseSlotGuaranteed
  ConcurrencyBounded
  WindowWithinRPM
