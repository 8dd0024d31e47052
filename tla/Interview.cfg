SPECIFICATION Spec
CONSTANTS
  t1 = t1
  t2 = t2
  s1 = s1
  s2 = s2
  u = u
  Threads = {t1, t2}
  Sessions = {s1, s2}
  UserOf <- MCUserOf
  PerUser = 1
  DailyBudget = 2
  Estimate = 1
  Ceiling = 1
  MaxTurns = 2
  MaxCall = 1
  MaxSaid = 3
  MaxFaults = 1
  MaxDays = 1
  OverlapModes = {TRUE, FALSE}
SYMMETRY Symmetric
INVARIANTS
  TypeOK
  DayCeilingHolds
  SessionBounded
CHECK_DEADLOCK FALSE
