SPECIFICATION Spec
CONSTANTS
  HoursPerDay = 2
  DaysPerYear = 3
  ZoneOffset <- Zones
  NoLimit = NoLimit
  Absent = Absent
  t1 = t1
  a = a
  b = b
  nothing = nothing
  Targets = {a, b}
  Trajectories = {t1}
  Rules <- LifetimeRules
  Results <- SpendTwo
  Ttl = 1
  DiskFaults = FALSE
  MaxTime = 3
  Overdraft = 1
INVARIANT SpendWithinCap
