SPECIFICATION FairSpec
CONSTANTS
  HoursPerDay = 2
  DaysPerYear = 2
  ZoneOffset <- Zones
  NoLimit = NoLimit
  Absent = Absent
  t1 = t1
  a = a
  b = b
  nothing = nothing
  Targets = {a, b}
  Trajectories = {t1}
  Rules <- TwoRules
  Results <- TwoResults
  Ttl = 2
  DiskFaults = FALSE
  MaxTime = 3
  Overdraft = 1
INVARIANTS TypeOK NoOrphans SpendWithinCap
PROPERTIES ImplementsLedger OnlyGrantsSpend IdleSessionsReclaimed
