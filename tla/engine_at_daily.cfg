SPECIFICATION Spec
CONSTANTS
  HoursPerDay = 2
  DaysPerYear = 3
  ZoneOffset <- Zones
  NoLimit = NoLimit
  Absent = Absent
  t1 = t1
  a = a
  b = b
  nothing = nothing
  Targets = {a, b}
  Trajectories = {t1}
  Rules <- AtDailyRules
  Results <- SpendTwo
  Ttl = 0
  DiskFaults = FALSE
  MaxTime = 3
  Overdraft = 1
INVARIANT DenialJustified
