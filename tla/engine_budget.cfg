SPECIFICATION Spec
CONSTANTS
  HoursPerDay = 2
  DaysPerYear = 2
  ZoneOffset <- Zones
  NoLimit = NoLimit
  Absent = Absent
  t1 = t1
  a = a
  b = b
  nothing = nothing
  Targets = {a, b}
  Trajectories = {t1}
  Rules <- BudgetRules
  Results <- BudgetResults
  Ttl = 2
  DiskFaults = TRUE
  MaxTime = 3
  Overdraft = 1
INVARIANTS SpendWithinCap DenialJustified ChargesDurable LedgerFollowed
