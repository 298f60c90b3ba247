SPECIFICATION Spec
CONSTANTS
  HoursPerDay = 2
  DaysPerYear = 2
  ZoneOffset <- NoZones
  NoLimit = NoLimit
  Missing = Missing
  NoDirective = NoDirective
  NoCondition = NoCondition
  Conditions = {inEuros}
  NotMCP = NotMCP
  MalformedMCP = MalformedMCP
  Nobody = Nobody
  q1 = q1
  q2 = q2
  t1 = t1
  nothing = nothing
  inEuros = inEuros
  Targets = {}
  Requests = {q1, q2}
  Payloads <- SomePayloads
  FirstPolicy <- TwoRules
  PostedRules <- Updates
  DryRun = FALSE
  MaxChanges = 2
INVARIANTS TypeOK JudgedByOnePolicy CeilingsHold ConsumptionWithinCap ChargesAccounted TrailTells
SYMMETRY EitherFirst
CHECK_DEADLOCK FALSE
