SPECIFICATION Spec
CONSTANTS
  r1 = r1
  r2 = r2
  strict = strict
  loose = loose
  unsound = unsound
  Torn = Torn
  Missing = Missing
  Unknown = Unknown
  IDs = {r1, r2}
  Bodies = {strict, loose, unsound}
  SoundBodies = {strict, loose}
  FirstPolicy <- OneStrictRule
  WriteOutcomes = {"written", "failed", "torn", "late"}
INVARIANT LiveRulesValid
CHECK_DEADLOCK FALSE
