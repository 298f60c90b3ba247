SPECIFICATION Spec
CONSTANTS
  euro = euro
  drop = drop
  climb = climb
  quoted = quoted
  pair = pair
  currencies = currencies
  digits = digits
  asked = asked
  Letters = {"x", "y", "z", "_"}
  Separators = {"-"}
  Manifests <- SomeManifests
  Words = {"file", "code", "path", "sql"}
  Precision = 3
  DefaultMaxPerCall = 4
  DefaultMaxCumulative = 10
  EnableInjectionGuard = TRUE
  EnablePathGuard = TRUE
  Texts = {euro, quoted, pair, drop, climb}
  Values <- SomeValues
  Patterns = {currencies, digits, asked}
  Accepts <- Accepted
  EnumReads <- ReadEnums
  PatternReads <- ReadPatterns
  Garbled = Garbled
  Destructive = {drop}
  Climbing = {climb, pair}
  WriteOutcomes = {"written", "failed", "torn"}
  Unset = Unset
  Previous = Previous
  Torn = Torn
INVARIANT SchemaEnforced
CHECK_DEADLOCK FALSE
