SPECIFICATION Spec
CONSTANTS
  k1 = k1
  k2 = k2
  c1 = c1
  c2 = c2
  Pairs = {k1, k2}
  Checks = {c1, c2}
  Lifetimes = {0, Forever}
  Arriving = {"sound", "unsigned"}
  Forever = Forever
  KeyFile = KeyFile
  Configurations <- Rotations
  WriteOutcomes = {"written", "failed", "torn"}
  Missing = Missing
  NoToken = NoToken
  Torn = Torn
  MaxTime = 2
INVARIANTS TypeOK FilesMatch
PROPERTIES ImplementsTokenCheck ExpiryIsFinal
SYMMETRY EitherCheck
CHECK_DEADLOCK FALSE
