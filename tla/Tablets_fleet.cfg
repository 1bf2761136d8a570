SPECIFICATION Spec
CONSTANTS
  Kiosks = {k1, k2}
  Calls = {c1, c2}
  Codes = {x1, x2}
  Secrets = {s1, s2, s3}
  None = None
  MaxFaults = 1
SYMMETRY Symmetry
CHECK_DEADLOCK FALSE
INVARIANTS
  CodeSellsOnce
PROPERTIES
  RegistryWhileFresh
  CutOffOnlyByClaim
