SPECIFICATION FairSpec
CONSTANTS
  Users = {u1, u2}
  Flushes = {f1}
  Check = Check
  None = None
  MaxChecks = 2
  MaxTokens = 2
  MaxFaults = 2
CHECK_DEADLOCK FALSE
INVARIANTS
  TokenOfUser
PROPERTIES
  KeptUnlessAnswered
  
