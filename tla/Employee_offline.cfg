SPECIFICATION FairSpec
CONSTANTS
  Users = {u1}
  Flushes = {f1}
  Check = Check
  None = None
  MaxChecks = 2
  MaxTokens = 1
  MaxFaults = 2
CHECK_DEADLOCK FALSE
PROPERTIES
  OnlyVerdictsDrop
