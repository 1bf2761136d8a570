SPECIFICATION FairSpec
CONSTANTS
  Kiosks = {k1}
  Phones = {p1, p2}
  MaxNonces = 2
  MaxChallenges = 2
  Syncs = {s1, s2}
  None = None
  MaxFaults = 1
CHECK_DEADLOCK FALSE
INVARIANTS
  IInv
  PendingOrKnown
  OwnAnswer
PROPERTIES
  PendingDrains
  ExchangeEnds
