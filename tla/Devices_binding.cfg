SPECIFICATION FairSpec
CONSTANTS
  Phones = {p1, p2}
  Admins = {a1}
  None = None
  MaxRows = 2
  MaxKeys = 2
CHECK_DEADLOCK FALSE
PROPERTIES
  ActiveEndsByAdmin
  NoRivalRegistration
  WaitingEnds
