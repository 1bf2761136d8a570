SPECIFICATION Spec
CONSTANTS
  None = None
  Users = {u1}
  Days = {1, 2}
  Admins = {a1}
  Crons = {}
  LeaveIds = {l1}
  Schedule <- WeekendAfter
  MaxWorked = 2
  MaxChanges = 2
  MaxCalls = 5
  MaxFailures = 1
CHECK_DEADLOCK FALSE
INVARIANTS
  NothingUndecided
  SheetsAgree
PROPERTIES
  ApprovedIsImmutable
  DecisionsKept
