SPECIFICATION FairSpec
CONSTANTS
  None = None
  Users = {u1}
  Days = {1}
  Admins = {a1, a2}
  Crons = {n}
  LeaveIds = {}
  Schedule <- OneWorkday
  MaxWorked = 2
  MaxChanges = 1
  MaxCalls = 2
  MaxFailures = 0
CHECK_DEADLOCK FALSE
PROPERTIES
  RecalculationSkipsApproved
