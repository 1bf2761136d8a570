SPECIFICATION FairSpec
CONSTANTS
  None = None
  Users = {u1}
  Days = {1}
  Admins = {a1}
  Crons = {n}
  LeaveIds = {l1, l2}
  Schedule <- OneWorkday
  MaxWorked = 2
  MaxChanges = 1
  MaxCalls = 2
  MaxFailures = 1
CHECK_DEADLOCK FALSE
INVARIANTS
  TypeOK
  CallersSound
PROPERTIES
  LateCallsLeaveApprovedAlone
  EventuallyAccurate
