SPECIFICATION FairSpec
CONSTANTS
  Pages = {"timesheets", "tablets", "records"}
  Tables = {"leaves", "tablets", "attendance-list"}
  Months = {m1, m2}
  ThisMonth = m1
  Calls = {c1}
  None = None
  MaxChanges = 2
  MaxInputs = 3
INVARIANTS CaughtUp AppliedOnce
PROPERTY ClicksEnd
CHECK_DEADLOCK FALSE
