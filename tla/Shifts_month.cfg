SPECIFICATION Spec
CONSTANTS
  Days <- MCDays
  DayLength = 5
  TicksPerMinute = 2
  Instants <- MCInstants
  ManualLates = {0}
  Definitions <- MCDefinitions
  ShiftIds = {s1}
  Calls = {c1, c2}
  None = None
  MaxInputs = 4
SYMMETRY Symmetry
CHECK_DEADLOCK FALSE
INVARIANTS
  OneOpen
  WorkedIsInside
  LeaveIsOverlap
  LeaveNeverHurts
PROPERTIES
  AssignKeepsPast
  AssignmentsSurvive
