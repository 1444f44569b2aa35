CONSTANTS
  MaxFields = 1
  MaxBody = 0
  MaxChanges = 0
  MaxFree = 2
SPECIFICATION Spec
CHECK_DEADLOCK FALSE
PROPERTY ClosedEnds
