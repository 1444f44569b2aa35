CONSTANTS
  MaxFields = 0
  MaxBody = 0
  MaxChanges = 0
  MaxFree = 3
SPECIFICATION Spec
CHECK_DEADLOCK FALSE
INVARIANT DirectoryShown
