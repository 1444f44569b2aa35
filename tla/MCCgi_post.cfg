CONSTANTS
  MaxBody = 0
  MaxOut = 1
  PipeCap = 1
SPECIFICATION Spec
CHECK_DEADLOCK FALSE
PROPERTY PostEnds
