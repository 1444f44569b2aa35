CONSTANTS
  MaxBody = 2
  MaxOut = 2
  PipeCap = 2
SPECIFICATION Spec
CHECK_DEADLOCK FALSE
INVARIANT TypeOK
INVARIANT InputIntact
 
INVARIANT SigchldCovered
PROPERTY ProgramSeesEof
PROPERTY GetEnds
PROPERTY SampleEnds
