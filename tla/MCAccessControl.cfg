CONSTANTS
  OctetBits = 1
  Octets = {0, 1}
SPECIFICATION Spec
CHECK_DEADLOCK FALSE
INVARIANT TypeOK
INVARIANT VerdictExact
INVARIANT WholeMask
PROPERTY CheckEnds
