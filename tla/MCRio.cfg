CONSTANTS
  Length = 3
  BufSize = 2
  MaxN = 3
  MaxOut = 2
  MaxSignals = 1
SPECIFICATION Spec
CHECK_DEADLOCK FALSE
INVARIANT TypeOK
INVARIANT BytesInOrder
PROPERTY StreamImplemented
PROPERTY ReadReturns
