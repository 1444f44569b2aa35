CONSTANTS
  Workers = {v, w}
  MaxLines = 3
  MaxPieces = 3
  StdioBuf = 2
  MaxLog = 5
  PieceBytes = 5
SYMMETRY Symmetry
SPECIFICATION Spec
CHECK_DEADLOCK FALSE
INVARIANT TypeOK
INVARIANT LinesLogged
INVARIANT StampWithLine
INVARIANT DebugWhole
INVARIANT HexDumpWhole
