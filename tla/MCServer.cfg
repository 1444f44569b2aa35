CONSTANTS
  h1 = h1
  h2 = h2
  h3 = h3
  s1 = s1
  s2 = s2
  HttpConns = {h1, h2}
  HttpsConns = {s1}
  DoSsl = TRUE
  FdLimit = 4
  ProcLimit = 4
  JobControl = {s1}
SPECIFICATION Spec
CHECK_DEADLOCK FALSE
INVARIANT TypeOK
INVARIANT SignalsCovered
INVARIANT ServedConnPrivate
INVARIANT DescriptorLedger
INVARIANT AccessEnforced
PROPERTY EofAfterWorker
PROPERTY ConnectionDisposed
PROPERTY ServedAsPromised
