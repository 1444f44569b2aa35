CONSTANTS
  h1 = h1
  h2 = h2
  h3 = h3
  s1 = s1
  s2 = s2
  HttpConns = {h1, h2}
  HttpsConns = {}
  DoSsl = FALSE
  FdLimit = 4
  ProcLimit = 4
  JobControl = {}
SPECIFICATION Spec
CHECK_DEADLOCK FALSE
PROPERTY ZombiesReaped
