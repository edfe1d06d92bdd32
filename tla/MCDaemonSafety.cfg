SPECIFICATION Spec
CONSTANTS
  Thread = {t1, t2, t3}
  Conn = {c1, c2}
  File = {f1}
  Stamps = {TRUE, FALSE}
  NumUrls = 2
  FirstUrl = 1
  MaxConnections = 2
  DupWindow = 1
  IdleTimeout = 1
  SpawnMayFail = TRUE
  NoConn = NoConn
  NoThread = NoThread
  NoUrl = NoUrl
  NoReq = NoReq
  BadReq = BadReq
SYMMETRY ThreadsAndSockets
INVARIANTS
  TypeOK
  ConnectionLimit
  CountExact
  DedupeInv
  OneFetchPerWindow
  SoleOwner
  OnlyWholeExtracted
PROPERTIES
  ImplementsLedger
