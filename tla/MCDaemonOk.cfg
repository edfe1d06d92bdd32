SPECIFICATION Spec
CONSTANTS
  Thread = {t1, t2, t3}
  Conn = {c1, c2}
  File = {f1}
  Stamps = {TRUE, FALSE}
  NumUrls = 1
  FirstUrl = 0
  MaxConnections = 2
  DupWindow = 2
  IdleTimeout = 1
  SpawnMayFail = FALSE
  NoConn = NoConn
  NoThread = NoThread
  NoUrl = NoUrl
  NoReq = NoReq
  BadReq = BadReq
SYMMETRY ThreadsAndSockets
INVARIANTS
  OkMeansDone
