SPECIFICATION FairSpec
CONSTANTS
  Worker = {w1, w2}
  File = {f1}
  LongWait = 2
  ShortWait = 1
  DeadSeconds = 2
  TicksPerSecond = 2
INVARIANTS
  TypeOK
  SocketsInUse
PROPERTIES
  
  
  DeadPeriodEnds
