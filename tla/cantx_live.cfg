CONSTANTS
  Threads = {t1, t2}
  MayBlock = {t1}
  MaxCalls = 2
  BatchMax = 2
  CtlOps = {"start"}
  NoReq = NoReq
  NoThread = NoThread
  t1 = t1
  t2 = t2
SPECIFICATION FairSpec
CHECK_DEADLOCK FALSE
PROPERTIES SendReturns
