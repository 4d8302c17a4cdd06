CONSTANTS
  Threads = {t1, t2}
  MayBlock = {t1, t2}
  MaxCalls = 1
  BatchMax = 1
  CtlOps = {"start"}
  NoReq = NoReq
  NoThread = NoThread
  t1 = t1
  t2 = t2
SPECIFICATION Spec
CHECK_DEADLOCK FALSE
INVARIANTS BlockingSendWasSent
