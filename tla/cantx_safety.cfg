CONSTANTS
  Threads = {t1, t2}
  MayBlock = {t1}
  MaxCalls = 2
  BatchMax = 2
  CtlOps = {"start", "stop", "timing", "filter"}
  NoReq = NoReq
  NoThread = NoThread
  t1 = t1
  t2 = t2
SPECIFICATION Spec
CHECK_DEADLOCK FALSE
INVARIANTS CallbackExactlyOnce IInv
PROPERTIES ImplementsAbs
