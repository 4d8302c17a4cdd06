SPECIFICATION Spec
CONSTANTS
  FrameSet <- AnyFrame
  Submissions <- SomeCalls
  SendThreads = {t1, t2, t3}
  SendDevices = {d1, d2}
  SendDevOf <- TwoOnOne
  SendMayBlock = {t1}
  SendMax <- CallsEach
  McanClients = {c1, c2}
  NoMcan = NoMcan
  McanIds = {z, a}
  McanZero = z
  McanMaxExt = 1
  McanMaxStd = 2
  McanAdds = 2
  McanFifo = 1
  t1 = t1
  t2 = t2
  t3 = t3
  d1 = d1
  d2 = d2
  TxSlots = 1
  Faults = {"busoff", "io", "timeout", "reset"}
  NoReq = NoReq
  NoThread = NoThread
CHECK_DEADLOCK FALSE
INVARIANTS TypeOK SentAsGiven McanDeliversToOwner McanKeepsRegistrations
INVARIANTS McanTokensAccounted LoneSenderIsServed
