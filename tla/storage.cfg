SPECIFICATION Spec
CONSTANTS
  Threads = {t1, t2}
  NoThread = NoThread
  SomeThread = t1
  Hosts = {h1, h2}
  Faulty = {h1}
  h1 = h1
  h2 = h2
  Asked <- AskedOf
  FMin = 2
  FMax = 3
  Clocks = {0, 2, 3, 4}
  PowerGpio = TRUE
  PadStates = {"slow"}
  Clients = {A}
  NoClient = NoClient
  SectorUnits = 2
  Sectors = 2
  MaxSize = 3
  MaxXfers = 4
  MaxUpsets = 2
CHECK_DEADLOCK FALSE
INVARIANTS TypeOK ResultIsOwn OkMeansApplied EventsReachTheirClient CtrlIsOwn
PROPERTIES RequestReturns EraseIsExact CtrlCompletes
