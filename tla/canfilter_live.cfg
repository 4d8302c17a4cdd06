SPECIFICATION FairSpec
CONSTANTS
  Clients = {c1, c2}
  c1 = c1
  c2 = c2
  NoClient = NoClient
  Ids = {z}
  z = z
  ZeroId = z
  Rtrs <- DataFrames
  Patterns <- Overlapping
  MaxFilters = 2
  MaxAdds = 2
  FifoDepth = 2
  MaxBurst = 1
  MayRemove = TRUE
PROPERTY FrameIsRead
CHECK_DEADLOCK FALSE
