SPECIFICATION Spec
CONSTANTS
  Clients = {c1, c2}
  c1 = c1
  c2 = c2
  NoClient = NoClient
  Ids = {z, a}
  z = z
  a = a
  ZeroId = z
  Rtrs <- DataFrames
  Patterns <- Overlapping
  MaxFilters = 2
  MaxAdds = 2
  FifoDepth = 1
  MaxBurst = 1
  MayRemove = TRUE
SYMMETRY ClientSymmetry
INVARIANT LiveIsReachable
CHECK_DEADLOCK FALSE
