SPECIFICATION Spec
CONSTANTS
  Clients = {c1, c2}
  c1 = c1
  c2 = c2
  NoClient = NoClient
  Ids = {z, a}
  z = z
  a = a
  ZeroId = z
  Rtrs <- AllFrames
  Patterns <- Overlapping
  MaxFilters = 2
  MaxAdds = 3
  FifoDepth = 1
  MaxBurst = 1
  MayRemove = TRUE
SYMMETRY ClientSymmetry
INVARIANTS DeliveredToOwner ListIsSound
CHECK_DEADLOCK FALSE
