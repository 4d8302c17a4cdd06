SPECIFICATION Spec
CONSTANTS
  NoBuf = NoBuf
  Buffers = {b1, b2, b3}
  BufLen = 2
  TxBufs = {x1}
  TxLen = 1
  Threaded = TRUE
  Errors = TRUE
  Bufs = {u1, u2, u3}
  Dirs = {"in", "out"}
  Trouble = {"xfer", "error", "reset", "dequeue", "halt"}
  SomeBuffer = b1
  SomeBuf = u1
INVARIANTS TypeOK RxBuffersAreSafe ReportsAreExact EndpointIsSound
PROPERTIES BufferTurnsOver EnqueuedReturns
