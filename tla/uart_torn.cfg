SPECIFICATION Spec
CONSTANTS
  NoBuf = NoBuf
  Buffers = {b1, b2}
  BufLen = 2
  TxBufs = {x1}
  TxLen = 1
  Threaded = TRUE
  Errors = FALSE
  Bufs = {u1}
  Dirs = {"in"}
  Trouble = {}
  SomeBuffer = b1
  SomeBuf = u1
INVARIANT NothingQueued
