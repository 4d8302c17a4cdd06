SPECIFICATION Spec
CONSTANTS
  SpiThreads = {t1, t2}
  NoCaller = NoCaller
  MaxLen = 2
  I2cThreads = {t1, t2}
  NoI2c = NoI2c
  MaxMsgs = 2
  MaxLoad = 3
  I2cMsgs <- SomeMsgs
INVARIANTS TypeOK SpiTransferIsOwn I2cResultIsOwn
PROPERTIES I2cReturns
