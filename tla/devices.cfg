SPECIFICATION Spec
CONSTANTS
  EthThreads = {t1, t2}
  NoEth = NoEth
  TxCount = 2
  RxCount = 2
  LinkModes = {m0, m1}
  Mode0 = m0
  Macs = {a0, a1}
  Mac0 = a0
  VideoBufs = {b1, b2, b3}
  OwnBuf = own
  AdcThreads = {t1, t2}
  NoAdc = NoAdc
  MaxChannels = 2
  Repeats = 2
  Users = {u1, u2}
  Pins = {p1, p2}
  EdgePins = {p1, p2}
  Strides = {3, 4}
  Rows = 3
  CacheLine = 2
  PanelClocks = {2, 3, 5}
  Channels = {0, 1, 2}
  Periods = {2, 7}
  Pulses = {2, 5}
  Limit = 3
  MaxExt = 1
  ResetReload = 2
  MaxUsed = 2
CHECK_DEADLOCK FALSE
INVARIANTS TypeOK EthSentIsOwn EthFrameIsRead EthLinkIsShown CamQueueIsSound
INVARIANTS AdcReadIsOwn GpioServesItsUsers DisplayIsExact PwmOkMeansApplied
