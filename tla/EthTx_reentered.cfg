\* The Ethernet interrupt sends in the middle of a call of the main loop.
CONSTANTS
  Contexts <- TwoCallers
  TxBufs = 3
  MaxPackets = 3
SPECIFICATION Spec
INVARIANT
  OkMeansSent
CHECK_DEADLOCK FALSE
