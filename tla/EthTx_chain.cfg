\* One context sends, now and then faster than the wire takes it.
CONSTANTS
  Contexts <- OneCaller
  TxBufs = 3
  MaxPackets = 6
SPECIFICATION FairSpec
INVARIANTS
  ChainSound
  WireInOrder
  OkMeansSent
PROPERTY
  Drained
\* No more calls are made.
CHECK_DEADLOCK FALSE
