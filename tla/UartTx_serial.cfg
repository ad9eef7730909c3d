\* One context sends: the driver is a lossless FIFO.
CONSTANTS
  Callers <- MCMainOnly
  SendBuf = 3
  MaxLen = 4
  MaxCalls = 4
SPECIFICATION FairSpec
INVARIANTS
  FlagMeansDone
  NothingStranded
  
PROPERTIES
  RefinesSerialChannel
  Delivered
\* The callers may stop calling (they do at MaxCalls).
CHECK_DEADLOCK FALSE
