\* A buffer of two bytes and more bytes on the line than it holds.
CONSTANTS
  RecvBuf = 2
  MaxBytes = 4
  Behind = 1
SPECIFICATION FairForwardSpec
INVARIANTS
  DeliveredInOrder
  LossOnlyInWindow
  
  BehindIsOld
PROPERTY
  BufferedIsRead
\* Nothing happens once the bytes are in and read: the polls change nothing.
CHECK_DEADLOCK FALSE
