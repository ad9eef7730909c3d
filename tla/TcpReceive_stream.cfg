\* Segments longer than the first pbuf, and than COM2 takes; nothing is sent by
\* the client beyond Total.
CONSTANTS
  Mss = 3
  Wnd = 6
  FirstPbuf = 2
  ByteRange = 2
  Total = 3
  InFlight = 2
  MaxFaults = 1
SPECIFICATION FairSpec
INVARIANTS
  HandedUp
  
  WindowOpen
PROPERTIES
  Answered
\* All is sent and acknowledged.
CHECK_DEADLOCK FALSE
