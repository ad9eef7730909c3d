\* Two messages, and a network that fails twice.
CONSTANTS
  Mss = 2
  SndBuf = 5
  QueueLen = 3
  MaxRtx = 1
  DupAcks = 2
  Window = 4
  Writes <- Messages
  Total = 5
  MaxFaults = 2
SPECIFICATION FairSpec

  
  
PROPERTIES
  RefinesByteStream
  
\* A queue that is no longer there ends the behaviour.
CHECK_DEADLOCK FALSE
