\* More clients than pcbs; two come from the port the check looks for.
CONSTANTS
  a = a
  b = b
  x = x
  Clients <- Three
  AtServerPort <- AtPort
  NumPcb = 2
SPECIFICATION FairSpec
INVARIANTS
  
  Admitted
  FlagCoversConnection
PROPERTIES
  FlagSettles
  SteadyKept
\* A misused pointer ends the behaviour.
CHECK_DEADLOCK FALSE
