\* Three connections, their segments between the statements of the walks.
CONSTANTS
  NumPcb = 3
  MaxUpsets = 1
SPECIFICATION TimersFairSpec
INVARIANTS
  ListsKept
  NobodySkipped
PROPERTIES
  WalksEnd
\* A list that is out of order ends the behaviour.
CHECK_DEADLOCK FALSE
