\* A segment at the wrong moment.
CONSTANTS
  NumPcb = 2
  MaxUpsets = 1
SPECIFICATION TimersFairSpec
PROPERTIES
  CalledAgain
\* A list that is out of order ends the behaviour.
CHECK_DEADLOCK FALSE
