\* A chain of three descriptors and frames enough to lap it, long ones among them.
CONSTANTS
  RxBufs = 3
  MaxFrames = 5
SPECIFICATION FairSpec
INVARIANTS
  InputSound
  ChainAgrees
  StrandedOnlyIfLate
PROPERTY
  NextFrameTakesAll
\* No more frames come in.
CHECK_DEADLOCK FALSE
