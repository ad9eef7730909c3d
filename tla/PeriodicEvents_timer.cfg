\* The timer interrupts as often as it likes; rounds of two interrupts are short.
CONSTANTS
  Period <- Periods
  MaxLag = 2
SPECIFICATION FairSpec
INVARIANTS
  NoneForgotten
  NothingMerged
PROPERTY
  Served
