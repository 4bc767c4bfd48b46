SPECIFICATION Spec
CONSTANTS
  MaxImages = 4
  ThreadCounts = {0, 1, 2}
  Easy = {1}
  Hard = {2}
INVARIANTS NoneStranded InOrderOfCalls OptionsTakeEffect
PROPERTIES ImplementsReads Destroyed
CHECK_DEADLOCK FALSE
