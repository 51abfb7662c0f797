\* Close, called by another goroutine while a Call is between its checks.
SPECIFICATION FairSpec
CONSTANTS
  Calls = {c1, c2}
  NoCall = NoCall
  MaxID = 2
  Faults = {"close"}
CHECK_DEADLOCK FALSE
PROPERTIES
  EveryCallReturns
