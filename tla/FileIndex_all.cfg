\* A running daemon, one whose channel is full, and one that restarts with every fault.
SPECIFICATION FairSpec
CONSTANTS
  p1 = p1
  p2 = p2
  Paths = {p1, p2}
  MaxChanges = 4
  MaxClock = 1
  Worlds <- AllWorlds
CHECK_DEADLOCK FALSE
INVARIANTS
  SettledConsistent
  ScanRepairs
  OnlyUnseenRemoved
PROPERTIES
  EventuallyConsistent
