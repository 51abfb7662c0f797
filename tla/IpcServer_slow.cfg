\* A client that does not read, and the tag request of another.
SPECIFICATION FairSpec
CONSTANTS
  c1 = c1
  c2 = c2
  Conns = {c1, c2}
  Deaf = {c2}
  Pushers = {e1}
  NoOne = NoOne
  MaxFrames <- OneSends
  MaxLeave = 1
  Cap = 1
  maxFrameSize = 2
  Sizes = {1, 2, 3}
CHECK_DEADLOCK FALSE
PROPERTIES
  SlowClientIsolated
