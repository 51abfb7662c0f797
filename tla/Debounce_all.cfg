\* Hybrid mode, channels of capacity one, shutdown and read errors at any time.
SPECIFICATION FairSpec
CONSTANTS
  Paths = {p1, p2}
  NoPath = NoPath
  Sources = {"fan", "ino"}
  MaxEvents = 3
  Cap = 1
  ReadErrors = TRUE
CHECK_DEADLOCK FALSE
INVARIANTS
  OneArmedTimer
PROPERTIES
  EmitsNewest
  ImplementsStream
  EventSettles
