\* Two concurrent Calls and every fault the environment can produce.
SPECIFICATION FairSpec
CONSTANTS
  Calls = {c1, c2}
  NoCall = NoCall
  MaxID = 2
  Faults = {"close", "peerDown", "tooLong", "cancel"}
INVARIANTS
  OwnResponse
  NoPanic
  NoLeakedRequest
PROPERTIES
  OutstandingReturn
  CloseTerminates
