\* Three requests of every kind, overlapping, and a death of the daemon.
SPECIFICATION Spec
CONSTANTS
  home = home
  docs = docs
  usb = usb
  a = a
  b = b
  Dirs = {home, docs, usb}
  Foreign = {usb}
  Names = {a, b}
  MaxJobs = 3
  Kinds = {"trash", "delete", "restore", "empty", "copy", "paste", "rename", "create"}
  Files <- TwoNames
  MaxInodes = 4
  MaxCrashes = 1
CHECK_DEADLOCK FALSE
INVARIANTS
  TrashedRestorable
  NothingLost
  PasteFaithful
