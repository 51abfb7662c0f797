\* Reloads, events and pins at once, while the user edits.
SPECIFICATION Spec
CONSTANTS
  low = low
  high = high
  inline = inline
  broken = broken
  t = t
  u = u
  Paths = {p}
  Rules = {low, high, inline, broken}
  Tags = {t, u}
  Gives <- TagsGiven
  Priority <- Priorities
  Broken = {broken}
  Flaky = {high}
  FileRules = {low, high}
  InlineLists <- Lists
  Pins = {x, y}
  Jobs = {j1, j2}
  Kinds = {"hup", "reload", "event", "pin", "unpin"}
  MaxEdits = 2
SYMMETRY JobSymmetry
CHECK_DEADLOCK FALSE
INVARIANTS
  RulesAfterReload
  HighestIsSource
  SweptUpToDate
  PinsSaved
