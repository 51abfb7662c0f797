\* A user removes a rule's tag and an event or a sweep follows.
SPECIFICATION Spec
CONSTANTS
  low = low
  high = high
  inline = inline
  broken = broken
  t = t
  u = u
  Paths = {p}
  Rules = {low, high, inline, broken}
  Tags = {t, u}
  Gives <- TagsGiven
  Priority <- Priorities
  Broken = {broken}
  Flaky = {}
  FileRules = {low}
  InlineLists <- Lists
  Pins = {x}
  Jobs = {j1}
  Kinds = {"event"}
  MaxEdits = 1
CHECK_DEADLOCK FALSE
INVARIANTS
  OverrideRespected
