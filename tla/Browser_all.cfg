\* Two directories, three files, answers and events in any order.
SPECIFICATION FairSpec
CONSTANTS
  home = home
  docs = docs
  a = a
  b = b
  dot = dot
  t = t
  Dirs = {home, docs}
  Root = home
  Files = {a, b, dot}
  DirOf <- Place
  Hidden = {dot}
  Tags = {t}
  TagsAtFirst <- OneTagged
  Globbed = {b, dot}
  Searches <- Chips
  Scenarios <- Together
  MaxEvents = 1
  MaxFaults = 1
CHECK_DEADLOCK FALSE
INVARIANTS
  OwnAnswer
  ShowsCurrentPath
  ShowsSearch
  TagsCurrent
  MetadataOfSelected
PROPERTIES
  AllCalledBack
