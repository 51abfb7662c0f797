\* Every operation one at a time, and operations that overlap.
SPECIFICATION Spec
CONSTANTS
  p1 = p1
  p2 = p2
  r = r
  s = s
  Paths = {p1, p2}
  Tags = {r, s}
  RuleTags <- RulePerPath
  Jobs = {j1, j2, j3}
  Worlds <- SerialAndOverlapping
SYMMETRY JobSymmetry
CHECK_DEADLOCK FALSE
INVARIANTS
  StoresAgree
  GraphAgrees
  OwnTagsOnly
  IndexKeepsAdds
