\* Every class, with one property of every value and pairs of properties.
SPECIFICATION Spec
CHECK_DEADLOCK FALSE
CONSTANTS
    MaxFields = 2
    MaxMembers = 2
    MaxTampered = 1
INVARIANTS
    RoundTrip
    JSONRoundTrip
    UnknownSkipped
    CutNoticed
    PayloadAgrees
