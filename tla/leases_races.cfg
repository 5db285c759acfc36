SPECIFICATION Spec
CONSTANTS
    Items = {i1}
    LeaseIds = {l1, l2}
    Actors = {a1}
    Isolates = {p1, p2}
    Unserialized = {}
    Duration = 1
    Renewal = 2
    MaxTotal = 2
    NoLease = NoLease
    Horizon = 3
    MaxTok = 1
SYMMETRY Symmetry
INVARIANTS
    OneActiveLease
    EndReportedByWinner
    SubmissionEndsLease
    CapRespected
PROPERTIES
    SlotSpec
CHECK_DEADLOCK FALSE
