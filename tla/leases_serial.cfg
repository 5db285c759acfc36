SPECIFICATION FairSpec
CONSTANTS
    Items = {i1}
    LeaseIds = {l1, l2}
    Actors = {a1, a2}
    Isolates = {p1}
    Unserialized = {}
    Duration = 1
    Renewal = 2
    MaxTotal = 3
    NoLease = NoLease
    Horizon = 4
    MaxTok = 0
INVARIANTS
    ReadyIsFree
    InFlightOwnsItem
PROPERTIES
    LeasedMovesOn
CHECK_DEADLOCK FALSE
