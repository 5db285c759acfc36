SPECIFICATION Spec
CONSTANTS
    Annotations = {a1}
    Replies = {r1}
    Parent <- OneThread
    Voters = {v1, v2}
    Humans = {v1}
    Maintainers = {v1}
    Casts <- HumansForAgentsAgainst
    MinApprovals = 1
    MinNet = 1
    MinHuman = 1
    MinMaintainer = 1
    Isolates = {p1, p2}
    Unserialized = {w1}
    None = None
    MaxQueue = 2
SYMMETRY Symmetry
INVARIANTS
    OneWorkItem
    DecidedStays
    GitFollowsRow
    VotesDecide
CHECK_DEADLOCK FALSE
