SPECIFICATION FairSpec
CONSTANTS
    Audience <- MemberThenPublic
    MaxRows = 3
    PageSize = 2
    MaxFaults = 1
    MaxLeaves = 1
    Nil = Nil
PROPERTY CatchesUp
INVARIANTS
    CursorCovered
    OldCredentialForgotten
CHECK_DEADLOCK FALSE
