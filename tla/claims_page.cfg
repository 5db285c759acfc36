SPECIFICATION Spec
CONSTANTS
    MaxLeases = 2
    MaxTokens = 3
    MaxKeys = 4
    MaxLosses = 2
    MaxRefreshes = 1
    None = None
INVARIANTS
    HeldTokenWorks
    OwnSubmissionKnown
PROPERTY ToldForCause
CHECK_DEADLOCK FALSE
