SPECIFICATION Spec
CONSTANTS
    MaxLeases = 1
    MaxTokens = 3
    MaxKeys = 4
    MaxLosses = 0
    MaxRefreshes = 2
    None = None
PROPERTY ClaimSurvives
CHECK_DEADLOCK FALSE
