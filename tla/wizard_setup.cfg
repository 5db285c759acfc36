CONSTANTS
    MaxApps = 2
    MaxDbs = 1
    MaxEdits = 2
    MaxForgets = 1
SPECIFICATION Spec
INVARIANTS CredentialsMatch DoneIsListed
PROPERTY EditsKept
