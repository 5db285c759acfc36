SPECIFICATION Spec
CONSTANTS
    Humans = {h1, h2}
    Tokens = {t1, t2}
    Notes = {n1}
    Requests = {r1, r2}
    Keys = {k1, k2}
    Menu <- Everything
    Isolates = {i1, i2}
    Policy = "approval-gated"
    PerActor = 1
    PerToken = 1
    PerSession = 1
    MaxWindow = 1
    Nobody = Nobody
SYMMETRY Symmetry
INVARIANTS
    HumanMaintainerRemains
    RejectedNotPublished
    KeyMeansOneCommand
    NoOrphanedAgents
    AllowancePerPerson
CHECK_DEADLOCK FALSE
