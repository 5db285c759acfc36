SPECIFICATION Spec
CONSTANTS
    Notes = {n1}
    Edits = {e1}
    Fields = {title, licence}
    Changes = {"prose", "regress", "cut", "config"}
    MaxCommits = 2
    MaxCrashes = 1
    None = None
SYMMETRY Symmetry
CONSTRAINT OneBlind
INVARIANTS
    ProjectionCurrent
    SettingsNotStranded
    NoFieldReverted
    RebuildLosesNothing
    DivergedForCause
CHECK_DEADLOCK FALSE
