SPECIFICATION Spec
CONSTANTS
  Edits = {edit}
  Works = {work}
  Ranges = {range}
  Revisions = {revision}
  Toggles = {toggle}
  Pushes = {push}
  Reviewers = {r1, r2}
  MaxAttempts = 2
  MaxWrites = 2
  MaxFailures = 1
  MaxRetries = 1
  MaxCrashes = 1
  MaxRevoked = 1
  Nothing = Nothing
SYMMETRY Symmetry
INVARIANTS
    NothingOverwritten
    PublishedProseReviewed
    VerdictMatchesBranch
    WorkAgrees
CONSTRAINT OnlyWork
CHECK_DEADLOCK FALSE
