SPECIFICATION FairSpec
CONSTANTS
  NoOp = NoOp
  Ops = {apply, document}
  Applies = {apply}
  Writes = {}
  Documents = {document}
  Settings = {}
  MaxAttempts = 2
  WriterTries = 2
  ScanDepth = 3
  MaxDeferral = 1
  Late = TRUE
  Horizon = 1
  Budgets <- WireBudgets
INVARIANTS
    CommittedOnce
PROPERTIES
    Settles
CHECK_DEADLOCK FALSE
