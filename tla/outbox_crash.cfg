SPECIFICATION Spec
CONSTANTS
  NoOp = NoOp
  Ops = {apply, write, note, settings}
  Applies = {apply}
  Writes = {write}
  Documents = {}
  Settings = {settings}
  MaxAttempts = 2
  WriterTries = 2
  ScanDepth = 2
  MaxDeferral = 1
  Late = FALSE
  Horizon = 0
  Budgets <- CrashBudgets
INVARIANTS
    OutcomeMatchesCommit
PROPERTIES
    PromiseKept
CONSTRAINT FewOps
CHECK_DEADLOCK FALSE
