SPECIFICATION FairSpec
CONSTANTS
  Tools = {save, drop}
  Registered = {save, drop}
  Authorized = {save}
  Writes = {save, drop}
  CallIds = {1}
  MaxCalls = 1
  MaxToolRounds = 3
  Web = FALSE
  BudgetEnabled = FALSE
  Limit = 2
  MaxUsed = 2
  MaxCallTokens = 0
  save = save
  drop = drop
CHECK_DEADLOCK FALSE
INVARIANT StopIsNamed
PROPERTY TurnEnds
PROPERTY ImplementsLedger
