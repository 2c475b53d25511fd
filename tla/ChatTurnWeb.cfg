SPECIFICATION Spec
CONSTANTS
  Tools = {save, drop}
  Registered = {save, drop}
  Authorized = {save}
  Writes = {save, drop}
  CallIds = {1, 2}
  MaxCalls = 2
  MaxToolRounds = 2
  Web = TRUE
  BudgetEnabled = TRUE
  Limit = 2
  MaxUsed = 2
  MaxCallTokens = 2
  save = save
  drop = drop
CHECK_DEADLOCK FALSE
INVARIANT TypeOK
INVARIANT NothingAskedIsLost
INVARIANT ReceiptIsHonest
INVARIANT CeilingNeverRuns
INVARIANT OvershootIsOneCall
