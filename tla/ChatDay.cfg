SPECIFICATION DaySpec
CONSTANTS
  Conversations = {k1}
  Budgets <- Limited
  NoLimit = NoLimit
  MaxCall = 2
  Callers = {c1, c2}
  LastDay = 2
  MaxRows = 2
  MaxBurnt = 7
  k1 = k1
  c1 = c1
  c2 = c2
SYMMETRY TwoCallers
CHECK_DEADLOCK FALSE
INVARIANT Accounted
PROPERTY OvershootIsBounded
