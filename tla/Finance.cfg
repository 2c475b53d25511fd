SPECIFICATION MCSpec
CONSTANTS
  Entries = {e1}
  Definitions <- Says
  Amounts = {3}
  Callers = {c1, c2}
  LastMonth = 2
  MonthLength <- Lengths
  LastDay = 3
  Categories = {food, pay}
  TypeOf <- Sides
  Prices = {1, 2}
  Totals = {1, 3}
  Parts = {2}
  Clients = {c1, c2}
  MaxRows = 2
  MaxPlans = 1
  e1 = e1
  c1 = c1
  c2 = c2
  food = food
  pay = pay
SYMMETRY TwoCallers
CHECK_DEADLOCK FALSE
INVARIANT MonthsAreSound
INVARIANT LedgerIsSound
PROPERTY MonthsAreKept
PROPERTY HistoryIsExact
