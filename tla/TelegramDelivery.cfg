SPECIFICATION FairSpec
CONSTANTS
  c1 = c1
  c2 = c2
  Chats = {c1, c2}
  MaxUpdates = 3
  MaxCrashes = 2
CHECK_DEADLOCK FALSE
INVARIANT TypeOK
INVARIANT DeliveredOnce
INVARIANT SlotIsFree
PROPERTY BeginInOrder
PROPERTY EveryUpdateSettles
