SPECIFICATION PairingSpec
CONSTANTS
  PrivateChats = {chat}
  Workspaces = {w1, w2}
  Agents = {a1, a2, b1}
  OwnerOf <- Owners
  Operators = {o1, o2}
  MaxCodes = 2
  MaxBindings = 2
  MaxThreads = 2
  w1 = w1
  w2 = w2
  a1 = a1
  a2 = a2
  b1 = b1
  o1 = o1
  o2 = o2
SYMMETRY Alike
CHECK_DEADLOCK FALSE
INVARIANT PairingIsSound
PROPERTY PairingLasts
