SPECIFICATION Spec
CONSTANTS
  Platforms = {"github", "meta_threads"}
  Workspaces = {w1, w2}
  Accounts = {a1, a2}
  Repos = {r1, r2}
  Accessible <- Sees
  Callers = {c1, c2}
  MaxRows = 3
  MaxErasures = 1
  a1 = a1
  a2 = a2
  r1 = r1
  r2 = r2
SYMMETRY Alike
CHECK_DEADLOCK FALSE
INVARIANT ConnectionsAreSound
PROPERTY EndedForGood
