SPECIFICATION MCSpec
CONSTANTS
  Providers = {p1, p2}
  AgentIds = {a1}
  Tools = {t1}
  Registered = {t1}
  Callers = {c1, c2}
  MaxRows = 1
  mine = mine
  theirs = theirs
  thread = thread
  short = short
  long = long
  doc = doc
  tome = tome
  reader = reader
  editor = editor
  Owners = {mine, theirs}
  Threads = {thread}
  OwnerOf <- ThreadOwner
  Facts = {short, long}
  Documents = {doc, tome}
  Cost <- CostIs
  Budget <- Budgets
  PageLimit <- Pages
  Answers <- Replies
  Requests = {reader, editor}
  Sizes = {1, 3}
  WindowBudget = 2
  ReadLimit = 2
  MaxCandidates = 2
  MaxItems = 2
  MaxMessages = 2
  MaxClock = 3
SYMMETRY Alike
CHECK_DEADLOCK FALSE
INVARIANT CatalogueIsSound
INVARIANT MemoryIsSound
PROPERTY DeletionIsFinal
PROPERTY OriginIsKept
