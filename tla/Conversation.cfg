SPECIFICATION MCSpec
CONSTANTS
  a = a
  b = b
  r1 = r1
  r2 = r2
  s1 = s1
  s2 = s2
  get = get
  set = set
  list = list
  Items = {a, b}
  Runners = {r1, r2}
  HistoryLimit = 3
  Reasons = {"stop", "deadline"}
  RecordBudget = 2
  MaxSeq = 4
  MaxTurns = 3
  MaxFailures = 1
  Subjects <- Entities
  PerTurn <- Anew
  Threads <- Abouts
  Attachable <- Attachments
  Tools <- Toolset
  Writes <- Changing
  Capability = get
  Calls <- Asked
  Granted <- AtFirst
  Scopes <- Selections
  SizeOf <- Sizes
  TurnRunners = {r1, r2}
  WindowLimit = 4
  MaxBegun = 3
  EvidenceBudget = 5
  EvidenceMaxResult = 2
  ExecutionBudget = 2
  MaxCalls = 2
  MaxClock = 2
  MaxEdits = 1
SYMMETRY Symmetry
CHECK_DEADLOCK FALSE
INVARIANT ResumeIsSound
INVARIANT TranscriptIsSound
 
INVARIANT RecordsAreTold
INVARIANT ReadsAreAuthorised
PROPERTY PromptIsFresh
