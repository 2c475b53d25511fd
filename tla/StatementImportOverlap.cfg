SPECIFICATION Spec
CONSTANTS
  july = july
  august = august
  r1 = r1
  r2 = r2
  Files = {july, august}
  Statement <- Overlapping
  Named = {"coffee"}
  Internal = {"savings"}
  Runners = {r1, r2}
  MaxBatches = 2
SYMMETRY Symmetry
CHECK_DEADLOCK FALSE
INVARIANT TypeOK
INVARIANT OneLiveTransaction
INVARIANT CommitIsSound
INVARIANT RowsAreAccounted
PROPERTY CommittedOnce
