SPECIFICATION MCSpec
CONSTANTS
  Clients = {p, q}
  Shas = {a, b}
  Explicit = {}
  MaxRuns = 4
  MaxAgain = 1
  MaxLosses = 1
  Apply = {r1, r2}
  MaxWrites = 3
  MaxDeploys = 4
  MaxUnread = 1
SYMMETRY Names
CHECK_DEADLOCK FALSE
INVARIANTS OneRollbackPerObservation MetMeansCarried
PROPERTIES UndoesOnlyWhatWasSeen
