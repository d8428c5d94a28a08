SPECIFICATION MCSpec
CONSTANTS
  Action = {x, y, z}
  Faulty = TRUE
  Crashable = TRUE
  MaxActions = 3
  MaxDeps = 2
  Command = {c1}
  Deployer = {}
  Dying = {}
  Throwing = {}
  Env = {e1}
  Integrated = {e1}
  Opaque = {e1}
  Aging = {}
  PlanRun = {p1, p2}
  ApplyRun = {a1, a2}
  MaxRevision = 2
  MaxWrites = 1
  MaxDrift = 1
  NoRun = NoRun
  Unknown = Unknown
SYMMETRY Ids
CHECK_DEADLOCK FALSE
INVARIANTS DependenciesHeld TellsTheTruth OrderIsRight
PROPERTIES ImplementsStaged StalePlanRejected
