SPECIFICATION Spec
CONSTANTS
  Command = {c1, c2}
  Deployer = {}
  Crashable = {c1, c2}
  Throwing = {}
  Env = {e1, e2}
  Integrated = {}
  Opaque = {}
  Aging = {}
  PlanRun = {p1, p2}
  ApplyRun = {a1, a2}
  MaxRevision = 1
  MaxWrites = 1
  MaxDrift = 0
  None = None
  Unknown = Unknown
SYMMETRY All
INVARIANTS LeaseExclusion PlanSucceedsOnce NoReplayAfterChange OneMutatorPerEnvironment
PROPERTIES RowsAreSettledOnce ImplementsLease
