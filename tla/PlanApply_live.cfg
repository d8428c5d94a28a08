SPECIFICATION FairSpec
CONSTANTS
  Command = {c1, c2}
  Deployer = {c1}
  Crashable = {}
  Throwing = {c1}
  Env = {e1}
  Integrated = {e1}
  Opaque = {}
  Aging = {p1}
  PlanRun = {p1}
  ApplyRun = {a1}
  MaxRevision = 2
  MaxWrites = 1
  MaxDrift = 1
  None = None
  Unknown = Unknown
PROPERTIES EverythingEnds
