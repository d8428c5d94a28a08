SPECIFICATION Spec
CONSTANTS
  Name = {uploads, media}
  Service = {web}
  None = None
  NoKeys = NoKeys
  Cleared = Cleared
  MaxBuckets = 2
  MaxEdits = 1
  MaxApplies = 2
  MaxFaults = 0
  MaxCrashes = 0
  MaxDrifts = 0
CHECK_DEADLOCK FALSE
INVARIANTS
  WiredHasAccess
