SPECIFICATION MCSpec
CONSTANTS
  PriceKey = {monthly}
  Service = {web}
  EnvVar = {v1}
  Tuple = {t1}
  None = None
  MaxIds = 1
  MaxEdits = 0
  MaxFaults = 0
  Name = {n1, n2}
  Url = {w1, w2}
  Slot = {s1, s2}
  MaxEndpoints = 3
  MaxRewrites = 1
  MaxBreaks = 0
  Owners = {"prod"}
  Canonical = "prod"
  Automation = {}
  Drill = {}
  MaxTroubles = 0
CHECK_DEADLOCK FALSE
INVARIANTS OwnsItsEndpoint
