SPECIFICATION MCSpec
CONSTANTS
  PriceKey = {monthly, yearly}
  Service = {web}
  EnvVar = {v1, v2}
  Tuple = {t1, t2}
  None = None
  MaxIds = 3
  MaxEdits = 1
  MaxFaults = 0
  Name = {n1}
  Url = {w1}
  Slot = {s1}
  MaxEndpoints = 1
  MaxRewrites = 0
  MaxBreaks = 0
  Owners = {"prod"}
  Canonical = "prod"
  Automation = {}
  Drill = {}
  MaxTroubles = 0
CHECK_DEADLOCK FALSE
PROPERTIES ArchivesOnlyUnused
