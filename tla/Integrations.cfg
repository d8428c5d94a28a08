SPECIFICATION MCSpec
CONSTANTS
  PriceKey = {monthly, yearly}
  Service = {web}
  EnvVar = {v1, v2}
  Tuple = {t1, t2}
  None = None
  MaxIds = 5
  MaxEdits = 1
  MaxFaults = 1
  Name = {n1, n2}
  Url = {w1, w2}
  Slot = {s1, s2}
  MaxEndpoints = 4
  MaxRewrites = 1
  MaxBreaks = 1
  Owners = {"prod", "staging"}
  Canonical = "prod"
  Automation = {"check"}
  Drill = {"drill"}
  MaxTroubles = 2
CHECK_DEADLOCK FALSE
INVARIANTS WebhooksAreTrue
PROPERTIES ArchivesAfterHosting StripeConverges OverwritesOnlyUnseen FilesConverge
