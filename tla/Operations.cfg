SPECIFICATION MCSpec
CONSTANTS
  None = None
  Migration = {m1, m2}
  NoMigration = NoMigration
  MaxFaults = 2
  MaxTouches = 1
  MaxCrashes = 1
  User = {u1, u2}
  Access = {a1, a2, a3}
  MaxCalls = 3
  MaxAccessFaults = 2
  MaxAccessCrashes = 1
  Cron = {"cron"}
  Worker = {"worker"}
  Web = {"web"}
  Order <- CronFirst
  Database = TRUE
  Stopped = {"cron", "web"}
  Mortal = TRUE
  Torn = TRUE
  MaxFlips = 3
  MaxStageFaults = 3
  MaxDrift = 3
  MaxQuietFlips = 4
  MaxQuietFaults = 4
CHECK_DEADLOCK FALSE
INVARIANTS ActiveIsUsable RecordsAreTrue AccessHolds MaintenanceIsSafe
PROPERTIES SwitchesOnlyUnchanged EveryMigrationCompletes AccessIsRemoved QuietCompletes
