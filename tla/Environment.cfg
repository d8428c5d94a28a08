SPECIFICATION MCSpec
CONSTANTS
  Server = server
  Process = {server}
  Home = {server}
  Handler = {h1, h2}
  ProcessOf <- OnServer
  Env = {a, b}
  Key = {k1, k2}
  Field = {public, secret}
  Secret = {secret}
  NoRow = NoRow
  MaxWrites = 2
  MaxCrashes = 1
  MaxFaults = 1
  MaxPulls = 1
  Service = {"web", "cron"}
  Order <- WebFirst
  Existing = {"web"}
  MaxDeploys = 3
  MaxDeployFaults = 2
  MaxDeployCrashes = 1
SYMMETRY Names
CHECK_DEADLOCK FALSE
INVARIANTS RecordedValuesSurvive ExportFollowsRow NothingForgotten UndoesItsDeploy
