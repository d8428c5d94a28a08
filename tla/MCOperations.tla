---------------------------- MODULE MCOperations ----------------------------
(***************************************************************************)
(* What is done to a running environment, side by side: data migrations,   *)
(* the temporary access to a database, and maintenance, in an environment  *)
(* where users start and stop workloads at the provider and edges are cut  *)
(* off ("busy"), and in one where nobody interferes ("quiet"). The initial *)
(* state says what moves; the rest stays where it started.                 *)
(***************************************************************************)
EXTENDS DataMigration, Sequences, TLC
CONSTANTS
  User, Access, None, MaxCalls, MaxAccessFaults, MaxAccessCrashes,
  Cron, Worker, Web, Order, Database, Mortal, Stopped, Torn, MaxFlips, MaxStageFaults, MaxDrift,
  MaxQuietFlips, MaxQuietFaults

VARIABLES
  part, \* what moves
  shared, queue, awaits, user, clock, exists, leaked, used, calls, errors, deaths,
  asked, route, marker, running, fenced, binding, todo, place, mine, before, lastRoute, flips, losses, drift,
  wish, edge, mark, up, shut, bound, left, step, ours, once, last, turns, misses, moves
accesses == <<shared, queue, awaits, user, clock, exists, leaked, used, calls, errors, deaths>>
busy == <<asked, route, marker, running, fenced, binding, todo, place, mine, before, lastRoute, flips, losses, drift>>
quiet == <<wish, edge, mark, up, shut, bound, left, step, ours, once, last, turns, misses, moves>>

Shared == INSTANCE DatabaseAccess WITH
  faults <- errors, crashes <- deaths, MaxFaults <- MaxAccessFaults, MaxCrashes <- MaxAccessCrashes
Busy == INSTANCE Maintenance WITH
  want <- asked, at <- place, faults <- losses, MaxFaults <- MaxStageFaults
Quiet == INSTANCE Maintenance WITH
  Stopped <- {}, Torn <- FALSE,
  MaxFlips <- MaxQuietFlips, MaxFaults <- MaxQuietFaults, MaxDrift <- 0,
  want <- wish, route <- edge, marker <- mark, running <- up, fenced <- shut, binding <- bound,
  todo <- left, at <- step, mine <- ours, before <- once, lastRoute <- last,
  flips <- turns, faults <- misses, drift <- moves
ASSUME AccessAssumption == Shared!Assumption
ASSUME MaintenanceAssumption == Busy!Assumption /\ Quiet!Assumption

CronFirst == <<"cron", "worker", "web">>

MCInit ==
  /\ part \in {"migration", "access", "busy", "quiet"}
  /\ Init /\ Shared!Init /\ Busy!Init /\ Quiet!Init
  /\ part # "busy" => running = Busy!Workload
  /\ part # "migration" =>
       kind = "bucket" /\ ~refuses /\ topology = 0 /\ want = CHOOSE x \in Migration : TRUE
MCNext ==
  \/ part = "migration" /\ Next /\ UNCHANGED <<part, accesses, busy, quiet>>
  \/ part = "access" /\ Shared!Next /\ UNCHANGED <<part, vars, busy, quiet>>
  \/ part = "busy" /\ Busy!Next /\ UNCHANGED <<part, vars, accesses, quiet>>
  \/ part = "quiet" /\ Quiet!Next /\ UNCHANGED <<part, vars, accesses, busy>>

(* The fairness of the part that moves.                                    *)
MCSpec ==
  /\ MCInit /\ [][MCNext]_<<part, vars, accesses, busy, quiet>>
  /\ WF_vars(part = "migration" /\ Proceed) /\ WF_vars(part = "migration" /\ StartCopy)
  /\ WF_accesses(part = "access" /\ Shared!Inside) /\ WF_accesses(part = "access" /\ Shared!Fire)
  /\ \A u \in User : WF_accesses(part = "access" /\ Shared!Elapse(u))
  /\ WF_quiet(part = "quiet" /\ Quiet!StartApply) /\ WF_quiet(part = "quiet" /\ Quiet!Handle)
  /\ WF_quiet(part = "quiet" /\ Quiet!MarkerAppears)

(* A migration completes, however often it fails, unless another bucket's  *)
(* candidate blocks it or the provider refuses the name it gave a bucket.  *)
EveryMigrationCompletes == <>[](part = "migration" => Complete \/ Foreign \/ Refused)
(* Who was given an access has it, and the process has one.                *)
AccessHolds == Shared!HolderHasAccess /\ Shared!OneAccess
(* Every access is removed.                                                *)
AccessIsRemoved == Shared!AccessIsRemoved
(* Exit restores exactly the workloads that ran before maintenance, and    *)
(* while workloads are stopped for it the edge is in front. Where nobody   *)
(* interferes, the database refuses writes only while nothing runs, and    *)
(* active maintenance can be left.                                         *)
MaintenanceIsSafe ==
  /\ Busy!RestorationIsDurable /\ Busy!EdgeCoversOutage
  /\ Quiet!FencedMeansQuiet /\ Quiet!ActiveIsReversible
(* Maintenance that is desired for good is reached, and left for good.     *)
QuietCompletes ==
  /\ <>[](part = "quiet" /\ ~wish) => <>[]Quiet!Normal
  /\ <>[](part = "quiet" /\ wish) => <>[](Quiet!Active /\ bound.state = "active")
=============================================================================
