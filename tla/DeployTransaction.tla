------------------------- MODULE DeployTransaction -------------------------
(***************************************************************************)
(* A deploy: ensure the provider's project, deploy the services one after  *)
(* another, verify them.  Each step records its bindings in the            *)
(* environment's row and how to undo it in a transaction; when one fails   *)
(* the transaction is rolled back in reverse, and what may exist at the    *)
(* provider without a binding is retained as a create recovery, so that no *)
(* later deploy creates it again.                                          *)
(*                                                                         *)
(* A create may land although it was reported as uncertain, and after the  *)
(* provider was searched for it.  A write may throw, before or after the   *)
(* row changed (the export to the repository comes last), and the process  *)
(* may die anywhere.                                                       *)
(***************************************************************************)
EXTENDS Naturals, Sequences

CONSTANTS
  Service,   \* services of the project
  Order,     \* the sequence in which they are deployed
  Existing,  \* services that may be bound before the first deploy
  MaxDeploys, MaxFaults, MaxCrashes  \* bounds

Assumption ==
  /\ Order \in Seq(Service) /\ \A s \in Service : \E k \in 1..Len(Order) : Order[k] = s
  /\ Existing \subseteq Service /\ "project" \notin Service
  /\ {MaxDeploys, MaxFaults, MaxCrashes} \subseteq Nat

VARIABLES
  projects,  \* ids of provider projects with the project's name
  live,      \* services at the provider: [id, of, in]
  inflight,  \* creates that may still land
  row,       \* bindings of the environment: project, services, recovery
  at, todo, got, \* where the deploy is, its steps left, the provider's answer
  tx, undo,  \* compensations recorded, and those not yet tried
  pending,   \* recoveries reported by failed steps
  failed,    \* services whose deletion failed in this rollback
  caught,    \* whether the deploy is in its catch block
  begun,     \* row and live services when the deploy started
  clean,     \* no write of this deploy's rollback threw
  unretained,\* what a thrown write or a crash left out of the row
  ids, deploys, faults, crashes  \* counters
provider == <<projects, live, inflight>>
deploy == <<at, todo, got, tx, undo, pending, failed, caught, begun, clean>>
counters == <<deploys, faults, crashes>>
vars == <<provider, row, deploy, unretained, ids, counters>>

NoAnswer == [ok |-> FALSE, id |-> 0, created |-> FALSE, recovery |-> "none"]
Recovery == {"none", "unresolved", "identified"}
Row == [project : Nat, services : [Service -> Nat], recovery : [Service -> Recovery]]
Instance == [id : Nat, of : Service, in : Nat]
Step == Service \cup {"project", "variables", "health"}
Undo == [do : {"restore"}, to : Row] \cup [do : {"delete"}, id : Nat, of : Step, in : Nat]

TypeOK ==
  /\ projects \subseteq 0..ids /\ live \cup inflight \subseteq Instance
  /\ row \in Row /\ todo \in Seq(Step)
  /\ at \in {"idle", "call", "record", "rollback", "retain", "settle"}
  /\ got \in [ok : BOOLEAN, id : Nat, created : BOOLEAN, recovery : Recovery]
  /\ tx \in Seq(Undo) /\ undo \in Seq(Undo)
  /\ pending \in [Service -> Recovery] /\ failed \subseteq Service
  /\ {caught, clean} \subseteq BOOLEAN
  /\ begun.row \in Row /\ begun.live \subseteq Instance
  /\ unretained \subseteq Service \cup {"project"}
  /\ ids \in Nat /\ deploys \in 0..MaxDeploys /\ faults \in 0..MaxFaults
  /\ crashes \in 0..MaxCrashes

None == [s \in Service |-> "none"]

FirstId(s) == 1 + CHOOSE k \in 1..Len(Order) : Order[k] = s

Init ==
  /\ \E b \in SUBSET Existing, p \in {0, 1} :
       /\ b = {} \/ p = 1
       /\ projects = {p} \ {0}
       /\ live = {[id |-> FirstId(s), of |-> s, in |-> 1] : s \in b}
       /\ row = [project |-> p, recovery |-> None,
                 services |-> [s \in Service |-> IF s \in b THEN FirstId(s) ELSE 0]]
  /\ inflight = {} /\ at = "idle" /\ todo = <<>> /\ got = NoAnswer
  /\ tx = <<>> /\ undo = <<>> /\ pending = None /\ failed = {} /\ caught = FALSE
  /\ begun = [row |-> row, live |-> live] /\ clean = TRUE /\ unretained = {}
  /\ ids = 1 + Len(Order) /\ deploys = 0 /\ faults = 0 /\ crashes = 0

-----------------------------------------------------------------------------
(* buildPlan.                                                              *)
Steps == <<"project", "variables">> \o Order \o <<"health">>

StartDeploy ==
  /\ at = "idle" /\ deploys < MaxDeploys /\ deploys' = deploys + 1
  /\ at' = "call" /\ todo' = Steps /\ got' = NoAnswer
  /\ tx' = <<>> /\ undo' = <<>> /\ pending' = None /\ failed' = {} /\ caught' = FALSE
  /\ begun' = [row |-> row, live |-> live] /\ clean' = TRUE
  /\ UNCHANGED <<provider, row, unretained, ids, faults, crashes>>

Now(step) == at = "call" /\ todo # <<>> /\ Head(todo) = step
Answer(ok, id, created, recovery) ==
  /\ got' = [ok |-> ok, id |-> id, created |-> created, recovery |-> recovery]
  /\ at' = "record"
  /\ UNCHANGED <<row, todo, tx, undo, pending, failed, caught, begun, clean, unretained, counters>>
Refuse(recovery) == Answer(FALSE, 0, FALSE, recovery) /\ UNCHANGED <<provider, ids>>

(* ensureProject: a bound project is verified; a project of the same name  *)
(* is not adopted; a created one may fail its verification.                *)
EnsureProject ==
  /\ Now("project")
  /\ \/ Refuse("none")
     \/ row.project \in projects /\ Answer(TRUE, row.project, FALSE, "none") /\ UNCHANGED <<provider, ids>>
     \/ /\ row.project = 0 /\ projects = {}
        /\ ids' = ids + 1 /\ projects' = {ids'}
        /\ \E ok \in BOOLEAN : Answer(ok, ids', TRUE, "none")
        /\ UNCHANGED <<live, inflight>>

(* setEnvVars and verifyHealth change nothing this model keeps.            *)
Check ==
  /\ Now("variables") \/ Now("health")
  /\ \E ok \in BOOLEAN : Answer(ok, 0, FALSE, "none")
  /\ UNCHANGED <<provider, ids>>

Named(s) == {i \in live : i.of = s /\ i.in = row.project}

(* RailwayAdapter.deploy: a retained recovery blocks; a bound service, or  *)
(* the one of that name, is deployed again.                                *)
Redeploy(s) ==
  /\ Now(s) /\ row.project \in projects
  /\ \/ Refuse(row.recovery[s])
     \/ /\ row.recovery[s] = "none"
        /\ \E i \in Named(s) : /\ row.services[s] \in {0, i.id} /\ Named(s) = {i}
                               /\ Answer(TRUE, i.id, FALSE, "none")
        /\ UNCHANGED <<provider, ids>>

(* Mutated form: a retained recovery does not keep it from creating.       *)
BadMayCreate(s) == Named(s) = {} /\ row.services[s] = 0
MayCreate(s) == Named(s) = {} /\ row.services[s] = 0 /\ row.recovery[s] = "none"

(* Otherwise it creates the service: in full; with its id known but a      *)
(* later step failed; or with a lost answer, now, later or never.          *)
CreateService(s) ==
  /\ Now(s) /\ row.project \in projects /\ MayCreate(s)
  /\ ids' = ids + 1
  /\ LET i == [id |-> ids', of |-> s, in |-> row.project] IN
       \/ /\ live' = live \cup {i} /\ UNCHANGED inflight
          /\ \/ Answer(TRUE, ids', TRUE, "none")
             \/ Answer(FALSE, ids', FALSE, "identified")
             \/ Answer(FALSE, 0, FALSE, "unresolved")
       \/ /\ inflight' = inflight \cup {i} /\ UNCHANGED live
          /\ Answer(FALSE, 0, FALSE, "unresolved")
  /\ UNCHANGED projects

Land ==
  /\ \E i \in inflight : inflight' = inflight \ {i} /\ live' \in {live, live \cup {i}}
  /\ UNCHANGED <<projects, row, deploy, unretained, ids, counters>>

-----------------------------------------------------------------------------
(* A write of the row, as updatePlatformBindings does it: it succeeds, or  *)
(* throws before the row changed, or after (its export failed).            *)
Write(new, thrown) ==
  \/ row' = new /\ thrown = FALSE /\ UNCHANGED faults
  \/ row' \in {row, new} /\ thrown = TRUE /\ faults < MaxFaults /\ faults' = faults + 1

(* The end of a step: its receipt is added (which may throw), and the next *)
(* step follows a success, the rollback anything else.                     *)
RollBack == at' = "rollback" /\ undo' = tx' /\ failed' = {}
NextStep(ok) ==
  \/ ok /\ at' = "call" /\ todo' = Tail(todo) /\ UNCHANGED <<undo, failed, caught>>
  \/ ~ok /\ RollBack /\ UNCHANGED <<todo, caught>>
ReceiptThrows ==
  /\ faults < MaxFaults /\ faults' = faults + 1
  /\ RollBack /\ caught' = TRUE /\ UNCHANGED todo

Restore == [do |-> "restore", to |-> row]
Delete(step) == [do |-> "delete", id |-> got.id, of |-> step, in |-> row.project]

(* What a step that got an identity records.  A created project drops the  *)
(* services of the one before; a deployed service is no longer unresolved. *)
Recorded(step) ==
  IF step = "project"
  THEN [row EXCEPT !.project = got.id, !.services = IF got.created THEN [s \in Service |-> 0] ELSE @]
  ELSE [row EXCEPT !.services[step] = got.id, !.recovery[step] = "none"]

Compensation(step) == IF got.created THEN <<Delete(step)>> ELSE <<>>

(* The synchronous end of executeStep.  A snapshot of the bindings joins   *)
(* the transaction before the write, the deletion of a created resource    *)
(* after it: a write that throws leaves that one out.                      *)
RecordIdentity ==
  /\ at = "record" /\ got.ok /\ got.id # 0
  /\ \E thrown \in BOOLEAN :
       /\ Write(Recorded(Head(todo)), thrown)
       /\ tx' = Append(tx, Restore) \o IF thrown THEN <<>> ELSE Compensation(Head(todo))
       /\ unretained' = IF thrown /\ got.created THEN unretained \cup {Head(todo)} ELSE unretained
       /\ NextStep(~thrown)
  /\ got' = NoAnswer
  /\ UNCHANGED <<provider, pending, begun, clean, ids, deploys, crashes>>

RecordFailure ==
  /\ at = "record" /\ ~(got.ok /\ got.id # 0)
  /\ pending' = IF got.recovery # "none" THEN [pending EXCEPT ![Head(todo)] = got.recovery] ELSE pending
  /\ unretained' = IF got.created THEN unretained \cup {Head(todo)} ELSE unretained
  /\ tx' = tx /\ NextStep(got.ok) /\ got' = NoAnswer
  /\ UNCHANGED <<provider, row, begun, clean, ids, counters>>

(* runs.addReceipt throws after a step was done.                           *)
AddReceiptThrows ==
  /\ at = "call" /\ todo # Steps /\ tx' = tx /\ ReceiptThrows
  /\ UNCHANGED <<provider, row, got, pending, begun, clean, unretained, ids, deploys, crashes>>

-----------------------------------------------------------------------------
Tried == undo' = SubSeq(undo, 1, Len(undo) - 1)
Last == undo[Len(undo)]
Undoing(do) == at = "rollback" /\ undo # <<>> /\ Last.do = do

(* restoreEnvironmentSnapshot writes the whole column back.                *)
RestoreRow ==
  /\ Undoing("restore") /\ Tried
  /\ \E thrown \in BOOLEAN : Write(Last.to, thrown) /\ clean' = (clean /\ ~thrown)
  /\ UNCHANGED <<provider, at, todo, got, tx, pending, failed, caught, begun, unretained, ids, deploys, crashes>>

(* deleteService and deleteProject: what is absent counts as deleted.      *)
DeleteResource ==
  /\ Undoing("delete") /\ Tried
  /\ LET d == Last IN
       \/ /\ projects' = projects \ {IF d.of = "project" THEN d.id ELSE 0}
          /\ live' = {i \in live : i.id # d.id /\ i.in \in projects'}
          /\ inflight' = {i \in inflight : i.in \in projects'}
          /\ UNCHANGED failed
       \/ /\ failed' = failed \cup ({d.of} \ {"project"})
          /\ UNCHANGED provider
  /\ UNCHANGED <<row, at, todo, got, tx, pending, caught, begun, clean, unretained, ids, counters>>

(* Mutated form: the first compensation that fails ends the rollback.      *)
BadRolledBack == undo = <<>> \/ failed # {}
RolledBack == undo = <<>>

(* Mutated form: recoveries reported by the steps only.                    *)
BadRetained == [s \in Service |-> IF pending[s] # "none" THEN pending[s] ELSE row.recovery[s]]

(* persistServiceCreateRecoveries, after the snapshots were restored.      *)
Retained == [s \in Service |-> IF s \in failed THEN "identified"
                              ELSE IF pending[s] # "none" THEN pending[s] ELSE row.recovery[s]]

RetainRecoveries ==
  /\ at = "rollback" /\ RolledBack
  /\ at' = "settle"
  /\ LET new == [row EXCEPT !.recovery = Retained] IN
       IF failed = {} /\ pending = None THEN UNCHANGED <<row, unretained, faults>>
       ELSE \E thrown \in BOOLEAN :
              /\ Write(new, thrown)
              /\ unretained' = IF row' = new THEN unretained
                               ELSE unretained \cup failed \cup {s \in Service : pending[s] # "none"}
  /\ UNCHANGED <<provider, todo, got, tx, undo, pending, failed, caught, begun, clean, ids, deploys, crashes>>

(* updateStatus, of a deploy that ran all its steps or was rolled back.    *)
(* When it throws, the catch block rolls back (again); there it is fatal.  *)
Settle ==
  /\ at = "settle" \/ (at = "call" /\ todo = <<>>)
  /\ \/ at' = "idle" /\ UNCHANGED <<undo, failed, caught, faults, todo, tx>>
     \/ ~caught /\ tx' = tx /\ ReceiptThrows
     \/ /\ caught /\ faults < MaxFaults /\ faults' = faults + 1 /\ at' = "idle"
        /\ UNCHANGED <<undo, failed, caught, todo, tx>>
  /\ UNCHANGED <<provider, row, got, pending, begun, clean, unretained, ids, deploys, crashes>>

(* What the dead process knew and the row does not is lost.                *)
Crash ==
  /\ at # "idle" /\ crashes < MaxCrashes /\ crashes' = crashes + 1
  /\ at' = "idle" /\ clean' = FALSE
  /\ unretained' = unretained \cup {s \in Service : pending[s] # "none"} \cup failed
       \cup IF at = "record" /\ (got.created \/ got.recovery # "none") THEN {Head(todo)} ELSE {}
  /\ UNCHANGED <<provider, row, todo, got, tx, undo, pending, failed, caught, begun, ids, deploys, faults>>

Next ==
  \/ StartDeploy \/ EnsureProject \/ Check \/ Land
  \/ \E s \in Service : Redeploy(s) \/ CreateService(s)
  \/ RecordIdentity \/ RecordFailure \/ AddReceiptThrows
  \/ RestoreRow \/ DeleteResource \/ RetainRecoveries \/ Settle \/ Crash

Spec == Init /\ [][Next]_vars

-----------------------------------------------------------------------------
(* However creates, deletions and writes fail, a service is never created  *)
(* a second time while the first may exist: at most one of a name is, or   *)
(* may still become, live, unless a thrown write or a crash kept the       *)
(* recovery from the row.                                                  *)
OneServicePerName ==
  \A i, j \in live \cup inflight : i.of = j.of => i = j \/ i.of \in unretained

(* Whatever a deploy leaves at the provider stays known: bound, or named   *)
(* by a create recovery that blocks the next create.                       *)
NothingForgotten ==
  at = "idle" => \A i \in live \cup inflight :
    i.of \in unretained \/ row.services[i.of] = i.id \/ row.recovery[i.of] # "none"

(* No rollback deletes what was there before its deploy.                   *)
OnlyOwnWorkUndone == begun.live \subseteq live

(* After a rollback the row binds what it bound before, whichever of the   *)
(* compensations failed: the others are still tried.                       *)
RollbackRestoresBindings ==
  at = "settle" /\ clean => /\ row.project = begun.row.project
                           /\ row.services = begun.row.services

(* A rollback undoes its deploy, all of it and nothing else.               *)
UndoesItsDeploy == OnlyOwnWorkUndone /\ RollbackRestoresBindings
=============================================================================
