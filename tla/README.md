# Verification of Hypervibe (infraprint)

Hypervibe is a TypeScript MCP server and command line that turns a desired-state
document (`.hypervibe/spec.json`) into reviewed plans and applies them to cloud
providers. Commands are asynchronous and interleave inside one server; several
processes (editors' MCP servers, CLI calls, the macOS companion) share one
SQLite database, the repository files and the providers. This directory holds
TLA+ models of the parts where that matters, TLC configurations that check
them, and TLAPS proofs for the most important ones.

Paths below are relative to `src/src/` unless they name a document.

## 1. Inventory

| Component | State it keeps | Operations | Talks to |
|---|---|---|---|
| Run table (`run.repository.ts`, `sqlite.adapter.ts`) | plan rows, apply rows with status, locked environments, receipts | `create`, `reserveApply`, `updateStatus`, `addReceipt` | every command, other processes |
| Plan service (`plan.service.ts`) | none between calls | `plan`: read spec, observe, diff, persist | spec store, providers, run table |
| Apply handlers (`apply-plan.ts`, `core.tools.ts`, `hv-deploy.tools.ts`) | what a command has read so far | `hv_apply`, `hv_deploy`: re-observe, execute, handlers per action, forced bootstrap | executor, providers, environments |
| Converge executor (`converge.executor.ts`) | loop position, stop flags, completed ids, receipts | `execute`, `orderActions`, staleness checks | run table, handlers |
| Spec store (`spec.store.ts`, `repo-spec-file.ts`, `spec.repository.ts`) | repository file, numbered journal, legacy blob | `get`, `replace`, `merge` | every command, editors, git |
| Environment rows (`environment.repository.ts`, `repo-bindings-file.ts`, `context.ts`) | one JSON column per environment, exported to the repository | `create`, `update`, `updatePlatformBindings`, `delete`, hydration | nearly every handler, teammates |
| Deploy (`deploy.orchestrator.ts`, `infra.transaction.ts`, `local-state.transaction.ts`) | compensations, snapshots, create recoveries | ensure the project, deploy services, roll back | hosting provider, bindings |
| Data migration (`apply-data-migration.ts`, `data-migration-plan.service.ts`) | candidates, storage and database bindings | clean up, create, copy, verify, switch, delete the former target | two environments |
| Maintenance (`apply-maintenance.ts`, `maintenance-plan.service.ts`) | edge, workloads, database fence, binding | four entry and four exit operations | Cloudflare, hosting, PostgreSQL |
| Temporary database access (`database-access.service.ts`) | lease, lock, timer of each target | acquire, release, expire, retry | hosting provider |
| Managed secrets (`delegated-secret.service.ts`) | declarations, bindings, accepted values, receipts | plan, authorize, install, record | hosting variables, other machines |
| Storage (`storage-plan.service.ts`) | bucket bindings, recovery markers | ensure, wire, unwire, destroy, import | hosting provider |
| Stripe (`stripe-env.service.ts`) | catalog and webhook bindings | ensure, adopt, replace, wire, archive, remove | Stripe, hosting variables |
| Managed GitHub files (`github-infrastructure.service.ts`, `ci-deploy.service.ts`) | a branch, its pull request, a manifest | reconcile the branch, propose files | GitHub, people |
| CI rollback (`ci-rollback.service.ts`, `gitlab-ci.rollback.ts`) | a tag; otherwise none | observe, verify again, dispatch; the gate in the workflow | GitHub, GitLab |
| Rollout requirements (`runtime-rollout.service.ts`) | requirements inside the bindings | look, record after the apply, verdict | run table, CI |
| Diff engine, action authority, other planners | none | pure decisions | plan service |
| App Store, interfaces, imports, companion, Go proxy | theirs or the provider's | calls and presentation | outside |

`PROJECT.json` lists every component with its files and status.

What is hard in this code:

* **Interleaving.** A command awaits providers for seconds to minutes. What it
  read before (revision, observation, bindings, the head of a branch) is used after.
* **Several processes.** SQLite transactions are the only mutual exclusion.
  Files are not locked. A run row is the lock of an environment.
* **Crashes.** A process dies between a provider call and the row that
  records it; nothing recovers at start-up.
* **Uncertain outcomes.** A create may have happened although its call failed,
  or may still happen.
* **Partial failure.** One action of many fails, is pending or is blocked; a
  receipt cannot be written; a compensation fails.
* **Repetition.** Users plan and apply again; retries must neither repeat
  finished work nor lose what undoing needs.
* **Others.** Users change things at a provider's console, CI deploys, people
  push, merge, close and delete.

`hazards` of `PROJECT.json` lists where each of these bites and which property
watches the place.

## 2. Modules

| Module | Models | Kind |
|---|---|---|
| `MutationLease` | what the run table promises: disjoint leases, changes under a lease, one success per plan | abstract specification |
| `PlanApply` | commands, plan rows, apply rows, observation, drift, crashes | the handshake; implements `MutationLease` |
| `StagedApply` | what applying a reviewed plan promises | abstract specification |
| `ConvergeExecutor` | gate, loop, receipts and final status of one apply | implements `StagedApply` |
| `OrderActions` | the depth-first search of `orderActions` | algorithm against a graph reference |
| `ConvergeApply` | one apply of a plan document: searched, then refused or executed | composition of the two above |
| `SpecStore` | repository file and journal with processes inside and outside the checkout | component |
| `EnvironmentBindings` | the bindings column, its export and its hydration | component |
| `DeployTransaction` | a deploy with its compensations, snapshots and create recoveries | component |
| `DataMigration` | copying an environment's data into another's database or bucket | component |
| `DatabaseAccess` | the coordinator of temporary access to a database | component |
| `Maintenance` | environment maintenance with edge, workloads, fence and binding | component |
| `ManagedSecrets` | one managed runtime secret, planned and applied from several machines | component |
| `StorageLifecycle` | named buckets, their creation, wiring and removal | component |
| `CacheLifecycle` | the Redis cache of an environment, its change of provider, retention and removal | component |
| `StripeCatalog`, `StripeWebhooks` | product, prices and the variables that carry them; endpoints and their secrets | components |
| `ManagedFiles` | the files Hypervibe keeps in a GitHub repository | component |
| `CiRollback` | `hv_rollback` through managed CI at GitHub and GitLab | component |
| `RuntimeRollout` | configuration that waits for a deployment | component |
| `PlanApplyProofs`, `SpecStoreProofs` | theorems about the module they are named after | proofs |
| `ConvergeExecutorProofs` | theorems about one apply: the search, the loop and `MCConvergeApply`, stale plans included | proofs |
| `OperationsProofs` | theorems about `DataMigration`, `DatabaseAccess` and `Maintenance`, side by side as in `MCOperations` | proofs |
| `DeliveryProofs` | theorems about `CiRollback` and `RuntimeRollout`, side by side as in `MCDelivery` | proofs |
| `EnvironmentProofs` | theorems about `EnvironmentBindings` and `DeployTransaction`, side by side as in `MCEnvironment` | proofs |
| `ResourcesProofs` | theorems about `ManagedSecrets`, `StorageLifecycle` and `CacheLifecycle`, side by side as in `MCResources` | proofs |
| `IntegrationsProofs` | theorems about `StripeCatalog`, `StripeWebhooks` and `ManagedFiles`, side by side as in `MCIntegrations` | proofs |
| `MC...` | instances for TLC | see section 3 |

How they fit: `SpecStore` is what is inside `PlanApply!WriteSpec` and what its
`revision` counts. `ConvergeApply` is what is inside one `PlanApply` session
between `Reserve` and `Settle`. `DeployTransaction`, `DataMigration`, `Maintenance`,
`ManagedSecrets`, `StorageLifecycle`, `CacheLifecycle` and the Stripe modules are what handlers
do inside `ConvergeExecutor!Call`; that one apply at a time works on an
environment is what `PlanApply` proves, so those but `ManagedSecrets` (machines
with databases of their own) have a single apply. `EnvironmentBindings` is the
row all of them write their bindings to, and shows that what a handler records
stays recorded. `RuntimeRollout` is what happens after `Settle`.

### PlanApply

A command's `session` is what it has read so far; its `phase` names the await
it is at. `StartPlan`, `PlanObserve`, `PlanIntegrations` and `PersistPlan` are
`PlanService.plan`; `StartApply`, `ApplyIntegrations`, `ApplyObserve` are
`hv_apply` up to `execute`; `Fresh` holds the four staleness checks; `Reserve`
is `reserveApply` as the one transaction it is; `Write` is any handler that
changes the plan's environment or a migration source; `Settle` is
`updateStatus`, where "failed" stands for blocked and pending too. `hv_deploy` (`Deployer`) plans and applies in one command with
the revision it read first, and for an all-noop plan runs its bootstrap after
the apply is settled (`ForcedWrite`). `Decline` stands for every early return
and exception before the reservation. `Crash` forgets a session and leaves its
rows; so does `Throw`, of a command whose receipt or status write throws (`Throwing`): `execute` ends with the row running.
`history` records, for properties only, what an apply saw, how many
changes preceded its first one, and whether its command left the row running. The actions of a plan are abstracted to
whether all are noop and which environments it locks. What a fingerprint shows of an environment is `Live(e)`:
a count of our changes and a count of everybody else's, of services, databases, caches, storage
and maintenance (`fingerprintObservedState`); a
fingerprint is that pair, or `Unknown` when a provider did not answer. What it leaves out (repository files
and pull requests, DNS, load balancers, CI, connections) is counted in `unseen`: `Change` is of the one kind or the other, and
a change of the second kind makes no plan stale. A change that is undone counts as one. Others' changes of what the fingerprint leaves
out would be noticed by nothing and are not modelled.

### ConvergeExecutor, OrderActions and ConvergeApply

One action per branch of the loop; a handler answers with any combination of
`success` and `status` the type allows, or throws. `Faulty` lets writes of the
run table throw: inside the `try` this appends a second receipt
(`RecordAgain`), elsewhere it leaves `execute` with the row still running
(`Throw`). The branch of `Abort` for an unmet dependency is kept although the
runs show that only a halted loop reaches it: completed dependencies always
precede, and one that did not complete has halted the loop (theorem
`AbortsFollowStops`). `OrderActions` starts from every document of up to three actions with up to two
dependencies each, known, unknown (an id of no action), repeated or cyclic. The recursion of `visit` is
an explicit stack: a call is the id it visits and how many of its dependencies it has looked at, `Visiting`
are the ids on the stack, `Done` those in the order. A step begins with the next listed action, looks at the top call's next
dependency, refuses it or returns, so each step moves one of `begun`, `looked`, `order` and `ended` on and the search ends.
`ConvergeApply` puts the two together: `Search` is a step of the search of a document,
`Begin` hands the order it found to the loop, with any noop set and
confirmations.

### SpecStore

A document is the set of its entries; a patch adds and drops entries or
replaces the whole. Commands of one process do not interleave here, as no
await separates reading from writing; each step is one file operation or one
SQL statement. `get` adopts a differing file as a new revision, falls back to
the journal and converts a legacy blob once. `Conflict` is the unique index on
revision numbers. `Edit` is an editor, `git pull` or a deletion. A file of another
project reads as no file, and a write is atomic (it is written beside and renamed).

### EnvironmentBindings and DeployTransaction

A row maps keys to objects with public and secret fields. `Hydrate` overlays the
export onto the row (`mergeRepoPlatformBindings`), `WriteKey` is
`updatePlatformBindings`, `WriteColumn` is `saveBinding` with the row read before;
`Store` and `Export` are the two writes of one synchronous section, between which
the process may die or the export throw (`ExportFails`). `Clear` and `Drop` are
`hv_destroy` of an environment: the export loses the entry before the database loses the row. `DestroyProject` is
`hv_destroy` of the project: all rows go at once and the export stays, so the next hydration brings them back; `gone` are the
environments deleted singly, which must not come back with them.
`recorded` is what the rows would hold had no write been lost.

A deploy works through `todo`: `EnsureProject`, then `CreateService` or
`Redeploy` for each service, then `Check`. A create answers created, failed or
uncertain; an uncertain one is `inflight` and may `Land` at any later moment.
`RecordIdentity` writes the binding and pushes the compensations; a write may throw before or
after it changed the row. `RestoreRow` and `DeleteResource` pop compensations in
reverse, `RetainRecoveries` writes what may exist without a binding.
`unretained` names what a thrown write or a crash kept out of the row.

### DataMigration, DatabaseAccess, Maintenance

`StartCopy` plans and enters the handler for the wanted id; `CleanUp` removes an older
candidate, `Create`, `RecordCandidate`, `Copy` and `Switch` follow, and a failure
goes to `Discard`. For a bucket, `WriteBack` is `persistStorageState`: every write of a candidate writes the whole map of bindings
as it was read, so that a rebinding of the target made meanwhile is undone; `touched` tells, for properties only,
whether one was made since. A creation may leave half a bucket, whose id the handler drops, and a provider that
`refuses` (Railway) takes no unbound bucket of the name from then on (`Refused`). `Touch` is another command that writes a binding meanwhile (imports and hydration hold
no lease). `StartDestroy`, `DestroyPrevious`, `DropPrevious` delete the former target
once confirmed. `usable` holds the resources with their former data or a verified copy.

The coordinator's promise lock is a `queue` of operations; its head is
`Inside`, awaiting a provider call. `Fire` is the lease's timer, `Elapse` the time of one holder. A
failed cleanup keeps the lease registered (`cleanupFailed`), arms the timer
again and lets the next operation retry. `Crash` loses the process with its timers.

`StartApply` of maintenance plans from an observation and the binding (`EnterChain`,
`ExitChain` are `planMaintenance`) and keeps the steps the executor would
call (`SkipNoops`); `Order` is the sequence in which a plan stops the workloads, as `workloadOrder` sorts them. A step is then up to three actions: checks with a fresh observation,
the provider call, and the binding written after it. A failed call may or may not have had its
effect (`Attempt`). `Drift` is a user at the provider's console. `mine` and
`before` record, for properties only, what Hypervibe stopped and what would run without maintenance.

### ManagedSecrets, StorageLifecycle, CacheLifecycle, StripeCatalog, StripeWebhooks

A machine has its own database, encryption key and plan; the provider and the
repository are shared. `SavePlan` plans a generated or delegated value,
`Start` authorizes it (`Authorized`) against a fresh observation, `Sync` sets
the variable of one service after the other, `Record`, `Export` and `Receipt`
are the writes after it. `edited` tells what others changed since the last look.

Storage plans actions from the bindings and the live buckets
(`StartApply`). What is still to be done is a set, in which each action has its turn in
the order of the declarations and a stage (`Before`). `Ensure` may be uncertain and
leaves a marker; `Land` lets a late create take effect; `Import` adopts a bucket
and resolves its marker. All buckets are wired with the same variables.

A cache is one component with a provider's id (`component`). `Blocked` collects what stops a plan:
an unfinished create, an observation that is missing, refused or contradicts the binding, a cache that is not bound.
`Provision` and `WriteCreated` are `createCache` with `retainFailedProvisionIdentity`; a changed provider
keeps the old binding as `previous`. `Delete` and `WriteDeleted` are the three deletions, which compare ids again
(`Intended`); `Retain` is an import for cleanup. `PartPlan` is a plan filtered to services.

The Stripe plan ensures product and prices, wires what services carry, and
archives what is left over; `PriceOp` and `Op` are what it decides per price and webhook. `key` is Stripe's
memory of idempotency keys, which `Forget` ends. `Retarget` points the connection to another account: what is bound is absent there
(`gone`), is replaced without an archive, and an archive planned for the product before is refused (`ArchiveRefused`).
A price Hypervibe makes gets a `lookup` key, and Stripe refuses a second active price with it (`Holders`), which is what a replacement asks for: no request
transfers it. Whether a price archived meanwhile still holds the key is left open. `ArchivesAfterHosting` speaks of the variables a plan sets or
removes and the services it reaches: a variable a service was left with when it, or the key, was no longer declared is
known to no plan, so a price can be archived while such a variable still carries it (two services and three
edits show it). `touched` tells what users set since the plan. An endpoint's secret is shown
once: if it cannot be written, `Undo` deletes the endpoint again.

### ManagedFiles

An apply reads both heads (`Begin`), then open pull requests, then reconciles the branch: it
is created (`CreateBranch`), joined while its pull request is open (`JoinPull`), moved forward
(`Forward`), used as it is (`Reuse`), or, if its head is proven to be that of a
merged pull request (`LookAtClosed`), looked at once more (`Recheck`) and `Reset`
with force. `ReadManifest`, `PutFiles`, `RemoveFiles`, `WriteManifest` and `OpenPull` are
`proposeGitHubInfrastructureFiles`. A file is there or not; all files of one of these
steps are one commit. Commits have no ids: an apply knows whether the head it
read still is the head (`same`), whether its base is old, and whether its head was merged since.
`Merge` merges, squashes or rebases, and keeps or deletes the branch.
A batched deploy-workflow proposal leaves out restore-drill files (`Files`), as the code does.

### CiRollback and RuntimeRollout

`Ask` is observation and plan, `Verify` the second observation of the handler, `Dispatch`
starts the run (at GitLab behind a tag); `Gate` is the check of the generated workflow
in the job that changes production, `Deploy` that change. `Push`, `Again`, `Expire`
and `NewProgram` are others, re-runs, lost evidence and a changed managed program.
`turn` is what a re-run of a run changes.

`LookEarly`/`EarlyWrite` and `DeferredWrite`/`LookLate` are the two orders in which
handlers look at the latest deployment and write; `Settle` ends the reservation before
`Record` writes the requirement into the current row. `Deploy` and `Finish` are CI.

## 3. Runs

Independent components are checked side by side in one run, where that gives a run
one question: the `MC` module has a variable `part` that says which component moves,
and pins the others to one initial state, so that their numbers of states add up
rather than multiply. Each part's fairness is conditional on `part`.

| Run | Parts | Shows |
|---|---|---|
| `plan_lease` | 2 commands that may die (`Throwing = {}`: a death leaves the same row), 2 environments, 2 plans, 2 apply rows; all symmetric | `LeaseExclusion`, `PlanSucceedsOnce`, `NoReplayAfterChange`, `OneMutatorPerEnvironment`, `RowsAreSettledOnce`, refinement of `MutationLease` |
| `plan_live` | `hv_deploy`, whose writes to its row may throw, and another command, one environment with integrations, drift, an aging plan; nobody dies | `EverythingEnds` |
| `apply` | `converge`: every document of up to 3 actions over 3 ids, each gate, noop set, throws and death anywhere; `command`: one command at a time, 2 revisions, drift, integrations, a provider that may not answer | `DependenciesHeld`, `TellsTheTruth`, `OrderIsRight`, refinement of `StagedApply`; `StalePlanRejected` |
| `spec_race` | 2 processes in the checkout, one mortal, 2 updates, one outside edit, a legacy blob | `RevisionsWerePublished`, `RevisionsNeverChange`, `JournalCatchesUp` |
| `environment` | `bindings`: 2 commands, 2 environments, 2 keys, a pull, a crash, a failed export, deletions of one environment and of the project; `deploy`: 2 services, one there before, 3 deploys, 2 faults, a crash | `RecordedValuesSurvive`, `ExportFollowsRow`; `NothingForgotten`, `UndoesItsDeploy` |
| `operations` | `migration`: 2 migration ids, 2 faults, a touch, a crash, a provider that refuses known names or not; `access`: 2 users, 3 accesses, 3 calls, 2 faults, a crash; `busy`: maintenance of cron, worker and web with death and drift; `quiet`: the same without interference | `ActiveIsUsable`, `RecordsAreTrue`, `SwitchesOnlyUnchanged`, `EveryMigrationCompletes`; `AccessHolds`, `AccessIsRemoved`; `MaintenanceIsSafe`, `QuietCompletes` |
| `resources` | `secret`: 2 machines, 2 services, 2 encryption keys, 2 generations; `storage`: 2 names, one service; `cache`: 2 services, 2 providers, 3 caches, one of each trouble | `GenerationsHold`, `SecretsAreRespected`; `ResourcesAreTracked`, `DeletedIsUnwired` |
| `integrations` | `catalog`: 2 prices, 2 variables, up to 5 prices at Stripe, an edit, and a fault or a change of account; `webhooks`: 2 names, URLs and slots; `files`: two environments apply, one repository; `file`: one environment, with 2 acts of others or failures | `ArchivesAfterHosting`, `StripeConverges`; `WebhooksAreTrue`; `OverwritesOnlyUnseen`, `FilesConverge` |
| `delivery` | `rollback`: 2 clients, 2 commits, 4 runs, a re-run, an expiry; `named`: the same for a commit asked for by name; `rollout`: 2 applies, 3 writes, 4 deployments | `OneRollbackPerObservation`, `UndoesOnlyWhatWasSeen`; `MetMeansCarried` |

Every property of these has a mutant in `PROJECT.json`, a plausible slip in the
code that breaks it. Three more runs show where the code does not do what the
repository says; each is small, and each trace is a few steps long:

* `storage_moved`: a service moved from one declared bucket to another is wired to the new
  one and then unwired from the old one, which clears the same variables (`WiredHasAccess`,
  against `README.md:47`).
* `stripe_archive`: dropping the catalog from a spec that keeps a webhook archives prices that services
  still carry (`ArchivesOnlyUnused`, against `ARCHITECTURE.md:844`).
* `stripe_rename`: a renamed webhook adopts the endpoint still bound to its old name
  (`OwnsItsEndpoint`, against `ARCHITECTURE.md:837`).

### Known gaps in the code, without a run

The properties above are stated so that they hold; what they have to leave out is this.

* Two commands: two applies of one plan both observe, the first changes the environment and fails, the second runs
  on what it saw before (`docs/TOOLS.md:11` says stale plans are rejected; `NoReplayAfterChange`
  remains true). `hv_apply` reads the revision before its first await, so one written while it observes is
  not seen (`spec.store.ts:216`). `StalePlanRejected` is therefore about one command at a time.
* The fingerprint a plan is compared with leaves out what the hosting observation does not show: GitHub files and pull requests, DNS, load
  balancers, CI. A plan stays fresh when these change, by an earlier attempt of its own too, although `docs/TOOLS.md:11` speaks of the
  infrastructure. `StalePlanRejected` and `NoReplayAfterChange` are about what the fingerprints cover.
* After a crash an apply row stays `running` and its environments are refused for ever. So it does when writing a receipt outside the
  `try`, or in its `catch`, or the final status throws (`converge.executor.ts:509`, `587`, `592`). `EveryApplyEnds` excepts these two and nothing else; `NoneForgotten` proves as much.
* A merge computed from an older read takes the next revision number and undoes the change in between.
* The forced bootstrap of `hv_deploy` works outside its apply's lease.
* `spec.repository.ts:23` answers an insert with the latest row rather than its own.
* Maintenance: a workload stopped beforehand never gets a snapshot, which blocks the suspension of the
  others and later the exit; a route created by a process that dies before storing its id
  can neither be adopted nor removed (`cloudflare.adapter.ts:620`, `maintenance-plan.service.ts:81`).
* `hv_destroy` of a project deletes its rows and not their export (`project.repository.ts:79`): the next command in the checkout creates
  project and environments again.
* Migration of buckets: the id of a bucket whose creation failed half-way is dropped (`apply-data-migration.ts:611`), so it is on no
  record, and Railway refuses its name from then on (`railway.adapter.ts:5956`): the migration can be completed only after removing it by hand. The stale
  map of bindings is written back before and after the copy (`apply-data-migration.ts:591`, `622`, `652`): a rebinding of any bucket made in between is undone unnoticed.
  `RecordsAreTrue`, `EveryMigrationCompletes` and `SwitchesOnlyUnchanged` except these.
* `environment.repository.ts:115` says a failed export is made up for later; the next command overlays the old
  export first. No command clears a `serviceCreateRecovery`.
* Cache: the warning of a changed provider says that services are rewired before the old cache is deleted (`cache-plan.service.ts:454`); the
  next plan lists that deletion before the services and without a dependency on them (`cache-plan.service.ts:565`), so a service whose
  rewiring failed still has the old cache's URL. A cache kept as the former one can be retained and deleted during the
  change, as only the current binding is compared (`active-datastore-binding.ts:33`). `BoundIsUnwired` is about the bound one.
* Secrets: planning ignores a binding without a receipt, applying does not, so such a plan is refused.
* Rollouts: for a write the provider deploys at once and for a deletion the baseline is read before the write, against `ARCHITECTURE.md:784`; two applies
  may record in the wrong order after settling, and then the requirement of the older one is what is left. `MetMeansCarried` excludes the first.
* Rollback: at GitLab, any earlier successful run with another program makes the observation fail
  (`gitlab-ci.rollback.ts:83`, against `docs/gitlab-integration.md:1199`); after a refused or failed rollback run, the next one without a
  commit picks what production already runs (against `docs/TOOLS.md:32`); a re-run of the observed run after the dispatch is overwritten;
  of two rollbacks from one observation both may be refused.
* Stripe: changing the amount of a price Hypervibe made asks for a second price with the same `lookup_key` without its transfer
  (`stripe-env.service.ts:1792`, `stripe.adapter.ts:509`); Stripe refuses it, so `StripeConverges` excepts it. A product made again after a lost answer in a new account is made
  twice, which the model does not tell apart. A price shared by two keys may be archived under one of them; a key removed and declared again
  with other terms is stuck; an archive that was not confirmed is never planned again; a second replacement within
  a day reuses the first one's idempotency key; lists stop at 100; a webhook bound without a hash
  counts as in sync; if the removal of a variable is skipped after the binding is gone, it stays.
* GitHub files: a batched deploy-workflow proposal compiles without the restore-drill files
  (`ci-deploy.service.ts:562`), so it removes a declared drill workflow, which the next plan proposes again; a crash or a merge between two commits leaves a
  branch that only a person can finish; a forced reset races pushes and the commits of other environments.

### Bounds

Two commands suffice to interleave any pair of handlers, and exclusion and
single success are statements about pairs; the proofs remove the bound. Two
environments are needed for a migration source. `MaxWrites = 1` already tells an
environment changed from one untouched. Three actions make every shape of
dependency: chain, fork, join. In `SpecStore` two updates suffice for a number
to be taken in between. Bindings need two keys to tell merging from replacing and two environments to tell
entries apart. All commands of the run are of one process in the checkout: with one elsewhere
`RecordedValuesSurvive` and `ExportFollowsRow` are false, as it exports nothing. A deploy of one old and one new service, in the order the parameter `Order` gives, shows a failure after, between and before a creation; three deploys
are one to fail, one to meet the recovery and one to succeed. Two migration ids make one unfinished when
the next is wanted. Three accesses let one be created after a failed clean-up. In `Maintenance` three workloads are one of every rank, sorted (`CronFirst`);
three or four flips leave and re-enter maintenance. Two buckets and a service show a move; two prices and
variables a swap. Two environments are enough to race on a branch; the second has no troubles because its race is with the first.
Four runs are two releases and two rollbacks, or a push between them.
`Max...Faults`, `MaxCrashes`, `MaxTroubles` and the like bound failures: liveness is
claimed for systems that fail finitely often.

In `apply`, `Calm` keeps others from changing the environment between an apply's last looks
and its reservation: no check of the code could notice that, and a plan
applied then is not stale by its own standard.

Symmetry is used where a run has no liveness property (`plan_lease`, `apply`, `environment`,
`resources`, `delivery`) and the permuted names occur only as members of their set.
Deadlock is checked for `PlanApply` and `SpecStore`. Elsewhere a finished instance stops: the executor has returned,
a document is refused, the budgets are used up.

### Fairness

* `PlanApply`: weak fairness per command of `Proceed`, the code after a started
  command's awaits (not of `Throw` and `Crash`). Starting a command, drift and crashes are not fair. An
  await on a provider that never answers is excluded: adapters' requests end.
* `SpecStore`: surviving processes finish, and a surviving one in the checkout
  keeps reading (`hv_status`, `hv_plan` and `hv_apply` all call `get`).
* `Maintenance`, `DataMigration`, Stripe: the user plans and applies again while something is
  planned, and handlers go on. Nothing else repairs an interrupted apply; the code leaves this to the
  user by design. A created maintenance route is eventually served, and Stripe forgets
  idempotency keys after a day. `QuietCompletes` excludes lost edge creations, workloads
  stopped beforehand and users starting workloads during maintenance: the exit then refuses to remove
  the fence while something runs, on purpose.
* `DatabaseAccess`: operations go on, timers fire and time passes; callers owe nothing.
* `ManagedFiles`: environments are planned and applied again, and an open pull request that can be
  merged is merged in the end: the code waits for people by design.

## 4. Proofs

`PlanApplyProofs` is checked by TLAPS for any sets of commands, environments,
plans and rows, from the constants' assumptions in `PlanApply`
(`SubsetAssumption`, `NoneAssumption`, `BoundAssumption`, `DocAssumption`: the absent
value is none of the others).

`LeaseExclusion` alone is not inductive. When a row is settled one must know that the
command owns it, and when one is inserted that its lock set is what the
conflict check looked at. `IInv` therefore adds:

* `TypeOK`;
* `RowsMatchPlans`: a row keeps the plan, environment and locks it was inserted with;
* `SessionsMatchRows`: an executing command names a running row of its plan;
* `OneCommandPerRow`: no two commands execute one row;
* `LeaseExclusion` and `PlanSucceedsOnce` themselves. The second needs the
  first: two rows of one plan both lock its environment, so they never run
  together, and a row can succeed only when no other of its plan is running.

`NoReplayAfterChange` needs a second invariant, `SightInv`, as `IInv` says nothing of when something was seen:
what a session, a plan or a row saw of an environment is not newer than the environment (`SessionsSawThePast`,
`PlansSawThePast`), a row saw what its plan saw (`RowsSawTheSame`), and a row that changed nothing has not
started (`UnstartedRows`). `Writers` shows that only an executing apply and a forced bootstrap change an environment.

`StaleIsRejected` proves `StalePlanRejected` for a single command, `hv_deploy` included, and `Calm` others. Its invariant
`ReadsAreCurrent` says what the command has read and is still so: the revision from the first read of an apply on, as only
an idle command writes the spec, the integrations and the hosting from the two observations to the reservation.
`ConvergeExecutorProofs` carries it over to `MCConvergeApply`, whose run checks it (`StaleNeverStarts`): what moves there is
an instance of `PlanApply` with one command, and `SoleIsPlanApply` that it is the instance the theorems are about.

`NoneForgotten` needs no more than `SessionsMatchRows`: a command leaves "executing" by `Settle`, or is noted as having left its row (`LeftStep`).

`StepShape` shows that only `Reserve` and `Settle` change rows; the lemmas
`Reserved` and `Settled` say what these two do, and each conjunct of `IInv` has
one lemma. From `Invariance` follow `Exclusion`, `SucceedsOnce`, `Typed`,
`SettledOnce`, and with `Deployer = {}` also `OneMutator` and `Implementation`
(`PlanApply` implements `MutationLease`). That assumption is needed: with
`hv_deploy` both are false, as its forced bootstrap changes the environment
after giving the lease back.

`SpecStoreProofs` proves `RevisionsNeverChange`, `RevisionsWerePublished` and
`TypeOK` of `SpecStore` for any processes, documents, crashes and edits, from its
`SubsetAssumption`, `DocAssumption` and `BoundAssumption`.
Its `IInv` adds to the types and to `RevisionsWerePublished`:

* `SessionsHoldDocs`: a session that is about to compare, write or record holds
  a document, not the absence of one;
* `PendingIsPublished`: the file's document is published, and so is what a
  process in the checkout is about to record, because it read it from the file
  or has just written it there.

Every step replaces one session, so the lemma `Frame` reduces each action to
the soundness of the new session (`Sound`) and what it does to file and
journal. `RevisionsNeverChange` then only needs that the journal is a sequence
and that `Insert` is the one step that changes it.

`ConvergeExecutorProofs` holds for any finite set of actions, documents of any length with any
dependencies, and any answers of handlers; its theorems are about `MCSpec` of `MCConvergeApply`, from the document to the end of its apply.

* `OrderFound` (`OrderIsRight`) rests on `SearchInv`: each action in the order comes after what it needs directly, a call's looked-at
  dependencies are done or visited by the call above it, and an id on the stack is needed by all below it (`OrderFits`, `CallsFit`), so a dependency found on the
  stack is a cycle. What the loop has begun with is done but for the bottom of the stack, and nothing is
  visited that what it has begun with does not need (`ListFits`, `ReachFits`), which keeps the listing's order. No induction over
  graphs is needed: what an id needs transitively is the least set closed under dependencies, and the
  ids before it in a finished order are such a set. That the order is as long as the document is a counting argument on finite sets.
* `BeginStarts` is the hand-over: the order found satisfies what the executor's `Init` asks (`DependencyOrder`), so the invariants of the loop start there.
* `IInv` ties what is in memory to the order: the handler at
  work is the current action's, completed actions answered plain success or are noops, and called ones have been passed
  in the order (`HandlerRuns`, `CompletedSucceeded`, `CalledRest`). `PrerequisitesHeld` follows because the loop stops at
  the first action that does not complete. `TInv` adds what the receipts in memory
  and in the table say of the passed actions, from which `RunsTellTheTruth` follows; `GatePassed` adds that
  nothing is tried before the gate, which `ApplyImplementsStaged` needs for the refinement of
  `StagedApply`.

`OperationsProofs` is about the three components of `MCOperations`, each moving beside the others.

* `ActiveIsUsable` and `SwitchesOnlyUnchanged` of `DataMigration` hold for any set of migration ids
  and any bounds. A clean-up deletes by recorded ids and by bucket names, so the
  invariant must say whose those are: a migration id is wanted once (`IdsOnce`), candidates and named buckets of
  different ids differ (`Apart`), what is active belongs to a migration that is over
  (`ActiveIsOver`), what a handler read is still the binding but for its version
  (`ReadOnce`; writing it back changes no more than that, `WritesBack`), and its candidate is nobody else's (`CandidateIsOwn`).
  `RecordsAreTrue` adds `RInv`: each live resource is on record at every step but the one that is about to record it
  (`EachIsOnRecord`), the former target belongs to a migration that is over for good (`PreviousIsOver`) and, unless a
  process died, is there until it is dropped (`PreviousIsRetained`), and then no step but the
  last finds the binding switched to its own candidate (`CandidatesAreSpare`).
* `AccessHolds` of `DatabaseAccess`, for any users, accesses, calls, failures and crashes, from the component's `Assumption`.
  What is awaited inside the promise lock belongs to the head of its queue, and each user has one operation there at most
  (`QueueFits`, `AwaitsFit`). The access that exists at the provider is the registered one or is about to be discarded
  (`OneIsKnown`). Until its clean-up begins a lease has a reference for each of its holders; `HoldersCounted` says so with an
  injection, which an acquisition extends and a release shortens. So who holds an access in time holds the
  registered one (`HeldIsShared`), and `TimerIsSet` gives `NeverStranded`.
* `MaintenanceIsSafe` of `Maintenance`, for any workloads in any `Order` that lists them all, with and without a database, any faults
  and deaths. An apply's remaining steps are enter steps or exit steps, never both, and while the database is fenced
  an exit begins with `unfence` (`BusyOneWay`, `QuietOneWay`; that skipping noops keeps the first
  step with something to do needs well-founded induction on the length of the chain, `Skipped`). `OutageInv` proves
  `RestorationIsDurable` and `EdgeCoversOutage` under drift at the provider: the snapshots are all taken before the first
  suspension, while everything runs (`SnapshotsRun`), the edge stands before anything is stopped, and is
  removed when nothing is (`EdgeFirst`). `UndisturbedInv` proves `FencedMeansQuiet` and `ActiveIsReversible` where nobody interferes
  (no drift, nothing stopped at first, no edge cut off before its id is saved), which is where they are stated.
  `ActiveIsReversible` allows for a route already removed or being created: five interrupted exits and entries, one failure more
  than the run's bound, leave the binding "active" over a removed edge, or over a new one whose id is not saved yet.

`ResourcesProofs` is about the three components of `MCResources`.

* `GenerationsHold` and `SecretsAreRespected` of `ManagedSecrets`, for any machines, services, keys, values and
  faults. All of `SecretsInv` but the types is a statement about one machine (`Sound`): it applies a plan that was stored, the services it has
  written hold its value unless others changed them since (`Installed`), what it is about to overwrite was seen and confirmed
  (`Consented`), and the row it exports is its own (`RowIsOwn`). `UntouchedStaysSound` spares every action the other machines.
* `ResourcesAreTracked` and `DeletedIsUnwired` of storage and cache, for any names, services, ids and providers and any number of edits,
  applies, faults, crashes, late creates and changes by hand. Both invariants say what a plan may still do (`EnsuresFit`, `StorageDestroysFit`;
  `CreatesFit`, `CacheDestroysFit`): what is to be created is bound nowhere, and what is to be deleted is to be unwired from every
  service of its binding first. `ReadFits` and `StorageHeldFits` (`CacheHeldFits`) say of a call that was answered and not
  yet recorded that the row it is about to write is the row it read, but for imports. `StorageLateFits` (`CacheLateFits`)
  says that a create which may still take effect is marked, in the row or in hand, and that nothing else of its name
  exists: that is why a late bucket is never the second one.

`DeliveryProofs` is about any clients, commits, runs, applies and deployments.

* `OneRollbackPerObservation` and `UndoesOnlyWhatWasSeen` of `CiRollback`: `IInv` says that what a client saw and what a run
  restores are earlier runs (`SeenAreRuns`, `RollbacksRestore`), that the concurrency group lets one run deploy at a time
  (`OneAtATime`), and that from its gate on nobody else wrote to production (`NobodyElseWrote`). Turns are
  drawn by `Max`, so `Types` bounds them, and `MaxOfBounded` gets the maximum of a bounded set from well-founded induction.
* `MetMeansCarried` of `RuntimeRollout`: nothing written or read is ahead of the provider (`NothingIsAhead`), one apply holds the environment
  (`OneHolds`), and as long as a receipt may be recorded, any deployment after its baseline carries its version (`ReceiptsAreSound`). The lemma
  `RolloutsAreRollouts` carries the invariant from the component to the run's specification.

`EnvironmentProofs` is about any commands, environments, keys and fields, failed exports, pulls and crashes. `RecordedValuesSurvive` and
`ExportFollowsRow` hold when every process runs in the checkout (`OneProcess`, as in the run); this hypothesis is needed:
a process elsewhere changes the row without exporting it, so the next command in the checkout overlays the older export.
`IInv` compares the export with the row key by key (`KeysAreExported`: only the keys noted as unexported differ),
keeps deleted environments away (`GoneIsGone`), and says of each section and each command what it has read
and is about to store (`Hydrates`, `Stores`, `Works`).

The part about deploys is about any services and any numbers of deploys, faults and crashes, from `DeployAssumption`:
`Order` lists every service, the first ids are in order.
`NothingForgotten` needs to know where an instance can be on its way from the provider to the row. `NothingIsLost` says that one which
exists is bound, retained, named as unresolved, in the answer that is being recorded, reported by the deploy at work, or
one whose deletion failed. A rollback restores snapshots, which could forget what was created after they were taken;
`SnapshotsLoseNothing` says that each snapshot knows every instance, or that its deletion comes with or after
that entry in the order of the rollback. `TriedIsGone`, `OwnDeletes` and `OnlyOwnWorkUndone` say what deletions may
touch, and `FirstIsBegun` that the last snapshot restored is the row the deploy began with, which makes `UndoesItsDeploy` true.

`IntegrationsProofs` is about the three components of `MCIntegrations`, for any prices, services, variables, webhooks, URLs, slots and files.

* `ArchivesAfterHosting` of `StripeCatalog`: a service that is not to be updated any more, and that nobody set meanwhile, carries in
  the variables of the plan only what is bound to a key the plan keeps, and nothing in those it removes; then no price is to be bound any
  more (`PlanFits`). An archive comes after all updates (`Rank`), so what it archives is carried by nobody else.
* `WebhooksAreTrue` of `StripeWebhooks`: each live endpoint an apply made is bound, reported as lost, or the one the handler at work has just
  made (`AllTracked`). A handler that replaces or destroys has deleted its own endpoint before it goes on (`TurnFits`), so no binding it overwrites was the
  last to know one. The hash in a binding is that of its endpoint's secret, of none, or trusted (`HashesFit`).
* `OverwritesOnlyUnseen` of `ManagedFiles`: work of others on the branch is ahead of the default branch and not merged (`BranchFits`), and an
  apply that takes the head for merged and whose head still is the head faces no such work (`ApplyFits`). Where several environments
  are applied there are no other people (`NobodyElse`).

Model-checked only: everything about liveness (fairness and ENABLED are beyond
the prover). Every safety property of a passing run is stated by a theorem.

## 5. Not modelled

Contents of documents, receipts and errors, the schema of the spec, and
provider APIs beyond what the modelled parts rely on are left out throughout:
no property of an interleaving depends on them, and most of the repository's lines are of this kind
(provider adapters, schemas, generated workflows, presentation).

* Diff engine and action authority: pure functions of large documents, tabled in their tests. What they decide is modelled where
  the decision meets a race: maintenance, storage, secrets, Stripe, migration, managed files.
* Email, queue, load balancer and messaging: their planners keep what they created by id as storage and cache do, and are left out.
* Of the cache: in-place reconfiguration and the runtime network of Memorystore. Its adapters are Railway's and, for every other provider, DigitalOcean's.
* Restore drills and resilience plans; protection rules, Pages and collaboration settings at GitHub; the
  proposals at GitLab, which follow the scheme of `ManagedFiles` with merge requests.
* `RuntimeRollout` takes a replaced service for a deployment. `StorageLifecycle` takes Railway's adapter for all.
* App Store releases, imports other than of buckets, interfaces, the macOS companion, the Go proxy and build scripts keep no
  state that two actors of this system share.

What would come next: the secrets and the bindings of two machines as one composition.
