--------------------------- MODULE DataMigration ---------------------------
(***************************************************************************)
(* Copying the data of one environment into another's database or bucket:  *)
(* a fresh candidate is created and recorded, the data is copied into it   *)
(* and verified, and only then the binding switches to it; what was bound  *)
(* before is retained until its deletion is confirmed.  A candidate whose  *)
(* copy failed is deleted, or stays recorded until a later run does that.  *)
(* A bucket half-created stays behind without a record, and a provider may *)
(* refuse its name from then on.                                           *)
(*                                                                         *)
(* The plan repeats an unfinished migration, and does nothing for one      *)
(* whose id the binding already carries.  Two environments are locked by   *)
(* its apply (PlanApply); commands without that lease (imports, hydration) *)
(* may touch the bindings, users edit the spec, and the process may die.   *)
(***************************************************************************)
EXTENDS Naturals, FiniteSets

CONSTANTS
  Migration,   \* ids a user gives to migrations
  NoMigration,
  MaxFaults, MaxTouches, MaxCrashes  \* bounds
ASSUME MigrationAssumption == NoMigration \notin Migration
ASSUME BoundAssumption == {MaxFaults, MaxTouches, MaxCrashes} \subseteq Nat

VARIABLES
  kind,       \* what is copied: a database or a bucket
  refuses,    \* the bucket's provider refuses an unbound bucket of the name
  want,       \* dataMigration.id of the spec
  wanted,     \* ids the spec had before
  live,       \* ids of resources that exist at the provider
  usable,     \* those that hold what was there before, or a verified copy
  named,      \* named[m]: the bucket with the name of candidates of m, or 0
  source,     \* version (updatedAt) of the source's binding
  active,     \* binding of the target: id, version, marker, previous
  topology,   \* databaseTopology.primary
  candidates, \* candidates[m]: the recorded candidate of migration m, or 0
  at, m, cand, base, partial, \* the handler: its step, migration, candidate, what it read
  orphans,    \* resources no record names, by a known gap
  touched,    \* history: others wrote the target's binding since the
              \* handler read it, or last wrote it back
  ids, faults, touches, crashes  \* counters
spec == <<kind, refuses, want, wanted>>
provider == <<live, usable, named>>
bindings == <<source, active, topology, candidates>>
handler == <<at, m, cand, base, partial>>
counters == <<faults, touches, crashes>>
vars == <<spec, provider, bindings, handler, orphans, touched, ids, counters>>

Binding == [id : Nat, version : Nat, marker : Migration \cup {NoMigration}, previous : Nat,
            nested : SUBSET Nat]

TypeOK ==
  /\ kind \in {"database", "bucket"} /\ want \in Migration /\ wanted \subseteq Migration
  /\ refuses \in BOOLEAN /\ touched \in BOOLEAN
  /\ live \cup usable \subseteq 0..ids
  /\ named \in [Migration -> 0..ids] /\ candidates \in [Migration -> 0..ids]
  /\ source \in Nat /\ active \in Binding /\ topology \in 0..ids
  /\ at \in {"idle", "clean", "create", "record", "copy", "switch", "forget", "discard",
             "topology", "destroy", "drop"}
  /\ m \in Migration \cup {NoMigration} /\ cand \in 0..ids /\ partial \in BOOLEAN
  /\ base \in [active : Binding, source : Nat] /\ orphans \subseteq 0..ids
  /\ ids \in Nat /\ faults \in 0..MaxFaults /\ touches \in 0..MaxTouches
  /\ crashes \in 0..MaxCrashes

(* An environment before any migration, with or without a resource.        *)
Init ==
  /\ kind \in {"database", "bucket"} /\ want \in Migration /\ wanted = {}
  /\ refuses \in BOOLEAN /\ (kind = "database" => ~refuses) /\ touched = FALSE
  /\ \E i \in {0, 1} :
       /\ live = {i} \ {0} /\ usable = {i} \ {0} /\ topology = i
       /\ active = [id |-> i, version |-> 0, marker |-> NoMigration, previous |-> 0, nested |-> {}]
  /\ named = [x \in Migration |-> 0] /\ candidates = [x \in Migration |-> 0]
  /\ source = 0 /\ base = [active |-> active, source |-> 0]
  /\ at = "idle" /\ m = NoMigration /\ cand = 0 /\ partial = FALSE
  /\ orphans = {} /\ ids = 1 /\ faults = 0 /\ touches = 0 /\ crashes = 0

-----------------------------------------------------------------------------
Fault == faults < MaxFaults /\ faults' = faults + 1
Complete == active.marker = want
Goto(step) == at' = step /\ UNCHANGED <<m, cand, base, partial>>
Done == at' = "idle" /\ m' = NoMigration /\ cand' = 0 /\ partial' = FALSE /\ UNCHANGED base

(* The retained candidate a copy has to remove first.  A database's is     *)
(* found under its migration; a bucket has one, and another migration's    *)
(* blocks the copy.                                                        *)
Foreign == kind = "bucket" /\ \E x \in Migration \ {want} : candidates[x] # 0

(* Railway takes no bucket of the project that is not bound: what a        *)
(* creation left, or what was deleted and may still be listed.             *)
Refused == refuses /\ named[want] # 0

(* persistStorageState: a bucket's candidate is written with the whole map *)
(* of bindings as the handler has read it, over what others wrote since.   *)
WriteBack ==
  /\ active' = IF kind = "bucket" THEN base.active ELSE active
  /\ touched' = (kind # "bucket" /\ touched)

(* Mutated form: a retained candidate blocks its own migration, too.       *)
BadStartCopy ==
  /\ at = "idle" /\ ~Complete /\ ~Foreign /\ candidates[want] = 0
  /\ at' = IF candidates[want] # 0 THEN "clean" ELSE "create"
  /\ m' = want /\ cand' = candidates[want] /\ partial' = FALSE
  /\ base' = [active |-> active, source |-> source] /\ touched' = FALSE
  /\ UNCHANGED <<spec, provider, bindings, orphans, ids, counters>>

(* applyDatabaseMigration and applyStorageMigration up to the candidate:   *)
(* identities and bindings are read, and maintenance was verified.         *)
StartCopy ==
  /\ at = "idle" /\ ~Complete /\ ~Foreign
  /\ at' = IF candidates[want] # 0 THEN "clean" ELSE "create"
  /\ m' = want /\ cand' = candidates[want] /\ partial' = FALSE
  /\ base' = [active |-> active, source |-> source] /\ touched' = FALSE
  /\ UNCHANGED <<spec, provider, bindings, orphans, ids, counters>>

(* Mutated form: a candidate is forgotten whether its deletion succeeded.  *)
BadDestroyCandidate(next) ==
  /\ candidates' = [candidates EXCEPT ![m] = 0]
  /\ \/ live' = live \ {cand} /\ Goto(next) /\ UNCHANGED faults
     \/ Fault /\ Done /\ UNCHANGED live

(* destroyDatabaseCandidate, destroyBucket: its record goes after it, or   *)
(* stays when the provider refuses.                                        *)
DestroyCandidate(next) ==
  \/ /\ live' = live \ {cand} /\ candidates' = [candidates EXCEPT ![m] = 0]
     /\ Goto(next) /\ UNCHANGED faults
  \/ Fault /\ Done /\ UNCHANGED <<live, candidates>>

CleanUp ==
  /\ at = "clean" /\ DestroyCandidate("create")
  /\ IF at' = "create" THEN WriteBack ELSE UNCHANGED <<active, touched>>
  /\ UNCHANGED <<spec, usable, named, source, topology, orphans, ids, touches, crashes>>

(* provision, ensureBucket: nothing, or a new resource, or the bucket that *)
(* already has the name, which some provider refuses.  A database created  *)
(* in part is recorded for its removal; of a bucket whose creation failed  *)
(* half-way the handler drops the id it is told.                           *)
Create ==
  /\ at = "create"
  /\ \/ Fault /\ Done /\ UNCHANGED <<provider, orphans, ids>>
     \/ /\ refuses /\ named[m] # 0
        /\ Done /\ UNCHANGED <<provider, orphans, ids, faults>>
     \/ /\ kind = "bucket" /\ ~refuses /\ named[m] \in live
        /\ at' = "record" /\ cand' = named[m]
        /\ UNCHANGED <<provider, orphans, ids, m, base, partial, faults>>
     \/ /\ kind = "bucket" => named[m] \notin live
        /\ ids' = ids + 1 /\ live' = live \cup {ids'} /\ UNCHANGED usable
        /\ named' = IF kind = "bucket" THEN [named EXCEPT ![m] = ids'] ELSE named
        /\ \/ /\ at' = "record" /\ cand' = ids' /\ UNCHANGED <<m, base, orphans>>
              /\ \/ partial' = FALSE /\ UNCHANGED faults
                 \/ kind = "database" /\ partial' = TRUE /\ Fault
           \/ kind = "bucket" /\ Fault /\ Done /\ orphans' = orphans \cup {ids'}
  /\ UNCHANGED <<spec, bindings, touched, touches, crashes>>

RecordCandidate ==
  /\ at = "record"
  /\ candidates' = [candidates EXCEPT ![m] = cand] /\ orphans' = orphans \ {cand}
  /\ WriteBack
  /\ Goto(IF partial THEN "discard" ELSE "copy")
  /\ UNCHANGED <<spec, provider, source, topology, ids, counters>>

(* Mutated form: a copy is taken for verified when it ended.               *)
BadCopy ==
  /\ at = "copy"
  /\ \/ usable' = usable \cup {cand} /\ Goto("switch") /\ UNCHANGED faults
     \/ Goto("switch") /\ Fault /\ UNCHANGED usable
  /\ UNCHANGED <<spec, live, named, bindings, orphans, touched, ids, touches, crashes>>

(* Access to both sides, the copy, its verification, and the release: any  *)
(* failure discards the candidate.                                         *)
Copy ==
  /\ at = "copy"
  /\ \/ usable' = usable \cup {cand} /\ Goto("switch") /\ UNCHANGED faults
     \/ Goto("discard") /\ Fault /\ UNCHANGED usable
  /\ UNCHANGED <<spec, live, named, bindings, orphans, touched, ids, touches, crashes>>

(* Mutated form: the bindings are not read again after the copy.           *)
BadUnchanged == TRUE
Unchanged == /\ source = base.source
             /\ active.id = base.active.id /\ active.version = base.active.version

(* The synchronous end: bindings that changed during the copy refuse it.   *)
(* A bucket switches in one write, which also forgets the candidate; a     *)
(* database in three, of the component, the candidate and the topology.    *)
(* A database's former binding is retained whole, with its own former one; *)
(* a bucket's former one overwrites the one before.  A bucket's refusal    *)
(* ends with the bindings as they are now.                                 *)
Switch ==
  /\ at = "switch"
  /\ IF Unchanged
     THEN /\ active' = [id |-> cand, version |-> active.version + 1, marker |-> m,
                        previous |-> active.id,
                        nested |-> IF kind = "database"
                                   THEN (active.nested \cup {active.previous}) \ {0} ELSE {}]
          /\ orphans' = orphans \cup IF kind = "bucket" THEN {active.previous} \ {0} ELSE {}
          /\ IF kind = "bucket" THEN Done /\ candidates' = [candidates EXCEPT ![m] = 0]
             ELSE Goto("forget") /\ UNCHANGED candidates
     ELSE /\ at' = "discard" /\ UNCHANGED <<m, cand, partial, active, candidates, orphans>>
          /\ base' = IF kind = "bucket" THEN [base EXCEPT !.active = active] ELSE base
  /\ UNCHANGED <<spec, provider, source, topology, touched, ids, counters>>

Forget ==
  /\ at = "forget" /\ Goto("topology")
  /\ candidates' = [candidates EXCEPT ![m] = 0]
  /\ UNCHANGED <<spec, provider, source, active, topology, orphans, touched, ids, counters>>

SetTopology ==
  /\ at = "topology" /\ Done
  /\ topology' = cand
  /\ UNCHANGED <<spec, provider, source, active, candidates, orphans, touched, ids, counters>>

Discard ==
  /\ at = "discard" /\ DestroyCandidate("idle") /\ WriteBack
  /\ UNCHANGED <<spec, usable, named, source, topology, orphans, ids, touches, crashes>>

-----------------------------------------------------------------------------
MayDestroy == Complete /\ active.previous # 0

(* destroyPreviousDatabaseTarget, destroyPreviousStorageTarget: confirmed, *)
(* and offered once the wanted migration is complete.                      *)
StartDestroy ==
  /\ at = "idle" /\ MayDestroy
  /\ at' = "destroy" /\ cand' = IF active.previous # 0 THEN active.previous ELSE active.id
  /\ base' = [active |-> active, source |-> source]
  /\ UNCHANGED <<spec, provider, bindings, m, partial, orphans, touched, ids, counters>>

DestroyPrevious ==
  /\ at = "destroy"
  /\ \/ live' = live \ {cand} /\ Goto("drop") /\ UNCHANGED faults
     \/ Fault /\ Done /\ UNCHANGED live
  /\ UNCHANGED <<spec, usable, named, bindings, orphans, touched, ids, touches, crashes>>

(* The binding is written as it was read before the deletion.              *)
DropPrevious ==
  /\ at = "drop" /\ Done
  /\ active' = [base.active EXCEPT !.previous = 0, !.nested = {}, !.version = active.version + 1]
  /\ orphans' = orphans \cup base.active.nested
  /\ UNCHANGED <<spec, provider, source, topology, candidates, touched, ids, counters>>

-----------------------------------------------------------------------------
(* A migration id is used once.                                            *)
ChangeId ==
  /\ \E x \in Migration \ (wanted \cup {want}) : want' = x /\ wanted' = wanted \cup {want}
  /\ UNCHANGED <<kind, refuses, provider, bindings, handler, orphans, touched, ids, counters>>

(* Another command writes the binding of the source or of the target.      *)
Touch ==
  /\ touches < MaxTouches /\ touches' = touches + 1
  /\ \/ source' = source + 1 /\ UNCHANGED <<active, touched>>
     \/ /\ active.id # 0 /\ active' = [active EXCEPT !.version = @ + 1]
        /\ touched' = TRUE /\ UNCHANGED source
  /\ UNCHANGED <<spec, provider, topology, candidates, handler, orphans, ids, faults, crashes>>

Crash ==
  /\ at # "idle" /\ crashes < MaxCrashes /\ crashes' = crashes + 1 /\ Done
  /\ orphans' = orphans \cup IF at = "record" THEN {cand} ELSE {}
  /\ UNCHANGED <<spec, provider, bindings, touched, ids, faults, touches>>

Proceed ==
  \/ CleanUp \/ Create \/ RecordCandidate \/ Copy \/ Switch \/ Forget \/ SetTopology
  \/ Discard \/ DestroyPrevious \/ DropPrevious
Next == StartCopy \/ StartDestroy \/ Proceed \/ ChangeId \/ Touch \/ Crash

(* Handlers go on, and a user applies an unfinished migration again.       *)
Spec == Init /\ [][Next]_vars /\ WF_vars(Proceed) /\ WF_vars(StartCopy)

-----------------------------------------------------------------------------
(* What the target is bound to exists and holds its former data or a       *)
(* verified copy, at every moment: no failure, no candidate's clean-up and *)
(* no confirmed deletion takes the active resource away.                   *)
ActiveIsUsable == active.id # 0 => active.id \in live \cap usable

(* A former target is there until its deletion was confirmed.              *)
PreviousIsRetained ==
  active.previous # 0 /\ crashes = 0 => active.previous \in live \/ at = "drop"

(* Every resource a migration made is on record, wherever it stopped:      *)
(* bound, retained, or a candidate; but for one created right before a     *)
(* crash, a bucket whose creation failed half-way (its id is dropped,      *)
(* apply-data-migration.ts:611), and the former target of a former target. *)
NothingForgotten ==
  at = "idle" => \A i \in live :
    \/ i \in {active.id, active.previous} \cup active.nested \cup orphans
    \/ \E x \in Migration : candidates[x] = i

(* A candidate's record never names a resource in use: the next run's      *)
(* clean-up would delete it.                                               *)
CandidateIsNotInUse ==
  at = "idle" /\ crashes = 0 =>
    \A x \in Migration : candidates[x] # 0 => candidates[x] \notin {active.id, active.previous}

(* What records name is there and theirs: no resource is lost from them,   *)
(* and none they offer for deletion is in use or gone.                     *)
RecordsAreTrue == NothingForgotten /\ CandidateIsNotInUse /\ PreviousIsRetained

(* The binding switches only from what the handler had read, for a source  *)
(* nobody touched meanwhile.  Nobody touched the target either since it    *)
(* was read or, for a bucket, since the handler last wrote its map of      *)
(* bindings back: a rebinding before that is undone, and not noticed.      *)
SwitchesOnlyUnchanged ==
  [][active'.id # active.id =>
       /\ source = base.source /\ active = base.active /\ ~touched
       /\ active'.previous = base.active.id]_vars

(* A migration applied until it is done gets done, after finitely many     *)
(* failures and changes of mind, unless another bucket's candidate blocks  *)
(* or the provider refuses the name of a bucket it knows already.          *)
MigrationCompletes == <>[](Complete \/ Foreign \/ Refused)
=============================================================================
