--------------------------- MODULE RuntimeRollout ---------------------------
(***************************************************************************)
(* What hv_status says about configuration that waits for a deployment     *)
(* (runtime-rollout.service.ts): an apply whose provider acknowledged such *)
(* a change records, after its row is settled, the deployment that was the *)
(* latest when the handler looked. For a deferred write the handler looks  *)
(* after the write; for a write the provider deploys, for a deletion, and  *)
(* where a receipt has no baseline, what was seen before it counts. CI     *)
(* deploys meanwhile. One service; the provider and CI are external.       *)
(***************************************************************************)
EXTENDS Naturals

CONSTANTS Apply, MaxWrites, MaxDeploys, MaxUnread

VARIABLES
  config,   \* version of the configuration at the provider
  latest,   \* the latest deployment: its id (0 if there is none), the version it carries, its status
  apply,    \* apply[a]: its stage, the baseline of its last receipt, its last version
  rollout,  \* platformBindings.runtimeRollouts of the service
  raced,    \* whether CI deployed between an early look and its write
  unread    \* looks that failed
vars == <<config, latest, apply, rollout, raced, unread>>

Assumption == {MaxWrites, MaxDeploys, MaxUnread} \subseteq Nat

None == [baseline |-> 0, known |-> TRUE, version |-> 0]
Baseline == [baseline : 0 .. latest.id, known : BOOLEAN, version : 0 .. config]

TypeOK ==
  /\ config \in Nat /\ raced \in BOOLEAN /\ unread \in 0 .. MaxUnread
  /\ latest.carries <= config /\ latest.id \in Nat /\ latest.status \in {"none", "building", "running", "failed"}
  /\ \A a \in Apply :
       /\ apply[a].stage \in {"idle", "open", "early", "late", "stuck", "settled", "done"}
       /\ apply[a].receipt \in Baseline
  /\ rollout \in Baseline

Init ==
  /\ config = 0 /\ raced = FALSE /\ unread = 0
  /\ latest \in {[id |-> 0, carries |-> 0, status |-> "none"], [id |-> 1, carries |-> 0, status |-> "running"]}
  /\ apply = [a \in Apply |-> [stage |-> "idle", receipt |-> None]]
  /\ rollout = None

Stage(a, s) == apply' = [apply EXCEPT ![a].stage = s]
Holds(a) == apply[a].stage \in {"open", "early", "late", "stuck"}

(* The reservation of the environment.                                     *)
Begin(a) ==
  /\ apply[a].stage = "idle" /\ ~\E b \in Apply : Holds(b)
  /\ Stage(a, "open")
  /\ UNCHANGED <<config, latest, rollout, raced, unread>>

(* getServiceInstanceDetails: the latest deployment, none, or unknown.     *)
(* Mutated form: what was seen for the previous write is kept. *)
BadLook(a, s) ==
  /\ apply' = [apply EXCEPT ![a] = [stage |-> s, receipt |->
       IF @.receipt = None THEN [baseline |-> latest.id, known |-> TRUE, version |-> @.receipt.version] ELSE @.receipt]]
  /\ UNCHANGED unread
Look(a, s) ==
  \E known \in BOOLEAN :
    /\ ~known => unread < MaxUnread
    /\ unread' = IF known THEN unread ELSE unread + 1
    /\ apply' = [apply EXCEPT ![a] = [stage |-> s, receipt |->
         [baseline |-> IF known THEN latest.id ELSE 0, known |-> known, version |-> @.receipt.version]]]

LookEarly(a) ==
  /\ apply[a].stage = "open" /\ config < MaxWrites
  /\ Look(a, "early") /\ UNCHANGED <<config, latest, rollout, raced>>

Write(a) ==
  /\ config' = config + 1
  /\ apply' = [apply EXCEPT ![a].receipt.version = config', ![a].stage = IF @ = "early" THEN "open" ELSE "late"]

Build(version) ==
  /\ latest.id < MaxDeploys
  /\ latest' = [id |-> latest.id + 1, carries |-> version, status |-> "building"]

(* The provider deploys the change itself, or leaves that for later.       *)
EarlyWrite(a) ==
  /\ apply[a].stage = "early" /\ Write(a)
  /\ \/ UNCHANGED latest
     \/ Build(config')
  /\ UNCHANGED <<rollout, raced, unread>>

DeferredWrite(a) ==
  /\ apply[a].stage = "open" /\ config < MaxWrites
  /\ Write(a) /\ UNCHANGED <<latest, rollout, raced, unread>>

LookLate(a) ==
  /\ apply[a].stage = "late" /\ Look(a, "open") /\ UNCHANGED <<config, latest, rollout, raced>>

(* The apply row is settled: the next apply may begin.                     *)
Settle(a) ==
  /\ apply[a].stage = "open" /\ Stage(a, "settled")
  /\ UNCHANGED <<config, latest, rollout, raced, unread>>

(* recordRuntimeRolloutRequirements, on the current row.                   *)
Record(a) ==
  /\ apply[a].stage = "settled" /\ Stage(a, "done")
  /\ rollout' = IF apply[a].receipt.version = 0 THEN rollout ELSE apply[a].receipt
  /\ UNCHANGED <<config, latest, raced, unread>>

(* The process dies. If its row is not settled, the reservation stays.     *)
Die(a) ==
  /\ apply[a].stage \notin {"idle", "done", "stuck"}
  /\ Stage(a, IF Holds(a) THEN "stuck" ELSE "done")
  /\ UNCHANGED <<config, latest, rollout, raced, unread>>

(* CI builds what the provider is configured with.                         *)
Deploy ==
  /\ Build(config)
  /\ raced' = (raced \/ \E a \in Apply : apply[a].stage = "early")
  /\ UNCHANGED <<config, apply, rollout, unread>>

Finish ==
  /\ latest.status = "building"
  /\ \E status \in {"running", "failed"} : latest' = [latest EXCEPT !.status = status]
  /\ UNCHANGED <<config, apply, rollout, raced, unread>>

Next ==
  \/ \E a \in Apply : \/ Begin(a) \/ LookEarly(a) \/ EarlyWrite(a) \/ DeferredWrite(a) \/ LookLate(a)
                      \/ Settle(a) \/ Record(a) \/ Die(a)
  \/ Deploy \/ Finish

Spec == Init /\ [][Next]_vars

-----------------------------------------------------------------------------
(* rolloutCompleted, for a complete observation of the latest deployment.  *)
Completed ==
  /\ latest.status = "running"
  /\ rollout.known /\ rollout.baseline # latest.id

(* Hazard: CI, other applies and failed looks between a write and its      *)
(* record. A requirement is taken for met only when the running deployment *)
(* carries the change it was recorded for, unless CI deployed between an   *)
(* early look and its write.                                               *)
MetMeansCarried ==
  rollout.version > 0 /\ Completed /\ ~raced => latest.carries >= rollout.version
=============================================================================
