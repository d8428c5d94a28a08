----------------------------- MODULE PlanApply -----------------------------
(***************************************************************************)
(* The plan/apply handshake of one project.  Commands (hv_spec, hv_plan,   *)
(* hv_apply, hv_deploy) run concurrently, in one MCP server or in several  *)
(* processes, and share the SQLite run table.  hv_plan persists what it    *)
(* saw; hv_apply reads the spec revision, observes again, and only then    *)
(* asks the table for the right to change the environment.                 *)
(*                                                                         *)
(* Each action is the code between two awaits (or two SQL transactions).   *)
(* The action list of a plan is abstracted to whether it is all noop: the  *)
(* module ConvergeExecutor models the loop over it.                        *)
(***************************************************************************)
EXTENDS Naturals

CONSTANTS
  Command,      \* concurrent command invocations
  Deployer,     \* the ones that are hv_deploy
  Crashable,    \* the ones whose process may die
  Throwing,     \* the ones whose writes to a run row may throw
  Env,          \* environments of the project
  Integrated,   \* environments using Stripe, email or messaging
  Opaque,       \* environments whose provider may fail to answer
  Aging,        \* plans that may reach their maximum age
  PlanRun,      \* ids of plan rows
  ApplyRun,     \* ids of apply rows
  None,         \* absent value
  Unknown,      \* observation without a provider answer
  MaxRevision, MaxWrites, MaxDrift   \* bounds of the counters

ASSUME SubsetAssumption ==
  /\ Deployer \subseteq Command /\ Crashable \subseteq Command /\ Throwing \subseteq Command
  /\ Integrated \subseteq Env /\ Opaque \subseteq Env /\ Aging \subseteq PlanRun
ASSUME NoneAssumption ==
  None \notin PlanRun /\ None \notin ApplyRun /\ None \notin Env
ASSUME BoundAssumption ==
  MaxRevision \in Nat /\ MaxWrites \in Nat /\ MaxDrift \in Nat

VARIABLES
  revision,     \* latest row of the spec journal
  tracked,      \* environments that have a local row
  writes,       \* writes[e]: changes of Hypervibe to e that its fingerprint shows
  unseen,       \* unseen[e]: those the fingerprint leaves out
  drift,        \* drift[e]: changes of anyone else that it shows
  integration,  \* integration[e]: version of e's Stripe/email/messaging state
  plans,        \* plan rows
  applies,      \* apply rows
  session,      \* what each command has read so far
  history       \* history[a]: what a's command saw, writes before a's first, and
                \* whether its command left it running
store == <<revision, tracked, plans, applies>>
world == <<writes, unseen, drift, integration>>
vars == <<store, world, session, history>>

(* fingerprintObservedState: the services, databases, caches, storage and  *)
(* maintenance of the hosting observation.  Repository files and pull      *)
(* requests, DNS, load balancers, CI and connections leave it as it was.   *)
Live(e) == <<writes[e], drift[e]>>
Observations(e) == {Live(e)} \cup (IF e \in Opaque THEN {Unknown} ELSE {})
Fingerprint == (Nat \X Nat) \cup {Unknown, None}
(* "failed" stands for blocked and pending too: none of them ends the plan. *)
Final == {"succeeded", "failed"}

NoApply == [status |-> "none", plan |-> None, env |-> None, locks |-> {}]
Idle == [phase |-> "idle", env |-> None, plan |-> None, planned |-> 0, rev |-> 0,
         hosting |-> None, integration |-> None, run |-> None]

PlanDoc == [env : Env, rev : Nat, hosting : Fingerprint, integration : Nat \cup {None},
            locks : SUBSET Env, noop : BOOLEAN, expired : BOOLEAN]
ApplyRow == [status : {"none", "running"} \cup Final, plan : PlanRun \cup {None},
             env : Env \cup {None}, locks : SUBSET Env]
Phase == {"idle", "deploying", "planning", "observed", "planned", "applying",
          "integrated", "reobserved", "executing", "forcing"}
Session == [phase : Phase, env : Env \cup {None}, plan : PlanRun \cup {None},
            planned : Nat, rev : Nat, hosting : Fingerprint,
            integration : Nat \cup {None}, run : ApplyRun \cup {None}]
Record == [seen : Fingerprint, began : Nat \cup {None}, left : BOOLEAN]

ASSUME DocAssumption == None \notin PlanDoc

TypeOK ==
  /\ revision \in Nat
  /\ tracked \subseteq Env
  /\ {writes, unseen, drift, integration} \subseteq [Env -> Nat]
  /\ plans \in [PlanRun -> PlanDoc \cup {None}]
  /\ applies \in [ApplyRun -> ApplyRow]
  /\ session \in [Command -> Session]
  /\ history \in [ApplyRun -> Record]

Init ==
  /\ revision = 1
  /\ tracked \in SUBSET Env
  /\ writes = [e \in Env |-> 0] /\ unseen = [e \in Env |-> 0]
  /\ drift = [e \in Env |-> 0] /\ integration = [e \in Env |-> 0]
  /\ plans = [p \in PlanRun |-> None]
  /\ applies = [a \in ApplyRun |-> NoApply]
  /\ session = [c \in Command |-> Idle]
  /\ history = [a \in ApplyRun |-> [seen |-> None, began |-> None, left |-> FALSE]]

In(c, phase) == session[c].phase = phase
Become(c, s) == session' = [session EXCEPT ![c] = s]
Return(c) == Become(c, Idle)

-----------------------------------------------------------------------------
(* hv_spec: a new journal row; SpecStore models what is inside.            *)
WriteSpec(c) ==
  /\ In(c, "idle") /\ revision < MaxRevision
  /\ revision' = revision + 1
  /\ UNCHANGED <<tracked, plans, applies, world, session, history>>

(* A console user or another tool changes what the providers hold.         *)
DriftHosting(e) ==
  /\ drift[e] + integration[e] < MaxDrift
  /\ drift' = [drift EXCEPT ![e] = @ + 1]
  /\ UNCHANGED <<store, writes, unseen, integration, session, history>>

DriftIntegration(e) ==
  /\ e \in Integrated /\ drift[e] + integration[e] < MaxDrift
  /\ integration' = [integration EXCEPT ![e] = @ + 1]
  /\ UNCHANGED <<store, writes, unseen, drift, session, history>>

(* A plan passes its maximum age of 24h.                                   *)
Expire(p) ==
  /\ p \in Aging /\ plans[p] # None /\ ~plans[p].expired
  /\ plans' = [plans EXCEPT ![p] = [@ EXCEPT !.expired = TRUE]]
  /\ UNCHANGED <<revision, tracked, applies, world, session, history>>

-----------------------------------------------------------------------------
(* hv_deploy reads the spec and makes sure the environment has a row; then *)
(* it plans and applies that plan in one command.                          *)
StartDeploy(c, e) ==
  /\ c \in Deployer /\ In(c, "idle")
  /\ Become(c, [Idle EXCEPT !.phase = "deploying", !.env = e, !.rev = revision])
  /\ tracked' = tracked \cup {e}
  /\ UNCHANGED <<revision, plans, applies, world, history>>

(* PlanService.plan reads the spec; its first await follows.               *)
StartPlan(c, e) ==
  /\ IF c \in Deployer THEN In(c, "deploying") /\ session[c].env = e ELSE In(c, "idle")
  /\ Become(c, [session[c] EXCEPT !.phase = "planning", !.env = e, !.planned = revision])
  /\ UNCHANGED <<store, world, history>>

(* No row, no observation; a provider that cannot answer yields Unknown.   *)
PlanObserve(c) ==
  /\ In(c, "planning")
  /\ LET e == session[c].env IN
       \E seen \in IF e \in tracked THEN Observations(e) ELSE {None} :
         Become(c, [session[c] EXCEPT !.hosting = seen,
                      !.phase = IF e \in Integrated THEN "observed" ELSE "planned"])
  /\ UNCHANGED <<store, world, history>>

(* Only where the environment uses one; a plan filtered to some services   *)
(* leaves them out.                                                        *)
PlanIntegrations(c) ==
  /\ In(c, "observed")
  /\ \E seen \in {integration[session[c].env], None} :
       Become(c, [session[c] EXCEPT !.phase = "planned", !.integration = seen])
  /\ UNCHANGED <<store, world, history>>

(* Mutated form: a phase no step continues from.                           *)
BadApplying(e) == "checked"

Applying(e) == IF e \in Integrated THEN "applying" ELSE "integrated"

(* The plan row is the answer of hv_plan; hv_deploy goes on to apply it    *)
(* with the revision it read itself.                                       *)
Persist(c, p, doc) ==
  /\ plans[p] = None
  /\ plans' = [plans EXCEPT ![p] = doc]
  /\ tracked' = tracked \cup {doc.env}
  /\ Become(c, IF c \in Deployer
               THEN [Idle EXCEPT !.phase = Applying(doc.env), !.plan = p, !.env = doc.env,
                                 !.rev = session[c].rev]
               ELSE Idle)
  /\ UNCHANGED <<revision, applies, world, history>>

(* A pending data migration also locks its source environment.  Creating   *)
(* the row of an environment first seen untracked fails if another command *)
(* created it meanwhile (UNIQUE(project_id, name)); see Decline.  A plan   *)
(* for an untracked environment creates it, so it is never all noop.       *)
PersistPlan(c, p) ==
  LET s == session[c] IN
  /\ In(c, "planned")
  /\ s.hosting = None => s.env \notin tracked
  /\ \E source \in SUBSET (tracked \ {s.env}), noop \in BOOLEAN :
       /\ \A e, f \in source : e = f
       /\ noop => s.hosting # None
       /\ Persist(c, p, [env |-> s.env, rev |-> s.planned, hosting |-> s.hosting,
                         integration |-> s.integration, locks |-> source,
                         noop |-> noop, expired |-> FALSE])

(* The repository stage observes no hosting and plans one real action.     *)
PersistRepositoryPlan(c, p) ==
  /\ In(c, "planning")
  /\ Persist(c, p, [env |-> session[c].env, rev |-> session[c].planned,
                    hosting |-> None, integration |-> None, locks |-> {},
                    noop |-> FALSE, expired |-> FALSE])

-----------------------------------------------------------------------------
(* hv_apply reads the revision and loads the plan before its first await.  *)
StartApply(c, p) ==
  /\ c \notin Deployer /\ In(c, "idle") /\ plans[p] # None
  /\ Become(c, [Idle EXCEPT !.phase = Applying(plans[p].env), !.plan = p,
                             !.env = plans[p].env, !.rev = revision])
  /\ UNCHANGED <<store, world, history>>

ApplyIntegrations(c) ==
  /\ In(c, "applying")
  /\ Become(c, [session[c] EXCEPT !.phase = "integrated",
                                  !.integration = integration[session[c].env]])
  /\ UNCHANGED <<store, world, history>>

ApplyObserve(c) ==
  /\ In(c, "integrated")
  /\ \E seen \in Observations(session[c].env) :
       Become(c, [session[c] EXCEPT !.phase = "reobserved", !.hosting = seen])
  /\ UNCHANGED <<store, world, history>>

(* Mutated forms: the spec check, then the fingerprint check, is dropped.  *)
BadFreshRevision(c) ==
  LET doc == plans[session[c].plan] IN
  ~doc.expired /\ doc.hosting \in {None, session[c].hosting}

BadFreshHosting(c) ==
  LET doc == plans[session[c].plan] IN ~doc.expired /\ doc.rev = session[c].rev

(* The staleness checks ConvergeExecutor.execute starts with.              *)
Fresh(c) ==
  LET doc == plans[session[c].plan] IN
  /\ ~doc.expired
  /\ doc.rev = session[c].rev
  /\ doc.hosting \in {None, session[c].hosting}
  /\ doc.integration \in {None, session[c].integration}

Requested(p) == {plans[p].env} \cup plans[p].locks

(* Mutated form: an earlier success is not looked for.                     *)
BadApplied(p) == FALSE

Applied(p) == \E a \in ApplyRun : applies[a].status = "succeeded" /\ applies[a].plan = p

(* Mutated forms: the source environments are forgotten; only an apply of  *)
(* the same plan conflicts.                                                *)
BadConflictingSource(p) ==
  \E a \in ApplyRun : applies[a].status = "running" /\ applies[a].env = plans[p].env

BadConflictingPlan(p) ==
  \E a \in ApplyRun : applies[a].status = "running" /\ applies[a].plan = p

Conflicting(p) ==
  \E a \in ApplyRun : /\ applies[a].status = "running"
                      /\ \/ applies[a].env \in Requested(p)
                         \/ applies[a].locks \cap Requested(p) # {}

Admitted(c) ==
  Fresh(c) /\ ~Applied(session[c].plan) /\ ~Conflicting(session[c].plan)

(* Mutated form: the row of an ended apply is used again.                  *)
BadReserve(c, a) ==
  LET p == session[c].plan IN
  /\ In(c, "reobserved") /\ applies[a].status # "running"
  /\ Admitted(c)
  /\ applies' = [applies EXCEPT ![a] = [status |-> "running", plan |-> p,
                                        env |-> plans[p].env, locks |-> Requested(p)]]
  /\ Become(c, [Idle EXCEPT !.phase = "executing", !.plan = p,
                             !.env = plans[p].env, !.run = a])
  /\ history' = [history EXCEPT ![a] = [@ EXCEPT !.seen = session[c].hosting]]
  /\ UNCHANGED <<revision, tracked, plans, world>>

(* reserveApply: the conflict checks and the insert are one transaction.   *)
Reserve(c, a) ==
  LET p == session[c].plan IN
  /\ In(c, "reobserved") /\ applies[a].status = "none"
  /\ Admitted(c)
  /\ applies' = [applies EXCEPT ![a] = [status |-> "running", plan |-> p,
                                        env |-> plans[p].env, locks |-> Requested(p)]]
  /\ Become(c, [Idle EXCEPT !.phase = "executing", !.plan = p,
                             !.env = plans[p].env, !.run = a])
  /\ history' = [history EXCEPT ![a] = [@ EXCEPT !.seen = session[c].hosting]]
  /\ UNCHANGED <<revision, tracked, plans, world>>

Reject(c) ==
  /\ In(c, "reobserved") /\ ~Admitted(c)
  /\ Return(c)
  /\ UNCHANGED <<store, world, history>>

(* Any early return or exception before the reservation.                   *)
Decline(c) ==
  /\ session[c].phase \in {"deploying", "planning", "observed", "planned",
                           "applying", "integrated", "reobserved"}
  /\ Return(c)
  /\ UNCHANGED <<store, world, history>>

-----------------------------------------------------------------------------
(* A handler changes the plan's environment, or the migration source: what *)
(* the fingerprint of its hosting shows, or what it leaves out.            *)
Change(e) ==
  /\ writes[e] + unseen[e] < MaxWrites
  /\ \/ writes' = [writes EXCEPT ![e] = @ + 1] /\ UNCHANGED unseen
     \/ unseen' = [unseen EXCEPT ![e] = @ + 1] /\ UNCHANGED writes
  /\ \E i \in IF e \in Integrated THEN {integration[e], integration[e] + 1}
                                  ELSE {integration[e]} :
       integration' = [integration EXCEPT ![e] = i]
  /\ UNCHANGED <<store, drift, session>>

(* Mutated form: the handler does not keep to the locked environments.     *)
BadWrite(c, e) ==
  /\ In(c, "executing") /\ ~plans[session[c].plan].noop
  /\ Change(e)
  /\ UNCHANGED history

Write(c, e) ==
  LET a == session[c].run IN
  /\ In(c, "executing") /\ e \in applies[a].locks /\ ~plans[session[c].plan].noop
  /\ Change(e)
  /\ history' = IF history[a].began = None /\ e = session[c].env /\ writes' # writes
                THEN [history EXCEPT ![a] = [@ EXCEPT !.began = writes[e]]]
                ELSE history

(* Mutated form: an exit without success does not update its row.          *)
BadSettle(c, status) ==
  /\ In(c, "executing")
  /\ plans[session[c].plan].noop => status = "succeeded"
  /\ applies' = IF status = "failed" THEN applies
                ELSE [applies EXCEPT ![session[c].run].status = status]
  /\ Return(c)
  /\ UNCHANGED <<revision, tracked, plans, world, history>>

(* The loop ends and updateStatus releases the environments.  hv_deploy    *)
(* then runs its bootstrap when the plan asked for nothing.                *)
Settle(c, status) ==
  LET a == session[c].run
      noop == plans[session[c].plan].noop
  IN
  /\ In(c, "executing")
  /\ noop => status = "succeeded"
  /\ applies' = [applies EXCEPT ![a] = [@ EXCEPT !.status = status]]
  /\ Become(c, IF c \in Deployer /\ noop
               THEN [Idle EXCEPT !.phase = "forcing", !.env = session[c].env]
               ELSE Idle)
  /\ UNCHANGED <<revision, tracked, plans, world, history>>

ForcedWrite(c) ==
  /\ In(c, "forcing")
  /\ Change(session[c].env)
  /\ UNCHANGED history

ForcedReturn(c) ==
  /\ In(c, "forcing")
  /\ Return(c)
  /\ UNCHANGED <<store, world, history>>

(* The row of an executing command stays as it is.                         *)
Leave(c) ==
  history' = IF In(c, "executing") THEN [history EXCEPT ![session[c].run] = [@ EXCEPT !.left = TRUE]]
             ELSE history

(* addReceipt or updateStatus throws: so does execute, after the handlers  *)
(* that have run, and the command ends with the error.                     *)
Throw(c) ==
  /\ c \in Throwing /\ In(c, "executing")
  /\ Return(c) /\ Leave(c)
  /\ UNCHANGED <<store, world>>

(* The process dies: its reads are gone, its rows stay.                    *)
Crash(c) ==
  /\ c \in Crashable /\ ~In(c, "idle")
  /\ Return(c) /\ Leave(c)
  /\ UNCHANGED <<store, world>>

-----------------------------------------------------------------------------
Outside ==
  \/ \E e \in Env : DriftHosting(e) \/ DriftIntegration(e)
  \/ \E p \in PlanRun : Expire(p)

Start(c) ==
  \/ WriteSpec(c)
  \/ \E e \in Env : StartDeploy(c, e)
  \/ c \notin Deployer /\ \E e \in Env : StartPlan(c, e)
  \/ \E p \in PlanRun : StartApply(c, p)

(* What the event loop runs of a started command without being asked.      *)
Proceed(c) ==
  \/ c \in Deployer /\ \E e \in Env : StartPlan(c, e)
  \/ PlanObserve(c) \/ PlanIntegrations(c)
  \/ \E p \in PlanRun : PersistPlan(c, p) \/ PersistRepositoryPlan(c, p)
  \/ ApplyIntegrations(c) \/ ApplyObserve(c)
  \/ \E a \in ApplyRun : Reserve(c, a)
  \/ Reject(c) \/ Decline(c)
  \/ \E e \in Env : Write(c, e)
  \/ \E status \in Final : Settle(c, status)
  \/ ForcedWrite(c) \/ ForcedReturn(c)

Next == Outside \/ \E c \in Command : Start(c) \/ Proceed(c) \/ Throw(c) \/ Crash(c)

Spec == Init /\ [][Next]_vars

(* Every await returns, so a started command reaches its end.              *)
Fairness == \A c \in Command : WF_vars(Proceed(c))
FairSpec == Spec /\ Fairness

-----------------------------------------------------------------------------
(* Two running applies never hold a common environment, the migration      *)
(* source included (reserveApply's conflict check).                        *)
Running(a) == applies[a].status = "running"
LeaseExclusion ==
  \A a, b \in ApplyRun :
    a # b /\ Running(a) /\ Running(b) => applies[a].locks \cap applies[b].locks = {}

(* A plan has at most one successful apply, and an apply still running is  *)
(* never of a plan that has already succeeded: the status update that ends *)
(* it cannot break the unique index over succeeded plans.                  *)
PlanSucceedsOnce ==
  \A a, b \in ApplyRun :
    /\ a # b /\ applies[a].plan = applies[b].plan /\ applies[a].status = "succeeded"
    => applies[b].status \notin {"succeeded", "running"}

(* Environments whose provider resources command c may change right now.   *)
MayChange(c) ==
  CASE In(c, "executing") -> applies[session[c].run].locks
    [] In(c, "forcing")   -> {session[c].env}
    [] OTHER              -> {}

(* At most one command is changing an environment at any time: what the    *)
(* comment over the unique indexes of migration 11 says of applies.        *)
OneMutatorPerEnvironment ==
  \A c, d \in Command : c # d => MayChange(c) \cap MayChange(d) = {}

(* A plan that knew the live state is never applied again by a command     *)
(* that looked after an earlier attempt of it had changed what fingerprints*)
(* show of the environment, whatever the outcome of that attempt was.      *)
NoReplayAfterChange ==
  \A a, b \in ApplyRun :
    LET p == applies[a].plan IN
    ( /\ a # b /\ p # None /\ applies[b].plan = p
      /\ plans[p].hosting \notin {None, Unknown}
      /\ history[a].began # None )
    => /\ history[b].seen # Unknown
       /\ history[b].seen[1] <= history[a].began

(* An apply row is written by its own command only: once it has ended it   *)
(* keeps its outcome, and while it runs its plan and lease never change.   *)
RowsKept ==
  \A a \in ApplyRun : applies[a].status # "none" =>
    /\ [applies'[a] EXCEPT !.status = ""] = [applies[a] EXCEPT !.status = ""]
    /\ applies'[a].status # applies[a].status =>
         Running(a) /\ \E c \in Command : In(c, "executing") /\ session[c].run = a
RowsAreSettledOnce == [][RowsKept]_vars

(* Hypervibe changes an environment only under a running apply that locks  *)
(* it (the refinement to MutationLease), never in a rejected one.          *)
Lease == INSTANCE MutationLease WITH
  writes <- [e \in Env |-> writes[e] + unseen[e]],
  lease <- [a \in ApplyRun |-> IF Running(a) THEN applies[a].locks ELSE {}],
  work <- [a \in ApplyRun |-> applies[a].plan],
  done <- {applies[a].plan : a \in {b \in ApplyRun : applies[b].status = "succeeded"}}
ImplementsLease == Lease!Spec

(* Every reservation ends, so that its environments become available       *)
(* again, or its command died or could not write to its row.               *)
EveryApplyEnds == \A a \in ApplyRun : Running(a) ~> ~Running(a) \/ history[a].left

(* A started command comes back to its caller.                             *)
EveryCommandReturns == \A c \in Command : ~In(c, "idle") ~> In(c, "idle")

(* Nothing started stays open: not a command, and not its reservation      *)
(* unless its process or its database failed it.                           *)
EverythingEnds == EveryApplyEnds /\ EveryCommandReturns

-----------------------------------------------------------------------------
(* Why the properties above are invariant: a row keeps the plan and lease  *)
(* it was inserted with, and an executing command owns a running row.      *)
RowsMatchPlans ==
  \A a \in ApplyRun :
    IF applies[a].status = "none" THEN applies[a] = NoApply
    ELSE LET p == applies[a].plan IN
         /\ p \in PlanRun /\ plans[p] # None
         /\ applies[a].env = plans[p].env /\ applies[a].locks = Requested(p)

SessionsMatchRows ==
  \A c \in Command :
    LET s == session[c] IN
    /\ s.phase # "idle" => s.env \in Env
    /\ s.phase \in {"applying", "integrated", "reobserved"} =>
         s.plan \in PlanRun /\ plans[s.plan] # None
    /\ s.phase = "executing" =>
         s.run \in ApplyRun /\ Running(s.run) /\ applies[s.run].plan = s.plan
    /\ s.phase = "forcing" => c \in Deployer

(* A row still running has a command that executes it, unless that command *)
(* died or could not write to it.                                          *)
NoRowForgotten ==
  \A a \in ApplyRun : Running(a) =>
    history[a].left \/ \E c \in Command : In(c, "executing") /\ session[c].run = a

OneCommandPerRow ==
  \A c, d \in Command :
    c # d /\ In(c, "executing") /\ In(d, "executing") => session[c].run # session[d].run

IInv ==
  /\ TypeOK /\ RowsMatchPlans /\ SessionsMatchRows /\ OneCommandPerRow
  /\ LeaseExclusion /\ PlanSucceedsOnce

Reserves(a) == applies[a].status = "none" /\ applies'[a].status = "running"

(* hv_apply never starts on a plan whose spec revision is superseded.      *)
SupersededPlanRejected ==
  [][\A a \in ApplyRun : Reserves(a) => plans[applies'[a].plan].rev = revision]_vars

(* hv_apply never starts on a plan if the fingerprints it carries are not  *)
(* those of the environment now.                                           *)
OutdatedPlanRejected ==
  [][\A a \in ApplyRun : Reserves(a) =>
       LET doc == plans[applies'[a].plan] IN
       /\ doc.hosting \in {None, Unknown, Live(doc.env)}
       /\ doc.integration \in {None, integration[doc.env]}]_vars

(* Others do not change the environment between the last looks of an apply *)
(* and its reservation: no check could notice that.                        *)
Calm ==
  \/ <<drift', integration'>> = <<drift, integration>>
  \/ \A c \in Command : session[c].phase \notin {"integrated", "reobserved"}

(* docs/TOOLS.md:11, for one command at a time: hv_apply rejects a plan if *)
(* the spec changed since, or the infrastructure its fingerprints cover.   *)
StalePlanRejected == SupersededPlanRejected /\ OutdatedPlanRejected
=============================================================================
