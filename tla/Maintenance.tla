----------------------------- MODULE Maintenance ----------------------------
(***************************************************************************)
(* Environment maintenance: hv_plan turns the desired flag and what it     *)
(* observes into a chain of steps, hv_apply runs them one at a time, each  *)
(* with a fresh observation of its own, and the environment's binding says *)
(* how to undo them.  On entry the edge answers 503 first, workloads stop  *)
(* in the order cron, worker, web, and the database is fenced last; on     *)
(* exit the database is unfenced first and the edge removed last.          *)
(*                                                                         *)
(* One apply at a time has the environment (PlanApply), but the process    *)
(* may die between any two of its steps, and users act on the provider.    *)
(***************************************************************************)
EXTENDS Naturals, Sequences

CONSTANTS
  Cron, Worker, Web,  \* the workloads of the environment
  Order,              \* the sequence of them in which they are stopped
  Database,           \* whether it has a PostgreSQL database
  Stopped,            \* workloads that may be stopped when nobody asked for maintenance
  Mortal,             \* whether the process may die
  Torn,               \* whether a new edge may be cut off before its id is saved
  MaxFlips, MaxFaults, MaxDrift  \* bounds

Workload == Cron \cup Worker \cup Web
Assumption ==
  /\ Order \in Seq(Workload) /\ \A w \in Workload : \E k \in 1..Len(Order) : Order[k] = w
  /\ Stopped \subseteq Workload
  /\ Database \in BOOLEAN /\ Mortal \in BOOLEAN /\ Torn \in BOOLEAN
  /\ {MaxFlips, MaxFaults, MaxDrift} \subseteq Nat

VARIABLES
  want,     \* maintenance.enabled of the spec
  route,    \* id of the worker route in front of the domain, 0 if there is none
  marker,   \* whether the domain answers with the 503 marker
  running,  \* workloads that run
  fenced,   \* whether the database refuses writes
  binding,  \* platformBindings.maintenance
  todo, at, \* steps the apply still has to run, and where it is in the first
  mine,     \* workloads stopped by Hypervibe
  before,   \* workloads that would run without maintenance
  lastRoute, flips, faults, drift  \* counters
provider == <<route, marker, running, fenced, lastRoute>>
apply == <<todo, at>>
history == <<mine, before>>
counters == <<flips, faults, drift>>
vars == <<want, provider, binding, apply, history, counters>>

NoBinding == [state |-> "none", edge |-> 0, snapshots |-> [w \in Workload |-> "none"]]
Operation == {"edgeEnable", "suspend", "fence", "verifyEnter",
              "unfence", "resume", "edgeDisable", "verifyExit"}

TypeOK ==
  /\ want \in BOOLEAN /\ marker \in BOOLEAN /\ fenced \in BOOLEAN
  /\ lastRoute \in Nat /\ route \in 0..lastRoute
  /\ running \subseteq Workload /\ mine \subseteq Workload /\ before \subseteq Workload
  /\ binding \in [state : {"none", "entering", "active", "exiting"}, edge : 0..lastRoute,
                  snapshots : [Workload -> {"none", "running", "suspended"}]]
  /\ todo \in Seq([do : Operation, on : Workload \cup {"environment"},
                   noop : BOOLEAN, blocked : BOOLEAN])
  /\ at \in {"check", "act", "save", "confirm"}
  /\ flips \in 0..MaxFlips /\ faults \in 0..MaxFaults /\ drift \in 0..MaxDrift

Init ==
  /\ want = FALSE /\ route = 0 /\ marker = FALSE /\ fenced = FALSE
  /\ \E s \in SUBSET Stopped : running = Workload \ s
  /\ binding = NoBinding
  /\ todo = <<>> /\ at = "check"
  /\ mine = {} /\ before = running
  /\ lastRoute = 0 /\ flips = 0 /\ faults = 0 /\ drift = 0

-----------------------------------------------------------------------------
(* observeMaintenanceEdge: only the route named by the binding counts.     *)
Edge ==
  IF route = 0 THEN "inactive"
  ELSE IF route = binding.edge /\ marker THEN "active"
  ELSE "unknown"

Rank(w) == IF w \in Cron THEN 0 ELSE IF w \in Worker THEN 1 ELSE 2
Snapshot(w) == binding.snapshots[w]

(* Mutated form: any snapshot is taken for one of a stopped workload.      *)
BadRestoredOne(w) == (w \in running) <=> (Snapshot(w) = "none")

(* maintenanceWorkloadsRestored: no snapshot means it has to run.          *)
RestoredOne(w) == (w \in running) <=> (Snapshot(w) # "suspended")
Restored == \A w \in Workload : RestoredOne(w)

Active == Edge = "active" /\ running = {} /\ (Database => fenced)
Inactive == Edge = "inactive" /\ Restored /\ ~fenced

-----------------------------------------------------------------------------
(* planMaintenance.                                                        *)
Step(op, w, noop, blocked) == [do |-> op, on |-> w, noop |-> noop, blocked |-> blocked]
OnEnvironment(op, noop, blocked) == Step(op, "environment", noop, blocked)
IfDatabase(step) == IF Database THEN <<step>> ELSE <<>>
ForEach(order, F(_)) == [i \in 1..Len(order) |-> F(order[i])]
Backwards == [i \in 1..Len(Order) |-> Order[Len(Order) + 1 - i]]

EnterChain ==
  <<OnEnvironment("edgeEnable", Edge = "active", Edge = "unknown")>>
  \o ForEach(Order, LAMBDA w : Step("suspend", w, w \notin running, FALSE))
  \o IfDatabase(OnEnvironment("fence", fenced, FALSE))
  \o <<OnEnvironment("verifyEnter", Active /\ binding.state = "active", FALSE)>>

(* Mutated form: an exit the provider already shows needs no verification. *)
BadExitChain ==
  IfDatabase(OnEnvironment("unfence", ~fenced, FALSE))
  \o ForEach(Backwards,
             LAMBDA w : Step("resume", w, RestoredOne(w), Snapshot(w) = "none"))
  \o <<OnEnvironment("edgeDisable", Edge = "inactive", binding.edge = 0),
       OnEnvironment("verifyExit", Inactive, FALSE)>>

(* Mutated form: the workloads are restored before the fence is removed.   *)
BadExitOrder ==
  ForEach(Backwards,
          LAMBDA w : Step("resume", w, RestoredOne(w), Snapshot(w) = "none"))
  \o IfDatabase(OnEnvironment("unfence", ~fenced, FALSE))
  \o <<OnEnvironment("edgeDisable", Edge = "inactive", binding.edge = 0),
       OnEnvironment("verifyExit", FALSE, FALSE)>>

ExitChain ==
  IfDatabase(OnEnvironment("unfence", ~fenced, FALSE))
  \o ForEach(Backwards,
             LAMBDA w : Step("resume", w, RestoredOne(w), Snapshot(w) = "none"))
  \o <<OnEnvironment("edgeDisable", Edge = "inactive", binding.edge = 0),
       OnEnvironment("verifyExit", FALSE, FALSE)>>

Chain ==
  CASE want                       -> EnterChain
    [] ~want /\ binding # NoBinding -> ExitChain
    [] ~want /\ binding = NoBinding -> <<>>

(* The executor skips the noop steps.                                      *)
SkipNoops(s) ==
  LET real == {i \in 1..Len(s) : ~s[i].noop}
  IN IF real = {} THEN <<>> ELSE SubSeq(s, CHOOSE i \in real : \A j \in real : i <= j, Len(s))

(* hv_plan and hv_apply.                                                   *)
StartApply ==
  /\ todo = <<>>
  /\ todo' = SkipNoops(Chain)
  /\ todo' # <<>>
  /\ UNCHANGED <<want, provider, binding, at, history, counters>>

-----------------------------------------------------------------------------
(* Where a handler is: a step ends in success, which the executor follows  *)
(* with the next one, or blocked, which stops the apply.                   *)
Doing(op, where) == todo # <<>> /\ Head(todo).do = op /\ ~Head(todo).blocked /\ at = where
On == Head(todo).on
Proceed(where) == at' = where /\ UNCHANGED todo
Succeed == todo' = SkipNoops(Tail(todo)) /\ at' = "check"
Stop == todo' = <<>> /\ at' = "check"

(* A step the plan has marked with a blockedReason is never run.           *)
Refuse ==
  /\ todo # <<>> /\ Head(todo).blocked
  /\ Stop
  /\ UNCHANGED <<want, provider, binding, history, counters>>

Save(state, b) == binding' = [b EXCEPT !.state = state]

(* A call of the provider's; when it fails, its effect may still be there. *)
Attempt(effect, unchanged, after, torn) ==
  \/ effect /\ after /\ UNCHANGED faults
  \/ /\ faults < MaxFaults /\ faults' = faults + 1
     /\ (torn /\ effect) \/ unchanged
     /\ Stop

(* Edge: the handler creates the route, saves its id, then asks the domain *)
(* for the marker.  A route that is not the binding's refuses a new one.   *)
CreateRoute ==
  /\ Doing("edgeEnable", "check")
  /\ IF route # 0 /\ route # binding.edge
     THEN Stop /\ UNCHANGED <<provider, faults>>
     ELSE Attempt(/\ lastRoute' = IF route = 0 THEN lastRoute + 1 ELSE lastRoute
                  /\ route' = lastRoute'
                  /\ marker' \in {marker, TRUE}
                  /\ UNCHANGED <<running, fenced>>,
                  UNCHANGED provider, Proceed("save"), Torn)
  /\ UNCHANGED <<want, binding, history, flips, drift>>

SaveRoute ==
  /\ Doing("edgeEnable", "save")
  /\ Save("entering", [binding EXCEPT !.edge = route])
  /\ Proceed("confirm")
  /\ UNCHANGED <<want, provider, history, counters>>

ConfirmRoute ==
  /\ Doing("edgeEnable", "confirm")
  /\ IF Edge = "active" THEN Succeed ELSE Stop
  /\ UNCHANGED <<want, provider, binding, history, counters>>

CheckExit ==
  /\ Doing("edgeDisable", "check")
  /\ IF Restored /\ ~fenced THEN Proceed("act") ELSE Stop
  /\ UNCHANGED <<want, provider, binding, history, counters>>

(* Only the route named by the binding is removed.                         *)
RemoveRoute ==
  /\ Doing("edgeDisable", "act")
  /\ Attempt(/\ IF route = binding.edge THEN route' = 0 /\ marker' = FALSE
                ELSE UNCHANGED <<route, marker>>
             /\ UNCHANGED <<running, fenced, lastRoute>>,
             UNCHANGED provider, Proceed("save"), TRUE)
  /\ UNCHANGED <<want, binding, history, flips, drift>>

ForgetRoute ==
  /\ Doing("edgeDisable", "save")
  /\ Save("exiting", [binding EXCEPT !.edge = 0])
  /\ Succeed
  /\ UNCHANGED <<want, provider, history, counters>>

-----------------------------------------------------------------------------
(* Workloads: every one is snapshot before the first is stopped.           *)
Suspendable(w) ==
  /\ Edge = "active"
  /\ \A x \in Workload : Snapshot(x) = "none" => x \in running
  /\ \A x \in Workload : Rank(x) < Rank(w) => x \notin running

Snapshots == [w \in Workload |-> IF Snapshot(w) # "none" THEN Snapshot(w)
                                 ELSE IF w \in running THEN "running" ELSE "suspended"]

CheckSuspend ==
  /\ Doing("suspend", "check")
  /\ IF Suspendable(On)
     THEN Save("entering", [binding EXCEPT !.snapshots = Snapshots]) /\ Proceed("act")
     ELSE Stop /\ UNCHANGED binding
  /\ UNCHANGED <<want, provider, history, counters>>

Suspend ==
  /\ Doing("suspend", "act")
  /\ Attempt(/\ running' = running \ {On}
             /\ mine' = mine \cup (running \cap {On})
             /\ UNCHANGED <<route, marker, fenced, lastRoute>>,
             UNCHANGED <<provider, mine>>, Succeed, TRUE)
  /\ UNCHANGED <<want, binding, before, flips, drift>>

CheckResume ==
  /\ Doing("resume", "check")
  /\ IF Snapshot(On) # "none" /\ Edge = "active" THEN Proceed("act") ELSE Stop
  /\ UNCHANGED <<want, provider, binding, history, counters>>

Resume ==
  /\ Doing("resume", "act")
  /\ Attempt(/\ running' = IF Snapshot(On) = "running" THEN running \cup {On} ELSE running
             /\ mine' = mine \ running'
             /\ UNCHANGED <<route, marker, fenced, lastRoute>>,
             UNCHANGED <<provider, mine>>, Proceed("save"), TRUE)
  /\ UNCHANGED <<want, binding, before, flips, drift>>

SaveResumed ==
  /\ Doing("resume", "save")
  /\ Save("exiting", binding)
  /\ Succeed
  /\ UNCHANGED <<want, provider, history, counters>>

-----------------------------------------------------------------------------
Fenceable == Edge = "active" /\ running = {}

CheckFence(op) ==
  /\ Doing(op, "check")
  /\ IF Fenceable THEN Proceed("act") ELSE Stop
  /\ UNCHANGED <<want, provider, binding, history, counters>>

SetFence(op, value) ==
  /\ Doing(op, "act")
  /\ Attempt(fenced' = value /\ UNCHANGED <<route, marker, running, lastRoute>>,
             UNCHANGED provider, Proceed("save"), TRUE)
  /\ UNCHANGED <<want, binding, history, flips, drift>>

SaveFence(op, state) ==
  /\ Doing(op, "save")
  /\ Save(state, binding)
  /\ Succeed
  /\ UNCHANGED <<want, provider, history, counters>>

Fence ==
  \/ CheckFence("fence") \/ SetFence("fence", TRUE) \/ SaveFence("fence", "entering")
  \/ CheckFence("unfence") \/ SetFence("unfence", FALSE) \/ SaveFence("unfence", "exiting")

(* Mutated form: the final binding is written without the edge.            *)
BadVerifyEdge ==
  /\ Doing("verifyEnter", "check")
  /\ IF Active THEN Save("active", [binding EXCEPT !.edge = 0]) /\ Succeed
     ELSE Stop /\ UNCHANGED binding
  /\ UNCHANGED <<want, provider, history, counters>>

VerifyEnter ==
  /\ Doing("verifyEnter", "check")
  /\ IF Active THEN Save("active", binding) /\ Succeed ELSE Stop /\ UNCHANGED binding
  /\ UNCHANGED <<want, provider, history, counters>>

VerifyExit ==
  /\ Doing("verifyExit", "check")
  /\ IF Inactive THEN binding' = NoBinding /\ Succeed ELSE Stop /\ UNCHANGED binding
  /\ UNCHANGED <<want, provider, history, counters>>

-----------------------------------------------------------------------------
(* An observation or the connection of a provider fails: blocked.          *)
Fault ==
  /\ todo # <<>> /\ at \in {"check", "confirm"} /\ faults < MaxFaults
  /\ faults' = faults + 1 /\ Stop
  /\ UNCHANGED <<want, provider, binding, history, flips, drift>>

Crash ==
  /\ Mortal /\ todo # <<>> /\ faults < MaxFaults
  /\ Doing("edgeEnable", "save") => Torn
  /\ faults' = faults + 1 /\ Stop
  /\ UNCHANGED <<want, provider, binding, history, flips, drift>>

(* hv_spec.                                                                *)
Flip ==
  /\ flips < MaxFlips
  /\ want' = ~want /\ flips' = flips + 1
  /\ UNCHANGED <<provider, binding, apply, history, faults, drift>>

(* The route reaches the edge locations some time after it is created.     *)
MarkerAppears ==
  /\ route # 0 /\ ~marker
  /\ marker' = TRUE
  /\ UNCHANGED <<want, route, running, fenced, lastRoute, binding, apply, history, counters>>

(* A user starts or stops a workload at the provider's console.            *)
Drift(w) ==
  /\ drift < MaxDrift /\ drift' = drift + 1
  /\ IF w \in running
     THEN running' = running \ {w} /\ before' = before \ {w}
     ELSE running' = running \cup {w} /\ before' = before \cup {w}
  /\ mine' = mine \ {w}
  /\ UNCHANGED <<want, route, marker, fenced, lastRoute, binding, apply, flips, faults>>

Handle ==
  \/ Refuse \/ CreateRoute \/ SaveRoute \/ ConfirmRoute
  \/ CheckExit \/ RemoveRoute \/ ForgetRoute
  \/ CheckSuspend \/ Suspend \/ CheckResume \/ Resume \/ SaveResumed
  \/ Fence \/ VerifyEnter \/ VerifyExit

Next ==
  \/ StartApply \/ Handle \/ Fault \/ Crash
  \/ Flip \/ MarkerAppears \/ \E w \in Workload : Drift(w)

Spec == Init /\ [][Next]_vars

(* The user plans and applies again until the environment is as desired,   *)
(* and a created route is served some day.                                 *)
FairSpec == Spec /\ WF_vars(StartApply) /\ WF_vars(Handle) /\ WF_vars(MarkerAppears)

-----------------------------------------------------------------------------
(* Whatever dies or fails in between, a workload Hypervibe stopped has a   *)
(* durable snapshot that says to start it again.                           *)
RestorationIsDurable == \A w \in mine : Snapshot(w) = "running"

(* The edge answers for as long as Hypervibe keeps anything down: visitors *)
(* never reach a stopped workload or a database that refuses writes.       *)
EdgeCoversOutage == mine # {} \/ fenced => route # 0

(* Without users at the provider, the database refuses writes only while   *)
(* no workload runs, on the way in and on the way out.                     *)
FencedMeansQuiet == fenced => running = {}

(* An environment finalized as active can be left again: its route, unless *)
(* already removed or created right now, is bound, and every workload has  *)
(* a snapshot.                                                             *)
ActiveIsReversible ==
  binding.state = "active" =>
    /\ route \in {0, binding.edge} \/ Doing("edgeEnable", "save")
    /\ \A w \in Workload : Snapshot(w) # "none"

Normal == route = 0 /\ ~fenced /\ running = before /\ binding = NoBinding

(* Once maintenance is not desired any more, applying the plans ends with  *)
(* the environment as it was: no edge, no fence, the same workloads.       *)
ExitCompletes == <>[]~want => <>[]Normal

(* Once maintenance is desired for good, it is reached and finalized.      *)
EntryCompletes == <>[]want => <>[](Active /\ binding.state = "active")

(* Both ways: what is desired for good is reached, whatever faults and     *)
(* changes of mind came before.                                            *)
ChangesComplete == ExitCompletes /\ EntryCompletes
=============================================================================
