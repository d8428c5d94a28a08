--------------------------- MODULE CacheLifecycle ---------------------------
(***************************************************************************)
(* The Redis cache of one environment: a component of the environment that *)
(* is bound to the provider's id and wired into every service.  A changed  *)
(* provider is staged: the new cache is created and keeps the binding of   *)
(* the old one, which a later plan deletes.  A create that fails leaves an *)
(* incomplete binding, without an id if its outcome is unknown, and blocks *)
(* further ones.  What Hypervibe does not bind can be retained for cleanup *)
(* by its id.  One apply works at a time; an import may come at any moment.*)
(* Other than the hosting provider, a provider refuses to observe a cache  *)
(* of another one.                                                         *)
(***************************************************************************)
EXTENDS Naturals, FiniteSets

CONSTANTS
  Service, Provider,
  Host,            \* the provider that hosts the services
  None, NoUrl,
  MaxCaches, MaxEdits, MaxApplies, MaxFaults, MaxCrashes, MaxDrifts  \* bounds

Id == 1..MaxCaches
Identity == [provider : Provider, id : Id]
Component == [provider : Provider, id : Id \cup {0}, incomplete : BOOLEAN, previous : Identity \cup {None}]
Op == {"create", "destroyPrevious", "unwire", "destroy", "destroyRetained", "deploy"}
Action == [op : Op, service : Service \cup {None}, provider : Provider, id : Id \cup {0}]
Result == [action : Action, state : {"done", "partial", "unresolved"}, id : Id \cup {0}]

(* The absent values are none of the others.                               *)
Assumption ==
  /\ Host \in Provider /\ None \notin Provider \cup Identity \cup Component \cup Result /\ NoUrl \notin Id
  /\ {MaxCaches, MaxEdits, MaxApplies, MaxFaults, MaxCrashes, MaxDrifts} \subseteq Nat

VARIABLES
  spec,      \* the provider of the declared cache, or None
  providerOf,\* providerOf[i]: where cache i was created, or None
  caches,    \* the caches that exist
  late,      \* providers where a create may yet take effect
  url,       \* url[s]: the cache whose REDIS_URL service s has
  component, \* the environment's component of type redis, or None
  retained,  \* the cache retained for cleanup, or None
  todo,      \* the actions the running apply has still to do
  held,      \* what the provider answered to the current one of them, until it is written
  made,      \* caches Hypervibe created
  stray,     \* providers where such a create has no record any more
  lost,      \* caches whose record was lost by what the code cannot help
  edits, applies, faults, crashes, drifts
cloud == <<providerOf, caches, late, url>>
row == <<component, retained>>
ghosts == <<made, stray, lost>>
counters == <<edits, applies, faults, crashes, drifts>>
vars == <<spec, cloud, row, todo, held, ghosts, counters>>

TypeOK ==
  /\ spec \in Provider \cup {None} /\ providerOf \in [Id -> Provider \cup {None}]
  /\ caches \subseteq Id /\ late \subseteq Provider /\ url \in [Service -> Id \cup {NoUrl}]
  /\ component \in Component \cup {None} /\ retained \in Identity \cup {None}
  /\ todo \subseteq Action /\ held \in Result \cup {None} /\ made \subseteq Id /\ lost \subseteq Id
  /\ stray \subseteq Provider
  /\ edits \in 0..MaxEdits /\ applies \in 0..MaxApplies /\ faults \in 0..MaxFaults
  /\ crashes \in 0..MaxCrashes /\ drifts \in 0..MaxDrifts

Init ==
  /\ spec \in Provider \cup {None} /\ providerOf = [i \in Id |-> None] /\ caches = {} /\ late = {}
  /\ url = [s \in Service |-> NoUrl] /\ component = None /\ retained = None
  /\ todo = {} /\ held = None /\ made = {} /\ stray = {} /\ lost = {}
  /\ edits = 0 /\ applies = 0 /\ faults = 0 /\ crashes = 0 /\ drifts = 0

Fault == faults < MaxFaults /\ faults' = faults + 1
At(p) == {i \in caches : providerOf[i] = p}
(* Ids are opaque and given in order.                                      *)
Free == {i \in Id : providerOf[i] = None /\ \A j \in 1..(i - 1) : providerOf[j] # None}

Bound == component # None
Usable == Bound /\ ~component.incomplete
(* The create of a cache at p had an unknown outcome.                      *)
Unresolved(p) == Bound /\ component.id = 0 /\ component.provider = p
Active(i) == Bound /\ component.id = i
Previous(i) == Bound /\ component.previous # None /\ component.previous.id = i

(***************************************************************************)
(* Planning                                                                *)
(***************************************************************************)
Do(op, s, p, i) == [op |-> op, service |-> s, provider |-> p, id |-> i]
Each(S, op) == {Do(op, s, Host, 0) : s \in S}

(* The caches of the hosting provider are seen with it; those of another   *)
(* one by the id that is bound, or else by name.                           *)
Seen(p) ==
  At(Host) \cup (IF p = Host THEN {}
                 ELSE IF Bound /\ component.id # 0 THEN caches \cap {component.id} ELSE At(p))
Observable(p) ==
  \/ p = Host
  \/ Bound /\ component.provider = p /\ (component.id # 0 \/ Cardinality(At(p)) < 2)
  \/ ~Bound /\ Cardinality(At(p)) < 2

(* Mutated form: an incomplete cache does not block.                       *)
BadBlocked(known) ==
  \/ ~known \/ ~Observable(spec)
  \/ Usable /\ component.provider = spec /\ component.id \notin Seen(spec)
  \/ ~Bound /\ (Seen(spec) \cap At(spec) # {} \/ Cardinality(Seen(spec)) > 1)

(* What is declared cannot be reached: a create is not finished, nothing   *)
(* is known (or the bound cache does not run), the bound cache is absent,  *)
(* or there is one that is not bound.                                      *)
Blocked(known) ==
  \/ Bound /\ component.incomplete
  \/ ~known \/ ~Observable(spec)
  \/ Usable /\ component.provider = spec /\ component.id \notin Seen(spec)
  \/ (Usable => component.provider # spec) /\ (Seen(spec) \cap At(spec) # {} \/ Cardinality(Seen(spec)) > 1)

InSync(known) == ~Blocked(known) /\ Usable /\ component.provider = spec
Create == Do("create", None, spec, 0)
DestroyPrevious ==
  IF component.previous = None THEN {}
  ELSE {Do("destroyPrevious", None, component.previous.provider, component.previous.id)}
DestroyBound == {Do("destroy", None, component.provider, component.id)}

(* Mutated form: the cache is deleted as the services have it.             *)
BadRemoval == DestroyPrevious \cup DestroyBound

(* A cache that is no longer declared is taken from the services before it *)
(* is deleted.                                                             *)
Removal == DestroyPrevious \cup Each(Service, "unwire") \cup DestroyBound

(* The services with another URL than that of the bound cache.             *)
Stale == {s \in Service : url[s] # component.id}

(* A full plan: other services may be deployed for other reasons.          *)
FullPlan(known, others) ==
  IF spec # None
  THEN CASE Blocked(known) -> {}
         [] InSync(known)  -> DestroyPrevious \cup Each(Stale \cup others, "deploy")
         [] OTHER          -> {Create} \cup Each(Service, "deploy")
  ELSE CASE ~Bound -> Each(others, "deploy")
         [] Bound /\ component.incomplete ->
              IF component.id = 0 THEN {} ELSE DestroyBound \cup Each(others, "deploy")
         [] Usable -> IF known /\ Observable(component.provider)
                      THEN Removal \cup Each(others, "deploy") ELSE {}

(* A plan for some services only: nothing is deleted, and what blocks is   *)
(* left out too.                                                           *)
PartPlan(known, some) ==
  (IF spec # None /\ ~Blocked(known) /\ ~InSync(known) THEN {Create} ELSE {})
    \cup Each(some, "deploy")

RetainedPlan ==
  IF retained = None THEN {} ELSE {Do("destroyRetained", None, retained.provider, retained.id)}

(* A confirmed plan is applied.                                            *)
StartApply ==
  /\ todo = {} /\ held = None /\ applies < MaxApplies /\ applies' = applies + 1
  /\ \E known \in BOOLEAN, some \in SUBSET Service :
       todo' \in {FullPlan(known, some), PartPlan(known, some), RetainedPlan}
  /\ todo' # {}
  /\ UNCHANGED <<spec, cloud, row, held, ghosts, edits, faults, crashes, drifts>>

(***************************************************************************)
(* Applying: a provider call, then a write of the row                      *)
(***************************************************************************)
(* The actions of the cache come before those of the services, and its     *)
(* services lose it before it is deleted.                                  *)
Stage(a) ==
  CASE a.op \in {"create", "destroyPrevious", "destroyRetained"} -> 1
    [] a.op = "unwire" -> 2 [] a.op = "destroy" -> 3 [] a.op = "deploy" -> 4
Turn(a) == a \in todo /\ held = None /\ \A b \in todo : Stage(a) <= Stage(b)
Hold(a, state, i) == held' = [action |-> a, state |-> state, id |-> i] /\ UNCHANGED todo
Halt == todo' = {} /\ UNCHANGED held

Appear(i, p) ==
  /\ providerOf' = [providerOf EXCEPT ![i] = p] /\ caches' = caches \cup {i} /\ made' = made \cup {i}

(* A cache is created unless there is one of the name.  The call may fail, *)
(* leave it unfinished, or have an outcome that is unknown.                *)
Provision(a) ==
  /\ Turn(a) /\ a.op = "create"
  /\ \/ At(a.provider) # {} /\ Halt /\ UNCHANGED <<providerOf, caches, late, made, faults>>
     \/ /\ At(a.provider) = {}
        /\ \/ \E i \in Free : Appear(i, a.provider) /\ Hold(a, "done", i) /\ UNCHANGED <<late, faults>>
           \/ Fault /\ Halt /\ UNCHANGED <<providerOf, caches, late, made>>
           \/ /\ Fault /\ UNCHANGED late
              /\ \E i \in Free :
                   Appear(i, a.provider) /\ (Hold(a, "partial", i) \/ Hold(a, "unresolved", 0))
           \/ /\ Fault /\ Hold(a, "unresolved", 0) /\ late' \in {late, late \cup {a.provider}}
              /\ UNCHANGED <<providerOf, caches, made>>
  /\ UNCHANGED <<spec, url, row, stray, lost, edits, applies, crashes, drifts>>

(* The cache the action names is deleted, if it is still the one bound as  *)
(* planned, or else retained and not active.  A call that fails may have   *)
(* deleted it.                                                             *)
Intended(a) ==
  \/ a.op = "destroyPrevious" /\ Previous(a.id)
  \/ a.op = "destroy" /\ Active(a.id)
  \/ a.op = "destroyRetained" /\ retained # None /\ retained.id = a.id /\ ~Active(a.id)
Delete(a) ==
  /\ Turn(a) /\ a.op \in {"destroyPrevious", "destroy", "destroyRetained"}
  /\ \/ ~Intended(a) /\ Halt /\ UNCHANGED <<caches, faults>>
     \/ Intended(a) /\ caches' = caches \ {a.id} /\ Hold(a, "done", a.id) /\ UNCHANGED faults
     \/ Intended(a) /\ Fault /\ Halt /\ caches' \in {caches, caches \ {a.id}}
  /\ UNCHANGED <<spec, providerOf, late, url, row, ghosts, edits, applies, crashes, drifts>>

(* A service gets the URL of whatever cache is bound, or loses it.         *)
Rewire(a, value) ==
  /\ Turn(a)
  /\ \/ url' = [url EXCEPT ![a.service] = value] /\ todo' = todo \ {a} /\ UNCHANGED faults
     \/ Fault /\ todo' = {} /\ url' \in {url, [url EXCEPT ![a.service] = value]}
  /\ UNCHANGED <<spec, providerOf, caches, late, row, held, ghosts, edits, applies, crashes, drifts>>
Deploy(a) == a.op = "deploy" /\ Rewire(a, IF Usable THEN component.id ELSE url[a.service])
Unwire(a) == a.op = "unwire" /\ Rewire(a, NoUrl)

(* What was answered is written, and the apply goes on or ends.            *)
Current == held.action
Finish(next) == todo' = next /\ held' = None
Restored == IF component.previous = None THEN None
            ELSE [provider |-> component.previous.provider, id |-> component.previous.id,
                  incomplete |-> FALSE, previous |-> None]

(* Mutated form: an unfinished create is not written down.                 *)
BadWriteCreated ==
  /\ held # None /\ Current.op = "create"
  /\ component' = IF held.state # "done" THEN component
       ELSE [provider |-> Current.provider, id |-> held.id, incomplete |-> FALSE,
             previous |-> IF Bound THEN [provider |-> component.provider, id |-> component.id] ELSE None]
  /\ Finish(IF held.state = "done" THEN todo \ {Current} ELSE {})
  /\ UNCHANGED <<spec, cloud, retained, ghosts, counters>>

(* The new cache is bound, finished or not, and the old one kept with it.  *)
WriteCreated ==
  /\ held # None /\ Current.op = "create"
  /\ component' =
       [provider |-> Current.provider, id |-> held.id, incomplete |-> held.state # "done",
        previous |-> IF Bound THEN [provider |-> component.provider, id |-> component.id] ELSE None]
  /\ Finish(IF held.state = "done" THEN todo \ {Current} ELSE {})
  /\ UNCHANGED <<spec, cloud, retained, ghosts, counters>>

(* A create that is not awaited any more leaves what it made, or will make.*)
Forget(p) ==
  /\ lost' = lost \cup (made \cap At(p))
  /\ late' = late \ {p} /\ stray' = IF p \in late THEN stray \cup {p} ELSE stray
Awaited == UNCHANGED <<late, stray, lost>>

(* The record of what was deleted goes.  An incomplete cache gives way to  *)
(* the one before it, and so does the marker of an unknown create that the *)
(* deleted cache is taken for.                                             *)
WriteDeleted ==
  /\ held # None /\ Current.op # "create"
  /\ CASE Current.op = "destroyPrevious" ->
            component' = [component EXCEPT !.previous = None] /\ Awaited /\ UNCHANGED retained
       [] Current.op = "destroy" ->
            component' = (IF component.incomplete THEN Restored ELSE None) /\ Awaited /\ UNCHANGED retained
       [] Current.op = "destroyRetained" ->
            /\ retained' = None
            /\ IF Unresolved(Current.provider)
               THEN component' = Restored /\ Forget(Current.provider)
               ELSE Awaited /\ UNCHANGED component
  /\ Finish(todo \ {Current}) /\ UNCHANGED <<spec, providerOf, caches, url, made, counters>>

(* The process dies; a create in hand leaves nothing.                      *)
Crash ==
  /\ todo # {} /\ crashes < MaxCrashes /\ crashes' = crashes + 1
  /\ IF held # None /\ Current.op = "create" THEN Forget(Current.provider) ELSE Awaited
  /\ Finish({}) /\ UNCHANGED <<spec, providerOf, caches, url, row, made, edits, applies, faults, drifts>>

(***************************************************************************)
(* Others                                                                  *)
(***************************************************************************)
Edit ==
  /\ todo = {} /\ edits < MaxEdits /\ edits' = edits + 1
  /\ spec' \in (Provider \cup {None}) \ {spec}
  /\ UNCHANGED <<cloud, row, todo, held, ghosts, applies, faults, crashes, drifts>>

(* A create of unknown outcome takes effect after all.                     *)
Land ==
  /\ \E p \in Provider, i \in Free :
       /\ Appear(i, p)
       /\ \/ p \in late /\ late' = late \ {p} /\ UNCHANGED <<stray, lost>>
          \/ p \in stray /\ stray' = stray \ {p} /\ lost' = lost \cup {i} /\ UNCHANGED late
  /\ UNCHANGED <<spec, url, row, todo, held, counters>>

(* A user creates or deletes a cache at a provider.                        *)
Drift ==
  /\ drifts < MaxDrifts /\ drifts' = drifts + 1
  /\ \/ \E i \in Free, p \in Provider : providerOf' = [providerOf EXCEPT ![i] = p] /\ caches' = caches \cup {i}
     \/ \E i \in caches : caches' = caches \ {i} /\ UNCHANGED providerOf
  /\ UNCHANGED <<spec, late, url, row, todo, held, ghosts, edits, applies, faults, crashes>>

(* A cache that is not the bound one is retained for cleanup.              *)
Retain ==
  /\ retained = None
  /\ \E i \in caches : ~Active(i) /\ retained' = [provider |-> providerOf[i], id |-> i]
  /\ UNCHANGED <<spec, cloud, component, todo, held, ghosts, counters>>

Apply ==
  \/ StartApply \/ WriteCreated \/ WriteDeleted \/ Crash
  \/ \E a \in todo : Provision(a) \/ Delete(a) \/ Deploy(a) \/ Unwire(a)
Next == Apply \/ Edit \/ Land \/ Drift \/ Retain
Spec == Init /\ [][Next]_vars

(***************************************************************************)
(* Properties                                                              *)
(***************************************************************************)
(* A cache Hypervibe created and that exists is bound, kept as the old     *)
(* one, retained, or what an unknown create is about, unless the process   *)
(* died before writing or another cache was taken for it.                  *)
NothingForgotten ==
  \A i \in (made \cap caches) \ lost :
    \/ Active(i) \/ Previous(i) \/ Unresolved(providerOf[i])
    \/ retained # None /\ retained.id = i
    \/ held # None /\ Current.op = "create" /\ Current.provider = providerOf[i]

(* Hypervibe does not create a second cache at a provider while it has one.*)
OneCachePerProvider ==
  \A i, j \in (made \cap caches) \ lost : providerOf[i] = providerOf[j] => i = j

(* Creates of unknown outcome are neither forgotten nor repeated.          *)
CachesAreKnown == NothingForgotten /\ OneCachePerProvider

(* When Hypervibe deletes the cache that is bound, no service has its URL. *)
BoundIsUnwired ==
  [][\A i \in caches \ caches' :
       drifts' = drifts /\ Active(i) => \A s \in Service : url[s] # i]_vars
=============================================================================
