-------------------------- MODULE StorageLifecycle --------------------------
(***************************************************************************)
(* The object storage of one environment on one provider: named buckets    *)
(* that the spec declares and injects into services, planned from a live   *)
(* observation and applied one action after the other.  A bucket is        *)
(* identified by the provider's id, which Hypervibe binds to the name.  A  *)
(* create of unknown outcome leaves a recovery marker that blocks the      *)
(* name.  All buckets are wired with the same variables of a service, so   *)
(* a service has access to the bucket it was wired to last.  One apply     *)
(* works at a time; an import may come at any moment.                      *)
(***************************************************************************)
EXTENDS Naturals, Sequences, FiniteSets

CONSTANTS
  Name, Service,
  None,            \* no binding, marker or held result
  NoKeys, Cleared, \* a service has no access: without the variables, or with empty ones
  MaxBuckets, MaxEdits, MaxApplies, MaxFaults, MaxCrashes, MaxDrifts  \* bounds

Id == 1..MaxBuckets
Entry == [name : Name, into : SUBSET Service]

(* Declarations in their order, at most one bucket for each service.       *)
Specs == {s \in UNION {[1..k -> Entry] : k \in 0..Cardinality(Name)} :
            \A i, j \in DOMAIN s :
              i # j => s[i].name # s[j].name /\ s[i].into \cap s[j].into = {}}

Binding == [id : Id, services : SUBSET Service]
Marker == [state : {"unresolved"}, id : {0}] \cup [state : {"identified"}, id : Id]
Result == Marker \cup [state : {"done"}, id : Id \cup {0}]
Op == {"clear", "ensure", "wire", "unwire", "destroy"}
Action == [turn : Nat, op : Op, name : Name, service : Service \cup {None}, id : Id \cup {0}]

(* The absent values are none of the others.                               *)
Assumption ==
  /\ IsFiniteSet(Name) /\ None \notin Name \cup Binding \cup Marker
  /\ NoKeys \notin Id /\ Cleared \notin Id
  /\ {MaxBuckets, MaxEdits, MaxApplies, MaxFaults, MaxCrashes, MaxDrifts} \subseteq Nat

VARIABLES
  spec,      \* the declared storage
  nameOf,    \* nameOf[i]: the name bucket i was created with, or None
  buckets,   \* the buckets that exist
  late,      \* names whose create may yet take effect
  access,    \* access[s]: the bucket whose variables service s has
  bound,     \* bound[n]: the binding of name n
  marker,    \* marker[n]: the recovery marker of name n
  todo,      \* the actions the running apply has still to do
  applied,   \* the spec of that apply
  held,      \* what its current action has in hand between call and write
  adopted,   \* names imported since that action read the bindings
  made,      \* buckets Hypervibe created
  waived,    \* names whose marker was released, resolved or never written
  lost,      \* buckets whose record was lost by what the code cannot help
  unrecorded,\* services given an access that is not in the bindings
  edits, applies, faults, crashes, drifts
provider == <<nameOf, buckets, late, access>>
row == <<bound, marker>>
ghosts == <<made, waived, lost, unrecorded>>
counters == <<edits, applies, faults, crashes, drifts>>
vars == <<spec, provider, row, todo, applied, held, adopted, ghosts, counters>>

Ended == [ok |-> FALSE, action |-> None, read |-> None, result |-> None]
Held == {Ended} \cup [ok : {TRUE}, action : Action, read : [Name -> Binding \cup {None}],
                      result : Result]

TypeOK ==
  /\ spec \in Specs /\ applied \in Specs /\ todo \subseteq Action
  /\ nameOf \in [Id -> Name \cup {None}] /\ buckets \subseteq Id /\ late \subseteq Name
  /\ access \in [Service -> Id \cup {NoKeys, Cleared}]
  /\ bound \in [Name -> Binding \cup {None}] /\ marker \in [Name -> Marker \cup {None}]
  /\ held \in Held /\ adopted \subseteq Name
  /\ made \subseteq Id /\ waived \subseteq Name /\ lost \subseteq Id /\ unrecorded \subseteq Service
  /\ edits \in 0..MaxEdits /\ applies \in 0..MaxApplies /\ faults \in 0..MaxFaults
  /\ crashes \in 0..MaxCrashes /\ drifts \in 0..MaxDrifts

Init ==
  /\ spec \in Specs /\ applied = <<>> /\ todo = {} /\ held = Ended /\ adopted = {}
  /\ nameOf = [i \in Id |-> None] /\ buckets = {} /\ late = {}
  /\ access = [s \in Service |-> NoKeys]
  /\ bound = [n \in Name |-> None] /\ marker = [n \in Name |-> None]
  /\ made = {} /\ waived = {} /\ lost = {} /\ unrecorded = {}
  /\ edits = 0 /\ applies = 0 /\ faults = 0 /\ crashes = 0 /\ drifts = 0

Fault == faults < MaxFaults /\ faults' = faults + 1
Named(n) == {i \in buckets : nameOf[i] = n}
Declared(sp) == {sp[i].name : i \in DOMAIN sp}
(* Ids are opaque: which of the unused ones the provider gives is the same *)
(* to the code, and it gives them in order.                                *)
Free == {i \in Id : nameOf[i] = None /\ \A j \in 1..(i - 1) : nameOf[j] # None}
BoundIds == {bound[n].id : n \in {m \in Name : bound[m] # None}}

(***************************************************************************)
(* Planning                                                                *)
(***************************************************************************)
Do(t, op, n, s, i) == [turn |-> t, op |-> op, name |-> n, service |-> s, id |-> i]
Blocked(t, n) == Do(t, "blocked", n, None, 0)

(* Mutated form: it is not looked whether the provider shows the bucket.   *)
BadReleasable(n, known) == marker[n].state = "unresolved" /\ bound[n] = None /\ known

(* An observation that is complete and shows no bucket of the name         *)
(* releases an unresolved marker; the bucket is then created anew.         *)
Releasable(n, known) ==
  marker[n].state = "unresolved" /\ bound[n] = None /\ known /\ Named(n) = {}

PlanEnsure(t, n, known) ==
  CASE marker[n] # None -> IF Releasable(n, known)
                           THEN {Do(t, "clear", n, None, 0), Do(t, "ensure", n, None, 0)}
                           ELSE {Blocked(t, n)}
    [] marker[n] = None /\ bound[n] = None ->
         IF known /\ Named(n) = {} THEN {Do(t, "ensure", n, None, 0)} ELSE {Blocked(t, n)}
    [] marker[n] = None /\ bound[n] # None ->
         IF known /\ bound[n].id \notin buckets THEN {Blocked(t, n)} ELSE {}

(* A service is taken for wired if the binding lists it and it has the     *)
(* variables, whatever their value.                                        *)
Wired(n, s) == bound[n] # None /\ s \in bound[n].services
WiredLive(n, s) == Wired(n, s) /\ access[s] # NoKeys

PlanWiring(t, d, known) ==
  IF marker[d.name] # None /\ ~Releasable(d.name, known) THEN {}
  ELSE IF ~known THEN {Blocked(t, d.name) : s \in {r \in d.into : ~Wired(d.name, r)}}
  ELSE {Do(t, "wire", d.name, s, 0) : s \in {r \in d.into : ~WiredLive(d.name, r)}} \cup
       {Do(t, "unwire", d.name, s, 0) : s \in {r \in Service \ d.into : Wired(d.name, r)}}

(* Mutated form: the bucket is deleted as its services have it.            *)
BadPlanRemoval(t, n, known) ==
  IF ~known THEN {Blocked(t, n)} ELSE {Do(t, "destroy", n, None, bound[n].id)}

PlanRemoval(t, n, known) ==
  IF ~known THEN {Blocked(t, n)}
  ELSE {Do(t, "unwire", n, s, 0) : s \in bound[n].services} \cup {Do(t, "destroy", n, None, bound[n].id)}

(* The bindings have an order of their own.                                *)
Place == CHOOSE f \in [Name -> 1..Cardinality(Name)] : \A m, n \in Name : f[m] = f[n] => m = n

(* Ensuring comes first, what was removed last.  Nothing is done beyond    *)
(* the first blocked action.                                               *)
Plan(known) ==
  LET k == Len(spec)
      gone == Name \ Declared(spec)
      orphaned == {n \in gone : marker[n] # None}
      removed == {n \in gone \ orphaned : bound[n] # None}
      all == (UNION {PlanEnsure(i, spec[i].name, known) : i \in DOMAIN spec})
               \cup {Blocked(k + 1, n) : n \in orphaned}
               \cup (UNION {PlanWiring(k + 1 + i, spec[i], known) : i \in DOMAIN spec})
               \cup (UNION {PlanRemoval(2 * k + 1 + Place[n], n, known) : n \in removed})
  IN {a \in all : \A b \in all : b.op = "blocked" => a.turn < b.turn}

(* A confirmed plan is applied.                                            *)
StartApply ==
  /\ todo = {} /\ held = Ended /\ applies < MaxApplies /\ applies' = applies + 1
  /\ \E known \in BOOLEAN : todo' = Plan(known)
  /\ applied' = spec
  /\ UNCHANGED <<spec, provider, row, held, adopted, ghosts, edits, faults, crashes, drifts>>

(***************************************************************************)
(* Applying: a provider call, then a write of the row                      *)
(***************************************************************************)
(* In one turn of the plan, the marker goes before the create, services    *)
(* are wired before others are unwired, and unwired before the deletion.   *)
Stage(op) ==
  CASE op = "clear" -> 1 [] op = "ensure" -> 2 [] op = "wire" -> 3 [] op = "unwire" -> 4 [] op = "destroy" -> 5
Before(a, b) == a.turn < b.turn \/ (a.turn = b.turn /\ Stage(a.op) < Stage(b.op))
Ready(a, op) == held = Ended /\ a.op = op /\ \A b \in todo : ~Before(b, a)
InHand(op, n) == held # Ended /\ held.action.op = op /\ held.action.name = n
Hold(a, result) ==
  /\ held' = [ok |-> TRUE, action |-> a, read |-> bound, result |-> result]
  /\ adopted' = {} /\ UNCHANGED todo
Halt == todo' = {} /\ UNCHANGED <<held, adopted>>

(* The marker is to be cleared: observed once more.                        *)
Clear(a) ==
  /\ Ready(a, "clear")
  /\ LET n == a.name IN
       IF marker[n] # None /\ Releasable(n, TRUE)
       THEN Hold(a, marker[n]) /\ waived' = waived \cup {n}
       ELSE Halt /\ UNCHANGED waived
  /\ UNCHANGED <<spec, provider, row, applied, made, lost, unrecorded, counters>>

Create(i, n) ==
  /\ nameOf' = [nameOf EXCEPT ![i] = n] /\ buckets' = buckets \cup {i} /\ made' = made \cup {i}

Unresolved == [state |-> "unresolved", id |-> 0]
Identified(i) == [state |-> "identified", id |-> i]
Done(i) == [state |-> "done", id |-> i]

(* A bucket is created.  One of the name that appeared since the plan, or  *)
(* an unknown outcome, is answered with a marker.                          *)
Ensure(a) ==
  /\ Ready(a, "ensure")
  /\ LET n == a.name IN
       \/ /\ marker[n] # None \/ Named(n) # {}
          /\ IF marker[n] # None THEN Halt ELSE Hold(a, Unresolved)
          /\ UNCHANGED <<nameOf, buckets, late, made, faults>>
       \/ /\ marker[n] = None /\ Named(n) = {}
          /\ \/ \E i \in Free : Create(i, n) /\ Hold(a, Done(i)) /\ UNCHANGED <<late, faults>>
             \/ Fault /\ Halt /\ UNCHANGED <<nameOf, buckets, late, made>>
             \/ Fault /\ \E i \in Free : \E m \in {Unresolved, Identified(i)} :
                  Create(i, n) /\ Hold(a, m) /\ UNCHANGED late
             \/ Fault /\ Hold(a, Unresolved) /\ late' \in {late, late \cup {n}} /\ UNCHANGED <<nameOf, buckets, made>>
  /\ UNCHANGED <<spec, access, row, applied, waived, lost, unrecorded, edits, applies, crashes, drifts>>

(* The variables of the service are set; a failed call may have done it.   *)
Wire(a) ==
  /\ Ready(a, "wire")
  /\ LET n == a.name  s == a.service IN
       IF marker[n] # None \/ bound[n] = None
       THEN Halt /\ UNCHANGED <<access, unrecorded, faults>>
       ELSE \/ /\ access' = [access EXCEPT ![s] = bound[n].id] /\ Hold(a, Done(bound[n].id))
               /\ unrecorded' = unrecorded \cup {s} /\ UNCHANGED faults
            \/ /\ Fault /\ Halt
               /\ \/ access' = [access EXCEPT ![s] = bound[n].id] /\ unrecorded' = unrecorded \cup {s}
                  \/ UNCHANGED <<access, unrecorded>>
  /\ UNCHANGED <<spec, nameOf, buckets, late, row, applied, made, waived, lost, edits, applies, crashes, drifts>>

(* They are set to nothing, which some providers show as absent.           *)
Unwire(a) ==
  /\ Ready(a, "unwire")
  /\ LET n == a.name  s == a.service IN
       IF marker[n] # None \/ bound[n] = None
       THEN Halt /\ UNCHANGED <<access, faults>>
       ELSE \/ \E none \in {NoKeys, Cleared} :
                 access' = [access EXCEPT ![s] = none] /\ Hold(a, Done(0)) /\ UNCHANGED faults
            \/ Fault /\ Halt /\ access' \in {access, [access EXCEPT ![s] = Cleared]}
  /\ UNCHANGED <<spec, nameOf, buckets, late, row, applied, ghosts, edits, applies, crashes, drifts>>

Destroy(a) ==
  /\ Ready(a, "destroy")
  /\ LET n == a.name IN
       IF marker[n] # None \/ bound[n] = None \/ bound[n].id # a.id
       THEN Halt /\ UNCHANGED <<buckets, faults>>
       ELSE \/ buckets' = buckets \ {a.id} /\ Hold(a, Done(0)) /\ UNCHANGED faults
            \/ Fault /\ Halt /\ buckets' \in {buckets, buckets \ {a.id}}
  /\ UNCHANGED <<spec, nameOf, late, access, row, applied, ghosts, edits, applies, crashes, drifts>>

(* What is written of the action: creating reads the bindings afresh, the  *)
(* others change the ones they read before the call.                       *)
Written(a, i) ==
  LET n == a.name  read == held.read[n] IN
  CASE a.op = "ensure"  -> [bound EXCEPT ![n] =
         [id |-> i, services |-> IF bound[n] = None THEN {} ELSE bound[n].services]]
    [] a.op = "wire"    -> [held.read EXCEPT ![n].services = read.services \cup {a.service}]
    [] a.op = "unwire"  -> [held.read EXCEPT ![n].services = read.services \ {a.service}]
    [] a.op = "destroy" -> [held.read EXCEPT ![n] = None]

Finish(next) == todo' = next /\ held' = Ended /\ adopted' = {}
Frame == UNCHANGED <<spec, provider, applied, made, waived, counters>>

(* The marker goes unless it changed since.                                *)
WriteCleared ==
  /\ held # Ended /\ held.action.op = "clear"
  /\ LET n == held.action.name IN
       IF marker[n] = held.result
       THEN marker' = [marker EXCEPT ![n] = None] /\ Finish(todo \ {held.action})
       ELSE UNCHANGED marker /\ Finish({})
  /\ Frame /\ UNCHANGED <<bound, lost, unrecorded>>

WriteMarker ==
  /\ held # Ended /\ held.action.op = "ensure" /\ held.result.state # "done"
  /\ marker' = [marker EXCEPT ![held.action.name] = held.result]
  /\ Finish({}) /\ Frame /\ UNCHANGED <<bound, lost, unrecorded>>

WriteBinding ==
  /\ held # Ended /\ held.action.op # "clear" /\ held.result.state = "done"
  /\ bound' = Written(held.action, held.result.id)
  /\ lost' = lost \cup {bound[n].id : n \in {m \in adopted : bound'[m] = None \/ bound'[m].id # bound[m].id}}
  /\ unrecorded' = IF held.action.op = "wire" THEN unrecorded \ {held.action.service} ELSE unrecorded
  /\ Finish(todo \ {held.action}) /\ Frame /\ UNCHANGED marker

(* A service is deployed during an apply, with the variables of the bucket *)
(* that the spec injects, if it is bound.                                  *)
Deploy ==
  /\ todo # {} /\ held = Ended
  /\ \E i \in DOMAIN applied, s \in Service :
       LET n == applied[i].name IN
       /\ s \in applied[i].into /\ bound[n] # None /\ access[s] # bound[n].id
       /\ access' = [access EXCEPT ![s] = bound[n].id]
       /\ unrecorded' = IF Wired(n, s) THEN unrecorded \ {s} ELSE unrecorded \cup {s}
  /\ UNCHANGED <<spec, nameOf, buckets, late, row, todo, applied, held, adopted, made, waived, lost, counters>>

Crash ==
  /\ crashes < MaxCrashes /\ crashes' = crashes + 1 /\ todo # {}
  /\ LET cut == {n \in Name : InHand("ensure", n)} IN
       /\ waived' = waived \cup cut
       /\ lost' = lost \cup (made \cap UNION {Named(n) : n \in cut})
  /\ Finish({})
  /\ UNCHANGED <<spec, provider, row, applied, made, unrecorded, edits, applies, faults, drifts>>

(***************************************************************************)
(* Others                                                                  *)
(***************************************************************************)
Edit ==
  /\ edits < MaxEdits /\ edits' = edits + 1 /\ spec' \in Specs \ {spec}
  /\ UNCHANGED <<provider, row, todo, applied, held, adopted, ghosts, applies, faults, crashes, drifts>>

(* A create of unknown outcome takes effect after all.                     *)
Land ==
  /\ \E n \in late, i \in Free :
       /\ Create(i, n) /\ late' = late \ {n}
       /\ lost' = IF n \in waived THEN lost \cup {i} ELSE lost
  /\ UNCHANGED <<spec, access, row, todo, applied, held, adopted, waived, unrecorded, counters>>

(* A user creates or deletes a bucket at the provider.                     *)
Drift ==
  /\ drifts < MaxDrifts /\ drifts' = drifts + 1
  /\ \/ \E i \in Free, n \in Name : nameOf' = [nameOf EXCEPT ![i] = n] /\ buckets' = buckets \cup {i}
     \/ \E i \in buckets : buckets' = buckets \ {i} /\ UNCHANGED nameOf
  /\ UNCHANGED <<spec, late, access, row, todo, applied, held, adopted, ghosts, edits, applies, faults, crashes>>

(* An import binds a bucket that is neither bound nor being created to a   *)
(* name that is not bound, provided that it is what the retained marker,   *)
(* if any, is about.                                                       *)
Import ==
  /\ \E n \in Name, i \in buckets \ BoundIds :
       /\ bound[n] = None /\ ~InHand("ensure", nameOf[i])
       /\ marker[n] # None => IF marker[n].id = 0 THEN nameOf[i] = n ELSE marker[n].id = i
       /\ bound' = [bound EXCEPT ![n] = [id |-> i, services |-> {}]]
       /\ marker' = [marker EXCEPT ![n] = None]
       /\ adopted' = IF held = Ended THEN {} ELSE adopted \cup {n}
       /\ IF marker[n] = None THEN UNCHANGED <<waived, lost>>
          ELSE waived' = waived \cup {n} /\ lost' = lost \cup ((Named(n) \cap made) \ {i})
  /\ UNCHANGED <<spec, provider, todo, applied, held, made, unrecorded, counters>>

Apply ==
  \/ StartApply \/ WriteCleared \/ WriteMarker \/ WriteBinding \/ Deploy \/ Crash
  \/ \E a \in todo : Clear(a) \/ Ensure(a) \/ Wire(a) \/ Unwire(a) \/ Destroy(a)
Next == Apply \/ Edit \/ Land \/ Drift \/ Import
Spec == Init /\ [][Next]_vars

(***************************************************************************)
(* Properties                                                              *)
(***************************************************************************)
(* A bucket Hypervibe created and that exists is bound, marked or about to *)
(* be, unless the process died before writing, its create took effect      *)
(* after the marker's release, or an import named another bucket.       *)
NothingForgotten ==
  \A i \in made \cap buckets :
    i \in BoundIds \/ marker[nameOf[i]] # None \/ InHand("ensure", nameOf[i]) \/ i \in lost

(* Hypervibe does not create a second bucket of a name while it has one.   *)
OneBucketPerName ==
  \A i, j \in (made \cap buckets) \ lost : nameOf[i] = nameOf[j] => i = j

(* Creates of unknown outcome are neither forgotten nor repeated.          *)
BucketsAreKnown == NothingForgotten /\ OneBucketPerName

(* A service has the access of a bucket only if the binding lists it, so   *)
(* that it can be taken away, but for failed or unfinished wirings.        *)
AccessIsRecorded ==
  \A s \in Service \ unrecorded :
    access[s] \in Id => \E n \in Name : Wired(n, s) /\ bound[n].id = access[s]

(* When Hypervibe deletes a bucket, no service is left with its variables. *)
DeletedIsUnwired ==
  [][\A i \in buckets \ buckets' :
       drifts' = drifts => \A s \in Service \ unrecorded : access[s] # i]_vars

(* README.md:47 has storage wired into the services that `injectInto`      *)
(* names: when an apply is over, each service that a declared bucket's     *)
(* binding lists has the variables of that bucket.                         *)
WiredHasAccess ==
  todo = {} =>
    \A i \in DOMAIN applied : \A s \in applied[i].into :
      Wired(applied[i].name, s) => access[s] = bound[applied[i].name].id
=============================================================================
