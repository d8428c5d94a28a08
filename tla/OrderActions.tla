----------------------------- MODULE OrderActions ---------------------------
(***************************************************************************)
(* orderActions: the depth-first search that turns the actions of a plan   *)
(* document into the order they are executed in, or into one of the errors *)
(* an apply is refused with.  A plan document is parsed from the database, *)
(* so ids may repeat and dependencies may be unknown, cyclic or repeated.  *)
(* The calls of visit that have not returned are kept as a stack.          *)
(***************************************************************************)
EXTENDS Naturals, Sequences, SequencesExt

CONSTANTS
  Id,          \* action ids
  MaxActions,  \* length of a plan
  MaxDeps      \* dependsOn entries of an action

VARIABLES
  actions,     \* the plan's actions, each with an id and dependsOn
  begun,       \* how many of them the search has begun with
  calls,       \* calls of visit: an id and the dependencies looked at
  order,       \* actions that are done, in the order they will run in
  ended        \* how the search ended, "no" before that
search == <<actions, begun, calls, order, ended>>

PlanAction == [id : Id, dependsOn : BoundedSeq(Id, MaxDeps)]
Call == [id : Id, looked : Nat]
Outcome == {"ordered", "duplicate", "unknown", "cycle"}

Known(acts) == {acts[i].id : i \in 1..Len(acts)}
DependsOn(acts, id) == acts[CHOOSE i \in 1..Len(acts) : acts[i].id = id].dependsOn
Unique(acts) == \A i, j \in 1..Len(acts) : acts[i].id = acts[j].id => i = j

Done == ToSet(order)
Visiting == {calls[i].id : i \in 1..Len(calls)}
Top == calls[Len(calls)]

Init ==
  /\ actions \in BoundedSeq(PlanAction, MaxActions)
  /\ begun = 0 /\ calls = <<>> /\ order = <<>> /\ ended = "no"

-----------------------------------------------------------------------------
(* The ids are compared before anything is visited.                        *)
FindDuplicate ==
  /\ ended = "no" /\ ~Unique(actions)
  /\ ended' = "duplicate"
  /\ UNCHANGED <<actions, begun, calls, order>>

Searching == ended = "no" /\ Unique(actions)

(* A call of visit from the calls below it: a done action returns at once. *)
Visit(id, below) ==
  calls' = IF id \in Done THEN below ELSE Append(below, [id |-> id, looked |-> 0])

VisitNext ==
  /\ Searching /\ calls = <<>> /\ begun < Len(actions)
  /\ begun' = begun + 1
  /\ Visit(actions[begun + 1].id, <<>>)
  /\ UNCHANGED <<actions, order, ended>>

Needed == DependsOn(actions, Top.id)
Looking == Searching /\ calls # <<>> /\ Top.looked < Len(Needed)
Looked == Needed[Top.looked + 1]

VisitNeeded ==
  /\ Looking /\ Looked \in Known(actions) \ Visiting
  /\ Visit(Looked, [calls EXCEPT ![Len(calls)].looked = @ + 1])
  /\ UNCHANGED <<actions, begun, order, ended>>

Refuse ==
  /\ Looking /\ Looked \notin Known(actions) \ Visiting
  /\ ended' = IF Looked \in Known(actions) THEN "cycle" ELSE "unknown"
  /\ UNCHANGED <<actions, begun, calls, order>>

Returning == Searching /\ calls # <<>> /\ Top.looked = Len(Needed)

(* Mutated form: an action is put before those that are done.              *)
BadReturn ==
  /\ Returning
  /\ order' = <<Top.id>> \o order
  /\ calls' = Front(calls)
  /\ UNCHANGED <<actions, begun, ended>>

Return ==
  /\ Returning
  /\ order' = Append(order, Top.id)
  /\ calls' = Front(calls)
  /\ UNCHANGED <<actions, begun, ended>>

End ==
  /\ Searching /\ calls = <<>> /\ begun = Len(actions)
  /\ ended' = "ordered"
  /\ UNCHANGED <<actions, begun, calls, order>>

Next == FindDuplicate \/ VisitNext \/ VisitNeeded \/ Refuse \/ Return \/ End
Spec == Init /\ [][Next]_search

-----------------------------------------------------------------------------
(* The reference: a graph without the search.                              *)
Needs(acts, a, b) ==
  \E i \in 1..Len(acts) : acts[i].id = a /\ \E k \in 1..Len(acts[i].dependsOn) : acts[i].dependsOn[k] = b
Direct(acts, a) == {b \in Id : Needs(acts, a, b)}
Reached(acts, from) ==
  {id \in Id : \A S \in SUBSET Id : from \subseteq S /\ (\A a \in S : Direct(acts, a) \subseteq S) => id \in S}
Below(acts, id) == Reached(acts, Direct(acts, id))

Closed(acts) == \A id \in Known(acts) : Direct(acts, id) \subseteq Known(acts)
Acyclic(acts) == \A id \in Known(acts) : id \notin Below(acts, id)

Index(id) == CHOOSE i \in 1..Len(order) : order[i] = id
Listed(k) == {actions[i].id : i \in 1..k}

(* An apply is refused exactly for a plan with a repeated id, an unknown   *)
(* dependency or a cycle, and the error names a defect the plan has.       *)
RefusesDefectsOnly ==
  ended # "no" =>
    /\ ended = "ordered" <=> Unique(actions) /\ Closed(actions) /\ Acyclic(actions)
    /\ ended = "duplicate" <=> ~Unique(actions)
    /\ ended = "unknown" => ~Closed(actions)
    /\ ended = "cycle" => ~Acyclic(actions)

(* Every action is executed once and after all it transitively needs.      *)
DependenciesComeFirst ==
  ended = "ordered" =>
    /\ Len(order) = Len(actions) /\ Done = Known(actions)
    /\ \A id \in Known(actions) : \A d \in Below(actions, id) : Index(d) < Index(id)

(* The plan's own order is left only for dependencies: what runs before an *)
(* action was listed before it, or is needed by it or by one of those.     *)
ListingOrderIsKept ==
  ended = "ordered" =>
    \A k \in 1..Len(actions) : \A i \in 1..Index(actions[k].id) :
      order[i] \in Reached(actions, Listed(k))
=============================================================================
