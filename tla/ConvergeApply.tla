---------------------------- MODULE ConvergeApply ---------------------------
(***************************************************************************)
(* One hv_apply of a plan document, from orderActions to its end: the      *)
(* document is searched for an order, and refused or executed in it.       *)
(* Documents with fewer actions than Action has are only ordered.          *)
(***************************************************************************)
EXTENDS ConvergeExecutor, SequencesExt

CONSTANTS MaxActions, MaxDeps  \* bounds of plan documents

ASSUME BoundAssumption == MaxActions \in Nat /\ MaxDeps \in Nat

VARIABLES
  actions, begun, calls, order, ended, \* the document and its search
  phase                                \* whether it is ordered or executed
document == <<actions, begun, calls, order, ended>>

Order == INSTANCE OrderActions WITH Id <- Action

NoActions == [deps |-> [a \in Action |-> {}], noop |-> {}, gated |-> {}]

ApplyInit ==
  /\ plan = NoActions /\ confirmed = {} /\ Init
  /\ Order!Init /\ phase = "order"

Search == phase = "order" /\ Order!Next /\ UNCHANGED <<vars, phase>>

(* The order found is executed, and the document is not looked at again.   *)
Begin ==
  /\ phase = "order" /\ ended = "ordered" /\ Order!Known(actions) = Action
  /\ \E noop, gated \in SUBSET Action :
       plan' = [deps |-> [a \in Action |-> ToSet(Order!DependsOn(actions, a))],
                noop |-> noop, gated |-> gated]
  /\ confirmed' \in SUBSET plan'.gated
  /\ ordered' = order
  /\ phase' = "execute" /\ actions' = <<>> /\ begun' = 0 /\ order' = <<>> /\ ended' = "no"
  /\ UNCHANGED <<calls, loop, handler, receipts, table, pc>>

ApplyNext == Search \/ Begin \/ (phase = "execute" /\ Next /\ UNCHANGED <<document, phase>>)
ApplySpec == ApplyInit /\ [][ApplyNext]_<<vars, document, phase>>

-----------------------------------------------------------------------------
(* The loop and its gate implement the stage-gated apply: no action is     *)
(* tried before the whole plan is confirmed, twice, before what the        *)
(* document makes it depend on, or after anything that did not succeed.    *)
Staged == INSTANCE StagedApply WITH
  tried <- called, done <- completed, outcome <- IF phase = "order" THEN "reviewing" ELSE row
ImplementsStaged == Staged!Spec

(* The order of a document: it is refused exactly for its own defects, and *)
(* otherwise every action comes once, after all it needs, and the          *)
(* document's own order is left only for that.                             *)
OrderIsRight == Order!RefusesDefectsOnly /\ Order!DependenciesComeFirst /\ Order!ListingOrderIsKept
=============================================================================
