-------------------------- MODULE MCConvergeApply ---------------------------
(***************************************************************************)
(* ConvergeApply, and beside it one command at a time that plans and       *)
(* applies (PlanApply), whose provider may fail to answer, while others    *)
(* are calm: the initial state says which of the two moves. Ids are        *)
(* interchangeable.                                                        *)
(***************************************************************************)
EXTENDS ConvergeApply, TLC
CONSTANTS
  Command, Deployer, Dying, Throwing, Env, Integrated, Opaque, Aging, PlanRun, ApplyRun, NoRun,
  Unknown, MaxRevision, MaxWrites, MaxDrift
Ids == Permutations(Action) \cup Permutations(PlanRun) \cup Permutations(ApplyRun)

VARIABLES
  part, \* what moves
  revision, tracked, writes, unseen, drift, integration, plans, applies, session, history
commands == <<revision, tracked, writes, unseen, drift, integration, plans, applies, session, history>>

Sole == INSTANCE PlanApply WITH Crashable <- Dying, None <- NoRun
ASSUME SoleAssumption ==
  /\ Sole!SubsetAssumption /\ Sole!NoneAssumption /\ Sole!BoundAssumption /\ Sole!DocAssumption
  /\ \E k \in Command : Command = {k}

MCInit ==
  /\ part \in {"converge", "command"} /\ ApplyInit /\ Sole!Init
  /\ part = "converge" => tracked = {}
  /\ part = "command" => actions = <<>>
MCNext ==
  \/ part = "converge" /\ ApplyNext /\ UNCHANGED <<part, commands>>
  \/ part = "command" /\ Sole!Next /\ Sole!Calm /\ UNCHANGED <<part, vars, document, phase>>
MCSpec == MCInit /\ [][MCNext]_<<part, vars, document, phase, commands>>

(* docs/TOOLS.md:11, for one command at a time: hv_apply rejects a plan if *)
(* the spec changed since, or the infrastructure its fingerprints cover.   *)
StalePlanRejected == Sole!StalePlanRejected
=============================================================================
