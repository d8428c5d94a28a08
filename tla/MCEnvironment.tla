--------------------------- MODULE MCEnvironment ----------------------------
(***************************************************************************)
(* The two components that write the bindings of an environment, side by   *)
(* side: the initial state says which of them moves, and the other stays   *)
(* where it started.                                                       *)
(***************************************************************************)
EXTENDS EnvironmentBindings, TLC, Sequences
CONSTANTS Server, Service, Order, Existing, MaxDeploys, MaxDeployFaults, MaxDeployCrashes
OnServer(h) == Server
WebFirst == <<"web", "cron">>
Names == Permutations(Handler) \cup Permutations(Env) \cup Permutations(Key)

VARIABLES
  part, \* the component that moves
  projects, live, inflight, stored, at, todo, got, tx, undo, pending, failed, caught,
  begun, clean, unretained, ids, deploys, thrown, died
deployment == <<projects, live, inflight, stored, at, todo, got, tx, undo, pending, failed,
                caught, begun, clean, unretained, ids, deploys, thrown, died>>

Deploy == INSTANCE DeployTransaction WITH
  row <- stored, faults <- thrown, crashes <- died,
  MaxFaults <- MaxDeployFaults, MaxCrashes <- MaxDeployCrashes
ASSUME DeployAssumption == Deploy!Assumption

MCInit ==
  /\ part \in {"bindings", "deploy"} /\ Init /\ Deploy!Init
  /\ part = "bindings" => projects = {}
  /\ part = "deploy" => row = [e \in Env |-> NoRow]
MCNext ==
  \/ part = "bindings" /\ Next /\ UNCHANGED <<part, deployment>>
  \/ part = "deploy" /\ Deploy!Next /\ UNCHANGED <<part, vars>>
MCSpec == MCInit /\ [][MCNext]_<<part, vars, deployment>>

(* At most one service of a name is, or may become, live, and what a       *)
(* deploy leaves at the provider is bound or retained.                     *)
NothingForgotten == Deploy!OneServicePerName /\ Deploy!NothingForgotten
(* A rollback restores the bindings, and deletes nothing that was there.   *)
UndoesItsDeploy == Deploy!UndoesItsDeploy
=============================================================================
