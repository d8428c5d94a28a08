----------------------------- MODULE MCDelivery -----------------------------
(***************************************************************************)
(* What reaches production through CI, side by side: rollbacks, also to a  *)
(* commit given by name ("named", where no run is started again), and the  *)
(* deployments configuration waits for. The initial state says which of    *)
(* them moves, and the other stays where it started. Clients, commits and  *)
(* applies are interchangeable.                                            *)
(**************************************************************************)
EXTENDS CiRollback, TLC
CONSTANTS Apply, MaxWrites, MaxDeploys, MaxUnread
Names == Permutations(Clients) \cup Permutations(Shas) \cup Permutations(Apply)

VARIABLES
  part, \* what moves
  config, latest, apply, rollout, raced, unread
rollouts == <<config, latest, apply, rollout, raced, unread>>

Named == INSTANCE CiRollback WITH Explicit <- Shas, MaxAgain <- 0
Rollout == INSTANCE RuntimeRollout
ASSUME RolloutAssumption == Rollout!Assumption

MCInit ==
  /\ part \in {"rollback", "named", "rollout"} /\ Init /\ Rollout!Init
  /\ part # "rollout" => latest.id = 0
  /\ part = "rollout" => forge = "github"
MCNext ==
  \/ part = "rollback" /\ Next /\ UNCHANGED <<part, rollouts>>
  \/ part = "named" /\ Named!Next /\ UNCHANGED <<part, rollouts>>
  \/ part = "rollout" /\ Rollout!Next /\ UNCHANGED <<part, vars>>
MCSpec == MCInit /\ [][MCNext]_<<part, vars, rollouts>>

(* A requirement is met only by a deployment that carries the change.      *)
MetMeansCarried == Rollout!MetMeansCarried
=============================================================================
