---------------------------- MODULE MCPlanApply ----------------------------
(* Instances of PlanApply for TLC: ids are interchangeable model values.   *)
EXTENDS PlanApply, TLC
Ids == Permutations(PlanRun) \cup Permutations(ApplyRun)
All == Ids \cup Permutations(Command) \cup Permutations(Env)
=============================================================================
