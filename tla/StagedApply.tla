----------------------------- MODULE StagedApply ----------------------------
(***************************************************************************)
(* What applying a reviewed plan promises, whatever order the actions run  *)
(* in and however their receipts are kept: nothing is tried while an       *)
(* action awaits confirmation, an action is tried once, after everything   *)
(* it depends on is done and while nothing tried before is undone, and the *)
(* outcome "succeeded" means that every action is done.                    *)
(***************************************************************************)
CONSTANT Action

VARIABLES
  plan,      \* deps, noop actions, gated actions
  confirmed, \* actions the caller confirmed
  tried,     \* actions handed to the provider
  done,      \* actions known to be converged
  outcome    \* status of the apply run, or that there is none yet

vars == <<plan, confirmed, tried, done, outcome>>

Init ==
  /\ plan.deps \in [Action -> SUBSET Action]
  /\ tried = {} /\ done = {} /\ outcome \in {"reviewing", "running"}

(* The plan and what is confirmed of it become known once.                 *)
Review ==
  /\ outcome = "reviewing" /\ outcome' = "running"
  /\ plan'.deps \in [Action -> SUBSET Action]
  /\ UNCHANGED <<tried, done>>

Ready(a) == a \notin done /\ plan.deps[a] \subseteq done

Try(a) ==
  /\ outcome = "running"
  /\ Ready(a)
  /\ a \notin plan.noop \cup tried
  /\ tried \subseteq done
  /\ plan.gated \subseteq plan.noop \cup confirmed
  /\ tried' = tried \cup {a}
  /\ UNCHANGED <<plan, confirmed, done, outcome>>

Finish(a) ==
  /\ outcome = "running"
  /\ Ready(a)
  /\ a \in plan.noop \cup tried
  /\ done' = done \cup {a}
  /\ UNCHANGED <<plan, confirmed, tried, outcome>>

End(status) ==
  /\ outcome = "running" /\ outcome' = status
  /\ status = "succeeded" => done = Action
  /\ UNCHANGED <<plan, confirmed, tried, done>>

Next ==
  \/ Review
  \/ \E a \in Action : Try(a) \/ Finish(a)
  \/ \E status \in {"succeeded", "failed", "blocked", "pending"} : End(status)

Spec == Init /\ [][Next]_vars
=============================================================================
