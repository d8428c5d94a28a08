----------------------------- MODULE CiRollback -----------------------------
(***************************************************************************)
(* hv_rollback through managed CI (ci-rollback.service.ts and              *)
(* gitlab-ci.rollback.ts): releases are observed, a plan is written, the   *)
(* observation is repeated by the handler (twice at GitLab, where a tag    *)
(* comes first), and a run is dispatched. The generated workflow checks    *)
(* once more, in the job that changes production. Meanwhile others push,   *)
(* start runs again, change the managed program and roll back themselves.  *)
(* The workflow runs, production and the artifacts are external.           *)
(***************************************************************************)
EXTENDS Naturals, FiniteSets, Sequences, FiniteSetsExt

CONSTANTS
  Clients,    \* processes that run hv_rollback
  Shas,       \* commits
  Explicit,   \* the commits a client may ask for by name
  MaxRuns, MaxAgain, MaxLosses

VARIABLES
  forge,      \* where CI runs, "github" or "gitlab"
  runs,       \* the deploy runs, by creation: [sha, rollback, expected, source, status, turn, again, program]
  production, \* the commit that runs
  writer,     \* the run that changed production last
  expired,    \* runs whose release evidence is gone
  program,    \* version of the managed configuration
  stage,      \* where each client is
  seen,       \* what each client planned from
  wanted      \* the sha each client asked for, or Best
world == <<forge, production, writer>>
vars == <<world, runs, expired, program, stage, seen, wanted>>

Best == "any"
Nothing == [latest |-> 0, ended |-> "none", selection |-> "none", target |-> 0, turn |-> 0]
Done == {"success", "failure", "cancelled"}
Indexes == 1 .. Len(runs)
Turns == {runs[i].turn : i \in Indexes}

TypeOK ==
  /\ \A i \in Indexes : runs[i].status \in Done \cup {"queued", "running", "deploying"}
  /\ production \in Shas /\ writer \in Indexes /\ expired \subseteq Indexes
  /\ stage \in [Clients -> {"idle", "planned", "tagged", "verified"}]
  /\ wanted \in [Clients -> Explicit \cup {Best}]

-----------------------------------------------------------------------------
(* What a client makes of the runs.                                        *)

Evident(i) == runs[i].status = "success" /\ i \notin expired

(* GitLab: evidence of any other program is an error, whichever run it is. *)
Readable == forge = "gitlab" => \A i \in Indexes : Evident(i) => runs[i].program = program

Current == IF runs[Len(runs)].status = "success" THEN Len(runs) ELSE 0

Candidates(want) ==
  {i \in Indexes : Evident(i) /\ (IF want # Best THEN runs[i].sha = want
                                  ELSE Current # 0 => runs[i].sha # runs[Current].sha)}

Offers(want) ==
  /\ runs[Len(runs)].status \in Done
  /\ Readable
  /\ Current # 0 => Evident(Current) /\ want # runs[Current].sha
  /\ Candidates(want) # {}

Observation(want) ==
  LET target == Max(Candidates(want)) IN
  [latest |-> Len(runs), ended |-> runs[Len(runs)].status,
   selection |-> IF want # Best THEN "explicit"
                 ELSE IF Current # 0 THEN "previous_successful" ELSE "last_known_good",
   target |-> target, turn |-> runs[target].turn]

-----------------------------------------------------------------------------
(* The forge.                                                              *)

Run(sha, rollback, expected, source) ==
  [sha |-> sha, rollback |-> rollback, expected |-> expected, source |-> source,
   status |-> "queued", turn |-> Max(Turns) + 1, again |-> FALSE, program |-> program]

(* A concurrency group at GitHub keeps one waiting run, the newest.        *)
Waiting(rs, i) ==
  [j \in DOMAIN rs |->
    IF forge = "github" /\ j # i /\ rs[j].status = "queued" THEN [rs[j] EXCEPT !.status = "cancelled"] ELSE rs[j]]

Enqueue(run) ==
  /\ Len(runs) < MaxRuns
  /\ runs' = Waiting(Append(runs, run), Len(runs) + 1)

Push(sha) ==
  /\ Enqueue(Run(sha, FALSE, 0, 0))
  /\ UNCHANGED <<world, expired, program, stage, seen, wanted>>

(* A user starts a run again; GitLab refuses that once a newer deployment  *)
(* has succeeded.                                                          *)
Again(i) ==
  /\ Cardinality({j \in Indexes : runs[j].again}) < MaxAgain
  /\ runs[i].status \in Done /\ ~runs[i].again
  /\ forge = "gitlab" => \A j \in Indexes : j > i => runs[j].status # "success"
  /\ runs' = Waiting([runs EXCEPT ![i] = [@ EXCEPT !.status = "queued", !.turn = Max(Turns) + 1, !.again = TRUE]], i)
  /\ UNCHANGED <<world, expired, program, stage, seen, wanted>>

Start(i) ==
  /\ runs[i].status = "queued" /\ \A j \in Indexes : runs[j].status \notin {"running", "deploying"}
  /\ runs' = [runs EXCEPT ![i].status = "running"]
  /\ UNCHANGED <<world, expired, program, stage, seen, wanted>>

(* Mutated form: only the evidence is verified. *)
BadGitHubAdmits(i) == runs[i].rollback => Evident(runs[i].source)

(* Verify rollback release evidence: the newest other run is the expected  *)
(* one, and the source is a successful run with its artifact.              *)
GitHubAdmits(i) ==
  runs[i].rollback =>
    /\ Max(Indexes \ {i}) = runs[i].expected
    /\ Evident(runs[i].source)

(* Mutated form: a run that was queued later is not looked for. *)
BadGitLabAdmits(i) ==
  runs[i].rollback => runs[i].source <= runs[i].expected /\ ~runs[i].again

(* deployment-gate: no newer deployment; for a rollback, none of a         *)
(* pipeline after the expected one before it, an attempt of its own        *)
(* included.                                                               *)
GitLabAdmits(i) ==
  /\ \A j \in Indexes : runs[j].turn <= runs[i].turn
  /\ runs[i].rollback =>
       /\ runs[i].source <= runs[i].expected /\ ~runs[i].again
       /\ \A j \in Indexes \ {i} : j <= runs[i].expected

Admits(i) == IF forge = "github" THEN GitHubAdmits(i) ELSE GitLabAdmits(i)

Gate(i) ==
  /\ runs[i].status = "running"
  /\ runs' = [runs EXCEPT ![i].status = IF Admits(i) THEN "deploying" ELSE "failure"]
  /\ UNCHANGED <<world, expired, program, stage, seen, wanted>>

(* A run that deploys changes production and succeeds, or fails before or  *)
(* after the change.                                                       *)
Deploy(i) ==
  /\ runs[i].status = "deploying"
  /\ \E ok, changed \in BOOLEAN :
       /\ ok => changed
       /\ runs' = [runs EXCEPT ![i].status = IF ok THEN "success" ELSE "failure"]
       /\ production' = IF changed THEN runs[i].sha ELSE production
       /\ writer' = IF changed THEN i ELSE writer
  /\ UNCHANGED <<forge, expired, program, stage, seen, wanted>>

Losses == Cardinality(expired) + program - 1

Expire(i) ==
  /\ Losses < MaxLosses /\ Evident(i)
  /\ expired' = expired \cup {i}
  /\ UNCHANGED <<world, runs, program, stage, seen, wanted>>

(* Another managed configuration is merged; evidence at GitHub names none. *)
NewProgram ==
  /\ forge = "gitlab" /\ Losses < MaxLosses /\ program' = program + 1
  /\ UNCHANGED <<world, runs, expired, stage, seen, wanted>>

-----------------------------------------------------------------------------
(* A client.                                                               *)

(* observeManagedCiRollback, and the plan row.                             *)
Ask(c, want) ==
  /\ stage[c] = "idle" /\ Offers(want)
  /\ stage' = [stage EXCEPT ![c] = "planned"]
  /\ seen' = [seen EXCEPT ![c] = Observation(want)]
  /\ wanted' = [wanted EXCEPT ![c] = want]
  /\ UNCHANGED <<world, runs, expired, program>>

Unchanged(c) == Offers(wanted[c]) /\ Observation(wanted[c]) = seen[c]

(* A command that ends leaves nothing behind that it would read again.     *)
End(c) ==
  /\ stage' = [stage EXCEPT ![c] = "idle"]
  /\ seen' = [seen EXCEPT ![c] = Nothing] /\ wanted' = [wanted EXCEPT ![c] = Best]

(* The handler observes again and goes on only if it sees the same. At     *)
(* GitLab the handler of the tag does so first; the tag is named after the *)
(* release and never moves.                                                *)
Verify(c) ==
  /\ stage[c] \in {"planned", "tagged"}
  /\ IF Unchanged(c)
     THEN /\ stage' = [stage EXCEPT ![c] = IF forge = "gitlab" /\ @ = "planned" THEN "tagged" ELSE "verified"]
          /\ UNCHANGED <<seen, wanted>>
     ELSE End(c)
  /\ UNCHANGED <<world, runs, expired, program>>

(* triggerWorkflow: the inputs are those of the plan. The client reports   *)
(* pending and is done.                                                    *)
Dispatch(c) ==
  /\ stage[c] = "verified"
  /\ Enqueue(Run(runs[seen[c].target].sha, TRUE, seen[c].latest, seen[c].target))
  /\ End(c) /\ UNCHANGED <<world, expired, program>>

Die(c) ==
  /\ stage[c] # "idle" /\ End(c)
  /\ UNCHANGED <<world, runs, expired, program>>

(* Two releases were made one after the other.                             *)
Init ==
  /\ \E a, b \in Shas :
       /\ a # b /\ production = b
       /\ runs = <<[sha |-> a, rollback |-> FALSE, expected |-> 0, source |-> 0, status |-> "success", turn |-> 1,
                    again |-> FALSE, program |-> 1],
                   [sha |-> b, rollback |-> FALSE, expected |-> 0, source |-> 0, status |-> "success", turn |-> 2,
                    again |-> FALSE, program |-> 1]>>
  /\ forge \in {"github", "gitlab"} /\ writer = 2 /\ expired = {} /\ program = 1
  /\ stage = [c \in Clients |-> "idle"] /\ seen = [c \in Clients |-> Nothing] /\ wanted = [c \in Clients |-> Best]

Next ==
  \/ \E sha \in Shas : Push(sha)
  \/ \E i \in Indexes : Again(i) \/ Start(i) \/ Gate(i) \/ Deploy(i) \/ Expire(i)
  \/ NewProgram
  \/ \E c \in Clients :
       \/ \E want \in Explicit \cup {Best} : Ask(c, want)
       \/ Verify(c) \/ Dispatch(c) \/ Die(c)

Spec == Init /\ [][Next]_vars

-----------------------------------------------------------------------------
(* Hazard: pushes and other rollbacks reach production between the         *)
(* observation and the deployment of a rollback. A rollback never replaces *)
(* what a run newer than the observed ones deployed, and what it restores  *)
(* comes from a run that had succeeded when it was observed.               *)
UndoesOnlyWhatWasSeen ==
  [][\A i \in Indexes :
       runs[i].rollback /\ writer' = i /\ writer # i =>
         writer <= runs[i].expected /\ runs[i].source <= runs[i].expected
         /\ runs[i].sha = runs[runs[i].source].sha]_vars

(* Hazard: two clients roll back from the same observation. At most one of *)
(* them gets through, however their runs are started again.                *)
OneRollbackPerObservation ==
  \A i, j \in Indexes :
    i # j /\ runs[i].rollback /\ runs[j].rollback /\ runs[i].expected = runs[j].expected
    => ~({runs[i].status, runs[j].status} \subseteq {"deploying", "success"})

=============================================================================
