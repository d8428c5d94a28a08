---------------------------- MODULE ManagedFiles ----------------------------
(***************************************************************************)
(* The files Hypervibe keeps in a GitHub repository                        *)
(* (github-infrastructure.service.ts, ci-deploy.service.ts): applies of    *)
(* several environments commit to one branch and open one pull request,    *)
(* people merge it, and what the branch is worth afterwards is found out   *)
(* from its head. A file is there or not; the manifest lists files.        *)
(* Commits are not numbered: an apply knows of the heads it read whether   *)
(* they still are the heads. People and GitHub are external.               *)
(***************************************************************************)
EXTENDS Naturals

CONSTANTS
  Env,         \* environments deployed by CI; each names its deploy workflow file
  Canonical,   \* the one that plans the repository's own files
  Automation,  \* workflow files declared under github
  Drill,       \* workflow files of declared restore drills
  MaxTroubles  \* edits of the spec, acts of other people and failures

VARIABLES
  spec,        \* the declared files
  main,        \* the default branch: [files, list]
  branch,      \* hypervibe/github-infrastructure, or Absent
  pull,        \* whether the pull request is open
  doing,       \* the apply of each environment
  troubles,
  disturbed    \* whether an apply was cut short or overtaken, or others worked on the branch
github == <<main, branch, pull>>
vars == <<spec, github, doing, troubles, disturbed>>

Assumption == Canonical \in Env /\ MaxTroubles \in Nat

Unlisted == {"no manifest"}
Empty == [files |-> {}, list |-> {}]
Absent == [exists |-> FALSE, files |-> {}, list |-> {}, fork |-> Empty,
           ahead |-> FALSE, behind |-> FALSE, theirs |-> FALSE, merged |-> FALSE]
Idle == [at |-> "idle", spec |-> {}, batch |-> FALSE, base |-> Empty, old |-> FALSE,
         saw |-> "none", same |-> TRUE, merged |-> FALSE, pull |-> FALSE, retired |-> {}]
Writing == {"list", "put", "remove", "manifest", "pull"}

TypeOK ==
  /\ spec \subseteq Automation \cup Drill /\ pull \in BOOLEAN
  /\ main.files \cup branch.files \subseteq Env \cup Automation \cup Drill
  /\ pull => branch.exists /\ branch.ahead
  /\ \A e \in Env :
       /\ doing[e].at \in Writing \cup {"idle", "pulls", "closed", "recheck", "reset"}
       /\ doing[e].saw \in {"none", "base", "work"}

Init ==
  /\ spec \in SUBSET (Automation \cup Drill)
  /\ \E started \in BOOLEAN : \E deployed \in SUBSET Env :
       main = [files |-> deployed \cup IF started THEN spec ELSE {}, list |-> IF started THEN spec ELSE Unlisted]
  /\ branch = Absent /\ pull = FALSE
  /\ doing = [e \in Env |-> Idle]
  /\ troubles = 0 /\ disturbed = FALSE

-----------------------------------------------------------------------------
(* Git and what the applies know of it.                                    *)

At(c, old) == [Absent EXCEPT !.exists = TRUE, !.files = c.files, !.list = c.list, !.fork = c, !.behind = old]
Diverged == branch.ahead /\ branch.behind
Behind == ~branch.ahead /\ branch.behind

On(e, at) == doing[e].at = at
With(e, d) == [doing EXCEPT ![e] = d]
To(e, at) == [doing[e] EXCEPT !.at = at]

(* The head of the branch moves: the other applies have read an old one.   *)
Moved(d, e) == [f \in Env |-> IF f = e \/ d[f].at = "idle" THEN d[f] ELSE [d[f] EXCEPT !.same = FALSE]]
MovedAll(d) == [f \in Env |-> IF d[f].at = "idle" THEN d[f] ELSE [d[f] EXCEPT !.same = FALSE]]
MainMoved(d) == [f \in Env |-> IF d[f].at = "idle" THEN d[f] ELSE [d[f] EXCEPT !.old = TRUE]]

MergedList == IF branch.list = branch.fork.list THEN main.list ELSE branch.list
Mergeable == MergedList = main.list \/ main.list \in {branch.fork.list, branch.list}
MergedFiles == (main.files \ (branch.fork.files \ branch.files)) \cup (branch.files \ branch.fork.files)

-----------------------------------------------------------------------------
(* An apply.                                                               *)

Kept == UNCHANGED <<spec, troubles, disturbed>>
Goto(e, at) == doing' = With(e, To(e, at)) /\ UNCHANGED github
End(e) == doing' = With(e, Idle) /\ UNCHANGED github

(* What is proposed. A deploy whose workflow is missing proposes that file *)
(* and, for the canonical environment, the declared ones with it, without  *)
(* those of restore drills.                                                *)
Reconciles(e) == e = Canonical
Files(e) == IF doing[e].batch THEN doing[e].spec \ Drill ELSE doing[e].spec
Desired(e) == (IF Reconciles(e) THEN Files(e) ELSE {}) \cup (IF doing[e].batch THEN {e} ELSE {})

(* Planning found the workflow or a declared file missing on the default   *)
(* branch; the handler reads the heads of both branches.                   *)
Begin(e) ==
  /\ On(e, "idle")
  /\ \/ e \notin main.files
     \/ e = Canonical /\ (main.list # spec \/ ~(spec \subseteq main.files))
  /\ doing' = With(e, [Idle EXCEPT !.at = "pulls", !.spec = spec, !.batch = e \notin main.files,
                         !.base = main, !.merged = branch.merged,
                         !.saw = IF ~branch.exists THEN "none"
                                 ELSE IF branch.ahead \/ branch.behind THEN "work" ELSE "base"])
  /\ Kept /\ UNCHANGED github

(* There was no branch: it is created at the head that was read.           *)
CreateBranch(e) ==
  /\ On(e, "pulls") /\ doing[e].saw = "none"
  /\ IF pull \/ branch.exists THEN End(e)
     ELSE /\ branch' = At(doing[e].base, doing[e].old)
          /\ doing' = Moved(With(e, To(e, "list")), e) /\ UNCHANGED <<main, pull>>
  /\ Kept

(* The pull request is open: it must have the head just read.              *)
JoinPull(e) ==
  /\ On(e, "pulls") /\ doing[e].saw # "none" /\ pull
  /\ IF ~doing[e].same \/ Diverged THEN End(e)
     ELSE doing' = With(e, [To(e, "list") EXCEPT !.pull = TRUE]) /\ UNCHANGED github
  /\ Kept

(* No pull request: a branch that is only behind is moved forward, to a    *)
(* head that may be old by now.                                            *)
Forward(e) ==
  /\ On(e, "pulls") /\ doing[e].saw = "work" /\ ~pull /\ branch.exists /\ Behind
  /\ branch' \in {At(doing[e].base, doing[e].old)} \cup (IF doing[e].old THEN {branch} ELSE {})
  /\ doing' = Moved(With(e, IF doing[e].old THEN Idle ELSE To(e, "list")), e)
  /\ Kept /\ UNCHANGED <<main, pull>>

Reuse(e) ==
  /\ On(e, "pulls") /\ doing[e].saw # "none" /\ ~pull
  /\ \/ doing[e].saw = "base" /\ Goto(e, "list")
     \/ doing[e].saw = "work" /\ branch.exists /\ ~Behind /\ Goto(e, "closed")
     \/ doing[e].saw = "work" /\ ~branch.exists /\ End(e)
  /\ Kept

(* Mutated form: the closed pull requests are not looked through.          *)
BadProven(e) == TRUE

(* Otherwise its head must be that of a merged pull request.               *)
Proven(e) == doing[e].merged
LookAtClosed(e) == On(e, "closed") /\ (IF Proven(e) THEN Goto(e, "recheck") ELSE End(e)) /\ Kept

Recheck(e) ==
  /\ On(e, "recheck")
  /\ IF branch.exists /\ ~doing[e].same THEN End(e)
     ELSE /\ doing' = With(e, [To(e, "reset") EXCEPT !.base = main, !.old = FALSE, !.same = TRUE,
                                 !.saw = IF branch.exists THEN "work" ELSE "none"])
          /\ UNCHANGED github
  /\ Kept

(* updateRef with force does not compare again; what comes of it is read   *)
(* back.                                                                   *)
Reset(e) ==
  /\ On(e, "reset")
  /\ IF branch.exists # (doing[e].saw = "work") THEN End(e) /\ UNCHANGED disturbed
     ELSE /\ branch' = At(doing[e].base, doing[e].old)
          /\ pull' = FALSE
          /\ doing' = Moved(With(e, IF doing[e].old THEN Idle ELSE To(e, "list")), e)
          /\ disturbed' = (disturbed \/ doing[e].old \/ ~doing[e].same \/ \E f \in Env \ {e} : doing[f].at \in Writing)
          /\ UNCHANGED main
  /\ UNCHANGED <<spec, troubles>>

(* A write to the branch; none if there is nothing to change. It fails if  *)
(* the branch is gone.                                                     *)
Commit(e, at, files, list) ==
  LET next == To(e, at) IN
  IF files = branch.files /\ list = branch.list THEN Goto(e, at)
  ELSE IF ~branch.exists THEN End(e)
  ELSE /\ branch' = [branch EXCEPT !.files = files, !.list = list, !.ahead = TRUE, !.merged = FALSE]
       /\ doing' = Moved(With(e, next), e) /\ UNCHANGED <<main, pull>>

(* The manifest on the branch says what Hypervibe has managed.             *)
ReadManifest(e) ==
  /\ On(e, "list")
  /\ doing' = With(e, [To(e, "put") EXCEPT !.retired =
       IF Reconciles(e) /\ branch.list # Unlisted THEN branch.list \ Desired(e) ELSE {}])
  /\ Kept /\ UNCHANGED github

(* Files are written, then retired ones removed, then the manifest: each   *)
(* may be seen without the next.                                           *)
PutFiles(e) == On(e, "put") /\ Commit(e, "remove", branch.files \cup Desired(e), branch.list) /\ Kept
RemoveFiles(e) == On(e, "remove") /\ Commit(e, "manifest", branch.files \ doing[e].retired, branch.list) /\ Kept

(* Mutated form: the manifest is not written.                              *)
BadWriteManifest(e) == On(e, "manifest") /\ Goto(e, "pull") /\ Kept
WriteManifest(e) ==
  /\ On(e, "manifest")
  /\ Commit(e, "pull", branch.files, IF Reconciles(e) THEN Files(e) ELSE branch.list)
  /\ Kept

(* GitHub refuses a second one, and one without commits.                   *)
OpenPull(e) ==
  /\ On(e, "pull") /\ doing' = With(e, Idle)
  /\ pull' = (pull \/ (~doing[e].pull /\ branch.ahead))
  /\ Kept /\ UNCHANGED <<main, branch>>

Step(e) ==
  \/ CreateBranch(e) \/ JoinPull(e) \/ Forward(e) \/ Reuse(e)
  \/ LookAtClosed(e) \/ Recheck(e) \/ Reset(e)
  \/ ReadManifest(e) \/ PutFiles(e) \/ RemoveFiles(e) \/ WriteManifest(e) \/ OpenPull(e)

Trouble == troubles < MaxTroubles /\ troubles' = troubles + 1

(* A call fails or the process dies.                                       *)
Fail(e) ==
  /\ ~On(e, "idle") /\ Trouble
  /\ End(e) /\ disturbed' = (disturbed \/ doing[e].at \in Writing)
  /\ UNCHANGED spec

-----------------------------------------------------------------------------
(* People.                                                                 *)

EditSpec ==
  /\ Trouble
  /\ \E s \in SUBSET (Automation \cup Drill) : s # spec /\ spec' = s
  /\ UNCHANGED <<github, doing, disturbed>>

PushMain ==
  /\ Trouble /\ UNCHANGED spec /\ branch' = [branch EXCEPT !.behind = branch.exists]
  /\ doing' = MainMoved(doing) /\ UNCHANGED <<main, pull, disturbed>>

PushBranch ==
  /\ branch.exists /\ Trouble /\ UNCHANGED spec /\ disturbed' = TRUE
  /\ branch' = [branch EXCEPT !.ahead = TRUE, !.theirs = TRUE, !.merged = FALSE]
  /\ doing' = MovedAll(doing) /\ UNCHANGED <<main, pull>>

Close ==
  /\ pull /\ Trouble /\ UNCHANGED spec /\ disturbed' = TRUE
  /\ pull' = FALSE /\ UNCHANGED <<main, branch, doing>>

(* Somebody deletes the branch; an open pull request is closed by that.    *)
DeleteBranch ==
  /\ branch.exists /\ Trouble /\ UNCHANGED spec /\ disturbed' = TRUE
  /\ branch' = Absent /\ pull' = FALSE
  /\ doing' = MovedAll(doing) /\ UNCHANGED main

(* With a merge commit, or squashed or rebased; the branch is kept or      *)
(* deleted.                                                                *)
Merge ==
  /\ pull /\ Mergeable /\ pull' = FALSE
  /\ main' = [files |-> MergedFiles, list |-> MergedList]
  /\ \/ /\ branch' = Absent
     \/ branch' = [branch EXCEPT !.behind = TRUE, !.theirs = FALSE, !.merged = TRUE]
     \/ branch' = [branch EXCEPT !.behind = TRUE, !.theirs = FALSE, !.merged = TRUE, !.ahead = FALSE,
                                 !.fork = [files |-> branch.files, list |-> branch.list]]
  /\ LET d == [e \in Env |-> IF doing[e].at # "idle" /\ doing[e].same
                             THEN [doing[e] EXCEPT !.merged = TRUE] ELSE doing[e]]
     IN doing' = MainMoved(IF branch'.exists THEN d ELSE MovedAll(d))
  /\ disturbed' = (disturbed \/ \E e \in Env : doing[e].at \in Writing)
  /\ UNCHANGED <<spec, troubles>>

Next ==
  \/ \E e \in Env : Begin(e) \/ Step(e) \/ Fail(e)
  \/ EditSpec \/ PushMain \/ PushBranch \/ Close \/ DeleteBranch \/ Merge

Spec == Init /\ [][Next]_vars

(* Environments are planned and applied again, and the pull request is     *)
(* merged in the end.                                                      *)
FairSpec == Spec /\ WF_vars(Merge) /\ \A e \in Env : WF_vars(Begin(e)) /\ WF_vars(Step(e))

-----------------------------------------------------------------------------
(* Hazard: people commit to the branch after its pull request was merged,  *)
(* while an apply makes up its mind to reset it. What they committed and   *)
(* nobody merged is overwritten only if it was pushed after the last look. *)
OverwritesOnlyUnseen ==
  [][branch.theirs /\ ~branch'.theirs /\ ~branch'.merged /\ branch'.exists =>
       \E e \in Env : On(e, "reset") /\ ~doing[e].same]_vars

(* Work on the branch that only a person can finish.                       *)
Conflicting == pull /\ ~Mergeable
Unowned == branch.exists /\ ~pull /\ branch.ahead /\ ~branch.merged
InSync ==
  /\ main.list = spec /\ spec \cup Env \subseteq main.files
  /\ disturbed \/ main.files = spec \cup Env

Settled == InSync \/ ((Unowned \/ Conflicting) /\ disturbed)

(* Hazard: whether the branch was merged, squashed or deleted, it must be  *)
(* usable again, and the default branch become what the spec says: all     *)
(* that is declared and nothing that was retired. An apply that was cut    *)
(* short, or was committing while the branch was merged or reset, a reset  *)
(* that came late and other people's commits may leave work nobody owns, a *)
(* conflict, or a retired file.                                            *)
FilesConverge == <>[]Settled
=============================================================================
