--------------------------- MODULE DeliveryProofs ---------------------------
(***************************************************************************)
(* Proofs about what reaches production through CI, for any number of      *)
(* clients, commits, runs, applies and deployments. Of the rollbacks from  *)
(* one observation at most one gets through, and a rollback replaces only  *)
(* what had run when it was planned: both rest on the order of the runs    *)
(* and on the group that lets one of them deploy at a time. And a          *)
(* requirement that is taken for met is met by a deployment that carries   *)
(* the change.                                                             *)
(***************************************************************************)
EXTENDS MCDelivery, WellFoundedInduction, TLAPS

Active == {"running", "deploying"}
Through == {"deploying", "success"}
RunRecord ==
  [sha : Shas, rollback : BOOLEAN, expected : Nat, source : Nat,
   status : Done \cup Active \cup {"queued"}, turn : Nat, again : BOOLEAN, program : Nat]
Observations ==
  [latest : Nat, ended : Done \cup {"none"}, target : Nat, turn : Nat,
   selection : {"none", "explicit", "previous_successful", "last_known_good"}]

(* The types, and that turns, which are drawn by taking the maximum, are   *)
(* bounded.                                                                *)
Types ==
  /\ runs \in Seq(RunRecord) /\ Len(runs) >= 2
  /\ \E n \in Nat : Turns \subseteq 1 .. n
  /\ production \in Shas /\ writer \in Indexes /\ expired \subseteq Indexes /\ program \in Nat
  /\ stage \in [Clients -> {"idle", "planned", "tagged", "verified"}]
  /\ wanted \in [Clients -> Explicit \cup {Best}]
  /\ seen \in [Clients -> Observations]

(* What a client observed are runs that there are.                         *)
SeenAreRuns ==
  \A c \in Clients :
    /\ seen[c].latest <= Len(runs)
    /\ stage[c] # "idle" => seen[c].target \in 1 .. seen[c].latest

(* A rollback comes after the run it expects, restores one not after that, *)
(* and takes its commit.                                                   *)
Restores(i) ==
  runs[i].rollback =>
    /\ runs[i].expected < i /\ runs[i].source \in 1 .. runs[i].expected
    /\ runs[i].sha = runs[runs[i].source].sha
RollbacksRestore == \A i \in Indexes : Restores(i)

(* The concurrency group, or the resource group at GitLab.                 *)
OneAtATime == \A i, j \in Indexes : {runs[i].status, runs[j].status} \subseteq Active => i = j

(* A rollback that passed its gate finds in production what it expects, or *)
(* what it changed itself.                                                 *)
NobodyElseWrote ==
  \A i \in Indexes :
    runs[i].rollback /\ runs[i].status = "deploying" => writer <= runs[i].expected \/ writer = i

IInv ==
  /\ Types /\ SeenAreRuns /\ RollbacksRestore /\ OneAtATime /\ NobodyElseWrote
  /\ OneRollbackPerObservation

-----------------------------------------------------------------------------
(* The maximum of a bounded set of positive numbers is what its name says. *)
LEMMA MaxOfBounded ==
  ASSUME NEW n \in Nat, NEW S, S \subseteq 1 .. n, S # {}
  PROVE  Max(S) \in S /\ \A y \in S : y <= Max(S)
<1> DEFINE Less == OpToRel(<, Nat)
           T == {n - x : x \in S}
<1>1. IsWellFoundedOn(Less, Nat)
  BY NatLessThanWellFounded
<1>2. T \subseteq Nat /\ T # {}
  <2>1. \A x \in S : n - x \in Nat
    OBVIOUS
  <2> QED BY <2>1
<1> HIDE DEF Less
<1>3. PICK m \in T : \A y \in T : <<y, m>> \notin Less
  BY <1>1, <1>2, WFMin
<1>4. \A y \in T : ~(y < m)
  BY <1>2, <1>3 DEF Less, OpToRel
<1>5. PICK x \in S : m = n - x
  BY <1>3
<1>6. \A y \in S : x >= y
  BY <1>4, <1>5
<1> QED BY <1>6 DEF Max

(* A turn that is drawn is a new maximum.                                  *)
LEMMA NextTurn ==
  ASSUME Types
  PROVE  Max(Turns) \in Nat /\ \E n \in Nat : Turns \cup {Max(Turns) + 1} \subseteq 1 .. n
<1>1. PICK n \in Nat : Turns \subseteq 1 .. n
  BY DEF Types
<1>2. runs[1].turn \in Turns
  BY DEF Types, Turns, Indexes
<1>3. Max(Turns) \in Turns
  BY <1>1, <1>2, MaxOfBounded
<1>4. Max(Turns) \in 1 .. n
  BY <1>1, <1>3
<1>5. Turns \cup {Max(Turns) + 1} \subseteq 1 .. (n + 1)
  <2>1. Max(Turns) + 1 \in 1 .. (n + 1) /\ 1 .. n \subseteq 1 .. (n + 1)
    BY <1>4
  <2> QED BY <1>1, <2>1
<1> QED BY <1>4, <1>5

(* What a run is.                                                          *)
LEMMA RunTypes ==
  ASSUME Types
  PROVE  /\ Len(runs) \in Nat /\ Indexes = 1 .. Len(runs)
         /\ \A j \in Indexes : /\ runs[j] \in RunRecord
                               /\ {runs[j].expected, runs[j].source, runs[j].turn} \subseteq Nat
<1>1. Len(runs) \in Nat /\ Indexes = 1 .. Len(runs)
  BY DEF Types, Indexes
<1>2. \A j \in Indexes : runs[j] \in RunRecord
  BY <1>1 DEF Types
<1> QED BY <1>1, <1>2 DEF RunRecord

(* What no step on the runs changes of a run that there was.               *)
Same(j) ==
  /\ runs'[j].sha = runs[j].sha /\ runs'[j].rollback = runs[j].rollback
  /\ runs'[j].expected = runs[j].expected /\ runs'[j].source = runs[j].source

(* Runs that wait may be cancelled by the newest.                          *)
LEMMA WaitingCancels ==
  ASSUME NEW rs \in Seq(RunRecord), NEW i \in 1 .. Len(rs)
  PROVE  /\ Waiting(rs, i) \in Seq(RunRecord) /\ Len(Waiting(rs, i)) = Len(rs)
         /\ Waiting(rs, i)[i] = rs[i]
         /\ \A j \in 1 .. Len(rs) :
              \/ Waiting(rs, i)[j] = rs[j]
              \/ Waiting(rs, i)[j] = [rs[j] EXCEPT !.status = "cancelled"]
<1> DEFINE cancelled(j) == [rs[j] EXCEPT !.status = "cancelled"]
           ws == Waiting(rs, i)
<1>1. DOMAIN rs = 1 .. Len(rs) /\ Len(rs) \in Nat /\ \A j \in 1 .. Len(rs) : rs[j] \in RunRecord
  OBVIOUS
<1>2. \A j \in 1 .. Len(rs) : cancelled(j) \in RunRecord
  BY <1>1 DEF RunRecord, Done
<1>3. ws = [j \in 1 .. Len(rs) |-> IF forge = "github" /\ j # i /\ rs[j].status = "queued"
                                   THEN cancelled(j) ELSE rs[j]]
  BY <1>1 DEF Waiting
<1> HIDE DEF ws, cancelled
<1>4. ws \in [1 .. Len(rs) -> RunRecord]
  BY <1>1, <1>2, <1>3
<1>5. ws \in Seq(RunRecord) /\ Len(ws) = Len(rs)
  BY <1>1, <1>4
<1>6. \A j \in 1 .. Len(rs) : ws[j] = rs[j] \/ ws[j] = cancelled(j)
  BY <1>3
<1>7. ws[i] = rs[i]
  BY <1>3
<1> QED BY <1>5, <1>6, <1>7 DEF ws, cancelled

(* A new run waits at the end, and only waiting runs are cancelled for it. *)
LEMMA Enqueued ==
  ASSUME Types, NEW run \in RunRecord, run.status = "queued", Enqueue(run)
  PROVE  /\ runs' \in Seq(RunRecord) /\ Len(runs') = Len(runs) + 1
         /\ runs'[Len(runs) + 1] = run
         /\ \A j \in Indexes : /\ Same(j) /\ runs'[j].turn = runs[j].turn
                               /\ runs'[j].status \in {runs[j].status, "cancelled"}
<1> DEFINE rs == Append(runs, run)
<1>1. /\ rs \in Seq(RunRecord) /\ Len(rs) = Len(runs) + 1 /\ Len(runs) \in Nat
      /\ rs[Len(runs) + 1] = run /\ \A j \in Indexes : rs[j] = runs[j] /\ runs[j] \in RunRecord
  BY DEF Types, Indexes
<1>2. runs' = Waiting(rs, Len(runs) + 1)
  BY DEF Enqueue
<1>3. Len(runs) + 1 \in 1 .. Len(rs) /\ Indexes \subseteq 1 .. Len(rs)
  BY <1>1 DEF Indexes
<1> HIDE DEF rs
<1>4. \A j \in Indexes : runs'[j] = runs[j] \/ runs'[j] = [runs[j] EXCEPT !.status = "cancelled"]
  BY <1>1, <1>2, <1>3, WaitingCancels
<1>5. \A j \in Indexes : /\ Same(j) /\ runs'[j].turn = runs[j].turn
                         /\ runs'[j].status \in {runs[j].status, "cancelled"}
  BY <1>1, <1>4 DEF Same, RunRecord
<1> QED BY <1>1, <1>2, <1>3, <1>5, WaitingCancels

(* One run is replaced.                                                    *)
With(i, run) == [runs EXCEPT ![i] = run]
LEMMA Replaced ==
  ASSUME Types, NEW i \in Indexes, NEW run \in RunRecord
  PROVE  /\ With(i, run) \in Seq(RunRecord) /\ Len(With(i, run)) = Len(runs) /\ With(i, run)[i] = run
         /\ \A j \in Indexes \ {i} : With(i, run)[j] = runs[j]
<1> DEFINE rs == With(i, run)
<1>1. runs \in [1 .. Len(runs) -> RunRecord] /\ Len(runs) \in Nat /\ i \in 1 .. Len(runs)
  BY DEF Types, Indexes
<1>2. rs \in [1 .. Len(runs) -> RunRecord]
  BY <1>1 DEF With
<1>3. rs \in Seq(RunRecord) /\ Len(rs) = Len(runs)
  BY <1>1, <1>2
<1>4. rs[i] = run /\ \A j \in Indexes \ {i} : rs[j] = runs[j]
  BY <1>1 DEF Indexes, With
<1> QED BY <1>3, <1>4

(* A run started again waits, and only waiting runs are cancelled for it.  *)
LEMMA StartedAgain ==
  ASSUME Types, NEW i \in Indexes, Again(i)
  PROVE  /\ runs' \in Seq(RunRecord) /\ Len(runs') = Len(runs)
         /\ runs'[i].status = "queued" /\ Turns' \subseteq Turns \cup {Max(Turns) + 1}
         /\ \A j \in Indexes : Same(j) /\ (j # i => runs'[j].status \in {runs[j].status, "cancelled"})
<1> DEFINE run == [runs[i] EXCEPT !.status = "queued", !.turn = Max(Turns) + 1, !.again = TRUE]
           rs == With(i, run)
<1>1. /\ Len(runs) \in Nat /\ Indexes = 1 .. Len(runs)
      /\ \A j \in Indexes : runs[j] \in RunRecord
  BY DEF Types, Indexes
<1>2. Max(Turns) + 1 \in Nat
  BY NextTurn
<1>3. /\ run \in RunRecord /\ run.status = "queued" /\ run.turn = Max(Turns) + 1
      /\ run.sha = runs[i].sha /\ run.rollback = runs[i].rollback
      /\ run.expected = runs[i].expected /\ run.source = runs[i].source
  <2>1. runs[i] \in RunRecord
    BY <1>1
  <2> QED BY <1>2, <2>1 DEF RunRecord
<1>4. runs' = Waiting(rs, i)
  BY DEF Again, With
<1> HIDE DEF run
<1>5. /\ rs \in Seq(RunRecord) /\ Len(rs) = Len(runs) /\ rs[i] = run
      /\ \A j \in Indexes \ {i} : rs[j] = runs[j]
  BY <1>3, Replaced
<1> HIDE DEF rs
<1>6. /\ i \in 1 .. Len(rs) /\ Indexes = 1 .. Len(rs)
  BY <1>1, <1>5
<1>7. /\ Waiting(rs, i) \in Seq(RunRecord) /\ Len(Waiting(rs, i)) = Len(rs)
      /\ Waiting(rs, i)[i] = rs[i]
      /\ \A j \in Indexes :
           \/ Waiting(rs, i)[j] = rs[j]
           \/ Waiting(rs, i)[j] = [rs[j] EXCEPT !.status = "cancelled"]
  BY <1>5, <1>6, WaitingCancels
<1>8. /\ runs' \in Seq(RunRecord) /\ Len(runs') = Len(runs) /\ runs'[i] = run
      /\ \A j \in Indexes \ {i} :
           runs'[j] = runs[j] \/ runs'[j] = [runs[j] EXCEPT !.status = "cancelled"]
  BY <1>4, <1>5, <1>7
<1>9. ASSUME NEW j \in Indexes \ {i}
      PROVE  /\ Same(j) /\ runs'[j].turn = runs[j].turn
             /\ runs'[j].status \in {runs[j].status, "cancelled"}
  <2>1. runs[j] \in RunRecord
    BY <1>1
  <2> QED BY <2>1, <1>8 DEF Same, RunRecord
<1>10. Same(i)
  BY <1>3, <1>8 DEF Same
<1>11. Turns' \subseteq Turns \cup {Max(Turns) + 1}
  <2>1. Indexes' = Indexes
    BY <1>8 DEF Indexes
  <2>2. ASSUME NEW j \in Indexes PROVE runs'[j].turn \in Turns \cup {Max(Turns) + 1}
    BY <1>3, <1>8, <1>9 DEF Turns
  <2> QED BY <2>1, <2>2 DEF Turns
<1> QED BY <1>3, <1>8, <1>9, <1>10, <1>11

(* The steps that give one run another status.                             *)
LEMMA Turned ==
  ASSUME Types, NEW i \in Indexes, NEW s \in Done \cup Active, runs' = [runs EXCEPT ![i].status = s]
  PROVE  /\ runs' \in Seq(RunRecord) /\ Len(runs') = Len(runs) /\ Turns' = Turns
         /\ runs'[i].status = s /\ \A j \in Indexes : Same(j)
         /\ \A j \in Indexes \ {i} : runs'[j] = runs[j]
<1>1. /\ Len(runs) \in Nat /\ Indexes = 1 .. Len(runs)
      /\ \A j \in Indexes : runs[j] \in RunRecord
  BY DEF Types, Indexes
<1> DEFINE run == [runs[i] EXCEPT !.status = s]
<1>2. /\ run \in RunRecord /\ run.status = s /\ run.turn = runs[i].turn
      /\ run.sha = runs[i].sha /\ run.rollback = runs[i].rollback
      /\ run.expected = runs[i].expected /\ run.source = runs[i].source
  <2>1. runs[i] \in RunRecord
    BY <1>1
  <2> QED BY <2>1 DEF RunRecord
<1>3. runs' = With(i, run)
  BY <1>1 DEF With
<1> HIDE DEF run
<1>4. /\ runs' \in Seq(RunRecord) /\ Len(runs') = Len(runs) /\ runs'[i] = run
      /\ \A j \in Indexes \ {i} : runs'[j] = runs[j]
  <2>1. /\ With(i, run) \in Seq(RunRecord) /\ Len(With(i, run)) = Len(runs) /\ With(i, run)[i] = run
        /\ \A j \in Indexes \ {i} : With(i, run)[j] = runs[j]
    BY <1>2, Replaced
  <2> QED BY <1>3, <2>1
<1>5. Turns' = Turns
  <2>1. Indexes' = Indexes
    BY <1>4 DEF Indexes
  <2> QED BY <2>1, <1>2, <1>4 DEF Turns
<1> QED BY <1>2, <1>4, <1>5 DEF Same

-----------------------------------------------------------------------------
(* Two runs were released before.                                          *)
LEMMA InitInv == Init => IInv
<1> SUFFICES ASSUME Init PROVE IInv
  OBVIOUS
<1> DEFINE First(sha, t) ==
             [sha |-> sha, rollback |-> FALSE, expected |-> 0, source |-> 0, status |-> "success", turn |-> t,
              again |-> FALSE, program |-> 1]
<1>1. PICK a \in Shas, b \in Shas : a # b /\ production = b /\ runs = <<First(a, 1), First(b, 2)>>
  BY DEF Init
<1>2. First(a, 1) \in RunRecord /\ First(b, 2) \in RunRecord
  BY DEF RunRecord, Done
<1>3. runs \in Seq(RunRecord) /\ Len(runs) = 2 /\ runs[1] = First(a, 1) /\ runs[2] = First(b, 2)
  BY <1>1, <1>2
<1>4. Indexes = {1, 2}
  BY <1>3 DEF Indexes
<1>5. Turns \subseteq 1 .. 2
  BY <1>3, <1>4 DEF Turns
<1>6. Types
  <2>1. seen \in [Clients -> Observations]
    BY DEF Init, Nothing, Observations
  <2> QED BY <1>1, <1>3, <1>4, <1>5, <2>1 DEF Init, Types
<1>7. SeenAreRuns
  BY <1>3 DEF Init, SeenAreRuns, Nothing
<1>8. RollbacksRestore /\ OneAtATime /\ NobodyElseWrote /\ OneRollbackPerObservation
  BY <1>3, <1>4 DEF RollbacksRestore, Restores, OneAtATime, NobodyElseWrote, OneRollbackPerObservation, Active
<1> QED BY <1>6, <1>7, <1>8 DEF IInv

(* A run that there was stays what it was; where a run is added, it must   *)
(* restore what it says.                                                   *)
LEMMA Continued ==
  ASSUME Types, Types', RollbacksRestore, Len(runs') >= Len(runs), \A j \in Indexes : Same(j),
         \A j \in Indexes' \ Indexes : Restores(j)'
  PROVE  RollbacksRestore'
<1> SUFFICES ASSUME NEW j \in Indexes PROVE Restores(j)'
  BY DEF RollbacksRestore
<1> SUFFICES ASSUME runs[j].rollback PROVE Restores(j)'
  BY DEF Same, Restores
<1>1. /\ Len(runs) \in Nat /\ runs[j].expected \in Nat
  BY RunTypes
<1>2. runs[j].source \in Indexes
  BY <1>1 DEF RollbacksRestore, Restores, Indexes
<1> QED BY <1>2 DEF RollbacksRestore, Restores, Same

(* Where no rollback newly gets through, still one of an observation does. *)
LEMMA FewerThrough ==
  ASSUME OneRollbackPerObservation, Indexes' = Indexes, \A j \in Indexes : Same(j),
         \A j \in Indexes : runs'[j].rollback /\ runs'[j].status \in Through => runs[j].status \in Through
  PROVE  OneRollbackPerObservation'
<1> SUFFICES ASSUME NEW i \in Indexes, NEW j \in Indexes, i # j, runs'[i].rollback, runs'[j].rollback,
                    runs'[i].expected = runs'[j].expected,
                    runs'[i].status \in Through, runs'[j].status \in Through
             PROVE  FALSE
  BY DEF OneRollbackPerObservation, Through
<1>1. runs[i].rollback /\ runs[j].rollback /\ runs[i].expected = runs[j].expected
  BY DEF Same
<1>2. {runs[i].status, runs[j].status} \subseteq {"deploying", "success"}
  BY DEF Through
<1> QED BY <1>1, <1>2 DEF OneRollbackPerObservation

(* What clients observed stays, if no run goes.                            *)
LEMMA StillSeen ==
  ASSUME Types, SeenAreRuns, Len(runs') \in Nat, Len(runs') >= Len(runs),
         \A c \in Clients :
           \/ seen'[c] = seen[c] /\ (stage'[c] = "idle" \/ stage[c] # "idle")
           \/ seen'[c] = Nothing /\ stage'[c] = "idle"
  PROVE  SeenAreRuns'
<1>1. \A c \in Clients : seen[c].latest \in Nat
  BY DEF Types, Observations
<1> QED BY <1>1 DEF SeenAreRuns, Nothing, Types

(* The ways of a client that leave the runs alone.                         *)
LEMMA ClientStep ==
  ASSUME IInv, UNCHANGED <<world, runs, expired, program>>, SeenAreRuns',
         stage' \in [Clients -> {"idle", "planned", "tagged", "verified"}],
         wanted' \in [Clients -> Explicit \cup {Best}], seen' \in [Clients -> Observations]
  PROVE  IInv'
<1>1. Indexes' = Indexes /\ Turns' = Turns /\ runs' = runs /\ writer' = writer /\ production' = production
  BY DEF Indexes, Turns, world
<1>2. Types'
  BY <1>1 DEF IInv, Types
<1>3. RollbacksRestore'
  BY <1>1 DEF IInv, RollbacksRestore, Restores
<1>4. OneAtATime' /\ NobodyElseWrote' /\ OneRollbackPerObservation'
  BY <1>1 DEF IInv, OneAtATime, NobodyElseWrote, OneRollbackPerObservation
<1> QED BY <1>2, <1>3, <1>4 DEF IInv

(* Evidence that is lost and programs that change leave the runs alone.    *)
LEMMA Losing ==
  ASSUME IInv, expired' \subseteq Indexes, program' \in Nat \/ program' = program,
         UNCHANGED <<world, runs, stage, seen, wanted>>
  PROVE  IInv'
<1>1. Indexes' = Indexes /\ Turns' = Turns /\ runs' = runs /\ writer' = writer /\ production' = production
  BY DEF Indexes, Turns, world
<1>2. Types'
  BY <1>1 DEF IInv, Types
<1>3. RollbacksRestore' /\ SeenAreRuns'
  BY <1>1 DEF IInv, RollbacksRestore, Restores, SeenAreRuns
<1>4. OneAtATime' /\ NobodyElseWrote' /\ OneRollbackPerObservation'
  BY <1>1 DEF IInv, OneAtATime, NobodyElseWrote, OneRollbackPerObservation
<1> QED BY <1>2, <1>3, <1>4 DEF IInv

(* A run that is queued, by a push or by a client, restores what it says.  *)
LEMMA QueueStep ==
  ASSUME IInv, NEW run \in RunRecord, run.status = "queued", run.turn = Max(Turns) + 1, Enqueue(run),
         run.rollback => /\ run.expected <= Len(runs) /\ run.source \in 1 .. run.expected
                         /\ run.sha = runs[run.source].sha,
         UNCHANGED <<world, expired, program>>, SeenAreRuns',
         stage' \in [Clients -> {"idle", "planned", "tagged", "verified"}],
         wanted' \in [Clients -> Explicit \cup {Best}], seen' \in [Clients -> Observations]
  PROVE  IInv'
<1> PICK n \in Nat : n = Len(runs)
  BY RunTypes DEF IInv
<1>1. /\ runs' \in Seq(RunRecord) /\ Len(runs') = n + 1 /\ runs'[n + 1] = run
      /\ \A j \in Indexes : /\ Same(j) /\ runs'[j].turn = runs[j].turn
                            /\ runs'[j].status \in {runs[j].status, "cancelled"}
  BY Enqueued DEF IInv
<1>2. n \in Nat /\ n >= 2 /\ Indexes' = Indexes \cup {n + 1} /\ n + 1 \notin Indexes
  BY <1>1 DEF IInv, Types, Indexes
<1>3. \E m \in Nat : Turns' \subseteq 1 .. m
  <2>1. \A j \in Indexes' : runs'[j].turn \in Turns \cup {Max(Turns) + 1}
    BY <1>1, <1>2 DEF Turns
  <2>2. Turns' \subseteq Turns \cup {Max(Turns) + 1}
    BY <2>1 DEF Turns
  <2> QED BY <2>2, NextTurn DEF IInv
<1>4. Types'
  <2>1. production' = production /\ writer' = writer /\ expired' = expired /\ program' = program
    BY DEF world
  <2>2. writer' \in Indexes' /\ expired' \subseteq Indexes' /\ Len(runs') >= 2
    BY <1>1, <1>2, <2>1 DEF IInv, Types
  <2> QED BY <1>1, <1>3, <2>1, <2>2 DEF IInv, Types
<1>5. Restores(n + 1)'
  <2> SUFFICES ASSUME run.rollback PROVE Restores(n + 1)'
    BY <1>1 DEF Restores
  <2>1. run.expected \in Nat /\ run.expected <= n /\ run.source \in 1 .. run.expected
    BY DEF RunRecord
  <2>2. run.source \in Indexes
    BY <1>2, <2>1 DEF Indexes
  <2>3. runs'[run.source].sha = runs[run.source].sha
    BY <1>1, <2>2 DEF Same
  <2> QED BY <1>1, <1>2, <2>1, <2>3 DEF Restores
<1>6. RollbacksRestore'
  <2>1. \A j \in Indexes' \ Indexes : j = n + 1
    BY <1>2
  <2>2. \A j \in Indexes' \ Indexes : Restores(j)'
    BY <1>5, <2>1
  <2> QED BY <1>1, <1>2, <1>4, <2>2, Continued DEF IInv
<1>7. /\ \A j \in Indexes : runs'[j].status \in Active \cup Through => runs'[j].status = runs[j].status
      /\ runs'[n + 1].status \notin Active \cup Through
  BY <1>1 DEF Active, Through
<1>8. OneAtATime'
  BY <1>2, <1>7 DEF IInv, OneAtATime
<1>9. OneRollbackPerObservation'
  <2> SUFFICES ASSUME NEW i \in Indexes', NEW j \in Indexes', i # j,
                      runs'[i].rollback, runs'[j].rollback, runs'[i].expected = runs'[j].expected,
                      {runs'[i].status, runs'[j].status} \subseteq Through
               PROVE  FALSE
    BY DEF OneRollbackPerObservation, Through
  <2>1. i \in Indexes /\ j \in Indexes
    BY <1>2, <1>7
  <2>2. Same(i) /\ Same(j) /\ runs'[i].status = runs[i].status /\ runs'[j].status = runs[j].status
    BY <1>1, <1>7, <2>1
  <2>3. runs[i].rollback /\ runs[j].rollback /\ runs[i].expected = runs[j].expected
    BY <2>2 DEF Same
  <2>4. {runs[i].status, runs[j].status} \subseteq {"deploying", "success"}
    BY <2>2 DEF Through
  <2> QED BY <2>1, <2>3, <2>4 DEF IInv, OneRollbackPerObservation
<1>10. NobodyElseWrote'
  BY <1>1, <1>2, <1>7 DEF IInv, NobodyElseWrote, Same, world, Active
<1> QED BY <1>4, <1>6, <1>8, <1>9, <1>10 DEF IInv

(* A run that is started again waits: it is in the way of nobody.          *)
LEMMA AgainStep ==
  ASSUME IInv, NEW i \in Indexes, Again(i)
  PROVE  IInv'
<1>1. /\ runs' \in Seq(RunRecord) /\ Len(runs') = Len(runs)
      /\ runs'[i].status = "queued" /\ Turns' \subseteq Turns \cup {Max(Turns) + 1}
      /\ \A j \in Indexes : Same(j) /\ (j # i => runs'[j].status \in {runs[j].status, "cancelled"})
  BY StartedAgain DEF IInv
<1>2. /\ world' = world /\ expired' = expired /\ program' = program /\ stage' = stage
      /\ seen' = seen /\ wanted' = wanted /\ writer' = writer /\ production' = production
  BY DEF Again, world
<1>3. Indexes' = Indexes
  BY <1>1 DEF Indexes
<1>4. \E n \in Nat : Turns' \subseteq 1 .. n
  BY <1>1, NextTurn DEF IInv
<1>5. Types'
  BY <1>1, <1>2, <1>3, <1>4 DEF IInv, Types
<1>6. SeenAreRuns'
  BY <1>1, <1>2 DEF IInv, SeenAreRuns
<1>7. RollbacksRestore'
  BY <1>1, <1>3, <1>5, Continued, RunTypes DEF IInv
<1>8. \A j \in Indexes : runs'[j].status \in Active \cup Through => runs'[j].status = runs[j].status
  BY <1>1 DEF Active, Through
<1>9. OneAtATime'
  BY <1>3, <1>8 DEF IInv, OneAtATime
<1>10. OneRollbackPerObservation'
  BY <1>1, <1>3, <1>8, FewerThrough DEF IInv
<1>11. NobodyElseWrote'
  BY <1>1, <1>2, <1>3, <1>8 DEF IInv, NobodyElseWrote, Same, Active
<1> QED BY <1>5, <1>6, <1>7, <1>9, <1>10, <1>11 DEF IInv

(* What every step that turns one run leaves as it is.                     *)
LEMMA TurnStep ==
  ASSUME IInv, NEW i \in Indexes, NEW s \in Done \cup Active, runs' = [runs EXCEPT ![i].status = s],
         production' \in Shas, writer' \in Indexes, UNCHANGED <<expired, program, stage, seen, wanted>>
  PROVE  /\ Types' /\ SeenAreRuns' /\ RollbacksRestore' /\ Indexes' = Indexes
         /\ runs'[i].status = s /\ \A j \in Indexes : Same(j)
         /\ \A j \in Indexes \ {i} : runs'[j] = runs[j]
<1>1. /\ runs' \in Seq(RunRecord) /\ Len(runs') = Len(runs) /\ Turns' = Turns
      /\ runs'[i].status = s /\ \A j \in Indexes : Same(j)
      /\ \A j \in Indexes \ {i} : runs'[j] = runs[j]
  BY Turned DEF IInv
<1>2. Indexes' = Indexes
  BY <1>1 DEF Indexes
<1>3. Types'
  BY <1>1, <1>2 DEF IInv, Types
<1>4. SeenAreRuns'
  BY <1>1 DEF IInv, SeenAreRuns
<1>5. RollbacksRestore'
  BY <1>1, <1>2, <1>3, Continued, RunTypes DEF IInv
<1> QED BY <1>1, <1>2, <1>3, <1>4, <1>5

(* The group is free when a run starts.                                    *)
LEMMA StartStep ==
  ASSUME IInv, NEW i \in Indexes, Start(i)
  PROVE  IInv'
<1>1. production \in Shas /\ writer \in Indexes /\ writer' = writer /\ production' = production
  BY DEF Start, world, IInv, Types
<1>2. /\ Types' /\ SeenAreRuns' /\ RollbacksRestore' /\ Indexes' = Indexes
      /\ runs'[i].status = "running" /\ \A j \in Indexes : Same(j)
      /\ \A j \in Indexes \ {i} : runs'[j] = runs[j]
  BY <1>1, TurnStep DEF Start, Active
<1>3. OneAtATime'
  BY <1>2 DEF Start, OneAtATime, Active
<1>4. \A j \in Indexes : runs'[j].status \in Through => runs'[j].status = runs[j].status
  BY <1>2 DEF Through
<1>5. OneRollbackPerObservation'
  BY <1>2, <1>4, FewerThrough DEF IInv
<1>6. NobodyElseWrote'
  BY <1>1, <1>2 DEF IInv, NobodyElseWrote, Same
<1> QED BY <1>2, <1>3, <1>5, <1>6 DEF IInv

(* The gate: every other run comes before the one a rollback expects, so   *)
(* that no other rollback expects the same.                                *)
LEMMA GateAdmitsTheNewest ==
  ASSUME IInv, NEW i \in Indexes, runs[i].rollback, Admits(i)
  PROVE  \A j \in Indexes \ {i} : j <= runs[i].expected
<1>1. CASE forge = "github"
  <2>1. Max(Indexes \ {i}) = runs[i].expected
    BY <1>1 DEF Admits, GitHubAdmits
  <2>2. Indexes \ {i} \subseteq 1 .. Len(runs) /\ Len(runs) \in Nat
    BY RunTypes DEF IInv
  <2>3. Indexes \ {i} # {}
    <3>1. Len(runs) >= 2
      BY DEF IInv, Types
    <3>2. 1 \in Indexes /\ 2 \in Indexes
      BY <2>2, <3>1, RunTypes DEF IInv
    <3> QED BY <3>2
  <2> QED BY <2>1, <2>2, <2>3, MaxOfBounded
<1>2. CASE forge # "github"
  BY <1>2 DEF Admits, GitLabAdmits
<1> QED BY <1>1, <1>2

LEMMA GateStep ==
  ASSUME IInv, NEW i \in Indexes, Gate(i)
  PROVE  IInv'
<1>1. production \in Shas /\ writer \in Indexes /\ writer' = writer /\ production' = production
  BY DEF Gate, world, IInv, Types
<1> DEFINE s == IF Admits(i) THEN "deploying" ELSE "failure"
<1>2. s \in Done \cup Active
  BY DEF Done, Active
<1>3. runs[i].status = "running" /\ runs' = [runs EXCEPT ![i].status = s]
      /\ UNCHANGED <<expired, program, stage, seen, wanted>>
  BY DEF Gate
<1>4. s = "deploying" => Admits(i)
  OBVIOUS
<1>5. s \in {"deploying", "failure"}
  OBVIOUS
<1> HIDE DEF s
<1>6. /\ Types' /\ SeenAreRuns' /\ RollbacksRestore' /\ Indexes' = Indexes
      /\ runs'[i].status = s /\ \A j \in Indexes : Same(j)
      /\ \A j \in Indexes \ {i} : runs'[j] = runs[j]
  BY <1>1, <1>2, <1>3, TurnStep
<1>7. OneAtATime'
  BY <1>3, <1>6 DEF IInv, OneAtATime, Active
<1>8. OneRollbackPerObservation'
  <2>1. CASE s = "failure" \/ ~runs[i].rollback
    <3>1. \A j \in Indexes : runs'[j].rollback /\ runs'[j].status \in Through => runs'[j].status = runs[j].status
      BY <1>6, <2>1 DEF Through, Same
    <3> QED BY <1>6, <3>1, FewerThrough DEF IInv
  <2>2. CASE s = "deploying" /\ runs[i].rollback
    <3>1. \A j \in Indexes \ {i} : j <= runs[i].expected
      BY <1>4, <2>2, GateAdmitsTheNewest
    <3>2. \A j \in Indexes \ {i} : runs[j].rollback => runs[j].expected < j
      BY DEF IInv, RollbacksRestore, Restores
    <3>3. \A j \in Indexes \ {i} : runs[j].rollback => runs[j].expected # runs[i].expected
      BY <3>1, <3>2, RunTypes DEF IInv
    <3> QED BY <1>6, <3>3 DEF IInv, OneRollbackPerObservation, Same
  <2> QED BY <1>5, <2>1, <2>2
<1>9. NobodyElseWrote'
  <2>1. ASSUME NEW j \in Indexes, runs'[j].rollback, runs'[j].status = "deploying"
        PROVE  writer <= runs[j].expected \/ writer = j
    <3>1. CASE j # i
      BY <1>6, <2>1, <3>1 DEF IInv, NobodyElseWrote
    <3>2. CASE j = i
      <4>1. Admits(i) /\ runs[i].rollback
        BY <1>4, <1>6, <2>1, <3>2 DEF Same
      <4> QED BY <1>1, <3>2, <4>1, GateAdmitsTheNewest
    <3> QED BY <3>1, <3>2
  <2> QED BY <1>1, <1>6, <2>1 DEF NobodyElseWrote, Same
<1> QED BY <1>6, <1>7, <1>8, <1>9 DEF IInv

(* The run that deploys is the only one at work.                           *)
LEMMA DeployStep ==
  ASSUME IInv, NEW i \in Indexes, Deploy(i)
  PROVE  IInv'
<1>1. runs[i].sha \in Shas
  BY RunTypes DEF IInv, RunRecord
<1>2. PICK ok \in BOOLEAN, changed \in BOOLEAN :
        /\ runs' = [runs EXCEPT ![i].status = IF ok THEN "success" ELSE "failure"]
        /\ production' = IF changed THEN runs[i].sha ELSE production
        /\ writer' = IF changed THEN i ELSE writer
  BY DEF Deploy
<1> DEFINE s == IF ok THEN "success" ELSE "failure"
<1>3. s \in Done \cup Active /\ s \in {"success", "failure"}
  BY DEF Done
<1>4. runs' = [runs EXCEPT ![i].status = s] /\ UNCHANGED <<expired, program, stage, seen, wanted>>
  BY <1>2 DEF Deploy
<1> HIDE DEF s
<1>5. production' \in Shas /\ writer' \in Indexes
  BY <1>1, <1>2 DEF IInv, Types
<1>6. /\ Types' /\ SeenAreRuns' /\ RollbacksRestore' /\ Indexes' = Indexes
      /\ runs'[i].status = s /\ \A j \in Indexes : Same(j)
      /\ \A j \in Indexes \ {i} : runs'[j] = runs[j]
  BY <1>3, <1>4, <1>5, TurnStep
<1>7. runs[i].status = "deploying"
  BY DEF Deploy
<1>8. \A j \in Indexes \ {i} : runs[j].status \notin Active
  BY <1>7 DEF IInv, OneAtATime, Active
<1>9. \A j \in Indexes : runs'[j].status \notin Active
  BY <1>3, <1>6, <1>8 DEF Active
<1>10. OneAtATime' /\ NobodyElseWrote'
  BY <1>6, <1>9 DEF OneAtATime, NobodyElseWrote, Active
<1>11. \A j \in Indexes : runs'[j].status \in Through => runs[j].status \in Through
  BY <1>6, <1>7 DEF Through
<1>12. OneRollbackPerObservation'
  BY <1>6, <1>11, FewerThrough DEF IInv
<1> QED BY <1>6, <1>10, <1>12 DEF IInv

(* What a client is offered is one of the runs.                            *)
LEMMA OffersARun ==
  ASSUME Types, NEW want, Offers(want)
  PROVE  /\ Max(Candidates(want)) \in 1 .. Len(runs)
         /\ Observation(want) \in Observations
         /\ Observation(want).latest = Len(runs) /\ Observation(want).target \in 1 .. Len(runs)
<1>1. Candidates(want) \subseteq 1 .. Len(runs) /\ Candidates(want) # {} /\ Len(runs) \in Nat
  BY RunTypes DEF Candidates, Offers
<1>2. Max(Candidates(want)) \in 1 .. Len(runs)
  BY <1>1, MaxOfBounded
<1>3. Observation(want).latest = Len(runs) /\ Observation(want).target = Max(Candidates(want))
  BY DEF Observation
<1>4. Observation(want) \in Observations
  <2> DEFINE target == Max(Candidates(want))
  <2>1. target \in Nat /\ runs[target].turn \in Nat
    BY <1>2, RunTypes
  <2>2. Len(runs) \in Nat /\ runs[Len(runs)].status \in Done
    BY <1>1 DEF Offers
  <2> HIDE DEF target
  <2> QED BY <2>1, <2>2 DEF Observation, Observations, target
<1> QED BY <1>2, <1>3, <1>4

(* A client that ends forgets; one that goes on keeps what it observed.    *)
LEMMA EndStep ==
  ASSUME IInv, NEW c \in Clients, End(c)
  PROVE  /\ stage' \in [Clients -> {"idle", "planned", "tagged", "verified"}]
         /\ wanted' \in [Clients -> Explicit \cup {Best}] /\ seen' \in [Clients -> Observations]
         /\ Len(runs') \in Nat /\ Len(runs') >= Len(runs) => SeenAreRuns'
<1>1. Nothing \in Observations
  BY DEF Nothing, Observations
<1>2. /\ stage' \in [Clients -> {"idle", "planned", "tagged", "verified"}]
      /\ wanted' \in [Clients -> Explicit \cup {Best}] /\ seen' \in [Clients -> Observations]
  BY <1>1 DEF End, IInv, Types
<1>3. \A d \in Clients :
        \/ seen'[d] = seen[d] /\ (stage'[d] = "idle" \/ stage[d] # "idle")
        \/ seen'[d] = Nothing /\ stage'[d] = "idle"
  BY DEF End, IInv, Types
<1> QED BY <1>2, <1>3, StillSeen DEF IInv

(* Every step keeps the invariant.                                         *)
LEMMA Step == IInv /\ [Next]_vars => IInv'
<1> SUFFICES ASSUME IInv, [Next]_vars PROVE IInv'
  OBVIOUS
<1>1. Types /\ SeenAreRuns /\ Len(runs) \in Nat /\ Len(runs) >= Len(runs)
  BY RunTypes DEF IInv
<1>2. program \in Nat /\ Max(Turns) + 1 \in Nat
  <2>1. Max(Turns) \in Nat
    BY <1>1, NextTurn
  <2> QED BY <1>1, <2>1 DEF Types
<1>3. ASSUME NEW sha \in Shas, Push(sha) PROVE IInv'
  <2> DEFINE run == Run(sha, FALSE, 0, 0)
  <2>1. run \in RunRecord /\ run.status = "queued" /\ run.turn = Max(Turns) + 1 /\ ~run.rollback
    BY <1>2 DEF Run, RunRecord
  <2>2. Enqueue(run) /\ UNCHANGED <<world, expired, program, stage, seen, wanted>>
    BY <1>3 DEF Push
  <2> HIDE DEF run
  <2>3. Len(runs') = Len(runs) + 1
    BY <1>1, <2>1, <2>2, Enqueued
  <2>4. SeenAreRuns'
    BY <1>1, <2>2, <2>3, StillSeen
  <2> QED BY <1>1, <2>1, <2>2, <2>4, QueueStep DEF Types
<1>4. ASSUME NEW i \in Indexes, Again(i) \/ Start(i) \/ Gate(i) \/ Deploy(i) PROVE IInv'
  BY <1>4, AgainStep, StartStep, GateStep, DeployStep
<1>5. ASSUME NEW i \in Indexes, Expire(i) PROVE IInv'
  <2>1. expired' \subseteq Indexes /\ UNCHANGED <<world, runs, program, stage, seen, wanted>>
    BY <1>5 DEF Expire, IInv, Types
  <2> QED BY <2>1, Losing
<1>6. CASE NewProgram
  <2>1. program' \in Nat /\ UNCHANGED <<world, runs, expired, stage, seen, wanted>>
    BY <1>6 DEF NewProgram, IInv, Types
  <2>2. expired \subseteq Indexes
    BY DEF IInv, Types
  <2> QED BY <2>1, <2>2, Losing
<1>7. ASSUME NEW c \in Clients, NEW want \in Explicit \cup {Best}, Ask(c, want) PROVE IInv'
  <2>1. /\ stage' = [stage EXCEPT ![c] = "planned"] /\ seen' = [seen EXCEPT ![c] = Observation(want)]
        /\ wanted' = [wanted EXCEPT ![c] = want] /\ UNCHANGED <<world, runs, expired, program>>
    BY <1>7 DEF Ask
  <2>2. /\ Observation(want) \in Observations
        /\ Observation(want).latest = Len(runs) /\ Observation(want).target \in 1 .. Len(runs)
    BY <1>7, <1>1, OffersARun DEF Ask
  <2>3. /\ stage' \in [Clients -> {"idle", "planned", "tagged", "verified"}]
        /\ wanted' \in [Clients -> Explicit \cup {Best}] /\ seen' \in [Clients -> Observations]
    BY <2>1, <2>2 DEF IInv, Types
  <2>4. SeenAreRuns'
    BY <1>1, <2>1, <2>2 DEF SeenAreRuns, Types
  <2> QED BY <2>1, <2>3, <2>4, ClientStep
<1>8. ASSUME NEW c \in Clients, Verify(c) PROVE IInv'
  <2>1. CASE Unchanged(c)
    <3> DEFINE next == IF forge = "gitlab" /\ stage[c] = "planned" THEN "tagged" ELSE "verified"
    <3>1. stage' = [stage EXCEPT ![c] = next] /\ UNCHANGED <<world, runs, expired, program, seen, wanted>>
      BY <1>8, <2>1 DEF Verify
    <3>2. stage[c] # "idle" /\ next \in {"tagged", "verified"}
      BY <1>8 DEF Verify
    <3> HIDE DEF next
    <3>3. stage' \in [Clients -> {"idle", "planned", "tagged", "verified"}]
      BY <3>1, <3>2 DEF IInv, Types
    <3>4. SeenAreRuns'
      BY <1>1, <3>1, <3>2, StillSeen DEF Types
    <3> QED BY <3>1, <3>3, <3>4, ClientStep DEF IInv, Types
  <2>2. CASE ~Unchanged(c)
    <3>1. End(c) /\ UNCHANGED <<world, runs, expired, program>>
      BY <1>8, <2>2 DEF Verify
    <3> QED BY <1>1, <3>1, EndStep, ClientStep
  <2> QED BY <2>1, <2>2
<1>9. ASSUME NEW c \in Clients, Dispatch(c) PROVE IInv'
  <2> DEFINE run == Run(runs[seen[c].target].sha, TRUE, seen[c].latest, seen[c].target)
  <2>1. seen[c].latest <= Len(runs) /\ seen[c].target \in 1 .. seen[c].latest /\ seen[c].latest \in Nat
    BY <1>9 DEF Dispatch, IInv, SeenAreRuns, Types, Observations
  <2>2. seen[c].target \in Indexes /\ seen[c].target \in Nat
    BY <1>1, <2>1, RunTypes
  <2>3. runs[seen[c].target].sha \in Shas
    BY <1>1, <2>2, RunTypes DEF RunRecord
  <2>4. /\ run \in RunRecord /\ run.status = "queued" /\ run.turn = Max(Turns) + 1
        /\ run.expected = seen[c].latest /\ run.source = seen[c].target
        /\ run.sha = runs[seen[c].target].sha
    BY <1>2, <2>1, <2>2, <2>3 DEF Run, RunRecord
  <2>5. Enqueue(run) /\ End(c) /\ UNCHANGED <<world, expired, program>>
    BY <1>9 DEF Dispatch
  <2> HIDE DEF run
  <2>6. Len(runs') = Len(runs) + 1
    BY <1>1, <2>4, <2>5, Enqueued
  <2>7. /\ SeenAreRuns' /\ stage' \in [Clients -> {"idle", "planned", "tagged", "verified"}]
        /\ wanted' \in [Clients -> Explicit \cup {Best}] /\ seen' \in [Clients -> Observations]
    BY <1>1, <2>5, <2>6, EndStep
  <2> QED BY <2>1, <2>4, <2>5, <2>7, QueueStep
<1>10. ASSUME NEW c \in Clients, Die(c) PROVE IInv'
  BY <1>10, <1>1, EndStep, ClientStep DEF Die
<1>11. CASE UNCHANGED vars
  <2>1. UNCHANGED <<world, runs, expired, program, stage, seen, wanted>>
    BY <1>11 DEF vars
  <2> QED BY <1>1, <2>1, ClientStep DEF SeenAreRuns, Types
<1> QED BY <1>3, <1>4, <1>5, <1>6, <1>7, <1>8, <1>9, <1>10, <1>11 DEF Next

-----------------------------------------------------------------------------
(* In every state runs restore what they say, one deploys at a time, and   *)
(* nobody else has written since its gate, for any number of clients and   *)
(* runs.                                                                   *)
THEOREM Invariance == Spec => []IInv
BY InitInv, Step, PTL DEF Spec

(* Two clients that roll back from the same observation do not both change *)
(* production (assertRunContext of the generated workflow), however their  *)
(* runs are queued, cancelled and started again.                           *)
THEOREM OneGetsThrough == Spec => []OneRollbackPerObservation
<1>1. IInv => OneRollbackPerObservation
  BY DEF IInv
<1> QED BY <1>1, Invariance, PTL

(* Only the run that deploys changes who wrote.                            *)
LEMMA Writers ==
  ASSUME IInv, [Next]_vars, writer' # writer
  PROVE  \E i \in Indexes : Deploy(i) /\ writer' = i
<1>1. ASSUME NEW i \in Indexes, Deploy(i) PROVE writer' = i
  BY <1>1 DEF Deploy
<1>2. ASSUME NEW i \in Indexes, Again(i) \/ Start(i) \/ Gate(i) \/ Expire(i) PROVE FALSE
  BY <1>2 DEF Again, Start, Gate, Expire, world
<1>3. ASSUME NEW sha \in Shas, Push(sha) PROVE FALSE
  BY <1>3 DEF Push, world
<1>4. ASSUME NEW c \in Clients,
             (\E want \in Explicit \cup {Best} : Ask(c, want)) \/ Verify(c) \/ Dispatch(c) \/ Die(c)
      PROVE  FALSE
  BY <1>4 DEF Ask, Verify, Dispatch, Die, world
<1>5. ~NewProgram /\ ~UNCHANGED vars
  BY DEF NewProgram, vars, world
<1> QED BY <1>1, <1>2, <1>3, <1>4, <1>5 DEF Next

(* A rollback replaces nothing that was deployed after its observation,    *)
(* and what it restores had run before.                                    *)
THEOREM UndoesTheSeen == Spec => UndoesOnlyWhatWasSeen
<1> DEFINE Undoes ==
      \A i \in Indexes :
        runs[i].rollback /\ writer' = i /\ writer # i =>
          writer <= runs[i].expected /\ runs[i].source <= runs[i].expected
          /\ runs[i].sha = runs[runs[i].source].sha
<1>1. IInv /\ [Next]_vars => [Undoes]_vars
  <2> SUFFICES ASSUME IInv, [Next]_vars, NEW i \in Indexes, runs[i].rollback, writer' = i, writer # i
               PROVE  writer <= runs[i].expected /\ runs[i].source <= runs[i].expected
                      /\ runs[i].sha = runs[runs[i].source].sha
    OBVIOUS
  <2>1. Deploy(i)
    BY Writers
  <2>2. writer <= runs[i].expected
    BY <2>1 DEF Deploy, IInv, NobodyElseWrote
  <2>3. runs[i].source \in 1 .. runs[i].expected /\ runs[i].sha = runs[runs[i].source].sha
    BY DEF IInv, RollbacksRestore, Restores
  <2> QED BY <2>2, <2>3
<1>2. []IInv /\ [][Next]_vars => [][Undoes]_vars
  BY <1>1, PTL
<1> QED BY <1>2, Invariance, PTL DEF Spec, UndoesOnlyWhatWasSeen

-----------------------------------------------------------------------------
(* Configuration that waits for a deployment, RuntimeRollout.              *)
Stages == {"idle", "open", "early", "late", "stuck", "settled", "done"}
Receipts == [baseline : Nat, known : BOOLEAN, version : Nat]

Deployments == [id : Nat, carries : Nat, status : {"none", "building", "running", "failed"}]

(* The types, without the bounds of a run.                                 *)
RolloutTypes ==
  /\ config \in Nat /\ raced \in BOOLEAN
  /\ latest \in Deployments
  /\ apply \in [Apply -> [stage : Stages, receipt : Receipts]]
  /\ rollout \in Receipts

(* Nobody saw a deployment or a version that there is not yet.             *)
SawThePast(receipt) == receipt.baseline <= latest.id /\ receipt.version <= config
NothingIsAhead ==
  /\ latest.carries <= config /\ SawThePast(rollout)
  /\ \A a \in Apply : SawThePast(apply[a].receipt)

(* The reservation: one apply at a time is at work.                        *)
OneHolds == \A a, b \in Apply : Rollout!Holds(a) /\ Rollout!Holds(b) => a = b

(* Any deployment after the baseline of a receipt carries its version.     *)
Sound(receipt) ==
  receipt.known /\ receipt.baseline # latest.id => latest.carries >= receipt.version

(* Between a look that comes first and its write nothing was deployed.     *)
EarlyIsFresh(a) ==
  apply[a].stage = "early" /\ apply[a].receipt.known => apply[a].receipt.baseline = latest.id

(* A receipt is sound where it may still be recorded: not after a deferred *)
(* write until the look that follows it, and not after a death there.      *)
ReceiptsAreSound ==
  ~raced =>
    /\ Sound(rollout)
    /\ \A a \in Apply : /\ apply[a].stage \in {"idle", "open", "settled"} => Sound(apply[a].receipt)
                        /\ EarlyIsFresh(a)

RolloutInv == RolloutTypes /\ NothingIsAhead /\ OneHolds /\ ReceiptsAreSound

-----------------------------------------------------------------------------
(* Initially nothing was look and nothing written.                         *)
LEMMA RolloutInit == Rollout!Init => RolloutInv
<1> SUFFICES ASSUME Rollout!Init PROVE RolloutInv
  OBVIOUS
<1>1. RolloutTypes
  <2>1. Rollout!None \in Receipts
    BY DEF Rollout!None, Receipts
  <2>2. latest \in Deployments
    BY DEF Rollout!Init, Deployments
  <2>3. apply \in [Apply -> [stage : Stages, receipt : Receipts]]
    BY <2>1 DEF Rollout!Init, Stages
  <2> QED BY <2>1, <2>2, <2>3 DEF Rollout!Init, RolloutTypes
<1>2. NothingIsAhead
  BY DEF Rollout!Init, NothingIsAhead, SawThePast, Rollout!None
<1>3. OneHolds
  BY DEF Rollout!Init, OneHolds, Rollout!Holds
<1>4. ReceiptsAreSound
  BY DEF Rollout!Init, ReceiptsAreSound, Sound, EarlyIsFresh, Rollout!None
<1> QED BY <1>1, <1>2, <1>3, <1>4 DEF RolloutInv

(* What is compared are numbers.                                           *)
LEMMA Numbers ==
  ASSUME RolloutTypes
  PROVE  /\ {config, latest.id, latest.carries, rollout.baseline, rollout.version} \subseteq Nat
         /\ \A a \in Apply : {apply[a].receipt.baseline, apply[a].receipt.version} \subseteq Nat
<1>1. \A a \in Apply : apply[a].receipt \in Receipts
  BY DEF RolloutTypes
<1> QED BY <1>1 DEF RolloutTypes, Deployments, Receipts

(* A step that only moves an apply, without bringing it to a point where   *)
(* its receipt must be sound or fresh, or lets it hold the environment.    *)
LEMMA Moves ==
  ASSUME RolloutInv, NEW a \in Apply, NEW s \in Stages, Rollout!Stage(a, s),
         UNCHANGED <<config, latest, raced>>, rollout' \in {rollout, apply[a].receipt},
         rollout' # rollout => apply[a].stage = "settled",
         s \in {"open", "settled"} /\ ~raced => Sound(apply[a].receipt),
         s \notin {"idle", "early", "late"},
         s \in {"open", "stuck"} => Rollout!Holds(a) \/ ~\E b \in Apply : Rollout!Holds(b)
  PROVE  RolloutInv'
<1>1. /\ apply'[a] = [apply[a] EXCEPT !.stage = s]
      /\ apply'[a].stage = s /\ apply'[a].receipt = apply[a].receipt
      /\ \A b \in Apply \ {a} : apply'[b] = apply[b]
  BY DEF Rollout!Stage, RolloutInv, RolloutTypes
<1>2. RolloutTypes'
  BY DEF RolloutInv, RolloutTypes, Rollout!Stage
<1>3. NothingIsAhead'
  BY <1>1 DEF RolloutInv, NothingIsAhead, SawThePast
<1>4. OneHolds'
  <2>1. Rollout!Holds(a)' => Rollout!Holds(a) \/ ~\E b \in Apply : Rollout!Holds(b)
    BY <1>1 DEF Rollout!Holds
  <2>2. \A b \in Apply \ {a} : Rollout!Holds(b)' => Rollout!Holds(b)
    BY <1>1 DEF Rollout!Holds
  <2> QED BY <2>1, <2>2 DEF RolloutInv, OneHolds
<1>5. ReceiptsAreSound'
  BY <1>1 DEF RolloutInv, ReceiptsAreSound, Sound, EarlyIsFresh
<1> QED BY <1>2, <1>3, <1>4, <1>5 DEF RolloutInv

(* A look takes the deployment that is the latest now.                     *)
LEMMA Looks ==
  ASSUME RolloutInv, NEW a \in Apply, NEW s \in {"early", "open"}, Rollout!Look(a, s), Rollout!Holds(a),
         UNCHANGED <<config, latest, rollout, raced>>
  PROVE  RolloutInv'
<1>1. PICK known \in BOOLEAN :
        apply' = [apply EXCEPT ![a] = [stage |-> s, receipt |->
          [baseline |-> IF known THEN latest.id ELSE 0, known |-> known, version |-> @.receipt.version]]]
  BY DEF Rollout!Look
<1> DEFINE look == [baseline |-> IF known THEN latest.id ELSE 0, known |-> known,
                   version |-> apply[a].receipt.version]
<1>2. apply' = [apply EXCEPT ![a] = [stage |-> s, receipt |-> look]]
  BY <1>1
<1>3. look \in Receipts
  BY Numbers DEF RolloutInv, Receipts
<1>4. [stage |-> s, receipt |-> look] \in [stage : Stages, receipt : Receipts]
  BY <1>3 DEF Stages
<1>5. /\ apply'[a].stage = s /\ apply'[a].receipt.known = known
      /\ apply'[a].receipt.baseline = (IF known THEN latest.id ELSE 0)
      /\ apply'[a].receipt.version = apply[a].receipt.version
      /\ \A b \in Apply \ {a} : apply'[b] = apply[b]
  BY <1>1 DEF RolloutInv, RolloutTypes
<1>6. RolloutTypes'
  BY <1>2, <1>4 DEF RolloutInv, RolloutTypes
<1>7. NothingIsAhead'
  BY <1>5, Numbers DEF RolloutInv, NothingIsAhead, SawThePast
<1>8. OneHolds'
  BY <1>5 DEF RolloutInv, OneHolds, Rollout!Holds
<1>9. ReceiptsAreSound'
  BY <1>5 DEF RolloutInv, ReceiptsAreSound, Sound, EarlyIsFresh
<1> QED BY <1>6, <1>7, <1>8, <1>9 DEF RolloutInv

(* A deployment carries at least what every sound receipt waits for.       *)
LEMMA Builds ==
  ASSUME RolloutInv, Rollout!Build(config), UNCHANGED <<config, apply, rollout>>,
         raced' = (raced \/ \E a \in Apply : apply[a].stage = "early")
  PROVE  RolloutInv'
<1>1. latest'.id = latest.id + 1 /\ latest'.carries = config /\ latest'.status = "building"
      /\ latest' \in Deployments
  BY DEF Rollout!Build, RolloutInv, RolloutTypes, Deployments
<1>2. RolloutTypes'
  BY <1>1 DEF RolloutInv, RolloutTypes
<1>3. NothingIsAhead'
  BY <1>1, Numbers DEF RolloutInv, NothingIsAhead, SawThePast
<1>4. OneHolds'
  BY DEF RolloutInv, OneHolds, Rollout!Holds
<1>5. ReceiptsAreSound'
  BY <1>1, Numbers DEF RolloutInv, ReceiptsAreSound, Sound, EarlyIsFresh, NothingIsAhead, SawThePast
<1> QED BY <1>2, <1>3, <1>4, <1>5 DEF RolloutInv

(* What a write leaves: the next version, and the look before it.          *)
LEMMA Writes ==
  ASSUME RolloutInv, NEW a \in Apply, Rollout!Write(a), apply[a].stage \in {"early", "open"}
  PROVE  /\ config' = config + 1 /\ apply' \in [Apply -> [stage : Stages, receipt : Receipts]]
         /\ apply'[a].stage = IF apply[a].stage = "early" THEN "open" ELSE "late"
         /\ apply'[a].receipt.known = apply[a].receipt.known
         /\ apply'[a].receipt.baseline = apply[a].receipt.baseline
         /\ apply'[a].receipt.version = config + 1
         /\ \A b \in Apply \ {a} : apply'[b] = apply[b]
  BY DEF Rollout!Write, RolloutInv, RolloutTypes, Stages, Receipts

(* A write after a look: the baseline is the latest deployment, and the    *)
(* one the provider starts carries the version written.                    *)
LEMMA WritesEarly ==
  ASSUME RolloutInv, NEW a \in Apply, Rollout!EarlyWrite(a)
  PROVE  RolloutInv'
<1>1. /\ config' = config + 1 /\ apply' \in [Apply -> [stage : Stages, receipt : Receipts]]
      /\ apply[a].stage = "early" /\ apply'[a].stage = "open"
      /\ apply'[a].receipt.known = apply[a].receipt.known
      /\ apply'[a].receipt.baseline = apply[a].receipt.baseline
      /\ apply'[a].receipt.version = config + 1
      /\ \A b \in Apply \ {a} : apply'[b] = apply[b]
  BY Writes DEF Rollout!EarlyWrite
<1>2. /\ latest' \in Deployments
      /\ \/ latest' = latest
         \/ latest'.id = latest.id + 1 /\ latest'.carries = config + 1
  <2>1. CASE UNCHANGED latest
    BY <2>1 DEF RolloutInv, RolloutTypes
  <2>2. CASE Rollout!Build(config')
    BY <1>1, <2>2, Numbers DEF Rollout!Build, RolloutInv, Deployments
  <2> QED BY <2>1, <2>2 DEF Rollout!EarlyWrite
<1>3. rollout' = rollout /\ raced' = raced
  BY DEF Rollout!EarlyWrite
<1>4. RolloutTypes'
  BY <1>1, <1>2, <1>3 DEF RolloutInv, RolloutTypes
<1>5. NothingIsAhead'
  BY <1>1, <1>2, <1>3, Numbers DEF RolloutInv, NothingIsAhead, SawThePast
<1>6. OneHolds'
  BY <1>1 DEF RolloutInv, OneHolds, Rollout!Holds
<1>7. ReceiptsAreSound'
  <2> SUFFICES ASSUME ~raced PROVE ReceiptsAreSound'
    BY <1>3 DEF ReceiptsAreSound
  <2>1. /\ Sound(rollout)
        /\ \A b \in Apply : apply[b].stage \in {"idle", "open", "settled"} => Sound(apply[b].receipt)
        /\ EarlyIsFresh(a)
    BY DEF RolloutInv, ReceiptsAreSound
  <2>2. Sound(rollout)'
    BY <2>1, <1>2, <1>3, Numbers DEF Sound, RolloutInv, NothingIsAhead, SawThePast
  <2>3. \A b \in Apply \ {a} : apply[b].stage \in {"idle", "open", "settled"} => Sound(apply[b].receipt)'
    BY <2>1, <1>1, <1>2, Numbers DEF Sound, RolloutInv, NothingIsAhead, SawThePast
  <2>4. Sound(apply[a].receipt)'
    BY <2>1, <1>1, <1>2, Numbers DEF Sound, EarlyIsFresh, RolloutInv
  <2>5. \A b \in Apply \ {a} : apply[b].stage # "early"
    BY <1>1 DEF RolloutInv, OneHolds, Rollout!Holds
  <2>6. \A b \in Apply : EarlyIsFresh(b)'
    BY <2>5, <1>1 DEF EarlyIsFresh
  <2> QED BY <2>2, <2>3, <2>4, <2>6, <1>1 DEF ReceiptsAreSound
<1> QED BY <1>4, <1>5, <1>6, <1>7 DEF RolloutInv

(* A deferred write: its receipt is not sound before the look after it.    *)
LEMMA WritesDeferred ==
  ASSUME RolloutInv, NEW a \in Apply, Rollout!DeferredWrite(a)
  PROVE  RolloutInv'
<1>1. /\ config' = config + 1 /\ apply' \in [Apply -> [stage : Stages, receipt : Receipts]]
      /\ apply[a].stage = "open" /\ apply'[a].stage = "late"
      /\ apply'[a].receipt.known = apply[a].receipt.known
      /\ apply'[a].receipt.baseline = apply[a].receipt.baseline
      /\ apply'[a].receipt.version = config + 1
      /\ \A b \in Apply \ {a} : apply'[b] = apply[b]
  BY Writes DEF Rollout!DeferredWrite
<1>2. latest' = latest /\ rollout' = rollout /\ raced' = raced
  BY DEF Rollout!DeferredWrite
<1>3. RolloutTypes'
  BY <1>1, <1>2 DEF RolloutInv, RolloutTypes
<1>4. NothingIsAhead'
  BY <1>1, <1>2, Numbers DEF RolloutInv, NothingIsAhead, SawThePast
<1>5. OneHolds'
  BY <1>1 DEF RolloutInv, OneHolds, Rollout!Holds
<1>6. ReceiptsAreSound'
  BY <1>1, <1>2 DEF RolloutInv, ReceiptsAreSound, Sound, EarlyIsFresh
<1> QED BY <1>3, <1>4, <1>5, <1>6 DEF RolloutInv

(* Every step keeps the invariant.                                         *)
LEMMA RolloutStep == RolloutInv /\ [Rollout!Next]_Rollout!vars => RolloutInv'
<1> SUFFICES ASSUME RolloutInv, [Rollout!Next]_Rollout!vars PROVE RolloutInv'
  OBVIOUS
<1>1. ASSUME NEW a \in Apply, Rollout!Begin(a) PROVE RolloutInv'
  BY <1>1, Moves DEF Rollout!Begin, Stages, RolloutInv, ReceiptsAreSound, Sound
<1>2. ASSUME NEW a \in Apply, Rollout!LookEarly(a) PROVE RolloutInv'
  BY <1>2, Looks DEF Rollout!LookEarly, Rollout!Holds
<1>3. ASSUME NEW a \in Apply, Rollout!EarlyWrite(a) PROVE RolloutInv'
  BY <1>3, WritesEarly
<1>4. ASSUME NEW a \in Apply, Rollout!DeferredWrite(a) PROVE RolloutInv'
  BY <1>4, WritesDeferred
<1>5. ASSUME NEW a \in Apply, Rollout!LookLate(a) PROVE RolloutInv'
  BY <1>5, Looks DEF Rollout!LookLate, Rollout!Holds
<1>6. ASSUME NEW a \in Apply, Rollout!Settle(a) PROVE RolloutInv'
  BY <1>6, Moves DEF Rollout!Settle, Stages, RolloutInv, ReceiptsAreSound
<1>7. ASSUME NEW a \in Apply, Rollout!Record(a) PROVE RolloutInv'
  BY <1>7, Moves DEF Rollout!Record, Stages
<1>8. ASSUME NEW a \in Apply, Rollout!Die(a) PROVE RolloutInv'
  <2>1. CASE Rollout!Holds(a)
    BY <1>8, <2>1, Moves DEF Rollout!Die, Stages
  <2>2. CASE ~Rollout!Holds(a)
    BY <1>8, <2>2, Moves DEF Rollout!Die, Stages
  <2> QED BY <2>1, <2>2
<1>9. CASE Rollout!Deploy
  BY <1>9, Builds DEF Rollout!Deploy
<1>10. CASE Rollout!Finish
  <2>1. /\ latest'.id = latest.id /\ latest'.carries = latest.carries
        /\ latest' \in Deployments
    BY <1>10 DEF Rollout!Finish, RolloutInv, RolloutTypes, Deployments
  <2> QED BY <1>10, <2>1 DEF Rollout!Finish, RolloutInv, RolloutTypes, NothingIsAhead, SawThePast, OneHolds, Rollout!Holds,
                            ReceiptsAreSound, Sound, EarlyIsFresh
<1>11. CASE UNCHANGED Rollout!vars
  BY <1>11 DEF Rollout!vars, RolloutInv, RolloutTypes, NothingIsAhead, SawThePast, OneHolds, Rollout!Holds,
               ReceiptsAreSound, Sound, EarlyIsFresh
<1> QED BY <1>1, <1>2, <1>3, <1>4, <1>5, <1>6, <1>7, <1>8, <1>9, <1>10, <1>11 DEF Rollout!Next

-----------------------------------------------------------------------------
(* In every state, one apply at a time is at work and what it will record  *)
(* is sound, for every number of applies, writes and deployments.          *)
THEOREM RolloutInvariance == Rollout!Spec => []RolloutInv
BY RolloutInit, RolloutStep, PTL DEF Rollout!Spec

(* Side by side with rollbacks the rollout takes its own steps only.       *)
LEMMA RolloutsAreRollouts == MCSpec => Rollout!Spec
<1>1. MCInit => Rollout!Init
  BY DEF MCInit
<1>2. [MCNext]_<<part, vars, rollouts>> => [Rollout!Next]_Rollout!vars
  BY DEF MCNext, rollouts, Rollout!vars
<1> QED BY <1>1, <1>2, PTL DEF MCSpec, Rollout!Spec

(* hv_status takes a requirement for met (rolloutCompleted) only when the  *)
(* running deployment carries the change it was recorded for, unless CI    *)
(* deployed between an early look and its write.                           *)
THEOREM MetIsCarried == MCSpec => []MetMeansCarried
<1>1. RolloutInv => MetMeansCarried
  BY DEF RolloutInv, ReceiptsAreSound, Sound, MetMeansCarried, Rollout!MetMeansCarried, Rollout!Completed
<1> QED BY <1>1, RolloutsAreRollouts, RolloutInvariance, PTL
=============================================================================
