--------------------------- MODULE ConvergeExecutor -------------------------
(***************************************************************************)
(* ConvergeExecutor.execute after its reservation: the confirmation gate,  *)
(* the loop over the ordered actions, the receipts it keeps in memory and  *)
(* in the apply row, and the status that row ends with.  PlanApply models  *)
(* the checks before the reservation; here one apply row is already ours.  *)
(***************************************************************************)
EXTENDS FiniteSets, Sequences, Naturals

CONSTANTS
  Action,    \* ids of the plan's actions
  Faulty,    \* whether writes of the run table may throw
  Crashable  \* whether the process may die

ASSUME ActionAssumption == IsFiniteSet(Action) /\ Action # {}
ASSUME FlagAssumption == Faulty \in BOOLEAN /\ Crashable \in BOOLEAN

VARIABLES
  plan,       \* dependsOn, noop actions, confirm-gated actions
  confirmed,  \* confirmActions of the caller
  ordered,    \* the actions as orderActions returned them
  next,       \* position of the loop
  halted,     \* the flags failed, pending and blocked
  completed,  \* actions dependents may rely on
  said,       \* results the handler has returned
  called,     \* actions handed to the handler
  receipts,   \* receipts in memory, returned to the caller
  ledger,     \* receipts in the apply row
  row,        \* status of the apply row
  pc          \* where execute is
input == <<plan, confirmed, ordered>>
loop == <<next, halted, completed>>
handler == <<said, called>>
table == <<ledger, row>>
vars == <<input, loop, handler, receipts, table, pc>>

Flag == {"failed", "pending", "blocked"}
Result == [success : BOOLEAN, status : {"none", "pending", "blocked"}]
Unanswered == [success |-> FALSE, status |-> "unanswered"]
Thrown == [success |-> FALSE, status |-> "thrown"]
ReceiptStatus == {"succeeded", "skipped_noop", "skipped_requires_confirm", "aborted"} \cup Flag
LedgerStatus == {"success", "failure", "pending", "blocked"}

Plan == [deps : [Action -> SUBSET Action], noop : SUBSET Action, gated : SUBSET Action]

(* What orderActions promises: every action once, after what it depends    *)
(* on.  OrderActions models how it gets there, ConvergeApply the two.      *)
Position(o, a) == CHOOSE i \in 1..Len(o) : o[i] = a
DependencyOrder(deps, o) ==
  /\ Len(o) = Cardinality(Action) /\ {o[i] : i \in 1..Len(o)} = Action
  /\ \A a \in Action : \A d \in deps[a] : Position(o, d) < Position(o, a)

TypeOK ==
  /\ plan \in Plan /\ confirmed \subseteq Action
  /\ DependencyOrder(plan.deps, ordered)
  /\ next \in 1..(Len(ordered) + 1)
  /\ halted \subseteq Flag
  /\ completed \subseteq Action /\ called \subseteq Action
  /\ said \in [Action -> Result \cup {Unanswered, Thrown}]
  /\ receipts \in Seq([action : Action, status : ReceiptStatus])
  /\ ledger \in Seq([action : Action, status : LedgerStatus])
  /\ row \in {"running", "succeeded"} \cup Flag
  /\ pc \in {"gate", "refused", "loop", "handling", "returned", "thrown", "dead"}

Orders == [1..Cardinality(Action) -> Action]

Init ==
  /\ plan \in Plan /\ confirmed \in SUBSET plan.gated
  /\ ordered \in {o \in Orders : DependencyOrder(plan.deps, o)}
  /\ next = 1 /\ halted = {} /\ completed = {} /\ called = {}
  /\ said = [a \in Action |-> Unanswered]
  /\ receipts = <<>> /\ ledger = <<>>
  /\ row = "running" /\ pc = "gate"

-----------------------------------------------------------------------------
(* Mutated form: one confirmed action is taken for a confirmed plan.       *)
BadUnconfirmed == IF confirmed = {} THEN plan.gated \ plan.noop ELSE {}

Unconfirmed == (plan.gated \ plan.noop) \ confirmed
FirstUnconfirmed ==
  ordered[CHOOSE i \in 1..Len(ordered) :
            ordered[i] \in Unconfirmed /\ \A j \in 1..(i - 1) : ordered[j] \notin Unconfirmed]

GateStatus(a) ==
  IF a \in plan.noop THEN "skipped_noop"
  ELSE IF a = FirstUnconfirmed THEN "skipped_requires_confirm"
  ELSE "aborted"

(* The gate refuses the whole plan: a receipt for every action in memory,  *)
(* one in the row.                                                         *)
RefuseUnconfirmed ==
  /\ pc = "gate" /\ Unconfirmed # {}
  /\ receipts' = [i \in 1..Len(ordered) |->
                    [action |-> ordered[i], status |-> GateStatus(ordered[i])]]
  /\ ledger' = Append(ledger, [action |-> FirstUnconfirmed, status |-> "blocked"])
  /\ pc' = "refused"
  /\ UNCHANGED <<input, loop, handler, row>>

SettleRefused ==
  /\ pc = "refused"
  /\ row' = "blocked" /\ pc' = "returned"
  /\ UNCHANGED <<input, loop, handler, receipts, ledger>>

PassGate ==
  /\ pc = "gate" /\ Unconfirmed = {}
  /\ pc' = "loop"
  /\ UNCHANGED <<input, loop, handler, receipts, table>>

-----------------------------------------------------------------------------
Looping == pc = "loop" /\ next <= Len(ordered)
Current == ordered[next]
Unmet == plan.deps[Current] \ completed

(* After a stop, or with a dependency that did not complete.               *)
Abort ==
  /\ Looping
  /\ halted # {} \/ (Current \notin plan.noop /\ Unmet # {})
  /\ next' = next + 1
  /\ receipts' = Append(receipts, [action |-> Current, status |-> "aborted"])
  /\ UNCHANGED <<input, halted, completed, handler, table, pc>>

SkipNoop ==
  /\ Looping /\ halted = {} /\ Current \in plan.noop
  /\ next' = next + 1
  /\ completed' = completed \cup {Current}
  /\ receipts' = Append(receipts, [action |-> Current, status |-> "skipped_noop"])
  /\ UNCHANGED <<input, halted, said, called, table, pc>>

Call ==
  /\ Looping /\ halted = {} /\ Current \notin plan.noop /\ Unmet = {}
  /\ called' = called \cup {Current}
  /\ pc' = "handling"
  /\ UNCHANGED <<input, loop, said, receipts, table>>

(* Mutated form: the success flag is looked at before the status, though   *)
(* some handlers return success with a pending status.                     *)
BadVerdict(r) ==
  IF r.success THEN "succeeded" ELSE IF r.status \in Flag THEN r.status ELSE "failed"

(* A pending or blocked status counts before success.                      *)
Verdict(r) ==
  IF r.status \in Flag THEN r.status ELSE IF r.success THEN "succeeded" ELSE "failed"

InLedger(v) == CASE v = "succeeded" -> "success" [] v = "failed" -> "failure" [] OTHER -> v

(* The handler's answer decides the flags before its receipt is written.   *)
Answer(r) ==
  /\ pc = "handling"
  /\ said' = [said EXCEPT ![Current] = r]
  /\ completed' = IF Verdict(r) = "succeeded" THEN completed \cup {Current} ELSE completed
  /\ UNCHANGED <<input, called, row>>

(* The receipt goes to memory and to the row.                              *)
Record(r) ==
  /\ Answer(r)
  /\ halted' = (halted \cup {Verdict(r)}) \cap Flag
  /\ receipts' = Append(receipts, [action |-> Current, status |-> Verdict(r)])
  /\ ledger' = Append(ledger, [action |-> Current, status |-> InLedger(Verdict(r))])
  /\ next' = next + 1 /\ pc' = "loop"

(* Mutated form: the catch block does not write a receipt of its own.      *)
BadRecordAgain(r) ==
  /\ Faulty /\ Answer(r)
  /\ halted' = (halted \cup {Verdict(r), "failed"}) \cap Flag
  /\ receipts' = Append(receipts, [action |-> Current, status |-> Verdict(r)])
  /\ next' = next + 1 /\ pc' = "loop"
  /\ UNCHANGED ledger

(* Writing it threw: the catch block turns the answer into a failure, and  *)
(* the first receipt stays in memory.                                      *)
RecordAgain(r) ==
  /\ Faulty /\ Answer(r)
  /\ halted' = (halted \cup {Verdict(r), "failed"}) \cap Flag
  /\ receipts' = receipts \o <<[action |-> Current, status |-> Verdict(r)],
                               [action |-> Current, status |-> "failed"]>>
  /\ ledger' = Append(ledger, [action |-> Current, status |-> "failure"])
  /\ next' = next + 1 /\ pc' = "loop"

(* The handler threw.                                                      *)
Catch ==
  /\ pc = "handling"
  /\ said' = [said EXCEPT ![Current] = Thrown]
  /\ halted' = halted \cup {"failed"}
  /\ receipts' = Append(receipts, [action |-> Current, status |-> "failed"])
  /\ ledger' = Append(ledger, [action |-> Current, status |-> "failure"])
  /\ next' = next + 1 /\ pc' = "loop"
  /\ UNCHANGED <<input, completed, called, row>>

FinalStatus ==
  CASE "failed" \in halted  -> "failed"
    [] "failed" \notin halted /\ "blocked" \in halted -> "blocked"
    [] halted = {"pending"} -> "pending"
    [] halted = {}          -> "succeeded"

Settle ==
  /\ pc = "loop" /\ next > Len(ordered)
  /\ row' = FinalStatus /\ pc' = "returned"
  /\ UNCHANGED <<input, loop, handler, receipts, ledger>>

(* A write outside the try block, or the one in its catch, throws out of   *)
(* execute: the row stays as it is and the caller gets no receipts, nor    *)
(* what the handler answered last.                                         *)
Throw ==
  /\ Faulty
  /\ \/ pc = "gate" /\ Unconfirmed # {}
     \/ pc \in {"refused", "handling"}
     \/ pc = "loop" /\ next > Len(ordered)
  /\ pc' = "thrown"
  /\ UNCHANGED <<input, loop, handler, receipts, table>>

Crash ==
  /\ Crashable /\ pc \notin {"returned", "thrown", "dead"}
  /\ pc' = "dead"
  /\ UNCHANGED <<input, loop, handler, receipts, table>>

-----------------------------------------------------------------------------
Execute ==
  \/ RefuseUnconfirmed \/ SettleRefused \/ PassGate
  \/ Abort \/ SkipNoop \/ Call
  \/ \E r \in Result : Record(r) \/ RecordAgain(r)
  \/ Catch \/ Settle \/ Throw

Next == Execute \/ Crash

Spec == Init /\ [][Next]_vars

-----------------------------------------------------------------------------
Succeeded(a) == said[a].success /\ said[a].status = "none"

(* Whatever reached the provider rests on prerequisites whose handler      *)
(* reported plain success: a pending or blocked one never counts.          *)
DependenciesHeld ==
  \A a \in called : \A d \in plan.deps[a] : d \in plan.noop \/ Succeeded(d)

(* A run recorded as succeeded handed every action that is not a noop to   *)
(* its handler, got plain success, and has a success receipt for it.       *)
SucceededRunIsComplete ==
  row = "succeeded" =>
    \A a \in Action \ plan.noop :
      /\ Succeeded(a)
      /\ \E i \in 1..Len(ledger) : ledger[i] = [action |-> a, status |-> "success"]

(* Once a run has ended, its row accounts for every handler that ran, and  *)
(* says "success" only of handlers that did, even when a receipt write     *)
(* threw on the way.                                                       *)
EndedRowsAccountForCalls ==
  row # "running" =>
    \A a \in called :
      /\ \E i \in 1..Len(ledger) : ledger[i].action = a
      /\ ~Succeeded(a) => \A i \in 1..Len(ledger) :
           ledger[i].action = a => ledger[i].status # "success"

(* The caller is told about every action, in plan order; once each unless  *)
(* a receipt write threw: done actions, at most one stop, aborted ones.    *)
Done == {"succeeded", "skipped_noop"}
ReportCoversPlan ==
  pc = "returned" =>
    /\ {receipts[i].action : i \in 1..Len(receipts)} = Action
    /\ \A i, j \in 1..Len(receipts) : i < j =>
         /\ Position(ordered, receipts[i].action) <= Position(ordered, receipts[j].action)
         /\ receipts[i].action = receipts[j].action => Faulty /\ receipts[j].status = "failed"
         /\ called # {} /\ receipts[i].status \notin Done /\ receipts[j].status # "aborted" =>
              receipts[i].action = receipts[j].action

(* What an apply says of itself is what happened: its final status, the    *)
(* receipts of its row and the report its caller gets.                     *)
TellsTheTruth == SucceededRunIsComplete /\ EndedRowsAccountForCalls /\ ReportCoversPlan
=============================================================================
