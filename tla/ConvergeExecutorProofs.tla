------------------------ MODULE ConvergeExecutorProofs -----------------------
(***************************************************************************)
(* An apply for every document, every dependency graph in it and every way *)
(* handlers answer: the search finds an order exactly when there is one,   *)
(* what is handed to a handler rests on done prerequisites, what a run     *)
(* says of itself happened, and a stage-gated apply is implemented.        *)
(***************************************************************************)
EXTENDS MCConvergeApply, TLAPS, FiniteSetTheorems, SequenceTheorems, WellFoundedInduction

-----------------------------------------------------------------------------
(* Orders.                                                                 *)

(* An order is a sequence of as many actions as there are.                 *)
LEMMA OrderIsSeq ==
  ASSUME NEW o \in Orders
  PROVE  /\ Cardinality(Action) \in Nat
         /\ o \in Seq(Action) /\ Len(o) = Cardinality(Action)
         /\ DOMAIN o = 1..Len(o)
         /\ \A i \in 1..Len(o) : o[i] \in Action
<1>1. Cardinality(Action) \in Nat
  BY FS_CardinalityType, ActionAssumption
<1>2. o \in Seq(Action)
  BY <1>1, IsASeq DEF Orders
<1>3. Len(o) \in Nat /\ DOMAIN o = 1..Len(o) /\ DOMAIN o = 1..Cardinality(Action)
  BY <1>2, LenProperties DEF Orders
<1>4. Len(o) = Cardinality(Action)
  BY <1>1, <1>3, SMT
<1> QED BY <1>1, <1>2, <1>3, <1>4 DEF Orders

(* A dependency order lists every action at one place.                     *)
LEMMA OrderIsInjective ==
  ASSUME NEW o \in Orders, NEW deps, DependencyOrder(deps, o)
  PROVE  \A i, j \in 1..Len(o) : o[i] = o[j] => i = j
<1> DEFINE n == Cardinality(Action)
           S == 1..n
<1>1. n \in Nat /\ Len(o) = n
  BY OrderIsSeq
<1>2. IsFiniteSet(S) /\ Cardinality(S) = n
  <2>1. IsFiniteSet(S) /\ Cardinality(S) = IF 1 > n THEN 0 ELSE n - 1 + 1
    BY <1>1, FS_Interval
  <2> QED BY <1>1, <2>1
<1>3. o \in Surjection(S, Action)
  <2>1. \A a \in Action : \E i \in S : o[i] = a
    BY <1>1 DEF DependencyOrder
  <2> QED BY <2>1 DEF Surjection, Orders
<1>4. o \in Injection(S, Action)
  BY <1>2, <1>3, FS_SurjSameCardinalityImpliesInj
<1> HIDE DEF n
<1> QED BY <1>1, <1>4 DEF Injection, IsInjective

LEMMA PositionIs ==
  ASSUME NEW o \in Orders, NEW deps, DependencyOrder(deps, o)
  PROVE  /\ \A a \in Action : Position(o, a) \in 1..Len(o) /\ o[Position(o, a)] = a
         /\ \A i \in 1..Len(o) : Position(o, o[i]) = i
<1>1. \A a \in Action : Position(o, a) \in 1..Len(o) /\ o[Position(o, a)] = a
  BY DEF DependencyOrder, Position
<1>2. \A i \in 1..Len(o) : o[i] \in Action
  BY OrderIsSeq
<1> QED BY <1>1, <1>2, OrderIsInjective

(* Any non-empty set of positions has a first one.                         *)
LEMMA FirstPosition ==
  ASSUME NEW n \in Nat, NEW T, T \subseteq 1..n, T # {}
  PROVE  \E x \in T : \A y \in T : x <= y
<1>1. T \subseteq Nat
  OBVIOUS
<1>2. PICK x \in T : \A y \in T : ~(<<y, x>> \in OpToRel(<, Nat))
  BY <1>1, NatLessThanWellFounded, WFMin, Zenon
<1>3. ASSUME NEW y \in T PROVE x <= y
  <2>1. x \in Nat /\ y \in Nat
    BY <1>1
  <2>2. <<y, x>> \in Nat \X Nat => ~(y < x)
    BY <1>2 DEF OpToRel
  <2> QED BY <2>1, <2>2
<1> QED BY <1>3

(* The gate's first unconfirmed action exists when any is unconfirmed.     *)
LEMMA FirstUnconfirmedIs ==
  ASSUME ordered \in Orders, DependencyOrder(plan.deps, ordered),
         plan \in Plan, Unconfirmed # {}
  PROVE  FirstUnconfirmed \in Unconfirmed /\ FirstUnconfirmed \in Action
<1> DEFINE n == Len(ordered)
           T == {i \in 1..n : ordered[i] \in Unconfirmed}
<1>1. n \in Nat
  BY OrderIsSeq
<1>2. Unconfirmed \subseteq Action
  BY DEF Unconfirmed, Plan
<1>3. T # {} /\ T \subseteq 1..n
  <2>1. PICK a \in Unconfirmed : TRUE
    OBVIOUS
  <2>2. Position(ordered, a) \in T
    BY <1>2, <2>1, PositionIs
  <2> QED BY <2>2
<1>4. PICK x \in T : \A y \in T : x <= y
  <2> HIDE DEF T, n
  <2> QED BY <1>1, <1>3, FirstPosition
<1>5. \A j \in 1..(x - 1) : ordered[j] \notin Unconfirmed
  <2> SUFFICES ASSUME NEW j \in 1..(x - 1), ordered[j] \in Unconfirmed PROVE FALSE
    OBVIOUS
  <2>1. x \in 1..n
    OBVIOUS
  <2>2. j \in 1..n /\ j < x
    BY <1>1, <2>1
  <2>3. j \in T
    BY <2>2
  <2>4. x <= j
    BY <1>4, <2>3
  <2> QED BY <1>1, <2>1, <2>2, <2>4
<1>6. \E i \in 1..n : ordered[i] \in Unconfirmed /\ \A j \in 1..(i - 1) : ordered[j] \notin Unconfirmed
  BY <1>5
<1> QED BY <1>2, <1>6 DEF FirstUnconfirmed

-----------------------------------------------------------------------------
(* The inductive invariant.                                                *)

Running == pc \in {"loop", "handling"}
Passed == {ordered[j] : j \in 1..(next - 1)}

(* The handler runs for an action of the plan, with nothing halted.        *)
HandlerRuns ==
  pc = "handling" => /\ next <= Len(ordered) /\ halted = {}
                     /\ Current \notin plan.noop /\ Current \in called

(* Completed actions have been passed and were noops or succeeded.         *)
CompletedSucceeded ==
  /\ completed \subseteq Passed
  /\ \A a \in completed : a \in plan.noop \/ Succeeded(a)

CalledRest == \A a \in called : plan.deps[a] \subseteq completed

IInv ==
  /\ TypeOK /\ ordered \in Orders
  /\ HandlerRuns /\ CompletedSucceeded /\ CalledRest

(* What a step of the loop may use of the current action.                  *)
LEMMA CurrentIs ==
  ASSUME IInv, next <= Len(ordered)
  PROVE  /\ next \in 1..Len(ordered) /\ next + 1 \in 1..(Len(ordered) + 1)
         /\ Current \in Action /\ Current \notin Passed
         /\ {ordered[j] : j \in 1..((next + 1) - 1)} = Passed \cup {Current}
<1>1. Len(ordered) \in Nat /\ \A i \in 1..Len(ordered) : ordered[i] \in Action
  BY OrderIsSeq DEF IInv
<1>2. next \in 1..Len(ordered) /\ next + 1 \in 1..(Len(ordered) + 1)
  BY <1>1 DEF IInv, TypeOK
<1>3. Current \in Action
  BY <1>1, <1>2 DEF Current
<1>4. Current \notin Passed
  <2> SUFFICES ASSUME NEW j \in 1..(next - 1), ordered[j] = ordered[next] PROVE FALSE
    BY DEF Passed, Current
  <2>1. j \in 1..Len(ordered) /\ j # next
    BY <1>1, <1>2
  <2> QED BY <1>2, <2>1, OrderIsInjective DEF IInv, TypeOK
<1>5. (next + 1) - 1 = next /\ 1..next = (1..(next - 1)) \cup {next}
  BY <1>2
<1>6. {ordered[j] : j \in 1..next} = Passed \cup {Current}
  BY <1>5 DEF Passed, Current
<1> QED BY <1>2, <1>3, <1>4, <1>5, <1>6

LEMMA InitIInv == Init => IInv
<1> SUFFICES ASSUME Init PROVE IInv
  OBVIOUS
<1>1. ordered \in Orders /\ DependencyOrder(plan.deps, ordered)
  BY DEF Init
<1>2. Len(ordered) \in Nat
  BY <1>1, OrderIsSeq
<1>3. TypeOK
  <2>1. next \in 1..(Len(ordered) + 1)
    BY <1>2 DEF Init
  <2>2. receipts \in Seq([action : Action, status : ReceiptStatus])
        /\ ledger \in Seq([action : Action, status : LedgerStatus])
    BY EmptySeq DEF Init
  <2>3. confirmed \subseteq Action
    BY DEF Init, Plan
  <2> QED BY <1>1, <2>1, <2>2, <2>3 DEF Init, TypeOK
<1> QED BY <1>1, <1>3 DEF Init, IInv, HandlerRuns, CompletedSucceeded, CalledRest

(* A step that passes the current action: it may have completed it, and    *)
(* changes what was said of no other.                                      *)
LEMMA Advance ==
  ASSUME IInv, next <= Len(ordered), UNCHANGED <<input, called, row>>,
         next' = next + 1, pc' = "loop", halted' \subseteq Flag,
         receipts' \in Seq([action : Action, status : ReceiptStatus]),
         ledger' \in Seq([action : Action, status : LedgerStatus]),
         said' \in [Action -> Result \cup {Unanswered, Thrown}],
         \A a \in Action : a # Current => said'[a] = said[a],
         \/ completed' = completed
         \/ /\ completed' = completed \cup {Current}
            /\ Current \in plan.noop \/ (said'[Current].success /\ said'[Current].status = "none")
  PROVE  IInv'
<1>1. plan' = plan /\ confirmed' = confirmed /\ ordered' = ordered
  BY DEF input
<1>2. completed \subseteq Passed /\ completed \subseteq Action
  BY DEF IInv, CompletedSucceeded, TypeOK
<1>3. Passed' = Passed \cup {Current} /\ Current \in Action /\ Current \notin Passed
  BY <1>1, CurrentIs DEF Passed
<1>4. TypeOK'
  <2>1. next' \in 1..(Len(ordered') + 1)
    BY <1>1, CurrentIs
  <2>2. completed' \subseteq Action
    BY <1>2, <1>3
  <2> QED BY <1>1, <2>1, <2>2 DEF TypeOK, IInv
<1>5. CompletedSucceeded'
  <2>1. completed' \subseteq Passed'
    BY <1>2, <1>3
  <2>2. ASSUME NEW a \in completed' PROVE a \in plan'.noop \/ Succeeded(a)'
    <3>1. CASE a = Current
      BY <1>1, <1>2, <1>3, <3>1 DEF Succeeded
    <3>2. CASE a # Current
      <4>1. a \in completed /\ a \in Action
        BY <1>2, <3>2
      <4>2. said'[a] = said[a]
        BY <3>2, <4>1
      <4> QED BY <1>1, <4>1, <4>2 DEF IInv, CompletedSucceeded, Succeeded
    <3> QED BY <3>1, <3>2
  <2> QED BY <2>1, <2>2 DEF CompletedSucceeded
<1>6. CalledRest'
  <2>1. completed \subseteq completed'
    OBVIOUS
  <2> QED BY <1>1, <2>1 DEF CalledRest, IInv
<1> QED BY <1>1, <1>4, <1>5, <1>6 DEF IInv, HandlerRuns

(* A step that leaves the loop and the handler alone.                      *)
LEMMA Aside ==
  ASSUME IInv, UNCHANGED <<input, loop, handler>>, pc' # "handling",
         pc' \in {"refused", "loop", "returned", "thrown", "dead"},
         row' \in {"running", "succeeded"} \cup Flag,
         receipts' \in Seq([action : Action, status : ReceiptStatus]),
         ledger' \in Seq([action : Action, status : LedgerStatus])
  PROVE  IInv'
<1>1. TypeOK'
  BY DEF IInv, TypeOK, input, loop, handler
<1>2. CompletedSucceeded' /\ CalledRest'
  BY DEF IInv, CompletedSucceeded, CalledRest, Passed, Succeeded, input, loop, handler
<1> QED BY <1>1, <1>2 DEF IInv, HandlerRuns, input

LEMMA FinalStatusType ==
  ASSUME halted \subseteq Flag
  PROVE  /\ FinalStatus \in {"succeeded"} \cup Flag
         /\ FinalStatus = "succeeded" <=> halted = {}
<1>1. CASE "failed" \in halted
  BY <1>1 DEF FinalStatus, Flag
<1>2. CASE "failed" \notin halted /\ "blocked" \in halted
  BY <1>2 DEF FinalStatus, Flag
<1>3. CASE halted = {"pending"}
  BY <1>3 DEF FinalStatus, Flag
<1>4. CASE halted = {}
  BY <1>4 DEF FinalStatus, Flag
<1> QED BY <1>1, <1>2, <1>3, <1>4 DEF Flag

LEMMA VerdictType ==
  ASSUME NEW r \in Result
  PROVE  /\ Verdict(r) \in {"succeeded", "failed", "pending", "blocked"}
         /\ InLedger(Verdict(r)) \in LedgerStatus
         /\ Verdict(r) = "succeeded" <=> InLedger(Verdict(r)) = "success"
         /\ Verdict(r) = "succeeded" <=> r.success /\ r.status = "none"
<1>1. r.success \in BOOLEAN /\ r.status \in {"none", "pending", "blocked"}
  BY DEF Result
<1>2. Verdict(r) \in {"succeeded", "failed", "pending", "blocked"}
  BY <1>1 DEF Verdict, Flag
<1>3. Verdict(r) = "succeeded" <=> r.success /\ r.status = "none"
  BY <1>1 DEF Verdict, Flag
<1> QED BY <1>2, <1>3 DEF InLedger, LedgerStatus

-----------------------------------------------------------------------------
(* Every step keeps the invariant.                                         *)

LEMMA GateStep ==
  ASSUME IInv, RefuseUnconfirmed \/ SettleRefused \/ PassGate
  PROVE  IInv'
<1>1. CASE RefuseUnconfirmed
  <2>1. FirstUnconfirmed \in Action
    BY <1>1, FirstUnconfirmedIs DEF RefuseUnconfirmed, IInv, TypeOK
  <2>2. \A i \in 1..Len(ordered) : ordered[i] \in Action
    BY OrderIsSeq DEF IInv
  <2>3. \A i \in 1..Len(ordered) :
          [action |-> ordered[i], status |-> GateStatus(ordered[i])]
            \in [action : Action, status : ReceiptStatus]
    BY <2>2 DEF GateStatus, ReceiptStatus
  <2>4. receipts' \in Seq([action : Action, status : ReceiptStatus])
    <3>1. Len(ordered) \in Nat
      BY OrderIsSeq DEF IInv
    <3> QED BY <1>1, <2>3, <3>1, IsASeq DEF RefuseUnconfirmed
  <2>5. ledger' \in Seq([action : Action, status : LedgerStatus])
    <3>1. [action |-> FirstUnconfirmed, status |-> "blocked"] \in [action : Action, status : LedgerStatus]
      BY <2>1 DEF LedgerStatus
    <3> QED BY <1>1, <3>1, AppendProperties DEF RefuseUnconfirmed, IInv, TypeOK
  <2> QED BY <1>1, <2>4, <2>5, Aside DEF RefuseUnconfirmed, IInv, TypeOK
<1>2. CASE SettleRefused
  BY <1>2, Aside DEF SettleRefused, IInv, TypeOK, Flag
<1>3. CASE PassGate
  BY <1>3, Aside DEF PassGate, IInv, TypeOK, table
<1> QED BY <1>1, <1>2, <1>3

(* A receipt of the current action may be added to memory, and to the row. *)
LEMMA ReceiptOfCurrent ==
  ASSUME IInv, next <= Len(ordered), NEW st
  PROVE  /\ st \in ReceiptStatus =>
              Append(receipts, [action |-> Current, status |-> st])
                \in Seq([action : Action, status : ReceiptStatus])
         /\ st \in LedgerStatus =>
              Append(ledger, [action |-> Current, status |-> st])
                \in Seq([action : Action, status : LedgerStatus])
<1>1. Current \in Action
  BY CurrentIs
<1> QED BY <1>1, AppendProperties DEF IInv, TypeOK

LEMMA SkipStep ==
  ASSUME IInv, Abort \/ SkipNoop
  PROVE  IInv'
<1>1. next <= Len(ordered)
  BY DEF Abort, SkipNoop, Looping
<1>2. \A st \in {"aborted", "skipped_noop"} :
        Append(receipts, [action |-> Current, status |-> st])
          \in Seq([action : Action, status : ReceiptStatus])
  BY <1>1, ReceiptOfCurrent DEF ReceiptStatus
<1>3. /\ UNCHANGED <<input, called, row, said, ledger, halted>> /\ pc' = "loop" /\ next' = next + 1
      /\ receipts' \in Seq([action : Action, status : ReceiptStatus])
      /\ \/ completed' = completed
         \/ completed' = completed \cup {Current} /\ Current \in plan.noop
  BY <1>2 DEF Abort, SkipNoop, Looping, handler, table
<1> QED BY <1>1, <1>3, Advance DEF IInv, TypeOK

LEMMA CallStep == ASSUME IInv, Call PROVE IInv'
<1>1. next <= Len(ordered) /\ Current \in Action /\ Current' = Current /\ ordered' = ordered
  BY CurrentIs DEF Call, Looping, Current, input, loop
<1>2. TypeOK'
  BY <1>1 DEF Call, IInv, TypeOK, input, loop, table
<1>3. HandlerRuns'
  BY <1>1 DEF Call, HandlerRuns, input, loop
<1>4. CompletedSucceeded'
  BY DEF Call, IInv, CompletedSucceeded, Passed, Succeeded, input, loop
<1>5. CalledRest'
  BY DEF Call, Unmet, IInv, CalledRest, input, loop
<1> QED BY <1>1, <1>2, <1>3, <1>4, <1>5 DEF IInv

(* The handler's answer, whatever it does to the receipts.                 *)
LEMMA AnswerStep ==
  ASSUME IInv, NEW r \in Result, Answer(r), next' = next + 1, pc' = "loop",
         halted' \subseteq Flag,
         receipts' \in Seq([action : Action, status : ReceiptStatus]),
         ledger' \in Seq([action : Action, status : LedgerStatus])
  PROVE  IInv'
<1>1. next <= Len(ordered) /\ Current \in Action
  BY CurrentIs DEF Answer, IInv, HandlerRuns
<1>2. said \in [Action -> Result \cup {Unanswered, Thrown}] /\ said' = [said EXCEPT ![Current] = r]
  BY DEF Answer, IInv, TypeOK
<1>3. /\ said' \in [Action -> Result \cup {Unanswered, Thrown}]
      /\ \A a \in Action : a # Current => said'[a] = said[a]
      /\ said'[Current] = r
  BY <1>1, <1>2
<1>4. \/ completed' = completed
      \/ completed' = completed \cup {Current} /\ r.success /\ r.status = "none"
  BY VerdictType DEF Answer
<1> QED BY <1>1, <1>3, <1>4, Advance DEF Answer

LEMMA RecordStep ==
  ASSUME IInv, NEW r \in Result, Record(r) \/ RecordAgain(r)
  PROVE  IInv'
<1> DEFINE v == Verdict(r)
<1>0. Answer(r) /\ next' = next + 1 /\ pc' = "loop" /\ halted' \subseteq Flag
  BY DEF Record, RecordAgain
<1>1. next <= Len(ordered)
  BY <1>0 DEF Answer, IInv, HandlerRuns
<1>2. v \in ReceiptStatus /\ InLedger(v) \in LedgerStatus /\ "failed" \in ReceiptStatus
      /\ "failure" \in LedgerStatus
  BY VerdictType DEF ReceiptStatus, Flag, LedgerStatus
<1>3. CASE Record(r)
  <2>1. receipts' = Append(receipts, [action |-> Current, status |-> v])
        /\ ledger' = Append(ledger, [action |-> Current, status |-> InLedger(v)])
    BY <1>3 DEF Record
  <2> HIDE DEF v
  <2>2. receipts' \in Seq([action : Action, status : ReceiptStatus])
    BY <1>1, <1>2, <2>1, ReceiptOfCurrent
  <2>3. ledger' \in Seq([action : Action, status : LedgerStatus])
    BY <1>1, <1>2, <2>1, ReceiptOfCurrent
  <2> QED BY <1>0, <2>2, <2>3, AnswerStep
<1>4. CASE RecordAgain(r)
  <2>1. receipts' = receipts \o <<[action |-> Current, status |-> v],
                                  [action |-> Current, status |-> "failed"]>>
        /\ ledger' = Append(ledger, [action |-> Current, status |-> "failure"])
    BY <1>4 DEF RecordAgain
  <2> HIDE DEF v
  <2>2. Current \in Action
    BY <1>1, CurrentIs
  <2>3. <<[action |-> Current, status |-> v], [action |-> Current, status |-> "failed"]>>
          \in Seq([action : Action, status : ReceiptStatus])
    BY <1>2, <2>2
  <2>4. receipts' \in Seq([action : Action, status : ReceiptStatus])
    BY <2>1, <2>3, ConcatProperties DEF IInv, TypeOK
  <2>5. ledger' \in Seq([action : Action, status : LedgerStatus])
    BY <1>1, <1>2, <2>1, ReceiptOfCurrent
  <2> QED BY <1>0, <2>4, <2>5, AnswerStep
<1> QED BY <1>3, <1>4

LEMMA CatchStep == ASSUME IInv, Catch PROVE IInv'
<1>1. next <= Len(ordered) /\ Current \in Action
  BY CurrentIs DEF Catch, IInv, HandlerRuns
<1>2. said \in [Action -> Result \cup {Unanswered, Thrown}] /\ said' = [said EXCEPT ![Current] = Thrown]
  BY DEF Catch, IInv, TypeOK
<1>3. /\ said' \in [Action -> Result \cup {Unanswered, Thrown}]
      /\ \A a \in Action : a # Current => said'[a] = said[a]
  BY <1>1, <1>2
<1>4. halted' \subseteq Flag
  BY DEF Catch, IInv, TypeOK, Flag
<1>5. receipts' \in Seq([action : Action, status : ReceiptStatus])
      /\ ledger' \in Seq([action : Action, status : LedgerStatus])
  BY <1>1, ReceiptOfCurrent DEF Catch, ReceiptStatus, Flag, LedgerStatus
<1> QED BY <1>1, <1>3, <1>4, <1>5, Advance DEF Catch

LEMMA EndStep ==
  ASSUME IInv, Settle \/ Throw \/ Crash
  PROVE  IInv'
<1>1. CASE Settle
  BY <1>1, FinalStatusType, Aside DEF Settle, IInv, TypeOK, Flag
<1>2. CASE Throw
  BY <1>2, Aside DEF Throw, IInv, TypeOK, table
<1>3. CASE Crash
  BY <1>3, Aside DEF Crash, IInv, TypeOK, table
<1> QED BY <1>1, <1>2, <1>3

LEMMA NextIInv == IInv /\ [Next]_vars => IInv'
<1> SUFFICES ASSUME IInv, [Next]_vars PROVE IInv'
  OBVIOUS
<1>1. CASE RefuseUnconfirmed \/ SettleRefused \/ PassGate
  BY <1>1, GateStep
<1>2. CASE Abort \/ SkipNoop
  BY <1>2, SkipStep
<1>3. CASE Call
  BY <1>3, CallStep
<1>4. CASE \E r \in Result : Record(r) \/ RecordAgain(r)
  BY <1>4, RecordStep
<1>5. CASE Catch
  BY <1>5, CatchStep
<1>6. CASE Settle \/ Throw \/ Crash
  BY <1>6, EndStep
<1>7. CASE UNCHANGED vars
  BY <1>7 DEF vars, input, loop, handler, table, IInv, TypeOK, HandlerRuns,
     CompletedSucceeded, CalledRest, Passed, Succeeded, Current
<1> QED BY <1>1, <1>2, <1>3, <1>4, <1>5, <1>6, <1>7 DEF Next, Execute

-----------------------------------------------------------------------------
(* What a run says of itself.                                              *)

Entries == 1..Len(ledger)
Report == 1..Len(receipts)

(* Until the gate is passed nothing has run.                               *)
NothingYet ==
  /\ pc \in {"gate", "refused"} => called = {}
  /\ pc = "gate" => next = 1 /\ ledger = <<>> /\ receipts = <<>>

(* The row speaks of passed actions, of every one called but that being    *)
(* handled, and claims success only of those that succeeded.               *)
RowSoFar ==
  Running =>
    /\ \A i \in Entries : /\ ledger[i].action \in Passed
                          /\ ledger[i].status = "success" => Succeeded(ledger[i].action)
    /\ \A a \in called : \/ pc = "handling" /\ a = Current
                         \/ \E i \in Entries : ledger[i].action = a

(* While nothing has halted, every passed action is done and recorded.     *)
CleanSoFar ==
  Running /\ halted = {} =>
    /\ \A a \in Passed : /\ a \in completed
                         /\ \/ a \in plan.noop
                            \/ \E i \in Entries : ledger[i] = [action |-> a, status |-> "success"]
    /\ \A i \in Report : receipts[i].status \in Done

Reported == {receipts[i].action : i \in Report}
InOrder(i, j) ==
  /\ Position(ordered, receipts[i].action) <= Position(ordered, receipts[j].action)
  /\ receipts[i].action = receipts[j].action => Faulty /\ receipts[j].status = "failed"
  /\ called # {} /\ receipts[i].status \notin Done /\ receipts[j].status # "aborted" =>
       receipts[i].action = receipts[j].action
Ordered == \A i, j \in Report : i < j => InOrder(i, j)

(* The report covers what was passed, and a refusal the whole plan.        *)
ReportSoFar ==
  /\ Running => Reported = Passed /\ Ordered
  /\ pc \in {"refused", "returned"} => Reported = Action /\ Ordered

TInv ==
  /\ IInv /\ NothingYet /\ RowSoFar /\ CleanSoFar /\ ReportSoFar
  /\ SucceededRunIsComplete /\ EndedRowsAccountForCalls
  /\ row # "running" => pc = "returned"

LEMMA InitTInv == Init => TInv
<1> SUFFICES ASSUME Init PROVE TInv
  OBVIOUS
<1>1. pc = "gate" /\ next = 1 /\ ledger = <<>> /\ receipts = <<>> /\ called = {} /\ row = "running"
  BY DEF Init
<1>2. IInv
  BY InitIInv
<1>3. NothingYet /\ RowSoFar /\ CleanSoFar /\ ReportSoFar
  BY <1>1 DEF NothingYet, RowSoFar, CleanSoFar, ReportSoFar, Running
<1>4. SucceededRunIsComplete /\ EndedRowsAccountForCalls
  BY <1>1 DEF SucceededRunIsComplete, EndedRowsAccountForCalls
<1> QED BY <1>1, <1>2, <1>3, <1>4 DEF TInv

(* Where the passed actions and the current one stand.                     *)
LEMMA Places ==
  ASSUME IInv, next <= Len(ordered)
  PROVE  /\ Position(ordered, Current) = next /\ next \in Nat
         /\ \A a \in Passed : /\ a \in Action /\ Position(ordered, a) \in Nat
                              /\ Position(ordered, a) < next
<1>1. next \in 1..Len(ordered) /\ Len(ordered) \in Nat
  BY CurrentIs, OrderIsSeq DEF IInv
<1>2. \A i \in 1..Len(ordered) : Position(ordered, ordered[i]) = i /\ ordered[i] \in Action
  BY OrderIsSeq, PositionIs DEF IInv, TypeOK
<1>3. ASSUME NEW a \in Passed
      PROVE  a \in Action /\ Position(ordered, a) \in Nat /\ Position(ordered, a) < next
  <2>1. PICK j \in 1..(next - 1) : a = ordered[j]
    BY DEF Passed
  <2>2. j \in 1..Len(ordered) /\ j \in Nat /\ j < next
    BY <1>1, <2>1
  <2> QED BY <1>2, <2>1, <2>2
<1> QED BY <1>1, <1>2, <1>3 DEF Current

(* With nothing halted every dependency of the current action is done: a   *)
(* loop that has not stopped never aborts one.                             *)
LEMMA NoUnmet ==
  ASSUME TInv, Looping, halted = {}
  PROVE  Unmet = {}
<1>1. next \in 1..Len(ordered) /\ Current \in Action /\ Len(ordered) \in Nat
  BY CurrentIs, OrderIsSeq DEF TInv, IInv, Looping
<1> SUFFICES ASSUME NEW d \in plan.deps[Current] PROVE d \in completed
  BY DEF Unmet
<1>2. d \in Action
  BY <1>1 DEF TInv, IInv, TypeOK, Plan
<1>3. Position(ordered, d) < Position(ordered, Current)
  BY <1>1, <1>2 DEF TInv, IInv, TypeOK, DependencyOrder
<1>4. Position(ordered, d) \in 1..Len(ordered) /\ ordered[Position(ordered, d)] = d
  BY <1>2, PositionIs DEF TInv, IInv, TypeOK
<1>5. Position(ordered, Current) = next
  BY Places DEF TInv, Looping
<1>6. Position(ordered, d) \in 1..(next - 1)
  BY <1>1, <1>3, <1>4, <1>5
<1>7. d \in Passed
  BY <1>4, <1>6 DEF Passed
<1> QED BY <1>7 DEF TInv, CleanSoFar, Looping, Running

(* A receipt of the current action keeps the report in order: after a halt *)
(* only as an aborted one.                                                 *)
LEMMA ReportAppended ==
  ASSUME TInv, Running, next <= Len(ordered), ordered' = ordered, called' = called,
         NEW st, receipts' = Append(receipts, [action |-> Current, status |-> st]),
         halted = {} \/ st = "aborted"
  PROVE  Reported' = Passed \cup {Current} /\ Ordered'
<1>0. PICK n, c : n = Len(receipts) /\ c = [action |-> Current, status |-> st]
  OBVIOUS
<1>1. n \in Nat /\ Len(receipts') = n + 1
      /\ \A i \in 1..n : receipts'[i] = receipts[i]
      /\ receipts'[n + 1] = c
  <2>1. receipts \in Seq([action : Action, status : ReceiptStatus])
    BY DEF TInv, IInv, TypeOK
  <2> QED BY <1>0, <2>1, AppendProperties, LenProperties
<1>2. Reported = Passed /\ Ordered
  BY DEF TInv, ReportSoFar
<1>3. Report' = 1..(n + 1) /\ Report = 1..n /\ 1..(n + 1) = (1..n) \cup {n + 1}
  BY <1>0, <1>1 DEF Report
<1>4. c.action = Current /\ c.status = st
  BY <1>0
<1>5. Reported' = Passed \cup {Current}
  BY <1>1, <1>2, <1>3, <1>4 DEF Reported
<1>6. ASSUME NEW i \in Report', NEW j \in Report', i < j PROVE InOrder(i, j)'
  <2>1. CASE j \in 1..n
    <3>1. i \in 1..n
      BY <1>1, <1>3, <1>6, <2>1
    <3>2. InOrder(i, j)
      BY <1>2, <1>3, <1>6, <2>1, <3>1 DEF Ordered
    <3> QED BY <1>1, <2>1, <3>1, <3>2 DEF InOrder
  <2>2. CASE j = n + 1
    <3>1. i \in 1..n
      BY <1>1, <1>3, <1>6, <2>2
    <3>2. receipts[i].action \in Passed
      BY <1>2, <1>3, <3>1 DEF Reported
    <3>3. receipts[i].action # Current
      BY <3>2, CurrentIs DEF TInv
    <3>4. Position(ordered, receipts[i].action) <= Position(ordered, Current)
      BY <3>2, Places DEF TInv
    <3>5. halted = {} => receipts[i].status \in Done
      BY <1>3, <3>1 DEF TInv, CleanSoFar
    <3> QED BY <1>1, <1>4, <2>2, <3>1, <3>3, <3>4, <3>5 DEF InOrder
  <2> QED BY <1>3, <2>1, <2>2
<1> QED BY <1>5, <1>6 DEF Ordered

(* The two receipts of RecordAgain: the second repeats the action.         *)
LEMMA ReportRepeated ==
  ASSUME TInv, Running, next <= Len(ordered), ordered' = ordered, called' = called,
         Faulty, halted = {}, NEW st,
         receipts' = receipts \o <<[action |-> Current, status |-> st],
                                   [action |-> Current, status |-> "failed"]>>
  PROVE  Reported' = Passed \cup {Current} /\ Ordered'
<1>0. PICK n, c, d : /\ n = Len(receipts) /\ c = [action |-> Current, status |-> st]
                     /\ d = [action |-> Current, status |-> "failed"]
  OBVIOUS
<1>1. n \in Nat /\ Len(receipts') = n + 2
      /\ \A i \in 1..n : receipts'[i] = receipts[i]
      /\ receipts'[n + 1] = c /\ receipts'[n + 2] = d
  <2>1. receipts \in Seq([action : Action, status : ReceiptStatus])
    BY DEF TInv, IInv, TypeOK
  <2>2. n \in Nat
    BY <1>0, <2>1, LenProperties
  <2>3. receipts' = receipts \o <<c, d>>
    BY <1>0
  <2>4. Len(receipts \o <<c, d>>) = n + 2
        /\ \A i \in 1..(n + 2) : (receipts \o <<c, d>>)[i] = IF i <= n THEN receipts[i] ELSE <<c, d>>[i - n]
    BY <1>0, <2>1, <2>2
  <2>5. (n + 1) - n = 1 /\ (n + 2) - n = 2 /\ n + 1 \in 1..(n + 2) /\ n + 2 \in 1..(n + 2)
        /\ ~(n + 1 <= n) /\ ~(n + 2 <= n) /\ \A i \in 1..n : i \in 1..(n + 2) /\ i <= n
    BY <2>2
  <2> QED BY <2>2, <2>3, <2>4, <2>5
<1>2. Reported = Passed /\ Ordered
  BY DEF TInv, ReportSoFar
<1>3. Report' = 1..(n + 2) /\ Report = 1..n /\ 1..(n + 2) = (1..n) \cup {n + 1, n + 2}
  <2>1. \A x : x \in 1..(n + 2) <=> x \in (1..n) \cup {n + 1, n + 2}
    BY <1>1
  <2>2. Report' = 1..(n + 2) /\ Report = 1..n
    BY <1>0, <1>1 DEF Report
  <2>3. 1..(n + 2) = (1..n) \cup {n + 1, n + 2}
    BY <2>1, Zenon
  <2> QED BY <2>2, <2>3
<1>4. c.action = Current /\ d.action = Current /\ d.status = "failed"
  BY <1>0
<1>5. Reported' = Passed \cup {Current}
  BY <1>1, <1>2, <1>3, <1>4 DEF Reported
<1>6. ASSUME NEW i \in Report', NEW j \in Report', i < j PROVE InOrder(i, j)'
  <2>1. CASE i \in 1..n /\ j \in 1..n
    <3>1. InOrder(i, j)
      BY <1>2, <1>3, <1>6, <2>1 DEF Ordered
    <3> QED BY <1>1, <2>1, <3>1 DEF InOrder
  <2>2. CASE i \in 1..n /\ j \in {n + 1, n + 2}
    <3>1. receipts'[j].action = Current /\ receipts'[i] = receipts[i]
      BY <1>1, <1>4, <2>2
    <3>2. receipts[i].action \in Passed
      BY <1>2, <1>3, <2>2 DEF Reported
    <3>3. receipts[i].action # Current
      BY <3>2, CurrentIs DEF TInv
    <3>4. Position(ordered, receipts[i].action) <= Position(ordered, Current)
      BY <3>2, Places DEF TInv
    <3>5. receipts[i].status \in Done
      BY <1>3, <2>2 DEF TInv, CleanSoFar
    <3> QED BY <3>1, <3>3, <3>4, <3>5 DEF InOrder
  <2>3. CASE i = n + 1 /\ j = n + 2
    <3>0. receipts'[i] = c /\ receipts'[j] = d
      BY <1>0, <1>1, <2>3
    <3>1. receipts'[i].action = Current /\ receipts'[j].action = Current /\ receipts'[j].status = "failed"
      BY <1>4, <3>0, Zenon
    <3>2. Position(ordered, Current) <= Position(ordered, Current)
      BY Places DEF TInv
    <3> QED BY <3>1, <3>2 DEF InOrder
  <2>4. \/ i \in 1..n /\ j \in 1..n
        \/ i \in 1..n /\ j \in {n + 1, n + 2}
        \/ i = n + 1 /\ j = n + 2
    BY <1>1, <1>3, <1>6
  <2> QED BY <2>1, <2>2, <2>3, <2>4
<1> QED BY <1>5, <1>6 DEF Ordered

(* The row after a receipt of the current action, whose handler has        *)
(* answered: it says success only if the handler did.                      *)
LEMMA RowAppended ==
  ASSUME TInv, pc = "handling", next <= Len(ordered), UNCHANGED <<ordered, called>>,
         next' = next + 1, pc' = "loop", NEW st,
         ledger' = Append(ledger, [action |-> Current, status |-> st]),
         \A a \in Action : a # Current => said'[a] = said[a],
         st = "success" => said'[Current].success /\ said'[Current].status = "none"
  PROVE  /\ RowSoFar'
         /\ \A i \in Entries : i \in Entries' /\ ledger'[i] = ledger[i]
         /\ \E i \in Entries' : ledger'[i] = [action |-> Current, status |-> st]
<1>0. PICK n, c : n = Len(ledger) /\ c = [action |-> Current, status |-> st]
  OBVIOUS
<1>1. n \in Nat /\ Len(ledger') = n + 1
      /\ \A i \in 1..n : ledger'[i] = ledger[i]
      /\ ledger'[n + 1] = c
  <2>1. ledger \in Seq([action : Action, status : LedgerStatus])
    BY DEF TInv, IInv, TypeOK
  <2> QED BY <1>0, <2>1, AppendProperties, LenProperties
<1>2. Entries' = 1..(n + 1) /\ Entries = 1..n /\ 1..(n + 1) = (1..n) \cup {n + 1}
  BY <1>0, <1>1 DEF Entries
<1>3. c.action = Current /\ c.status = st
  BY <1>0
<1>4. Passed' = Passed \cup {Current} /\ Current \notin Passed
  BY CurrentIs DEF TInv, Passed
<1>5. ASSUME NEW i \in Entries'
      PROVE  ledger'[i].action \in Passed' /\ (ledger'[i].status = "success" => Succeeded(ledger[i].action)')
  <2>1. CASE i \in 1..n
    <3>1. /\ ledger[i].action \in Passed
          /\ ledger[i].status = "success" => Succeeded(ledger[i].action)
      BY <1>2, <2>1 DEF TInv, RowSoFar, Running
    <3>2. ledger[i].action \in Action /\ ledger[i].action # Current
      BY <1>4, <3>1, Places DEF TInv
    <3> QED BY <1>1, <1>4, <2>1, <3>1, <3>2 DEF Succeeded
  <2>2. CASE i = n + 1
    <3>1. ledger'[i] = c
      BY <1>0, <1>1, <2>2
    <3>2. ledger'[i].action = Current /\ ledger'[i].status = st
      BY <1>3, <3>1, Zenon
    <3>3. ledger'[i].action \in Passed'
      BY <1>4, <3>2, Zenon
    <3> QED BY <3>2, <3>3 DEF Succeeded
  <2>3. i \in 1..n \/ i = n + 1
    BY <1>2
  <2> QED BY <2>1, <2>2, <2>3, Zenon
<1>6. ASSUME NEW a \in called PROVE \E i \in Entries' : ledger'[i].action = a
  <2>1. CASE a = Current
    BY <1>1, <1>2, <1>3, <2>1
  <2>2. CASE a # Current
    <3>1. PICK i \in Entries : ledger[i].action = a
      BY <2>2 DEF TInv, RowSoFar, Running
    <3> QED BY <1>1, <1>2, <3>1
  <2> QED BY <2>1, <2>2
<1>7. RowSoFar'
  BY <1>5, <1>6 DEF RowSoFar, Running
<1>8. n + 1 \in Entries' /\ ledger'[n + 1] = [action |-> Current, status |-> st]
  BY <1>0, <1>1, <1>2
<1>9. \A i \in Entries : i \in Entries' /\ ledger'[i] = ledger[i]
  BY <1>1, <1>2
<1> QED BY <1>7, <1>8, <1>9

-----------------------------------------------------------------------------
(* Every step keeps it.                                                    *)

(* Before the row is settled nothing is claimed of the run.                *)
LEMMA Unsettled ==
  ASSUME TInv, row' = row, pc # "returned"
  PROVE  /\ SucceededRunIsComplete' /\ EndedRowsAccountForCalls'
         /\ row' # "running" => pc' = "returned"
  BY DEF TInv, SucceededRunIsComplete, EndedRowsAccountForCalls

LEMMA RefuseTells == ASSUME TInv, RefuseUnconfirmed PROVE TInv'
<1>1. IInv' /\ pc = "gate" /\ pc' = "refused" /\ row' = row /\ called' = {} /\ ordered' = ordered
  BY NextIInv DEF TInv, RefuseUnconfirmed, NothingYet, Next, Execute, input, handler
<1>2. Len(ordered) \in Nat /\ \A i \in 1..Len(ordered) : ordered[i] \in Action
  BY OrderIsSeq DEF TInv, IInv
<1>3. /\ Len(receipts') = Len(ordered)
      /\ \A i \in 1..Len(ordered) : receipts'[i].action = ordered[i]
  BY <1>2 DEF RefuseUnconfirmed
<1>4. Reported' = Action
  <2>1. Reported' = {ordered[i] : i \in 1..Len(ordered)}
    BY <1>3 DEF Reported, Report
  <2> QED BY <2>1 DEF TInv, IInv, TypeOK, DependencyOrder
<1>5. Ordered'
  <2> SUFFICES ASSUME NEW i \in Report', NEW j \in Report', i < j PROVE InOrder(i, j)'
    BY DEF Ordered
  <2>1. i \in 1..Len(ordered) /\ j \in 1..Len(ordered)
    BY <1>3 DEF Report
  <2>2. Position(ordered, ordered[i]) = i /\ Position(ordered, ordered[j]) = j
    BY <2>1, PositionIs DEF TInv, IInv, TypeOK
  <2>3. i <= j /\ ordered[i] # ordered[j]
    BY <1>2, <2>1, <2>2
  <2>4. receipts'[i].action = ordered[i] /\ receipts'[j].action = ordered[j]
    BY <1>3, <2>1
  <2> QED BY <1>1, <2>2, <2>3, <2>4 DEF InOrder
<1>6. NothingYet' /\ RowSoFar' /\ CleanSoFar' /\ ReportSoFar'
  BY <1>1, <1>4, <1>5 DEF NothingYet, RowSoFar, CleanSoFar, ReportSoFar, Running
<1> QED BY <1>1, <1>6, Unsettled DEF TInv

LEMMA SettleRefusedTells == ASSUME TInv, SettleRefused PROVE TInv'
<1>1. /\ IInv' /\ pc' = "returned" /\ row' = "blocked" /\ called' = {}
      /\ UNCHANGED <<input, receipts, called>> /\ pc = "refused"
  BY NextIInv DEF TInv, SettleRefused, NothingYet, Next, Execute, handler
<1>2. ReportSoFar'
  BY <1>1 DEF TInv, ReportSoFar, Running, Reported, Ordered, InOrder, Report, input
<1> QED BY <1>1, <1>2 DEF TInv, NothingYet, RowSoFar, CleanSoFar, Running,
     SucceededRunIsComplete, EndedRowsAccountForCalls

LEMMA PassGateTells == ASSUME TInv, PassGate PROVE TInv'
<1>1. /\ IInv' /\ pc = "gate" /\ pc' = "loop" /\ row' = row
      /\ next' = 1 /\ ledger' = <<>> /\ receipts' = <<>> /\ called' = {}
  BY NextIInv DEF TInv, PassGate, NothingYet, Next, Execute, loop, handler, table
<1>2. Passed' = {} /\ Reported' = {} /\ Ordered'
  BY <1>1 DEF Passed, Reported, Ordered, Report
<1>3. NothingYet' /\ RowSoFar' /\ CleanSoFar' /\ ReportSoFar'
  BY <1>1, <1>2 DEF NothingYet, RowSoFar, CleanSoFar, ReportSoFar, Entries, Report
<1> QED BY <1>1, <1>3, Unsettled DEF TInv

LEMMA AbortTells == ASSUME TInv, Abort PROVE TInv'
<1>1. IInv' /\ pc = "loop" /\ pc' = "loop" /\ row' = row /\ next <= Len(ordered)
  BY NextIInv DEF TInv, Abort, Looping, Next, Execute, table
<1>2. UNCHANGED <<ordered, called, said, ledger, plan, halted>> /\ next' = next + 1
  BY DEF Abort, input, handler, table
<1>3. Passed' = Passed \cup {Current}
  BY <1>1, <1>2, CurrentIs DEF TInv, Passed
<1>4. halted # {}
  BY NoUnmet DEF Abort
<1>5. RowSoFar'
  BY <1>1, <1>2, <1>3 DEF TInv, RowSoFar, Running, Entries, Succeeded
<1>6. Reported' = Passed' /\ Ordered'
  <2>1. receipts' = Append(receipts, [action |-> Current, status |-> "aborted"]) /\ Running
    BY <1>1 DEF Abort, Running
  <2> QED BY <1>1, <1>2, <1>3, <2>1, ReportAppended
<1>7. NothingYet' /\ CleanSoFar' /\ ReportSoFar'
  BY <1>1, <1>2, <1>4, <1>6 DEF NothingYet, CleanSoFar, ReportSoFar
<1> QED BY <1>1, <1>5, <1>7, Unsettled DEF TInv

LEMMA SkipNoopTells == ASSUME TInv, SkipNoop PROVE TInv'
<1>1. IInv' /\ pc = "loop" /\ pc' = "loop" /\ row' = row /\ next <= Len(ordered) /\ halted = {}
  BY NextIInv DEF TInv, SkipNoop, Looping, Next, Execute, table
<1>2. UNCHANGED <<ordered, called, said, ledger, plan>> /\ next' = next + 1
  BY DEF SkipNoop, input, handler, table
<1>3. Passed' = Passed \cup {Current}
  BY <1>1, <1>2, CurrentIs DEF TInv, Passed
<1>4. RowSoFar'
  BY <1>1, <1>2, <1>3 DEF TInv, RowSoFar, Running, Entries, Succeeded
<1>5. receipts' = Append(receipts, [action |-> Current, status |-> "skipped_noop"]) /\ Running
  BY <1>1 DEF SkipNoop, Running
<1>6. Reported' = Passed' /\ Ordered'
  BY <1>1, <1>2, <1>3, <1>5, ReportAppended
<1>7. \A i \in Report' : receipts'[i].status \in Done
  <2>1. receipts \in Seq([action : Action, status : ReceiptStatus])
    BY DEF TInv, IInv, TypeOK
  <2>2. \A i \in Report : receipts[i].status \in Done
    BY <1>1 DEF TInv, CleanSoFar, Running
  <2> QED BY <1>5, <2>1, <2>2, AppendProperties DEF Report, Done
<1>8. CleanSoFar'
  <2>1. completed' = completed \cup {Current} /\ Current \in plan.noop
    BY DEF SkipNoop
  <2>2. \A a \in Passed : /\ a \in completed
                         /\ \/ a \in plan.noop
                            \/ \E i \in Entries : ledger[i] = [action |-> a, status |-> "success"]
    BY <1>1 DEF TInv, CleanSoFar, Running
  <2>3. Entries' = Entries
    BY <1>2 DEF Entries
  <2>4. \A a \in Passed' : /\ a \in completed'
                          /\ \/ a \in plan'.noop
                             \/ \E i \in Entries' : ledger'[i] = [action |-> a, status |-> "success"]
    BY <1>2, <1>3, <2>1, <2>2, <2>3
  <2> QED BY <1>7, <2>4 DEF CleanSoFar
<1>9. NothingYet' /\ ReportSoFar'
  BY <1>1, <1>6 DEF NothingYet, ReportSoFar
<1> QED BY <1>1, <1>4, <1>8, <1>9, Unsettled DEF TInv

LEMMA CallTells == ASSUME TInv, Call PROVE TInv'
<1>1. /\ IInv' /\ pc = "loop" /\ pc' = "handling" /\ row' = row /\ halted = {}
      /\ called' = called \cup {Current}
  BY NextIInv DEF TInv, Call, Looping, Next, Execute, table
<1>2. UNCHANGED <<ordered, next, said, ledger, receipts, plan, completed, halted>>
  BY DEF Call, input, loop, table
<1>3. Passed' = Passed /\ Current' = Current /\ Entries' = Entries /\ Report' = Report
  BY <1>2 DEF Passed, Current, Entries, Report
<1>4. RowSoFar'
  BY <1>1, <1>2, <1>3 DEF TInv, RowSoFar, Running, Succeeded
<1>5. CleanSoFar'
  BY <1>1, <1>2, <1>3 DEF TInv, CleanSoFar, Running
<1>6. ReportSoFar'
  <2>1. Reported = Passed /\ Ordered /\ \A i \in Report : receipts[i].status \in Done
    BY <1>1 DEF TInv, ReportSoFar, CleanSoFar, Running
  <2>2. Reported' = Reported
    BY <1>2, <1>3 DEF Reported
  <2>3. Ordered'
    BY <1>2, <1>3, <2>1 DEF Ordered, InOrder
  <2> QED BY <1>1, <1>3, <2>1, <2>2, <2>3 DEF ReportSoFar
<1> QED BY <1>1, <1>4, <1>5, <1>6, Unsettled DEF TInv, NothingYet

(* While the handler runs: what Record, RecordAgain and Catch share.       *)
LEMMA HandlingFacts ==
  ASSUME TInv, pc = "handling"
  PROVE  /\ next <= Len(ordered) /\ halted = {} /\ Running
         /\ Current \in Action /\ Current \notin plan.noop
         /\ said \in [Action -> Result \cup {Unanswered, Thrown}]
         /\ \A i \in Report : receipts[i].status \in Done
         /\ \A a \in Passed : /\ a \in completed
                              /\ \/ a \in plan.noop
                                 \/ \E i \in Entries : ledger[i] = [action |-> a, status |-> "success"]
<1>1. next <= Len(ordered) /\ halted = {} /\ Running /\ Current \notin plan.noop
  BY DEF TInv, IInv, HandlerRuns, Running
<1>2. Current \in Action
  BY <1>1, CurrentIs DEF TInv
<1> QED BY <1>1, <1>2 DEF TInv, CleanSoFar, IInv, TypeOK

LEMMA RecordTells == ASSUME TInv, NEW r \in Result, Record(r) PROVE TInv'
<1> DEFINE v == Verdict(r)
<1>1. /\ IInv' /\ pc = "handling" /\ pc' = "loop" /\ row' = row /\ next' = next + 1
      /\ UNCHANGED <<ordered, plan, called>>
      /\ said' = [said EXCEPT ![Current] = r]
      /\ halted' = (halted \cup {v}) \cap Flag
      /\ receipts' = Append(receipts, [action |-> Current, status |-> v])
      /\ ledger' = Append(ledger, [action |-> Current, status |-> InLedger(v)])
      /\ completed' = IF v = "succeeded" THEN completed \cup {Current} ELSE completed
  BY NextIInv DEF TInv, Record, Answer, Next, Execute, input
<1>2. /\ v \in {"succeeded", "failed", "pending", "blocked"}
      /\ v = "succeeded" <=> InLedger(v) = "success"
      /\ v = "succeeded" <=> r.success /\ r.status = "none"
  BY VerdictType
<1> HIDE DEF v
<1>3. said'[Current] = r /\ \A a \in Action : a # Current => said'[a] = said[a]
  BY <1>1, HandlingFacts
<1>4. Passed' = Passed \cup {Current}
  BY <1>1, HandlingFacts, CurrentIs DEF TInv, Passed
<1>5. /\ RowSoFar'
      /\ \A i \in Entries : i \in Entries' /\ ledger'[i] = ledger[i]
      /\ \E i \in Entries' : ledger'[i] = [action |-> Current, status |-> InLedger(v)]
  <2>1. InLedger(v) = "success" => said'[Current].success /\ said'[Current].status = "none"
    BY <1>2, <1>3
  <2> QED BY <1>1, <1>3, <2>1, HandlingFacts, RowAppended
<1>6. Reported' = Passed' /\ Ordered'
  BY <1>1, <1>4, HandlingFacts, ReportAppended
<1>7. CleanSoFar'
  <2> SUFFICES ASSUME halted' = {}
               PROVE  /\ \A a \in Passed' : /\ a \in completed'
                         /\ \/ a \in plan'.noop
                            \/ \E i \in Entries' : ledger'[i] = [action |-> a, status |-> "success"]
                      /\ \A i \in Report' : receipts'[i].status \in Done
    BY DEF CleanSoFar
  <2>1. v = "succeeded"
    BY <1>1, <1>2 DEF Flag
  <2>2. ASSUME NEW a \in Passed'
        PROVE  /\ a \in completed'
               /\ \/ a \in plan'.noop
                  \/ \E i \in Entries' : ledger'[i] = [action |-> a, status |-> "success"]
    <3>1. CASE a = Current
      BY <1>1, <1>2, <1>5, <2>1, <3>1
    <3>2. CASE a # Current
      BY <1>1, <1>4, <1>5, <2>1, <3>2, HandlingFacts
    <3> QED BY <3>1, <3>2
  <2>3. \A i \in Report' : receipts'[i].status \in Done
    <3>1. receipts \in Seq([action : Action, status : ReceiptStatus])
      BY DEF TInv, IInv, TypeOK
    <3> QED BY <1>1, <2>1, <3>1, HandlingFacts, AppendProperties DEF Report, Done
  <2> QED BY <2>2, <2>3
<1>8. NothingYet' /\ ReportSoFar'
  BY <1>1, <1>6 DEF NothingYet, ReportSoFar
<1> QED BY <1>1, <1>5, <1>7, <1>8, Unsettled DEF TInv

(* RecordAgain and Catch halt the loop with a failure in the row.          *)
LEMMA FailureTells ==
  ASSUME TInv, pc = "handling", pc' = "loop", row' = row, next' = next + 1, IInv',
         UNCHANGED <<ordered, plan, called>>, NEW said1,
         said' = [said EXCEPT ![Current] = said1], "failed" \in halted',
         ledger' = Append(ledger, [action |-> Current, status |-> "failure"]),
         Reported' = Passed \cup {Current}, Ordered'
  PROVE  TInv'
<1>1. \A a \in Action : a # Current => said'[a] = said[a]
  BY HandlingFacts
<1>2. Passed' = Passed \cup {Current}
  BY HandlingFacts, CurrentIs DEF TInv, Passed
<1>3. RowSoFar'
  BY <1>1, HandlingFacts, RowAppended
<1>4. CleanSoFar' /\ NothingYet' /\ ReportSoFar'
  BY <1>2 DEF CleanSoFar, NothingYet, ReportSoFar
<1> QED BY <1>3, <1>4, Unsettled DEF TInv

LEMMA RecordAgainTells == ASSUME TInv, NEW r \in Result, RecordAgain(r) PROVE TInv'
<1>1. /\ IInv' /\ pc = "handling" /\ pc' = "loop" /\ row' = row /\ next' = next + 1
      /\ UNCHANGED <<ordered, plan, called>> /\ Faulty
      /\ said' = [said EXCEPT ![Current] = r]
      /\ "failed" \in halted'
      /\ ledger' = Append(ledger, [action |-> Current, status |-> "failure"])
      /\ receipts' = receipts \o <<[action |-> Current, status |-> Verdict(r)],
                                    [action |-> Current, status |-> "failed"]>>
  BY NextIInv DEF TInv, RecordAgain, Answer, Next, Execute, input, Flag
<1>2. Reported' = Passed \cup {Current} /\ Ordered'
  BY <1>1, HandlingFacts, ReportRepeated
<1> QED BY <1>1, <1>2, FailureTells

LEMMA CatchTells == ASSUME TInv, Catch PROVE TInv'
<1>1. /\ IInv' /\ pc = "handling" /\ pc' = "loop" /\ row' = row /\ next' = next + 1
      /\ UNCHANGED <<ordered, plan, called>>
      /\ said' = [said EXCEPT ![Current] = Thrown]
      /\ "failed" \in halted'
      /\ ledger' = Append(ledger, [action |-> Current, status |-> "failure"])
      /\ receipts' = Append(receipts, [action |-> Current, status |-> "failed"])
  BY NextIInv DEF TInv, Catch, Next, Execute, input
<1>2. Reported' = Passed \cup {Current} /\ Ordered'
  BY <1>1, HandlingFacts, ReportAppended
<1> QED BY <1>1, <1>2, FailureTells

(* At the end of the loop every action has been passed.                    *)
LEMMA SettleTells == ASSUME TInv, Settle PROVE TInv'
<1>1. /\ IInv' /\ pc = "loop" /\ Running /\ pc' = "returned" /\ row' = FinalStatus
      /\ UNCHANGED <<ordered, plan, called, said, ledger, receipts>>
      /\ next > Len(ordered)
  BY NextIInv DEF TInv, Settle, Next, Execute, input, handler, Running
<1>2. Passed = Action
  <2>1. next = Len(ordered) + 1 /\ Len(ordered) \in Nat
    <3>1. Len(ordered) \in Nat
      BY OrderIsSeq DEF TInv, IInv
    <3>2. next \in 1..(Len(ordered) + 1)
      BY DEF TInv, IInv, TypeOK
    <3> QED BY <1>1, <3>1, <3>2
  <2>2. Passed = {ordered[j] : j \in 1..Len(ordered)}
    BY <2>1 DEF Passed
  <2> QED BY <2>2 DEF TInv, IInv, TypeOK, DependencyOrder
<1>3. SucceededRunIsComplete'
  <2> SUFFICES ASSUME FinalStatus = "succeeded", NEW a \in Action \ plan.noop
               PROVE  /\ Succeeded(a)
                      /\ \E i \in Entries : ledger[i] = [action |-> a, status |-> "success"]
    BY <1>1 DEF SucceededRunIsComplete, Succeeded, Entries
  <2>1. halted = {}
    BY FinalStatusType DEF TInv, IInv, TypeOK
  <2>2. a \in completed /\ \E i \in Entries : ledger[i] = [action |-> a, status |-> "success"]
    BY <1>1, <1>2, <2>1 DEF TInv, CleanSoFar
  <2> QED BY <2>2 DEF TInv, IInv, CompletedSucceeded
<1>4. EndedRowsAccountForCalls'
  <2>1. \A a \in called : \E i \in Entries : ledger[i].action = a
    BY <1>1 DEF TInv, RowSoFar
  <2>2. \A i \in Entries : ledger[i].status = "success" => Succeeded(ledger[i].action)
    BY <1>1 DEF TInv, RowSoFar
  <2> QED BY <1>1, <2>1, <2>2 DEF EndedRowsAccountForCalls, Entries, Succeeded
<1>5. ReportSoFar'
  <2>1. Reported = Action /\ Ordered
    BY <1>1, <1>2 DEF TInv, ReportSoFar
  <2> QED BY <1>1, <2>1 DEF ReportSoFar, Running, Reported, Ordered, InOrder, Report
<1> QED BY <1>1, <1>3, <1>4, <1>5 DEF TInv, NothingYet, RowSoFar, CleanSoFar, Running

(* A run that throws or dies leaves its row as it is.                      *)
LEMMA StopTells == ASSUME TInv, Throw \/ Crash PROVE TInv'
<1>1. IInv' /\ pc # "returned" /\ pc' \in {"thrown", "dead"} /\ row' = row
  BY NextIInv DEF TInv, Throw, Crash, Next, Execute, table
<1> QED BY <1>1, Unsettled DEF TInv, NothingYet, RowSoFar, CleanSoFar, ReportSoFar, Running

LEMMA NextTInv == TInv /\ [Next]_vars => TInv'
<1> SUFFICES ASSUME TInv, [Next]_vars PROVE TInv'
  OBVIOUS
<1>1. CASE RefuseUnconfirmed \/ SettleRefused \/ PassGate
  BY <1>1, RefuseTells, SettleRefusedTells, PassGateTells
<1>2. CASE Abort \/ SkipNoop \/ Call
  BY <1>2, AbortTells, SkipNoopTells, CallTells
<1>3. CASE \E r \in Result : Record(r) \/ RecordAgain(r)
  BY <1>3, RecordTells, RecordAgainTells
<1>4. CASE Catch
  BY <1>4, CatchTells
<1>5. CASE Settle \/ Throw \/ Crash
  BY <1>5, SettleTells, StopTells
<1>6. CASE UNCHANGED vars
  <2>1. IInv'
    BY NextIInv DEF TInv
  <2>2. UNCHANGED <<plan, ordered, next, halted, completed, said, called, receipts, ledger, row, pc>>
    BY <1>6 DEF vars, input, loop, handler, table
  <2>3. UNCHANGED <<Passed, Entries, Report, Current, Running>>
    BY <2>2 DEF Passed, Entries, Report, Current, Running
  <2>4. NothingYet' /\ RowSoFar' /\ CleanSoFar'
    <3>1. NothingYet'
      BY <2>2 DEF TInv, NothingYet
    <3>2. RowSoFar'
      BY <2>2, <2>3 DEF TInv, RowSoFar, Succeeded
    <3>3. CleanSoFar'
      BY <2>2, <2>3 DEF TInv, CleanSoFar
    <3> QED BY <3>1, <3>2, <3>3
  <2>5. ReportSoFar'
    BY <2>2, <2>3 DEF TInv, ReportSoFar, Reported, Ordered, InOrder
  <2>6. SucceededRunIsComplete' /\ EndedRowsAccountForCalls'
    BY <2>2 DEF TInv, SucceededRunIsComplete, EndedRowsAccountForCalls, Succeeded
  <2> QED BY <2>1, <2>2, <2>4, <2>5, <2>6 DEF TInv
<1> QED BY <1>1, <1>2, <1>3, <1>4, <1>5, <1>6 DEF Next, Execute

-----------------------------------------------------------------------------
(* The loop implements the stage-gated apply.                              *)

GatePassed == Running => Unconfirmed = {}

LEMMA GateHolds == IInv /\ GatePassed /\ [Next]_vars => GatePassed'
<1> SUFFICES ASSUME IInv, GatePassed, [Next]_vars PROVE GatePassed'
  OBVIOUS
<1>1. UNCHANGED <<plan, confirmed>>
  BY DEF Next, Execute, RefuseUnconfirmed, SettleRefused, PassGate, Abort, SkipNoop, Call, Record,
     RecordAgain, Answer, Catch, Settle, Throw, Crash, vars, input
<1>2. Running' => Running \/ PassGate
  BY DEF Next, Execute, RefuseUnconfirmed, SettleRefused, Abort, Looping, SkipNoop, Call, Record,
     RecordAgain, Answer, Catch, Settle, Throw, Crash, vars, Running
<1> QED BY <1>1, <1>2 DEF GatePassed, Unconfirmed, PassGate

(* In the loop everything called has been passed, so with nothing halted   *)
(* it is done.                                                             *)
LEMMA CalledAreDone ==
  ASSUME TInv, pc = "loop"
  PROVE  called \subseteq Passed /\ (halted = {} => called \subseteq completed)
<1>1. \A a \in called : a \in Passed
  BY DEF TInv, RowSoFar, Running
<1> QED BY <1>1 DEF TInv, CleanSoFar, Running

(* Each step is a step of the abstract apply, or none.                     *)
LEMMA StageStep ==
  ASSUME TInv, GatePassed, [Next]_vars, phase = "execute", phase' = "execute"
  PROVE  [Staged!Next]_Staged!vars
<1>0. pc # "returned" => row = "running"
  BY DEF TInv
<1>1. CASE Call
  <2>1. /\ pc = "loop" /\ next <= Len(ordered) /\ halted = {} /\ Current \notin plan.noop
        /\ plan.deps[Current] \subseteq completed /\ called' = called \cup {Current}
        /\ UNCHANGED <<plan, confirmed, completed, row>>
    BY <1>1 DEF Call, Looping, Unmet, input, loop, table
  <2>2. Current \in Action /\ Current \notin Passed
    BY <2>1, CurrentIs DEF TInv
  <2>3. Current \notin called /\ called \subseteq completed
    BY <2>1, <2>2, CalledAreDone
  <2>4. Current \notin completed
    BY <2>2 DEF TInv, IInv, CompletedSucceeded
  <2>5. plan.gated \subseteq plan.noop \cup confirmed
    BY <2>1 DEF GatePassed, Running, Unconfirmed
  <2>6. Staged!Try(Current)
    BY <1>0, <2>1, <2>3, <2>4, <2>5 DEF Staged!Try, Staged!Ready
  <2> QED BY <2>2, <2>6 DEF Staged!Next
<1>2. CASE SkipNoop
  <2>1. /\ pc = "loop" /\ next <= Len(ordered) /\ Looping /\ halted = {} /\ Current \in plan.noop
        /\ completed' = completed \cup {Current}
        /\ UNCHANGED <<plan, confirmed, called, row>>
    BY <1>2 DEF SkipNoop, Looping, input, table
  <2>2. Current \in Action /\ Current \notin completed
    BY <2>1, CurrentIs DEF TInv, IInv, CompletedSucceeded
  <2>3. plan.deps[Current] \subseteq completed
    BY <2>1, NoUnmet DEF Unmet
  <2>4. Staged!Finish(Current)
    BY <1>0, <2>1, <2>2, <2>3 DEF Staged!Finish, Staged!Ready
  <2> QED BY <2>2, <2>4 DEF Staged!Next
<1>3. CASE \E r \in Result : Record(r) \/ RecordAgain(r)
  <2>1. PICK r \in Result : Answer(r)
    BY <1>3 DEF Record, RecordAgain
  <2>2. pc = "handling" /\ UNCHANGED <<plan, confirmed, called, row>>
    BY <2>1 DEF Answer, input
  <2>3. CASE completed' = completed
    BY <2>2, <2>3 DEF Staged!vars
  <2>4. CASE completed' = completed \cup {Current}
    <3>1. Current \in Action /\ Current \notin completed /\ Current \in called
      BY <2>2, HandlingFacts, CurrentIs DEF TInv, IInv, CompletedSucceeded, HandlerRuns
    <3>2. plan.deps[Current] \subseteq completed
      BY <3>1 DEF TInv, IInv, CalledRest
    <3>3. Staged!Finish(Current)
      BY <1>0, <2>2, <2>4, <3>1, <3>2 DEF Staged!Finish, Staged!Ready
    <3> QED BY <3>1, <3>3 DEF Staged!Next
  <2> QED BY <2>1, <2>3, <2>4 DEF Answer
<1>4. CASE Settle
  <2>1. /\ pc = "loop" /\ row' = FinalStatus /\ next > Len(ordered)
        /\ UNCHANGED <<plan, confirmed, called, completed>>
    BY <1>4 DEF Settle, input, loop, handler
  <2>2. FinalStatus \in {"succeeded", "failed", "blocked", "pending"}
    BY FinalStatusType DEF TInv, IInv, TypeOK, Flag
  <2>3. ASSUME FinalStatus = "succeeded" PROVE completed = Action
    <3>1. halted = {}
      BY <2>3, FinalStatusType DEF TInv, IInv, TypeOK
    <3>2. Passed \subseteq completed
      BY <2>1, <3>1 DEF TInv, CleanSoFar, Running
    <3>3. Passed = Action
      <4>1. Len(ordered) \in Nat /\ next \in 1..(Len(ordered) + 1)
        BY OrderIsSeq DEF TInv, IInv, TypeOK
      <4>2. next - 1 = Len(ordered)
        BY <2>1, <4>1
      <4> QED BY <4>2 DEF Passed, TInv, IInv, TypeOK, DependencyOrder
    <3> QED BY <3>2, <3>3 DEF TInv, IInv, TypeOK
  <2>4. Staged!End(FinalStatus)
    BY <1>0, <2>1, <2>3 DEF Staged!End
  <2> QED BY <2>2, <2>4 DEF Staged!Next
<1>5. CASE SettleRefused
  <2>1. Staged!End("blocked")
    BY <1>0, <1>5 DEF SettleRefused, Staged!End, input, loop, handler
  <2> QED BY <2>1 DEF Staged!Next
<1>6. CASE \/ RefuseUnconfirmed \/ PassGate \/ Abort \/ Catch \/ Throw \/ Crash \/ UNCHANGED vars
  BY <1>6 DEF RefuseUnconfirmed, PassGate, Abort, Catch, Throw, Crash, vars, input, loop, handler,
     table, Staged!vars
<1> QED BY <1>1, <1>2, <1>3, <1>4, <1>5, <1>6 DEF Next, Execute

-----------------------------------------------------------------------------
(***************************************************************************)
(* The search for an order                                                 *)
(***************************************************************************)
Listing == [id : Action, dependsOn : Seq(Action)]

DocumentTypes ==
  /\ actions \in Seq(Listing) /\ begun \in 0..Len(actions)
  /\ calls \in Seq(Order!Call) /\ order \in Seq(Action)
  /\ ended \in Order!Outcome \cup {"no"}

(* What is reached contains what it is reached from, and what that needs,  *)
(* and is the least such set.                                              *)
LEMMA ReachedIsClosed ==
  ASSUME NEW acts, NEW from \in SUBSET Action
  PROVE  /\ from \subseteq Order!Reached(acts, from)
         /\ \A a \in Order!Reached(acts, from) : Order!Direct(acts, a) \subseteq Order!Reached(acts, from)
<1>1. from \subseteq Order!Reached(acts, from)
  BY DEF Order!Reached
<1>2. ASSUME NEW a \in Order!Reached(acts, from), NEW b \in Order!Direct(acts, a)
      PROVE  b \in Order!Reached(acts, from)
  <2>1. b \in Action
    BY <1>2 DEF Order!Direct
  <2>2. ASSUME NEW S \in SUBSET Action, from \subseteq S, \A c \in S : Order!Direct(acts, c) \subseteq S
        PROVE  b \in S
    <3>1. a \in S
      BY <2>2, <1>2 DEF Order!Reached
    <3> QED BY <2>2, <3>1, <1>2
  <2> QED BY <2>1, <2>2 DEF Order!Reached
<1> QED BY <1>1, <1>2

LEMMA ReachedIsLeast ==
  ASSUME NEW acts, NEW from, NEW S \in SUBSET Action, from \subseteq S,
         \A a \in S : Order!Direct(acts, a) \subseteq S
  PROVE  Order!Reached(acts, from) \subseteq S
BY DEF Order!Reached

LEMMA ReachedGrows ==
  ASSUME NEW acts, NEW from, NEW more \in SUBSET Action, from \subseteq more
  PROVE  Order!Reached(acts, from) \subseteq Order!Reached(acts, more)
<1>1. Order!Reached(acts, more) \in SUBSET Action
  BY DEF Order!Reached
<1> QED BY <1>1, ReachedIsClosed, ReachedIsLeast

LEMMA BelowIsClosed ==
  ASSUME NEW acts, NEW id
  PROVE  /\ Order!Direct(acts, id) \subseteq Order!Below(acts, id)
         /\ \A a \in Order!Below(acts, id) : Order!Direct(acts, a) \subseteq Order!Below(acts, id)
<1>1. Order!Direct(acts, id) \in SUBSET Action
  BY DEF Order!Direct
<1> QED BY <1>1, ReachedIsClosed DEF Order!Below

(* An id of a document without duplicates has one dependsOn.               *)
LEMMA DirectIs ==
  ASSUME actions \in Seq(Listing), Order!Unique(actions), NEW id \in Order!Known(actions)
  PROVE  /\ id \in Action /\ Order!DependsOn(actions, id) \in Seq(Action)
         /\ Len(Order!DependsOn(actions, id)) \in Nat
         /\ \A k \in 1..Len(Order!DependsOn(actions, id)) :
              Order!DependsOn(actions, id)[k] \in Order!Direct(actions, id)
         /\ \A d \in Order!Direct(actions, id) :
              \E k \in 1..Len(Order!DependsOn(actions, id)) : Order!DependsOn(actions, id)[k] = d
<1>1. PICK i \in 1..Len(actions) : actions[i].id = id
  BY DEF Order!Known
<1>2. actions[i] \in Listing
  BY ElementOfSeq
<1>3. actions[i].id \in Action /\ actions[i].dependsOn \in Seq(Action)
  BY <1>2 DEF Listing
<1>4. \A j \in 1..Len(actions) : actions[j].id = id => j = i
  BY <1>1 DEF Order!Unique
<1>5. Order!DependsOn(actions, id) = actions[i].dependsOn
  <2>1. (CHOOSE j \in 1..Len(actions) : actions[j].id = id) = i
    BY <1>1, <1>4
  <2> QED BY <2>1 DEF Order!DependsOn
<1>6. Len(actions[i].dependsOn) \in Nat
  BY <1>3, LenProperties
<1>7. ASSUME NEW k \in 1..Len(actions[i].dependsOn)
      PROVE  actions[i].dependsOn[k] \in Order!Direct(actions, id)
  <2>1. actions[i].dependsOn[k] \in Action
    BY <1>3, ElementOfSeq
  <2> QED BY <1>1, <2>1 DEF Order!Direct, Order!Needs
<1>8. ASSUME NEW d \in Order!Direct(actions, id)
      PROVE  \E k \in 1..Len(actions[i].dependsOn) : actions[i].dependsOn[k] = d
  BY <1>4 DEF Order!Direct, Order!Needs
<1> QED BY <1>1, <1>3, <1>5, <1>6, <1>7, <1>8

LEMMA ListedIs ==
  ASSUME actions \in Seq(Listing), NEW n \in 0..Len(actions)
  PROVE  /\ Order!Listed(n) \in SUBSET Action
         /\ \A m \in Nat : m <= n => Order!Listed(m) \subseteq Order!Listed(n)
<1>1. Len(actions) \in Nat
  BY LenProperties
<1>2. \A i \in 1..n : actions[i] \in Listing
  BY <1>1, ElementOfSeq
<1>3. \A m \in Nat : m <= n => 1..m \subseteq 1..n
  BY <1>1
<1> QED BY <1>2, <1>3 DEF Order!Listed, Listing

-----------------------------------------------------------------------------
(* The inductive invariant of the search.  The order lists known actions   *)
(* once, each after what it depends on directly.                           *)
OrderFits ==
  /\ \A i, j \in 1..Len(order) : order[i] = order[j] => i = j
  /\ \A i \in 1..Len(order) : order[i] \in Order!Known(actions)
  /\ \A i \in 1..Len(order) : \A d \in Order!Direct(actions, order[i]) : \E j \in 1..(i - 1) : order[j] = d

(* Each call is below those under it, not done, and what it has looked at  *)
(* is done, or being visited by the call above it.                         *)
SeenBy(p) ==
  \A k \in 1..calls[p].looked :
    LET d == Order!DependsOn(actions, calls[p].id)[k] IN
    d \in Order!Done \/ (p < Len(calls) /\ d = calls[p + 1].id)
CallsFit ==
  /\ \A p \in 1..Len(calls) : calls[p].id \in Order!Known(actions) \ Order!Done
  /\ \A p, q \in 1..Len(calls) : p < q =>
       calls[q].id # calls[p].id /\ calls[q].id \in Order!Below(actions, calls[p].id)
  /\ \A p \in 1..Len(calls) : calls[p].looked <= Len(Order!DependsOn(actions, calls[p].id)) /\ SeenBy(p)

(* What the outer loop has begun with is done, or at the bottom.           *)
ListFits ==
  /\ \A j \in 1..(begun - 1) : actions[j].id \in Order!Done
  /\ calls = <<>> /\ begun > 0 => actions[begun].id \in Order!Done
  /\ calls # <<>> => begun > 0 /\ calls[1].id = actions[begun].id

(* Nothing has been visited but for what the loop has begun with.          *)
ReachFits ==
  /\ Order!Done \cup Order!Visiting \subseteq Order!Reached(actions, Order!Listed(begun))
  /\ \A k \in 1..Len(actions), n \in 1..Len(order) : order[n] = actions[k].id =>
       \A i \in 1..n : order[i] \in Order!Reached(actions, Order!Listed(k))

EndFits ==
  /\ ended = "ordered" => Order!Unique(actions) /\ begun = Len(actions) /\ calls = <<>>
  /\ ended = "duplicate" => ~Order!Unique(actions)
  /\ ended = "unknown" => Order!Unique(actions) /\ ~Order!Closed(actions)
  /\ ended = "cycle" => Order!Unique(actions) /\ ~Order!Acyclic(actions)

SearchInv == DocumentTypes /\ OrderFits /\ CallsFit /\ ListFits /\ ReachFits /\ EndFits

LEMMA DoneIs == ASSUME order \in Seq(Action) PROVE Order!Done = {order[i] : i \in 1..Len(order)}
BY LenProperties DEF Order!Done, Order!ToSet

NothingBegun == actions \in Seq(Listing) /\ begun = 0 /\ calls = <<>> /\ order = <<>> /\ ended = "no"

LEMMA EmptySearchFits == NothingBegun => SearchInv
<1> SUFFICES ASSUME NothingBegun PROVE SearchInv
  OBVIOUS
<1> USE DEF NothingBegun
<1>1. calls \in Seq(Order!Call) /\ order \in Seq(Action) /\ Len(calls) = 0 /\ Len(order) = 0
  BY EmptySeq
<1>2. Len(actions) \in Nat
  BY LenProperties
<1>3. Order!Done = {} /\ Order!Visiting = {}
  BY <1>1, DoneIs DEF Order!Visiting
<1>4. DocumentTypes
  BY <1>1, <1>2 DEF DocumentTypes
<1>5. OrderFits /\ CallsFit /\ ListFits
  BY <1>1 DEF OrderFits, CallsFit, ListFits
<1>6. ReachFits
  BY <1>1, <1>3 DEF ReachFits
<1>7. EndFits
  BY DEF EndFits
<1> QED BY <1>4, <1>5, <1>6, <1>7 DEF SearchInv

LEMMA InitSearches == Order!Init => SearchInv
<1> SUFFICES ASSUME Order!Init PROVE SearchInv
  OBVIOUS
<1>1. actions \in Seq(Listing)
  <2>1. \A s \in Order!BoundedSeq(Action, MaxDeps) : s \in Seq(Action)
    BY BoundAssumption DEF Order!BoundedSeq, Order!SeqOf
  <2>2. Order!PlanAction \subseteq Listing
    BY <2>1 DEF Order!PlanAction, Listing
  <2>3. actions \in Seq(Order!PlanAction)
    BY BoundAssumption DEF Order!Init, Order!BoundedSeq, Order!SeqOf
  <2> QED BY <2>2, <2>3, SeqMonotonic
<1> QED BY <1>1, EmptySearchFits DEF Order!Init, NothingBegun

(* What the top call, and the stack under it, are.                         *)
LEMMA TopIs ==
  ASSUME SearchInv, calls # <<>>
  PROVE  /\ Len(calls) \in Nat \ {0} /\ \A p \in 1..Len(calls) : calls[p] \in Order!Call
         /\ Order!Top = calls[Len(calls)] /\ Order!Top.looked \in Nat
         /\ Order!Top.id \in Order!Known(actions) /\ Order!Top.id \notin Order!Done
         /\ Order!Top.id \in Order!Visiting /\ SeenBy(Len(calls))
<1>1. Len(calls) \in Nat \ {0}
  BY EmptySeq DEF SearchInv, DocumentTypes
<1>2. \A p \in 1..Len(calls) : calls[p] \in Order!Call
  BY ElementOfSeq DEF SearchInv, DocumentTypes
<1>3. Len(calls) \in 1..Len(calls)
  BY <1>1
<1>4. Order!Top = calls[Len(calls)] /\ Order!Top.looked \in Nat /\ Order!Top.id \in Order!Visiting
  BY <1>2, <1>3 DEF Order!Top, Order!Visiting, Order!Call
<1> QED BY <1>1, <1>2, <1>3, <1>4 DEF SearchInv, CallsFit

(* What the top call looks at next.                                        *)
LEMMA LookedIs ==
  ASSUME SearchInv, Order!Looking
  PROVE  /\ Order!Looked \in Order!Direct(actions, Order!Top.id) /\ Order!Looked \in Action
         /\ \A p \in 1..Len(calls) : Order!Looked \in Order!Below(actions, calls[p].id)
<1>1. calls # <<>> /\ Order!Unique(actions) /\ Order!Top.looked < Len(Order!Needed)
  BY DEF Order!Looking, Order!Searching
<1>2. Order!Needed = Order!DependsOn(actions, Order!Top.id) /\ Len(Order!Needed) \in Nat
  BY <1>1, TopIs, DirectIs DEF Order!Needed, SearchInv, DocumentTypes
<1>3. Order!Top.looked + 1 \in 1..Len(Order!Needed)
  BY <1>1, <1>2, TopIs
<1>4. Order!Looked \in Order!Direct(actions, Order!Top.id)
  BY <1>1, <1>2, <1>3, TopIs, DirectIs DEF Order!Looked, SearchInv, DocumentTypes
<1>5. Order!Looked \in Action
  BY <1>4 DEF Order!Direct
<1>6. ASSUME NEW p \in 1..Len(calls) PROVE Order!Looked \in Order!Below(actions, calls[p].id)
  <2>1. CASE p = Len(calls)
    BY <1>1, <1>4, <2>1, TopIs, BelowIsClosed
  <2>2. CASE p # Len(calls)
    <3>1. p < Len(calls) /\ Len(calls) \in 1..Len(calls)
      BY <1>1, <2>2, TopIs
    <3>2. Order!Top.id \in Order!Below(actions, calls[p].id)
      BY <1>1, <3>1, TopIs DEF SearchInv, CallsFit
    <3> QED BY <1>4, <3>2, BelowIsClosed
  <2> QED BY <2>1, <2>2
<1> QED BY <1>4, <1>5, <1>6

(* The search ends and leaves everything as it is.                         *)
LEMMA EndingFits ==
  ASSUME SearchInv, UNCHANGED <<actions, begun, calls, order>>, ended' \in Order!Outcome, EndFits'
  PROVE  SearchInv'
<1>1. DocumentTypes'
  BY DEF SearchInv, DocumentTypes
<1>2. OrderFits'
  BY DEF SearchInv, OrderFits
<1>3. Order!Done' = Order!Done /\ Order!Visiting' = Order!Visiting
  BY DEF Order!Done, Order!Visiting
<1>4. CallsFit'
  BY <1>3 DEF SearchInv, CallsFit, SeenBy
<1>5. ListFits'
  BY <1>3 DEF SearchInv, ListFits
<1>6. ReachFits'
  BY <1>3 DEF SearchInv, ReachFits, Order!Listed
<1> QED BY <1>1, <1>2, <1>4, <1>5, <1>6 DEF SearchInv

LEMMA FindDuplicateFits == ASSUME SearchInv, Order!FindDuplicate PROVE SearchInv'
<1>1. EndFits' /\ ended' \in Order!Outcome
  BY DEF Order!FindDuplicate, Order!Outcome, EndFits
<1> QED BY <1>1, EndingFits DEF Order!FindDuplicate

LEMMA EndSearchFits == ASSUME SearchInv, Order!End PROVE SearchInv'
<1>1. EndFits' /\ ended' \in Order!Outcome
  BY DEF Order!End, Order!Searching, Order!Outcome, EndFits
<1> QED BY <1>1, EndingFits DEF Order!End

(* What is refused is a dependency that is not listed or on itself.        *)
LEMMA RefuseFits == ASSUME SearchInv, Order!Refuse PROVE SearchInv'
<1>1. calls # <<>> /\ Order!Unique(actions) /\ UNCHANGED <<actions, begun, calls, order>>
  BY DEF Order!Refuse, Order!Looking, Order!Searching
<1>2. Order!Looked \in Order!Direct(actions, Order!Top.id)
      /\ \A p \in 1..Len(calls) : Order!Looked \in Order!Below(actions, calls[p].id)
  BY LookedIs DEF Order!Refuse
<1>3. CASE Order!Looked \in Order!Known(actions)
  <2>1. ended' = "cycle" /\ Order!Looked \in Order!Visiting
    BY <1>3 DEF Order!Refuse
  <2>2. PICK p \in 1..Len(calls) : Order!Looked = calls[p].id
    BY <2>1 DEF Order!Visiting
  <2>3. ~Order!Acyclic(actions)
    BY <1>2, <1>3, <2>2 DEF Order!Acyclic
  <2>4. EndFits' /\ ended' \in Order!Outcome
    BY <1>1, <2>1, <2>3 DEF EndFits, Order!Outcome
  <2> QED BY <1>1, <2>4, EndingFits
<1>4. CASE Order!Looked \notin Order!Known(actions)
  <2>1. ended' = "unknown"
    BY <1>4 DEF Order!Refuse
  <2>2. ~Order!Closed(actions)
    BY <1>1, <1>2, <1>4, TopIs DEF Order!Closed
  <2>3. EndFits' /\ ended' \in Order!Outcome
    BY <1>1, <2>1, <2>2 DEF EndFits, Order!Outcome
  <2> QED BY <1>1, <2>3, EndingFits
<1> QED BY <1>3, <1>4

(* The loop goes on to the next listed action.                             *)
LEMMA VisitNextFits == ASSUME SearchInv, Order!VisitNext PROVE SearchInv'
<1> DEFINE id == actions[begun + 1].id
<1>1. /\ calls = <<>> /\ begun < Len(actions) /\ begun' = begun + 1
      /\ calls' = IF id \in Order!Done THEN <<>> ELSE Append(<<>>, [id |-> id, looked |-> 0])
      /\ UNCHANGED <<actions, order, ended>> /\ ended = "no" /\ Order!Unique(actions)
  BY DEF Order!VisitNext, Order!Visit, Order!Searching
<1>2. begun \in Nat /\ Len(actions) \in Nat /\ begun + 1 \in 1..Len(actions)
  BY <1>1, LenProperties DEF SearchInv, DocumentTypes
<1>3. id \in Action /\ id \in Order!Known(actions)
  <2>1. actions[begun + 1] \in Listing
    BY <1>2, ElementOfSeq DEF SearchInv, DocumentTypes
  <2> QED BY <1>2, <2>1 DEF Listing, Order!Known
<1> HIDE DEF id
<1>4. /\ [id |-> id, looked |-> 0] \in Order!Call
      /\ <<>> \in Seq(Order!Call) /\ Len(<<>>) = 0
  BY <1>3, EmptySeq DEF Order!Call
<1>5. /\ calls' \in Seq(Order!Call)
      /\ \/ calls' = <<>> /\ Len(calls') = 0 /\ id \in Order!Done
         \/ calls' # <<>> /\ Len(calls') = 1 /\ calls'[1] = [id |-> id, looked |-> 0] /\ id \notin Order!Done
  <2>1. CASE id \in Order!Done
    BY <1>1, <1>4, <2>1
  <2>2. CASE id \notin Order!Done
    <3>1. calls' = Append(<<>>, [id |-> id, looked |-> 0])
      BY <1>1, <2>2
    <3>2. calls' \in Seq(Order!Call) /\ calls' # <<>> /\ Len(calls') = 0 + 1 /\ calls'[0 + 1] = [id |-> id, looked |-> 0]
      BY <1>4, <3>1, AppendProperties
    <3> QED BY <2>2, <3>2
  <2> QED BY <2>1, <2>2
<1>6. Order!Done' = Order!Done
  BY <1>1 DEF Order!Done
<1>7. DocumentTypes'
  BY <1>1, <1>2, <1>5 DEF SearchInv, DocumentTypes
<1>8. OrderFits' /\ EndFits'
  BY <1>1 DEF SearchInv, OrderFits, EndFits
<1>9. CallsFit'
  <2>1. Len(Order!DependsOn(actions, id)) \in Nat
    BY <1>1, <1>3, DirectIs DEF SearchInv, DocumentTypes
  <2>2. ASSUME NEW p \in 1..Len(calls')
        PROVE  p = 1 /\ Len(calls') = 1 /\ calls'[p].id = id /\ calls'[p].looked = 0 /\ id \notin Order!Done
    <3>1. CASE Len(calls') = 0
      BY <3>1
    <3>2. CASE Len(calls') = 1 /\ calls'[1] = [id |-> id, looked |-> 0] /\ id \notin Order!Done
      <4>1. p = 1
        BY <3>2
      <4> QED BY <3>2, <4>1
    <3> QED BY <1>5, <3>1, <3>2
  <2>3. \A p \in 1..Len(calls') : SeenBy(p)'
    BY <2>2 DEF SeenBy
  <2> QED BY <1>1, <1>3, <1>6, <2>1, <2>2, <2>3 DEF CallsFit
<1>10. ListFits'
  <2>1. \A j \in 1..begun : actions[j].id \in Order!Done
    BY <1>1, <1>2 DEF SearchInv, ListFits
  <2>2. begun' - 1 = begun /\ begun' > 0 /\ actions'[begun'].id = id
    BY <1>1, <1>2 DEF id
  <2>3. calls' # <<>> => calls'[1].id = id
    BY <1>5
  <2> QED BY <1>1, <1>5, <1>6, <2>1, <2>2, <2>3 DEF ListFits
<1>11. ReachFits'
  <2>1. Order!Listed(begun)' = Order!Listed(begun + 1) /\ \A k \in 1..Len(actions) : Order!Listed(k)' = Order!Listed(k)
    BY <1>1 DEF Order!Listed
  <2>2. Order!Listed(begun) \subseteq Order!Listed(begun + 1) /\ id \in Order!Listed(begun + 1)
        /\ Order!Listed(begun + 1) \in SUBSET Action
    <3>1. id \in Order!Listed(begun + 1)
      BY <1>2 DEF Order!Listed, id
    <3> QED BY <1>2, <3>1, ListedIs DEF SearchInv, DocumentTypes
  <2>3. Order!Reached(actions, Order!Listed(begun)) \subseteq Order!Reached(actions, Order!Listed(begun + 1))
        /\ id \in Order!Reached(actions, Order!Listed(begun + 1))
    BY <2>2, ReachedGrows, ReachedIsClosed
  <2>4. Order!Visiting' \subseteq {id}
    <3>1. \A p \in 1..Len(calls') : calls'[p].id = id
      BY <1>5
    <3> QED BY <3>1 DEF Order!Visiting
  <2>5. Order!Reached(actions, Order!Listed(begun))' = Order!Reached(actions, Order!Listed(begun + 1))
    BY <1>1, <2>1 DEF Order!Reached, Order!Direct
  <2>6. (Order!Done \cup Order!Visiting \subseteq Order!Reached(actions, Order!Listed(begun)))'
    BY <1>6, <2>3, <2>4, <2>5 DEF SearchInv, ReachFits
  <2>7. \A k \in 1..Len(actions), n \in 1..Len(order) : order[n] = actions[k].id =>
          \A i \in 1..n : order[i] \in Order!Reached(actions, Order!Listed(k))
    BY DEF SearchInv, ReachFits
  <2> QED BY <1>1, <2>1, <2>6, <2>7 DEF ReachFits
<1> QED BY <1>7, <1>8, <1>9, <1>10, <1>11 DEF SearchInv

(* The search goes into what the top call needs, if it is not done.        *)
LEMMA VisitNeededFits == ASSUME SearchInv, Order!VisitNeeded PROVE SearchInv'
<1> DEFINE d == Order!Looked
           n == Len(calls)
           below == [calls EXCEPT ![n].looked = @ + 1]
<1>1. /\ calls # <<>> /\ d \in Order!Known(actions) /\ d \notin Order!Visiting
      /\ calls' = IF d \in Order!Done THEN below ELSE Append(below, [id |-> d, looked |-> 0])
      /\ UNCHANGED <<actions, begun, order, ended>> /\ ended = "no" /\ Order!Unique(actions)
      /\ Order!Top.looked < Len(Order!Needed) /\ Order!Looking
  BY DEF Order!VisitNeeded, Order!Visit, Order!Looking, Order!Searching
<1>2. n \in Nat \ {0} /\ n \in 1..n /\ calls \in Seq(Order!Call)
  BY <1>1, TopIs DEF SearchInv, DocumentTypes
<1>3. d \in Action /\ d \in Order!Direct(actions, calls[n].id)
      /\ \A p \in 1..n : d \in Order!Below(actions, calls[p].id)
  BY <1>1, LookedIs, TopIs
<1>4. d = Order!DependsOn(actions, calls[n].id)[calls[n].looked + 1]
      /\ calls[n].looked + 1 <= Len(Order!DependsOn(actions, calls[n].id)) /\ calls[n].looked \in Nat
  <2>1. Len(Order!Needed) \in Nat
    BY <1>1, TopIs, DirectIs DEF SearchInv, DocumentTypes, Order!Needed
  <2> QED BY <1>1, <2>1, TopIs DEF Order!Looked, Order!Needed
<1> HIDE DEF d
<1>5. /\ below \in Seq(Order!Call) /\ Len(below) = n
      /\ \A p \in 1..n : below[p].id = calls[p].id /\ below[p].looked = IF p = n THEN calls[p].looked + 1 ELSE calls[p].looked
  <2>1. [id |-> calls[n].id, looked |-> calls[n].looked + 1] \in Order!Call
    BY <1>1, <1>2, TopIs DEF Order!Call
  <2>2. [calls[n] EXCEPT !.looked = @ + 1] = [id |-> calls[n].id, looked |-> calls[n].looked + 1]
    BY <1>1, <1>2, TopIs DEF Order!Call
  <2>3. below = [calls EXCEPT ![n] = [id |-> calls[n].id, looked |-> calls[n].looked + 1]]
    BY <1>2, <2>2, LenProperties
  <2>4. below \in Seq(Order!Call) /\ Len(below) = n
        /\ \A p \in 1..n : below[p] = IF p = n THEN [id |-> calls[n].id, looked |-> calls[n].looked + 1] ELSE calls[p]
    BY <1>2, <2>1, <2>3, ExceptSeq
  <2>5. ASSUME NEW p \in 1..n
        PROVE  below[p].id = calls[p].id /\ below[p].looked = IF p = n THEN calls[p].looked + 1 ELSE calls[p].looked
    <3>1. CASE p = n
      BY <2>4, <3>1
    <3>2. CASE p # n
      BY <2>4, <3>2
    <3> QED BY <3>1, <3>2
  <2> QED BY <2>4, <2>5
<1> HIDE DEF below
<1>6. /\ calls' \in Seq(Order!Call) /\ Len(calls') \in Nat /\ n <= Len(calls')
      /\ \A p \in 1..n : calls'[p] = below[p]
      /\ \/ Len(calls') = n /\ d \in Order!Done
         \/ Len(calls') = n + 1 /\ calls'[n + 1] = [id |-> d, looked |-> 0] /\ d \notin Order!Done
  <2>1. CASE d \in Order!Done
    BY <1>1, <1>2, <1>5, <2>1
  <2>2. CASE d \notin Order!Done
    <3>1. [id |-> d, looked |-> 0] \in Order!Call /\ calls' = Append(below, [id |-> d, looked |-> 0])
      BY <1>1, <1>3, <2>2 DEF Order!Call
    <3> QED BY <1>2, <1>5, <2>2, <3>1, AppendProperties
  <2> QED BY <2>1, <2>2
<1>7. Order!Done' = Order!Done
  BY <1>1 DEF Order!Done
<1>8. DocumentTypes' /\ OrderFits' /\ EndFits'
  <2>0. calls' \in Seq(Order!Call)
    BY <1>6
  <2>1. DocumentTypes'
    BY <1>1, <2>0 DEF SearchInv, DocumentTypes
  <2>2. OrderFits'
    <3>1. actions' = actions /\ order' = order
      BY <1>1
    <3> QED BY <3>1 DEF SearchInv, OrderFits
  <2>3. EndFits'
    BY <1>1 DEF EndFits
  <2> QED BY <2>1, <2>2, <2>3
<1>9. \A p \in 1..Len(calls') : p \in 1..n \/ (p = n + 1 /\ Len(calls') = n + 1)
  BY <1>2, <1>6
<1>10. CallsFit'
  <2>1. ASSUME NEW p \in 1..Len(calls')
        PROVE  calls'[p].id \in Order!Known(actions) \ Order!Done
    BY <1>1, <1>5, <1>6, <1>9 DEF SearchInv, CallsFit
  <2>2. ASSUME NEW p \in 1..Len(calls'), NEW q \in 1..Len(calls'), p < q
        PROVE  calls'[q].id # calls'[p].id /\ calls'[q].id \in Order!Below(actions, calls'[p].id)
    <3>1. p \in 1..n /\ calls'[p].id = calls[p].id
      BY <1>2, <1>5, <1>6, <1>9, <2>2
    <3>2. CASE q \in 1..n
      BY <1>5, <1>6, <2>2, <3>1, <3>2 DEF SearchInv, CallsFit
    <3>3. CASE q = n + 1 /\ Len(calls') = n + 1
      <4>1. calls'[q].id = d
        BY <1>2, <1>6, <3>3
      <4>2. d # calls[p].id
        BY <1>1, <3>1 DEF Order!Visiting
      <4> QED BY <1>3, <3>1, <4>1, <4>2
    <3> QED BY <1>9, <3>2, <3>3
  <2>3. ASSUME NEW p \in 1..Len(calls')
        PROVE  calls'[p].looked <= Len(Order!DependsOn(actions, calls'[p].id)) /\ SeenBy(p)'
    <3>1. CASE p \in 1..n /\ p # n
      <4>1. calls'[p].id = calls[p].id /\ calls'[p].looked = calls[p].looked /\ p + 1 \in 1..n /\ p < n
            /\ calls'[p + 1].id = calls[p + 1].id
        <5>1. p + 1 \in 1..n /\ p < n
          BY <1>2, <3>1
        <5> QED BY <1>5, <1>6, <3>1, <5>1
      <4>2. calls[p].looked <= Len(Order!DependsOn(actions, calls[p].id)) /\ SeenBy(p)
        BY <3>1 DEF SearchInv, CallsFit
      <4>3. p < Len(calls')
        BY <1>2, <1>6, <4>1
      <4> QED BY <1>1, <1>7, <4>1, <4>2, <4>3 DEF SeenBy
    <3>2. CASE p = n
      <4>1. calls'[p].id = calls[n].id /\ calls'[p].looked = calls[n].looked + 1
        BY <1>2, <1>5, <1>6, <3>2
      <4>2. ASSUME NEW k \in 1..(calls[n].looked + 1)
            PROVE  LET e == Order!DependsOn(actions, calls[n].id)[k] IN
                   e \in Order!Done \/ (n < Len(calls') /\ e = calls'[n + 1].id)
        <5>1. CASE k \in 1..calls[n].looked
          BY <1>1, <1>2, <5>1, TopIs DEF SeenBy
        <5>2. CASE k = calls[n].looked + 1
          BY <1>2, <1>4, <1>6, <5>2
        <5> QED BY <1>4, <5>1, <5>2
      <4> QED BY <1>1, <1>4, <1>7, <3>2, <4>1, <4>2 DEF SeenBy
    <3>3. CASE p = n + 1 /\ Len(calls') = n + 1
      <4>1. calls'[p].id = d /\ calls'[p].looked = 0
        BY <1>2, <1>6, <3>3
      <4>2. Len(Order!DependsOn(actions, d)) \in Nat
        BY <1>1, DirectIs DEF SearchInv, DocumentTypes
      <4> QED BY <4>1, <4>2 DEF SeenBy
    <3> QED BY <1>9, <3>1, <3>2, <3>3
  <2> QED BY <1>1, <1>7, <2>1, <2>2, <2>3 DEF CallsFit
<1>11. ListFits'
  <2>1. calls'[1].id = calls[1].id /\ calls' # <<>>
    <3>1. 1 \in 1..n
      BY <1>2
    <3>2. Len(calls') # 0
      BY <1>2, <1>6
    <3> QED BY <1>5, <1>6, <3>1, <3>2, EmptySeq
  <2> QED BY <1>1, <1>7, <2>1 DEF SearchInv, ListFits
<1>12. ReachFits'
  <2>1. Order!Listed(begun) \in SUBSET Action
    BY ListedIs DEF SearchInv, DocumentTypes
  <2>2. d \in Order!Reached(actions, Order!Listed(begun))
    <3>1. calls[n].id \in Order!Reached(actions, Order!Listed(begun))
      BY <1>2 DEF SearchInv, ReachFits, Order!Visiting
    <3> QED BY <1>3, <2>1, <3>1, ReachedIsClosed
  <2>3. Order!Visiting' \subseteq Order!Visiting \cup {d}
    <3>1. ASSUME NEW p \in 1..Len(calls') PROVE calls'[p].id \in Order!Visiting \cup {d}
      BY <1>2, <1>5, <1>6, <1>9 DEF Order!Visiting
    <3> QED BY <3>1 DEF Order!Visiting
  <2>4. (Order!Done \cup Order!Visiting \subseteq Order!Reached(actions, Order!Listed(begun)))'
    <3>1. Order!Reached(actions, Order!Listed(begun))' = Order!Reached(actions, Order!Listed(begun))
      BY <1>1 DEF Order!Reached, Order!Direct, Order!Listed
    <3> QED BY <1>7, <2>2, <2>3, <3>1 DEF SearchInv, ReachFits
  <2> QED BY <1>1, <2>4 DEF SearchInv, ReachFits, Order!Listed
<1> QED BY <1>8, <1>10, <1>11, <1>12 DEF SearchInv

(* The top call has looked at all it needs, and is done.                   *)
LEMMA ReturnFits == ASSUME SearchInv, Order!Return PROVE SearchInv'
<1> DEFINE n == Len(calls)
           id == Order!Top.id
<1>1. /\ calls # <<>> /\ order' = Append(order, id) /\ calls' = SubSeq(calls, 1, n - 1)
      /\ UNCHANGED <<actions, begun, ended>> /\ ended = "no" /\ Order!Unique(actions)
      /\ Order!Top.looked = Len(Order!Needed)
  BY DEF Order!Return, Order!Returning, Order!Searching, Order!Front
<1>2. n \in Nat \ {0} /\ n \in 1..n /\ calls \in Seq(Order!Call) /\ id = calls[n].id
      /\ id \in Order!Known(actions) /\ id \notin Order!Done /\ id \in Order!Visiting
  BY <1>1, TopIs DEF SearchInv, DocumentTypes
<1>3. id \in Action
  BY <1>1, <1>2, DirectIs DEF SearchInv, DocumentTypes
<1>4. \A e \in Order!Direct(actions, id) : e \in Order!Done
  <2>1. ASSUME NEW e \in Order!Direct(actions, id) PROVE e \in Order!Done
    <3>1. PICK k \in 1..Len(Order!DependsOn(actions, id)) : Order!DependsOn(actions, id)[k] = e
      BY <1>1, <1>2, DirectIs DEF SearchInv, DocumentTypes
    <3>2. k \in 1..calls[n].looked
      BY <1>1, <3>1, TopIs DEF Order!Needed
    <3> QED BY <1>1, <1>2, <3>1, <3>2, TopIs DEF SeenBy
  <2> QED BY <2>1
<1> HIDE DEF id
<1>5. /\ calls' \in Seq(Order!Call) /\ Len(calls') = n - 1
      /\ \A p \in 1..(n - 1) : calls'[p] = calls[p]
  <2>1. \A p \in 1..(n - 1) : calls[p] \in Order!Call
    BY <1>1, <1>2, TopIs
  <2>2. SubSeq(calls, 1, n - 1) \in Seq(Order!Call)
        /\ Len(SubSeq(calls, 1, n - 1)) = (IF 1 <= n - 1 THEN (n - 1) - 1 + 1 ELSE 0)
        /\ \A p \in 1..((n - 1) - 1 + 1) : SubSeq(calls, 1, n - 1)[p] = calls[1 + p - 1]
    BY <1>2, <2>1, SubSeqProperties
  <2>3. (n - 1) - 1 + 1 = n - 1 /\ \A p \in 1..(n - 1) : 1 + p - 1 = p
    BY <1>2
  <2>4. (IF 1 <= n - 1 THEN (n - 1) - 1 + 1 ELSE 0) = n - 1
    <3>1. ASSUME NEW m \in Nat \ {0} PROVE (IF 1 <= m - 1 THEN (m - 1) - 1 + 1 ELSE 0) = m - 1
      OBVIOUS
    <3> QED BY <1>2, <3>1
  <2> QED BY <1>1, <2>2, <2>3, <2>4
<1>6. /\ order \in Seq(Action) /\ Len(order) \in Nat
      /\ order' \in Seq(Action) /\ Len(order') = Len(order) + 1
      /\ \A i \in 1..Len(order) : order'[i] = order[i]
      /\ order'[Len(order) + 1] = id
  BY <1>1, <1>3, AppendProperties, LenProperties DEF SearchInv, DocumentTypes
<1>7. Order!Done = {order[i] : i \in 1..Len(order)}
  BY <1>6, DoneIs
<1>8. Order!Done' = Order!Done \cup {id}
  <2>1. Order!Done' = {order'[i] : i \in 1..(Len(order) + 1)}
    BY <1>6 DEF Order!Done, Order!ToSet
  <2>2. 1..(Len(order) + 1) = (1..Len(order)) \cup {Len(order) + 1}
    BY <1>6
  <2> QED BY <1>6, <1>7, <2>1, <2>2
<1>9. DocumentTypes' /\ EndFits'
  BY <1>1, <1>5, <1>6 DEF SearchInv, DocumentTypes, EndFits
<1>10. OrderFits'
  <2>1. \A i \in 1..Len(order') : i \in 1..Len(order) \/ i = Len(order) + 1
    BY <1>6
  <2>2. ASSUME NEW i \in 1..Len(order'), NEW j \in 1..Len(order'), order'[i] = order'[j]
        PROVE  i = j
    <3>1. \A k \in 1..Len(order) : order[k] # id
      BY <1>2, <1>7
    <3> QED BY <1>6, <2>1, <2>2, <3>1 DEF SearchInv, OrderFits
  <2>3. ASSUME NEW i \in 1..Len(order') PROVE order'[i] \in Order!Known(actions)
    BY <1>2, <1>6, <2>1 DEF SearchInv, OrderFits
  <2>4. ASSUME NEW i \in 1..Len(order'), NEW e \in Order!Direct(actions, order'[i])
        PROVE  \E j \in 1..(i - 1) : order'[j] = e
    <3>1. CASE i \in 1..Len(order)
      <4>1. PICK j \in 1..(i - 1) : order[j] = e
        BY <1>6, <2>4, <3>1 DEF SearchInv, OrderFits
      <4> QED BY <1>6, <3>1, <4>1
    <3>2. CASE i = Len(order) + 1
      <4>1. PICK j \in 1..Len(order) : order[j] = e
        BY <1>4, <1>6, <1>7, <2>4, <3>2
      <4> QED BY <1>6, <3>2, <4>1
    <3> QED BY <2>1, <3>1, <3>2
  <2> QED BY <1>1, <2>2, <2>3, <2>4 DEF OrderFits
<1>11. CallsFit'
  <2>1. \A p \in 1..(n - 1) : p \in 1..n /\ p < n /\ calls'[p] = calls[p]
    BY <1>2, <1>5
  <2>2. ASSUME NEW p \in 1..(n - 1)
        PROVE  calls[p].id \in Order!Known(actions) /\ calls[p].id \notin Order!Done \cup {id}
    BY <1>2, <2>1 DEF SearchInv, CallsFit
  <2>3. ASSUME NEW p \in 1..(n - 1), NEW q \in 1..(n - 1), p < q
        PROVE  calls[q].id # calls[p].id /\ calls[q].id \in Order!Below(actions, calls[p].id)
    BY <2>1, <2>3 DEF SearchInv, CallsFit
  <2>4. ASSUME NEW p \in 1..(n - 1)
        PROVE  calls[p].looked <= Len(Order!DependsOn(actions, calls[p].id)) /\ SeenBy(p)'
    <3>1. calls[p].looked <= Len(Order!DependsOn(actions, calls[p].id)) /\ SeenBy(p)
      BY <2>1 DEF SearchInv, CallsFit
    <3>2. ASSUME NEW k \in 1..calls[p].looked
          PROVE  LET e == Order!DependsOn(actions, calls[p].id)[k] IN
                 e \in Order!Done' \/ (p < n - 1 /\ e = calls'[p + 1].id)
      <4>1. CASE p < n - 1
        <5>1. p + 1 \in 1..(n - 1)
          BY <1>2, <4>1
        <5> QED BY <1>8, <2>1, <3>1, <4>1, <5>1 DEF SeenBy
      <4>2. CASE p = n - 1
        BY <1>2, <1>8, <3>1, <4>2 DEF SeenBy
      <4> QED BY <1>2, <4>1, <4>2
    <3> QED BY <1>1, <1>5, <2>1, <3>1, <3>2 DEF SeenBy
  <2> QED BY <1>1, <1>5, <1>8, <2>1, <2>2, <2>3, <2>4 DEF CallsFit
<1>12. ListFits'
  <2>1. calls[1].id = actions[begun].id /\ begun > 0
    BY <1>1 DEF SearchInv, ListFits
  <2>2. CASE n = 1
    <3>1. calls' = <<>>
      BY <1>5, <2>2, EmptySeq
    <3>2. actions[begun].id = id
      BY <1>2, <2>1, <2>2
    <3>3. actions'[begun'].id \in Order!Done' /\ begun' = begun /\ actions' = actions
      BY <1>1, <1>8, <3>2
    <3>4. \A j \in 1..(begun - 1) : actions[j].id \in Order!Done'
      BY <1>8 DEF SearchInv, ListFits
    <3>5. \A j \in 1..(begun' - 1) : actions'[j].id \in Order!Done'
      BY <3>3, <3>4
    <3>6. ~(calls' # <<>>)
      BY <3>1
    <3> QED BY <3>3, <3>5, <3>6 DEF ListFits
  <2>3. CASE n # 1
    <3>1. 1 \in 1..(n - 1)
      <4>1. \A m \in Nat \ {0} : m # 1 => 1 \in 1..(m - 1)
        OBVIOUS
      <4> QED BY <1>2, <2>3, <4>1
    <3>2. calls'[1] = calls[1] /\ calls' # <<>>
      BY <1>2, <1>5, <2>3, <3>1, EmptySeq
    <3> QED BY <1>1, <1>8, <2>1, <3>2 DEF SearchInv, ListFits
  <2> QED BY <2>2, <2>3
<1>13. ReachFits'
  <2>1. Order!Visiting' \subseteq Order!Visiting
    BY <1>2, <1>5 DEF Order!Visiting
  <2>2. Order!Done \cup Order!Visiting \subseteq Order!Reached(actions, Order!Listed(begun))
    BY DEF SearchInv, ReachFits
  <2>3. \A k \in 1..Len(actions) : Order!Reached(actions, Order!Listed(k))' = Order!Reached(actions, Order!Listed(k))
    BY <1>1 DEF Order!Reached, Order!Direct, Order!Listed
  <2>4. Order!Reached(actions, Order!Listed(begun))' = Order!Reached(actions, Order!Listed(begun))
    BY <1>1 DEF Order!Reached, Order!Direct, Order!Listed
  <2>5. ASSUME NEW k \in 1..Len(actions), NEW m \in 1..Len(order'), order'[m] = actions[k].id, NEW i \in 1..m
        PROVE  order'[i] \in Order!Reached(actions, Order!Listed(k))
    <3>1. CASE m \in 1..Len(order)
      BY <1>6, <2>5, <3>1 DEF SearchInv, ReachFits
    <3>2. CASE m = Len(order) + 1
      <4>1. begun \in Nat /\ Len(actions) \in Nat /\ begun <= Len(actions)
        BY LenProperties DEF SearchInv, DocumentTypes
      <4>2. ~(k <= begun - 1)
        BY <1>2, <1>6, <2>5, <3>2, <4>1 DEF SearchInv, ListFits
      <4>3. Order!Listed(begun) \subseteq Order!Listed(k) /\ Order!Listed(k) \in SUBSET Action
        BY <4>1, <4>2, ListedIs DEF SearchInv, DocumentTypes
      <4>4. order'[i] \in Order!Done'
        BY <1>6, <3>2 DEF Order!Done, Order!ToSet
      <4>5. order'[i] \in Order!Reached(actions, Order!Listed(begun))
        BY <1>2, <1>8, <2>2, <4>4
      <4> QED BY <4>3, <4>5, ReachedGrows
    <3> QED BY <1>6, <3>1, <3>2
  <2>6. (Order!Done \cup Order!Visiting \subseteq Order!Reached(actions, Order!Listed(begun)))'
    BY <1>2, <1>8, <2>1, <2>2, <2>4
  <2> QED BY <1>1, <2>3, <2>5, <2>6 DEF ReachFits
<1> QED BY <1>9, <1>10, <1>11, <1>12, <1>13 DEF SearchInv

LEMMA NextSearches == SearchInv /\ [Order!Next]_document => SearchInv'
<1> SUFFICES ASSUME SearchInv, [Order!Next]_document PROVE SearchInv'
  OBVIOUS
<1>1. CASE UNCHANGED document
  <2>1. UNCHANGED <<actions, begun, calls, order, ended>>
    BY <1>1 DEF document
  <2>2. Order!Done' = Order!Done /\ Order!Visiting' = Order!Visiting
    BY <2>1 DEF Order!Done, Order!Visiting
  <2>3. DocumentTypes' /\ OrderFits' /\ ListFits' /\ EndFits'
    BY <2>1, <2>2 DEF SearchInv, DocumentTypes, OrderFits, ListFits, EndFits
  <2>4. CallsFit' /\ ReachFits'
    BY <2>1, <2>2 DEF SearchInv, CallsFit, SeenBy, ReachFits, Order!Listed
  <2> QED BY <2>3, <2>4 DEF SearchInv
<1>2. CASE Order!Next
  BY <1>2, FindDuplicateFits, VisitNextFits, VisitNeededFits, RefuseFits, ReturnFits, EndSearchFits DEF Order!Next
<1> QED BY <1>1, <1>2

-----------------------------------------------------------------------------
(* A finished search: everything known is done, at one place, and what an  *)
(* action needs, however indirectly, comes before it.                      *)
LEMMA IndexIs ==
  ASSUME SearchInv, NEW i \in 1..Len(order)
  PROVE  Order!Index(order[i]) = i
BY DEF SearchInv, OrderFits, Order!Index

LEMMA FinishedSearch ==
  ASSUME SearchInv, ended = "ordered"
  PROVE  /\ Order!Done = Order!Known(actions) /\ Order!Done = {order[i] : i \in 1..Len(order)}
         /\ Len(order) \in Nat /\ Len(actions) \in Nat
         /\ \A i \in 1..Len(order) : \A d \in Order!Below(actions, order[i]) : \E j \in 1..(i - 1) : order[j] = d
<1>1. /\ actions \in Seq(Listing) /\ order \in Seq(Action) /\ Len(order) \in Nat /\ Len(actions) \in Nat
      /\ begun = Len(actions) /\ calls = <<>>
  BY LenProperties DEF SearchInv, DocumentTypes, EndFits
<1>2. Order!Done = {order[i] : i \in 1..Len(order)}
  BY <1>1, DoneIs
<1>3. Order!Done \subseteq Order!Known(actions)
  BY <1>2 DEF SearchInv, OrderFits
<1>4. ASSUME NEW j \in 1..Len(actions) PROVE actions[j].id \in Order!Done
  <2>1. j \in 1..(begun - 1) \/ (j = begun /\ begun > 0)
    BY <1>1
  <2> QED BY <1>1, <2>1 DEF SearchInv, ListFits
<1>5. ASSUME NEW i \in 1..Len(order), NEW d \in Order!Below(actions, order[i])
      PROVE  \E j \in 1..(i - 1) : order[j] = d
  <2> DEFINE S == {order[j] : j \in 1..(i - 1)}
  <2>1. S \in SUBSET Action
    <3>1. \A j \in 1..(i - 1) : j \in 1..Len(order)
      BY <1>1
    <3> QED BY <1>1, <3>1, ElementOfSeq
  <2>2. Order!Direct(actions, order[i]) \subseteq S
    BY DEF SearchInv, OrderFits
  <2>3. ASSUME NEW a \in S PROVE Order!Direct(actions, a) \subseteq S
    <3>1. PICK j \in 1..(i - 1) : a = order[j]
      OBVIOUS
    <3>2. j \in 1..Len(order) /\ \A k \in 1..(j - 1) : k \in 1..(i - 1)
      BY <1>1
    <3> QED BY <3>1, <3>2 DEF SearchInv, OrderFits
  <2> HIDE DEF S
  <2>4. Order!Below(actions, order[i]) \subseteq S
    BY <2>1, <2>2, <2>3, ReachedIsLeast DEF Order!Below
  <2> QED BY <1>5, <2>4 DEF S
<1> QED BY <1>1, <1>2, <1>3, <1>4, <1>5 DEF Order!Known

(* Two lists of the same things without repetition are equally long.       *)
LEMMA OrderIsAsLong ==
  ASSUME SearchInv, ended = "ordered"
  PROVE  /\ Len(order) = Len(actions) /\ Len(order) = Cardinality(Order!Known(actions))
         /\ order \in [1..Len(order) -> Action]
<1> DEFINE K == Order!Known(actions)
           ids == [i \in 1..Len(actions) |-> actions[i].id]
<1>1. /\ Len(order) \in Nat /\ Len(actions) \in Nat /\ Order!Unique(actions)
      /\ K = {order[i] : i \in 1..Len(order)} /\ K = {actions[i].id : i \in 1..Len(actions)}
      /\ \A i, j \in 1..Len(order) : order[i] = order[j] => i = j
  BY FinishedSearch DEF SearchInv, OrderFits, EndFits, Order!Known
<1>2. order \in [1..Len(order) -> Action]
  BY LenProperties DEF SearchInv, DocumentTypes
<1> HIDE DEF K
<1>3. Cardinality(K) = Len(order)
  <2>1. order \in [1..Len(order) -> K]
    BY <1>1, <1>2
  <2>2. order \in Bijection(1..Len(order), K)
    BY <1>1, <2>1 DEF Bijection, Injection, Surjection, IsInjective
  <2>3. ExistsBijection(1..Len(order), K)
    BY <2>2 DEF ExistsBijection
  <2> QED BY <1>1, <2>3, FS_CountingElements
<1>4. Cardinality(K) = Len(actions)
  <2>1. ids \in [1..Len(actions) -> K]
    BY <1>1
  <2>2. ids \in Bijection(1..Len(actions), K)
    BY <1>1, <2>1 DEF Bijection, Injection, Surjection, IsInjective, Order!Unique
  <2>3. ExistsBijection(1..Len(actions), K)
    BY <2>2 DEF ExistsBijection
  <2> QED BY <1>1, <2>3, FS_CountingElements
<1> QED BY <1>2, <1>3, <1>4 DEF K

LEMMA SearchIsRight == ASSUME SearchInv PROVE OrderIsRight
<1>1. ended \in {"no", "ordered", "duplicate", "unknown", "cycle"}
  BY DEF SearchInv, DocumentTypes, Order!Outcome
<1>2. CASE ended = "ordered"
  <2>1. /\ Order!Done = Order!Known(actions) /\ Order!Done = {order[i] : i \in 1..Len(order)}
        /\ \A i \in 1..Len(order) : \A d \in Order!Below(actions, order[i]) : \E j \in 1..(i - 1) : order[j] = d
        /\ Len(order) \in Nat /\ Len(order) = Len(actions) /\ Order!Unique(actions)
    BY <1>2, FinishedSearch, OrderIsAsLong DEF SearchInv, EndFits
  <2>2. ASSUME NEW id \in Order!Known(actions), NEW d \in Order!Below(actions, id)
        PROVE  d \in Order!Known(actions) /\ d # id /\ Order!Index(d) < Order!Index(id)
    <3>1. PICK i \in 1..Len(order) : order[i] = id
      BY <2>1
    <3>2. PICK j \in 1..(i - 1) : order[j] = d
      BY <2>1, <2>2, <3>1
    <3>3. j \in 1..Len(order) /\ j < i
      BY <2>1
    <3> QED BY <2>1, <3>1, <3>2, <3>3, IndexIs
  <2>3. Order!Closed(actions) /\ Order!Acyclic(actions)
    BY <2>2, BelowIsClosed DEF Order!Closed, Order!Acyclic
  <2>4. ASSUME NEW k \in 1..Len(actions), NEW i \in 1..Order!Index(actions[k].id)
        PROVE  order[i] \in Order!Reached(actions, Order!Listed(k))
    <3>0. actions[k].id \in Order!Known(actions)
      BY DEF Order!Known
    <3>1. PICK m \in 1..Len(order) : order[m] = actions[k].id
      BY <2>1, <3>0
    <3>2. Order!Index(actions[k].id) = m
      BY <3>1, IndexIs
    <3> QED BY <2>4, <3>1, <3>2 DEF SearchInv, ReachFits
  <2> QED BY <1>2, <2>1, <2>2, <2>3, <2>4
      DEF OrderIsRight, Order!RefusesDefectsOnly, Order!DependenciesComeFirst, Order!ListingOrderIsKept
<1>3. CASE ended # "ordered"
  BY <1>1, <1>3 DEF OrderIsRight, Order!RefusesDefectsOnly, Order!DependenciesComeFirst,
    Order!ListingOrderIsKept, SearchInv, EndFits
<1> QED BY <1>2, <1>3

-----------------------------------------------------------------------------
(***************************************************************************)
(* The composition: a document is ordered, then executed in that order     *)
(***************************************************************************)
(* Until the document is ordered nothing has been executed.                *)
ApplyInv ==
  /\ SearchInv /\ TInv /\ GatePassed
  /\ phase \in {"order", "execute"}
  /\ phase = "order" => Init

LEMMA InitPassesGate == Init => GatePassed
BY DEF Init, GatePassed, Running

(* The order found is one the executor may start with.                     *)
LEMMA BeginStarts ==
  ASSUME ApplyInv, Begin
  PROVE  /\ Init' /\ SearchInv' /\ phase' = "execute"
         /\ phase = "order" /\ row' = row /\ UNCHANGED <<called, completed>>
<1>1. /\ phase = "order" /\ phase' = "execute" /\ ended = "ordered" /\ Order!Known(actions) = Action
      /\ Init /\ SearchInv /\ ordered' = order /\ confirmed' \subseteq plan'.gated
      /\ UNCHANGED <<next, halted, completed, said, called, receipts, ledger, row, pc>>
  BY DEF Begin, ApplyInv, loop, handler, table
<1>2. PICK noop \in SUBSET Action, gated \in SUBSET Action :
        plan' = [deps |-> [a \in Action |-> ToSet(Order!DependsOn(actions, a))], noop |-> noop, gated |-> gated]
  BY DEF Begin
<1>3. ASSUME NEW a \in Action
      PROVE  /\ ToSet(Order!DependsOn(actions, a)) \subseteq Order!Direct(actions, a)
             /\ ToSet(Order!DependsOn(actions, a)) \in SUBSET Action
  <2>1. /\ Order!DependsOn(actions, a) \in Seq(Action)
        /\ \A k \in 1..Len(Order!DependsOn(actions, a)) : Order!DependsOn(actions, a)[k] \in Order!Direct(actions, a)
    BY <1>1, DirectIs DEF SearchInv, DocumentTypes, EndFits
  <2>2. DOMAIN Order!DependsOn(actions, a) = 1..Len(Order!DependsOn(actions, a))
    BY <2>1, LenProperties
  <2>3. ToSet(Order!DependsOn(actions, a)) \subseteq Order!Direct(actions, a)
    BY <2>1, <2>2 DEF ToSet
  <2> QED BY <2>3 DEF Order!Direct
<1>4. plan' \in Plan /\ plan'.deps = [a \in Action |-> ToSet(Order!DependsOn(actions, a))]
  BY <1>2, <1>3 DEF Plan
<1>5. order \in Orders /\ Len(order) = Cardinality(Action) /\ Len(order) \in Nat
  BY <1>1, OrderIsAsLong, FinishedSearch DEF Orders
<1>6. {order[i] : i \in 1..Len(order)} = Action
  BY <1>1, FinishedSearch
<1>7. ASSUME NEW a \in Action, NEW d \in plan'.deps[a]
      PROVE  Position(order, d) < Position(order, a)
  <2>1. d \in Order!Direct(actions, a)
    BY <1>3, <1>4, <1>7
  <2>2. PICK i \in 1..Len(order) : order[i] = a
    BY <1>6
  <2>3. PICK j \in 1..(i - 1) : order[j] = d
    BY <1>1, <2>1, <2>2 DEF SearchInv, OrderFits
  <2>4. j \in 1..Len(order) /\ j < i
    BY <1>5
  <2>5. Position(order, d) = j /\ Position(order, a) = i
    BY <1>1, <2>2, <2>3, <2>4 DEF Position, SearchInv, OrderFits
  <2> QED BY <2>4, <2>5
<1>8. DependencyOrder(plan'.deps, order)
  BY <1>5, <1>6, <1>7 DEF DependencyOrder
<1>9. Init'
  BY <1>1, <1>4, <1>5, <1>8 DEF Init
<1>10. SearchInv'
  <2>1. actions' = <<>> /\ begun' = 0 /\ order' = <<>> /\ ended' = "no" /\ calls' = <<>>
    BY <1>1 DEF Begin, SearchInv, EndFits
  <2>2. actions' \in Seq(Listing)
    BY <2>1, EmptySeq
  <2>3. NothingBegun'
    BY <2>1, <2>2 DEF NothingBegun
  <2> QED BY <2>3, EmptySearchFits, PTL
<1> QED BY <1>1, <1>9, <1>10

LEMMA ApplyStarts == ApplyInit => ApplyInv
BY InitSearches, InitTInv, InitPassesGate DEF ApplyInit, ApplyInv

(* A step of the composition searches, begins or executes; what moves      *)
(* beside it leaves it alone.                                              *)
LEMMA ApplyMoves ==
  ASSUME ApplyInv, [MCNext]_<<part, vars, document, phase, commands>>
  PROVE  \/ phase' = phase /\ UNCHANGED vars /\ [Order!Next]_document
         \/ Begin
         \/ phase = "execute" /\ phase' = "execute" /\ UNCHANGED document /\ Next
BY DEF MCNext, ApplyNext, Search

LEMMA ApplyKeeps ==
  ApplyInv /\ [MCNext]_<<part, vars, document, phase, commands>> => ApplyInv'
<1> SUFFICES ASSUME ApplyInv, [MCNext]_<<part, vars, document, phase, commands>> PROVE ApplyInv'
  OBVIOUS
<1>1. CASE phase' = phase /\ UNCHANGED vars /\ [Order!Next]_document
  <2>1. SearchInv'
    BY <1>1, NextSearches DEF ApplyInv
  <2>2. TInv' /\ GatePassed'
    BY <1>1, NextTInv, GateHolds DEF ApplyInv, TInv
  <2>3. Init => Init'
    BY <1>1 DEF vars, input, loop, handler, table, Init
  <2> QED BY <1>1, <2>1, <2>2, <2>3 DEF ApplyInv
<1>2. CASE Begin
  <2>1. Init' /\ SearchInv' /\ phase' = "execute"
    BY <1>2, BeginStarts
  <2>2. Init' => TInv' /\ GatePassed'
    BY InitTInv, InitPassesGate, PTL
  <2> QED BY <2>1, <2>2 DEF ApplyInv
<1>3. CASE phase = "execute" /\ phase' = "execute" /\ UNCHANGED document /\ Next
  <2>1. SearchInv'
    BY <1>3, NextSearches DEF ApplyInv
  <2>2. TInv' /\ GatePassed'
    BY <1>3, NextTInv, GateHolds DEF ApplyInv, TInv
  <2> QED BY <1>3, <2>1, <2>2 DEF ApplyInv
<1> QED BY <1>1, <1>2, <1>3, ApplyMoves

(* The search, the hand-over and the loop keep what the theorems below     *)
(* rest on.                                                                *)
THEOREM ApplyInvariance == MCSpec => []ApplyInv
<1>1. MCInit => ApplyInv
  BY ApplyStarts DEF MCInit
<1> QED BY <1>1, ApplyKeeps, PTL DEF MCSpec

(* Types: positions stay within the plan, receipts and results within what *)
(* the row and the caller can read (execute of converge.executor.ts).      *)
THEOREM TypeCorrect == MCSpec => []TypeOK
<1>1. ApplyInv => TypeOK
  BY DEF ApplyInv, TInv, IInv
<1> QED BY ApplyInvariance, <1>1, PTL

(* orderActions refuses a document exactly for its own defects, names one  *)
(* it has, and otherwise lists every action once, after all it needs, and  *)
(* earlier than the document does only for that: for documents of any      *)
(* length, with any dependencies.                                          *)
THEOREM OrderFound == MCSpec => []OrderIsRight
<1>1. ApplyInv => OrderIsRight
  BY SearchIsRight DEF ApplyInv
<1> QED BY ApplyInvariance, <1>1, PTL

(* Whatever is handed to a handler, every action its document makes it     *)
(* depend on was a noop or has reported plain success.                     *)
THEOREM PrerequisitesHeld == MCSpec => []DependenciesHeld
<1>1. ApplyInv => DependenciesHeld
  BY DEF ApplyInv, TInv, IInv, CalledRest, CompletedSucceeded, DependenciesHeld
<1> QED BY ApplyInvariance, <1>1, PTL

(* However handlers answer and whichever receipt writes throw, a settled   *)
(* row and the report of a returned run say what happened: "succeeded"     *)
(* only of a complete run, a receipt for every handler called, "success"   *)
(* only of those that did, and every action in plan order for the caller.  *)
THEOREM RunsTellTheTruth == MCSpec => []TellsTheTruth
<1>1. ApplyInv => TellsTheTruth
  <2> SUFFICES ASSUME TInv PROVE ReportCoversPlan
    BY DEF ApplyInv, TInv, TellsTheTruth
  <2> QED BY DEF TInv, ReportSoFar, ReportCoversPlan, Reported, Ordered, InOrder, Report
<1> QED BY ApplyInvariance, <1>1, PTL

(* An action is passed over after a stop only: the check of unmet          *)
(* dependencies in the loop never aborts a run by itself.                  *)
THEOREM AbortsFollowStops == MCSpec => [][Abort => halted # {}]_vars
<1>1. ApplyInv /\ [MCNext]_<<part, vars, document, phase, commands>> => [Abort => halted # {}]_vars
  BY NoUnmet DEF Abort, ApplyInv
<1> QED BY ApplyInvariance, <1>1, PTL DEF MCSpec

(* The detailed apply, with the search for its order, its receipts, thrown *)
(* writes and crashes, is a stage-gated apply: nothing is tried before the *)
(* whole plan is confirmed, twice, before what its document makes it       *)
(* depend on, or after anything that did not succeed.                      *)
THEOREM ApplyImplementsStaged == MCSpec => ImplementsStaged
<1>1. MCInit => Staged!Init
  BY DEF MCInit, ApplyInit, Init, Staged!Init, Plan
<1>2. ApplyInv /\ [MCNext]_<<part, vars, document, phase, commands>> => [Staged!Next]_Staged!vars
  <2> SUFFICES ASSUME ApplyInv, [MCNext]_<<part, vars, document, phase, commands>>
               PROVE  [Staged!Next]_Staged!vars
    OBVIOUS
  <2>1. CASE phase' = phase /\ UNCHANGED vars /\ [Order!Next]_document
    BY <2>1 DEF vars, input, loop, handler, table, Staged!vars
  <2>2. CASE Begin
    <3>1. /\ Init' /\ phase = "order" /\ phase' = "execute" /\ row' = row /\ Init
          /\ UNCHANGED <<called, completed>>
      BY <2>2, BeginStarts DEF ApplyInv
    <3>2. plan'.deps \in [Action -> SUBSET Action] /\ row' = "running"
      BY <3>1 DEF Init, Plan
    <3>3. Staged!Review
      BY <3>1, <3>2 DEF Staged!Review
    <3> QED BY <3>3 DEF Staged!Next
  <2>3. CASE phase = "execute" /\ phase' = "execute" /\ UNCHANGED document /\ Next
    BY <2>3, StageStep DEF ApplyInv
  <2> QED BY <2>1, <2>2, <2>3, ApplyMoves
<1> QED BY <1>1, <1>2, ApplyInvariance, PTL DEF MCSpec, ImplementsStaged, Staged!Spec

-----------------------------------------------------------------------------
(* One command at a time, which the other part of MCSpec is about.         *)
SoleProofs == INSTANCE PlanApplyProofs WITH Crashable <- Dying, None <- NoRun

(* What is proved of PlanApply is about the instance that moves here: the  *)
(* two have the same definitions.                                          *)
LEMMA SoleIsPlanApply ==
  /\ Sole!vars = SoleProofs!vars
  /\ Sole!Init <=> SoleProofs!Init
  /\ Sole!Next <=> SoleProofs!Next
  /\ Sole!Calm <=> SoleProofs!Calm
  /\ \A e : Sole!Live(e) = SoleProofs!Live(e)
  /\ \A a : Sole!Reserves(a) <=> SoleProofs!Reserves(a)
BY DEF Sole!store, Sole!world, Sole!vars, Sole!Live, Sole!Fingerprint, Sole!Observations,
       Sole!Final, Sole!NoApply, Sole!Idle, Sole!Init, Sole!In, Sole!Become, Sole!Return,
       Sole!WriteSpec, Sole!DriftHosting, Sole!DriftIntegration, Sole!Expire, Sole!StartDeploy,
       Sole!StartPlan, Sole!PlanObserve, Sole!PlanIntegrations, Sole!Applying, Sole!Persist,
       Sole!PersistPlan, Sole!PersistRepositoryPlan, Sole!StartApply, Sole!ApplyIntegrations,
       Sole!ApplyObserve, Sole!Fresh, Sole!Requested, Sole!Applied, Sole!Conflicting,
       Sole!Admitted, Sole!Reserve, Sole!Reject, Sole!Decline, Sole!Change, Sole!Write,
       Sole!Settle, Sole!ForcedWrite, Sole!ForcedReturn, Sole!Leave, Sole!Throw,
       Sole!Crash, Sole!Outside, Sole!Start,
       Sole!Proceed, Sole!Next, Sole!Reserves, Sole!Calm, SoleProofs!store, SoleProofs!world,
       SoleProofs!vars, SoleProofs!Live, SoleProofs!Fingerprint, SoleProofs!Observations,
       SoleProofs!Final, SoleProofs!NoApply, SoleProofs!Idle, SoleProofs!Init, SoleProofs!In,
       SoleProofs!Become, SoleProofs!Return, SoleProofs!WriteSpec, SoleProofs!DriftHosting,
       SoleProofs!DriftIntegration, SoleProofs!Expire, SoleProofs!StartDeploy,
       SoleProofs!StartPlan, SoleProofs!PlanObserve, SoleProofs!PlanIntegrations,
       SoleProofs!Applying, SoleProofs!Persist, SoleProofs!PersistPlan,
       SoleProofs!PersistRepositoryPlan, SoleProofs!StartApply, SoleProofs!ApplyIntegrations,
       SoleProofs!ApplyObserve, SoleProofs!Fresh, SoleProofs!Requested, SoleProofs!Applied,
       SoleProofs!Conflicting, SoleProofs!Admitted, SoleProofs!Reserve, SoleProofs!Reject,
       SoleProofs!Decline, SoleProofs!Change, SoleProofs!Write, SoleProofs!Settle,
       SoleProofs!ForcedWrite, SoleProofs!ForcedReturn, SoleProofs!Leave, SoleProofs!Throw,
       SoleProofs!Crash, SoleProofs!Outside,
       SoleProofs!Start, SoleProofs!Proceed, SoleProofs!Next, SoleProofs!Reserves,
       SoleProofs!Calm

LEMMA SoleAssumed ==
  /\ SoleProofs!SubsetAssumption /\ SoleProofs!NoneAssumption
  /\ SoleProofs!BoundAssumption /\ SoleProofs!DocAssumption
BY SoleAssumption
DEF Sole!SubsetAssumption, Sole!NoneAssumption, Sole!BoundAssumption, Sole!DocAssumption,
    Sole!PlanDoc, Sole!Fingerprint,
    SoleProofs!SubsetAssumption, SoleProofs!NoneAssumption, SoleProofs!BoundAssumption,
    SoleProofs!DocAssumption, SoleProofs!PlanDoc, SoleProofs!Fingerprint

(* docs/TOOLS.md:11, for one command at a time, which may die anywhere,    *)
(* while others are calm: hv_apply rejects a plan if the spec changed      *)
(* since, or the infrastructure its fingerprints cover                     *)
(* (fingerprintObservedState).                                             *)
THEOREM StaleNeverStarts == MCSpec => StalePlanRejected
<1>1. SoleProofs!Spec /\ [][SoleProofs!Calm]_(SoleProofs!vars) => SoleProofs!StalePlanRejected
  <2>1. PICK k \in Command : Command = {k}
    BY SoleAssumption
  <2> QED BY <2>1, SoleProofs!StaleIsRejected, SoleAssumed DEF SoleProofs!StaleIsRejected
<1>2. MCInit => SoleProofs!Init
  BY SoleIsPlanApply DEF MCInit
<1>3. [MCNext]_<<part, vars, document, phase, commands>> =>
        [SoleProofs!Next]_(SoleProofs!vars) /\ [SoleProofs!Calm]_(SoleProofs!vars)
  <2>1. UNCHANGED commands => UNCHANGED Sole!vars
    BY DEF commands, Sole!vars, Sole!store, Sole!world
  <2>2. UNCHANGED Sole!vars => UNCHANGED SoleProofs!vars
    BY DEF Sole!vars, Sole!store, Sole!world, SoleProofs!vars, SoleProofs!store, SoleProofs!world
  <2> QED BY <2>1, <2>2, SoleIsPlanApply DEF MCNext
<1> DEFINE Latest == \A a \in ApplyRun : SoleProofs!Reserves(a) =>
                        plans[applies'[a].plan].rev = revision
           Known == \A a \in ApplyRun : SoleProofs!Reserves(a) =>
                      LET doc == plans[applies'[a].plan] IN
                      /\ doc.hosting \in {NoRun, Unknown, SoleProofs!Live(doc.env)}
                      /\ doc.integration \in {NoRun, integration[doc.env]}
           SoleLatest == \A a \in ApplyRun : Sole!Reserves(a) =>
                            plans[applies'[a].plan].rev = revision
           SoleKnown == \A a \in ApplyRun : Sole!Reserves(a) =>
                          LET doc == plans[applies'[a].plan] IN
                          /\ doc.hosting \in {NoRun, Unknown, Sole!Live(doc.env)}
                          /\ doc.integration \in {NoRun, integration[doc.env]}
<1>4. /\ [Latest]_(SoleProofs!vars) => [SoleLatest]_(Sole!vars)
      /\ [Known]_(SoleProofs!vars) => [SoleKnown]_(Sole!vars)
  <2>1. UNCHANGED SoleProofs!vars => UNCHANGED Sole!vars
    BY DEF Sole!vars, Sole!store, Sole!world, SoleProofs!vars, SoleProofs!store, SoleProofs!world
  <2> QED BY <2>1, SoleIsPlanApply
<1>5. SoleProofs!StalePlanRejected => [][Latest]_(SoleProofs!vars) /\ [][Known]_(SoleProofs!vars)
  BY PTL DEF SoleProofs!StalePlanRejected, SoleProofs!SupersededPlanRejected,
             SoleProofs!OutdatedPlanRejected
<1>6. [][SoleLatest]_(Sole!vars) /\ [][SoleKnown]_(Sole!vars) => StalePlanRejected
  BY PTL DEF StalePlanRejected, Sole!StalePlanRejected, Sole!SupersededPlanRejected,
             Sole!OutdatedPlanRejected
<1> QED BY <1>1, <1>2, <1>3, <1>4, <1>5, <1>6, PTL DEF MCSpec, SoleProofs!Spec
=============================================================================
