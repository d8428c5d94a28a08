-------------------------- MODULE PlanApplyProofs --------------------------
(***************************************************************************)
(* The lease of PlanApply for every number of commands, environments,      *)
(* plans and apply runs.  IInv is the inductive invariant: types, what a   *)
(* row and a session keep of the plan they were made from, that no two     *)
(* commands execute one row, and the two promises of the run table.        *)
(***************************************************************************)
EXTENDS PlanApply, TLAPS

(* The initial states satisfy the inductive invariant: no row, no session. *)
LEMMA InitIInv == Init => IInv
  BY BoundAssumption, NoneAssumption
  DEF Init, IInv, TypeOK, RowsMatchPlans, SessionsMatchRows, OneCommandPerRow,
      LeaseExclusion, PlanSucceedsOnce, Running, In, Idle, NoApply, ApplyRow, Session,
      Phase, Fingerprint, Record, Final

(* A step that only replaces a session keeps the types.                    *)
LEMMA SessionType ==
  ASSUME TypeOK, NEW c \in Command, NEW s \in Session, Become(c, s),
         UNCHANGED <<store, world, history>>
  PROVE  TypeOK'
  BY DEF Become, TypeOK, store, world

(* Every step keeps the types.                                             *)
LEMMA TypeStep == TypeOK /\ SessionsMatchRows /\ [Next]_vars => TypeOK'
<1> SUFFICES ASSUME TypeOK, SessionsMatchRows, [Next]_vars PROVE TypeOK'
  OBVIOUS
<1> USE SubsetAssumption, BoundAssumption, NoneAssumption
<1>1. CASE UNCHANGED vars
  BY <1>1 DEF vars, store, world, TypeOK
<1>2. CASE Outside
  <2>1. ASSUME NEW e \in Env, DriftHosting(e) PROVE TypeOK'
    BY <2>1 DEF DriftHosting, store, TypeOK
  <2>2. ASSUME NEW e \in Env, DriftIntegration(e) PROVE TypeOK'
    BY <2>2 DEF DriftIntegration, store, TypeOK
  <2>3. ASSUME NEW p \in PlanRun, Expire(p) PROVE TypeOK'
    <3>1. plans[p] \in PlanDoc
      BY <2>3 DEF Expire, TypeOK
    <3>2. [plans[p] EXCEPT !.expired = TRUE] \in PlanDoc
      BY <3>1 DEF PlanDoc
    <3> QED BY <2>3, <3>2 DEF Expire, world, TypeOK
  <2> QED BY <1>2, <2>1, <2>2, <2>3 DEF Outside
<1>3. ASSUME NEW c \in Command, Start(c) \/ Proceed(c) \/ Throw(c) \/ Crash(c) PROVE TypeOK'
  <2> DEFINE s == session[c]
  <2>0. /\ s \in Session /\ Idle \in Session
        /\ s.phase # "idle" => s.env \in Env
    BY DEF TypeOK, SessionsMatchRows, Session, Phase, Idle, Fingerprint
  <2>1. CASE WriteSpec(c)
    BY <2>1 DEF WriteSpec, world, TypeOK
  <2>2. ASSUME NEW e \in Env, StartDeploy(c, e) PROVE TypeOK'
    <3>1. [Idle EXCEPT !.phase = "deploying", !.env = e, !.rev = revision] \in Session
      BY <2>0 DEF Session, Phase, TypeOK
    <3> QED BY <2>2, <3>1 DEF StartDeploy, Become, world, TypeOK
  <2>3. ASSUME NEW e \in Env, StartPlan(c, e) PROVE TypeOK'
    <3>1. [s EXCEPT !.phase = "planning", !.env = e, !.planned = revision] \in Session
      BY <2>0 DEF Session, Phase, TypeOK
    <3> QED BY <2>3, <3>1, SessionType DEF StartPlan
  <2>4. ASSUME NEW p \in PlanRun, StartApply(c, p) PROVE TypeOK'
    <3>1. plans[p].env \in Env
      BY <2>4 DEF StartApply, TypeOK, PlanDoc
    <3>2. [Idle EXCEPT !.phase = Applying(plans[p].env), !.plan = p,
                       !.env = plans[p].env, !.rev = revision] \in Session
      BY <2>0, <3>1 DEF Applying, Session, Phase, TypeOK
    <3> QED BY <2>4, <3>2, SessionType DEF StartApply
  <2>5. CASE PlanObserve(c)
    <3>1. PICK seen \in Fingerprint : Become(c, [s EXCEPT !.hosting = seen,
            !.phase = IF s.env \in Integrated THEN "observed" ELSE "planned"])
      BY <2>5, <2>0 DEF PlanObserve, In, Observations, Live, Fingerprint, TypeOK
    <3>2. [s EXCEPT !.hosting = seen,
             !.phase = IF s.env \in Integrated THEN "observed" ELSE "planned"] \in Session
      BY <2>0 DEF Session, Phase
    <3> QED BY <2>5, <3>1, <3>2, SessionType DEF PlanObserve
  <2>6. CASE PlanIntegrations(c)
    <3>1. PICK seen \in Nat \cup {None} :
            Become(c, [s EXCEPT !.phase = "planned", !.integration = seen])
      BY <2>6, <2>0 DEF PlanIntegrations, In, TypeOK
    <3>2. [s EXCEPT !.phase = "planned", !.integration = seen] \in Session
      BY <2>0 DEF Session, Phase
    <3> QED BY <2>6, <3>1, <3>2, SessionType DEF PlanIntegrations
  <2>7. ASSUME NEW p \in PlanRun, NEW doc \in PlanDoc, Persist(c, p, doc) PROVE TypeOK'
    <3>1. doc.env \in Env /\ s.rev \in Nat
      BY <2>0 DEF PlanDoc, Session
    <3>2. [Idle EXCEPT !.phase = Applying(doc.env), !.plan = p, !.env = doc.env,
                       !.rev = s.rev] \in Session
      BY <2>0, <3>1 DEF Applying, Session, Phase
    <3>3. session' \in [Command -> Session]
      BY <2>0, <2>7, <3>2 DEF Persist, Become, TypeOK
    <3> QED BY <2>7, <3>1, <3>3 DEF Persist, world, TypeOK
  <2>8. ASSUME NEW p \in PlanRun, PersistPlan(c, p) PROVE TypeOK'
    BY <2>0, <2>7, <2>8 DEF PersistPlan, In, TypeOK, Session, PlanDoc
  <2>9. ASSUME NEW p \in PlanRun, PersistRepositoryPlan(c, p) PROVE TypeOK'
    BY <2>0, <2>7, <2>9 DEF PersistRepositoryPlan, In, Session, PlanDoc, Fingerprint
  <2>10. CASE ApplyIntegrations(c)
    <3>1. integration[s.env] \in Nat
      BY <2>0, <2>10 DEF ApplyIntegrations, In, TypeOK
    <3>2. [s EXCEPT !.phase = "integrated", !.integration = integration[s.env]] \in Session
      BY <2>0, <3>1 DEF Session, Phase
    <3> QED BY <2>10, <3>2, SessionType DEF ApplyIntegrations
  <2>11. CASE ApplyObserve(c)
    <3>1. PICK seen \in Fingerprint :
            Become(c, [s EXCEPT !.phase = "reobserved", !.hosting = seen])
      BY <2>11, <2>0 DEF ApplyObserve, In, Observations, Live, Fingerprint, TypeOK
    <3>2. [s EXCEPT !.phase = "reobserved", !.hosting = seen] \in Session
      BY <2>0 DEF Session, Phase
    <3> QED BY <2>11, <3>1, <3>2, SessionType DEF ApplyObserve
  <2>12. ASSUME NEW a \in ApplyRun, Reserve(c, a) PROVE TypeOK'
    <3>1. s.plan \in PlanRun /\ plans[s.plan] \in PlanDoc
      BY <2>12 DEF Reserve, In, SessionsMatchRows, TypeOK
    <3>2. applies' \in [ApplyRun -> ApplyRow]
      BY <2>12, <3>1 DEF Reserve, Requested, TypeOK, ApplyRow, PlanDoc
    <3>3. [Idle EXCEPT !.phase = "executing", !.plan = s.plan,
                       !.env = plans[s.plan].env, !.run = a] \in Session
      BY <2>0, <3>1 DEF Session, Phase, PlanDoc
    <3>4. [history[a] EXCEPT !.seen = s.hosting] \in Record
      BY <2>0 DEF TypeOK, Record, Session
    <3> QED BY <2>12, <3>2, <3>3, <3>4 DEF Reserve, Become, world, TypeOK
  <2>13. CASE Return(c) /\ UNCHANGED <<store, world, history>>
    BY <2>0, <2>13, SessionType DEF Return
  <2>18. CASE Return(c) /\ Leave(c) /\ UNCHANGED <<store, world>>
    <3>1. In(c, "executing") => s.run \in ApplyRun
      BY DEF In, SessionsMatchRows
    <3>2. history' \in [ApplyRun -> Record]
      BY <2>18, <3>1 DEF Leave, TypeOK, Record
    <3> QED BY <2>0, <2>18, <3>2 DEF Return, Become, store, world, TypeOK
  <2>14. ASSUME NEW e \in Env, Change(e), history' \in [ApplyRun -> Record] PROVE TypeOK'
    BY <2>14 DEF Change, store, TypeOK
  <2>15. ASSUME NEW e \in Env, Write(c, e) PROVE TypeOK'
    <3>1. s.run \in ApplyRun
      BY <2>15 DEF Write, In, SessionsMatchRows
    <3>2. [history[s.run] EXCEPT !.began = writes[e]] \in Record
      BY <3>1 DEF TypeOK, Record
    <3> QED BY <2>14, <2>15, <3>1, <3>2 DEF Write, TypeOK
  <2>16. ASSUME NEW status \in Final, Settle(c, status) PROVE TypeOK'
    <3>1. s.run \in ApplyRun /\ s.env \in Env
      BY <2>0, <2>16 DEF Settle, In, SessionsMatchRows
    <3>2. [applies[s.run] EXCEPT !.status = status] \in ApplyRow
      BY <3>1 DEF TypeOK, ApplyRow
    <3>3. [Idle EXCEPT !.phase = "forcing", !.env = s.env] \in Session
      BY <2>0, <3>1 DEF Session, Phase
    <3> QED BY <2>0, <2>16, <3>1, <3>2, <3>3 DEF Settle, Become, world, TypeOK
  <2>17. CASE ForcedWrite(c)
    BY <2>0, <2>14, <2>17 DEF ForcedWrite, In, TypeOK
  <2> QED BY <1>3, <2>1, <2>2, <2>3, <2>4, <2>5, <2>6, <2>8, <2>9, <2>10, <2>11, <2>12,
             <2>13, <2>15, <2>16, <2>17, <2>18
          DEF Start, Proceed, Throw, Crash, Reject, Decline, ForcedReturn
<1> QED BY <1>1, <1>2, <1>3 DEF Next

-----------------------------------------------------------------------------
(* What most steps leave of the tables: the rows, the plans already there  *)
(* but for their age, and the commands that hold a row.                    *)
PlansKept ==
  \A p \in PlanRun : plans[p] # None =>
    plans'[p] # None /\ plans'[p].env = plans[p].env /\ plans'[p].locks = plans[p].locks

Quiet ==
  /\ applies' = applies
  /\ PlansKept
  /\ \A c \in Command : session'[c].phase = "executing" => session'[c] = session[c]

(* Only a reservation and the end of an apply are not quiet.               *)
LEMMA StepShape ==
  ASSUME TypeOK, SessionsMatchRows, [Next]_vars
  PROVE  \/ Quiet
         \/ \E c \in Command, a \in ApplyRun : Reserve(c, a)
         \/ \E c \in Command, status \in Final : Settle(c, status)
<1> USE DocAssumption
<1>1. CASE UNCHANGED vars
  BY <1>1 DEF vars, store, Quiet, PlansKept
<1>2. CASE Outside
  <2>1. ASSUME NEW p \in PlanRun, Expire(p) PROVE Quiet
    <3>1. /\ plans[p] \in PlanDoc
          /\ plans' = [plans EXCEPT ![p] = [plans[p] EXCEPT !.expired = TRUE]]
      BY <2>1 DEF Expire, TypeOK
    <3>2. /\ [plans[p] EXCEPT !.expired = TRUE] \in PlanDoc
          /\ [plans[p] EXCEPT !.expired = TRUE].env = plans[p].env
          /\ [plans[p] EXCEPT !.expired = TRUE].locks = plans[p].locks
      BY <3>1 DEF PlanDoc
    <3>3. PlansKept
      BY <3>1, <3>2 DEF PlansKept, TypeOK
    <3> QED BY <2>1, <3>3 DEF Expire, Quiet
  <2> QED BY <1>2, <2>1 DEF Outside, DriftHosting, DriftIntegration, store, Quiet, PlansKept
<1>3. ASSUME NEW c \in Command, Start(c) \/ Proceed(c) \/ Throw(c) \/ Crash(c)
      PROVE  \/ Quiet
             \/ \E a \in ApplyRun : Reserve(c, a)
             \/ \E status \in Final : Settle(c, status)
  <2>1. ASSUME NEW s, Become(c, s), s.phase # "executing", applies' = applies, PlansKept
        PROVE  Quiet
    BY <2>1 DEF Become, Quiet, TypeOK
  <2>2. ASSUME applies' = applies, plans' = plans, session' = session PROVE Quiet
    BY <2>2 DEF Quiet, PlansKept
  <2>3. ASSUME plans' = plans PROVE PlansKept
    BY <2>3 DEF PlansKept
  <2>4. session[c] \in Session /\ Idle \in Session /\ Idle.phase = "idle"
    BY DEF TypeOK, Session, Phase, Idle, Fingerprint
  <2>5. CASE WriteSpec(c) \/ ForcedWrite(c) \/ \E e \in Env : Write(c, e)
    BY <2>2, <2>5 DEF WriteSpec, ForcedWrite, Write, Change, store
  <2>6. ASSUME NEW e \in Env, StartDeploy(c, e) PROVE Quiet
    BY <2>1, <2>3, <2>4, <2>6 DEF StartDeploy, Session
  <2>7. ASSUME NEW e \in Env, StartPlan(c, e) PROVE Quiet
    BY <2>1, <2>3, <2>4, <2>7 DEF StartPlan, Session, store
  <2>8. ASSUME NEW p \in PlanRun, StartApply(c, p) PROVE Quiet
    BY <2>1, <2>3, <2>4, <2>8 DEF StartApply, Applying, Session, store
  <2>9. CASE PlanObserve(c)
    BY <2>1, <2>3, <2>4, <2>9 DEF PlanObserve, Session, store
  <2>10. CASE PlanIntegrations(c) \/ ApplyIntegrations(c) \/ ApplyObserve(c)
    BY <2>1, <2>3, <2>4, <2>10
    DEF PlanIntegrations, ApplyIntegrations, ApplyObserve, Session, store
  <2>11. ASSUME NEW p \in PlanRun, NEW doc \in PlanDoc, Persist(c, p, doc) PROVE Quiet
    <3>1. PlansKept
      BY <2>11 DEF Persist, PlansKept, TypeOK
    <3> QED BY <2>1, <2>4, <2>11, <3>1 DEF Persist, Applying, Session
  <2>12. ASSUME NEW p \in PlanRun, PersistPlan(c, p) \/ PersistRepositoryPlan(c, p)
         PROVE  Quiet
    BY <2>4, <2>11, <2>12
    DEF PersistPlan, PersistRepositoryPlan, In, SessionsMatchRows, TypeOK, Session, PlanDoc,
        Fingerprint
  <2>13. CASE Return(c) /\ UNCHANGED <<store, world>>
    BY <2>1, <2>3, <2>4, <2>13 DEF Return, store
  <2> QED BY <1>3, <2>5, <2>6, <2>7, <2>8, <2>9, <2>10, <2>12, <2>13
          DEF Start, Proceed, Throw, Crash, Reject, Decline, ForcedReturn
<1> QED BY <1>1, <1>2, <1>3 DEF Next

(* What a reservation inserts, and that it locks what its plan asks for.   *)
LEMMA Reserved ==
  ASSUME TypeOK, SessionsMatchRows, NEW c \in Command, NEW a \in ApplyRun, Reserve(c, a)
  PROVE  LET p == session[c].plan IN
         /\ p \in PlanRun /\ plans[p] # None /\ plans[p] \in PlanDoc
         /\ plans[p].env \in Requested(p) /\ Requested(p) \subseteq Env
         /\ applies[a].status = "none"
         /\ applies'[a].status = "running" /\ applies'[a].plan = p
         /\ applies'[a].env = plans[p].env /\ applies'[a].locks = Requested(p)
         /\ \A b \in ApplyRun \ {a} : applies'[b] = applies[b]
         /\ session'[c].phase = "executing" /\ session'[c].plan = p
         /\ session'[c].env = plans[p].env /\ session'[c].run = a
         /\ \A d \in Command \ {c} : session'[d] = session[d]
         /\ plans' = plans
         /\ ~Applied(p) /\ ~Conflicting(p)
<1>1. session[c].plan \in PlanRun /\ plans[session[c].plan] # None
  BY DEF Reserve, In, SessionsMatchRows
<1>2. plans[session[c].plan] \in PlanDoc
  BY <1>1 DEF TypeOK
<1> DEFINE p == session[c].plan
           s == [Idle EXCEPT !.phase = "executing", !.plan = p, !.env = plans[p].env, !.run = a]
<1>3. session' = [session EXCEPT ![c] = s] /\ s.phase = "executing" /\ s.plan = p
      /\ s.env = plans[p].env /\ s.run = a
  BY DEF Reserve, Become, Idle
<1>4. /\ session'[c] = s
      /\ \A d \in Command \ {c} : session'[d] = session[d]
  BY <1>3 DEF TypeOK
<1>5. /\ applies'[a].status = "running" /\ applies'[a].plan = p
      /\ applies'[a].env = plans[p].env /\ applies'[a].locks = Requested(p)
      /\ \A b \in ApplyRun \ {a} : applies'[b] = applies[b]
  BY DEF Reserve, TypeOK
<1>6. /\ plans[p].env \in Requested(p) /\ Requested(p) \subseteq Env
      /\ applies[a].status = "none" /\ plans' = plans
      /\ ~Applied(p) /\ ~Conflicting(p)
  BY <1>2 DEF Reserve, Admitted, Requested, PlanDoc
<1> HIDE DEF s
<1> QED BY <1>1, <1>2, <1>3, <1>4, <1>5, <1>6

(* What the end of an apply leaves: one row changes its status only, and   *)
(* its command holds no row any more.                                      *)
LEMMA Settled ==
  ASSUME TypeOK, SessionsMatchRows, NEW c \in Command, NEW status \in Final,
         Settle(c, status)
  PROVE  LET a == session[c].run IN
         /\ a \in ApplyRun /\ Running(a)
         /\ \A b \in ApplyRun \ {a} : applies'[b] = applies[b]
         /\ applies'[a].status = status /\ applies'[a].plan = applies[a].plan
         /\ applies'[a].env = applies[a].env /\ applies'[a].locks = applies[a].locks
         /\ \A d \in Command \ {c} : session'[d] = session[d]
         /\ session'[c].phase \in {"idle", "forcing"}
         /\ session'[c].phase = "forcing" => session'[c].env = session[c].env /\ c \in Deployer
         /\ plans' = plans
<1> DEFINE a == session[c].run
<1>1. a \in ApplyRun /\ Running(a)
  BY DEF Settle, In, SessionsMatchRows
<1>2. applies[a] \in ApplyRow /\ applies' = [applies EXCEPT ![a] = [applies[a] EXCEPT !.status = status]]
  BY <1>1 DEF Settle, TypeOK
<1>3. /\ [applies[a] EXCEPT !.status = status].status = status
      /\ [applies[a] EXCEPT !.status = status].plan = applies[a].plan
      /\ [applies[a] EXCEPT !.status = status].env = applies[a].env
      /\ [applies[a] EXCEPT !.status = status].locks = applies[a].locks
  BY <1>2 DEF ApplyRow
<1>4. /\ [Idle EXCEPT !.phase = "forcing", !.env = session[c].env].phase = "forcing"
      /\ [Idle EXCEPT !.phase = "forcing", !.env = session[c].env].env = session[c].env
      /\ Idle.phase = "idle"
  BY DEF Idle
<1> QED BY <1>1, <1>2, <1>3, <1>4 DEF Settle, Become, TypeOK

(* A row keeps the plan and the lease it was inserted with, and no plan it *)
(* names is ever replaced.                                                 *)
LEMMA RowsStep == IInv /\ [Next]_vars => RowsMatchPlans'
<1> SUFFICES ASSUME IInv, [Next]_vars PROVE RowsMatchPlans'
  OBVIOUS
<1> USE DEF IInv
<1>1. CASE Quiet
  BY <1>1, DocAssumption DEF Quiet, PlansKept, RowsMatchPlans, Requested
<1>2. ASSUME NEW c \in Command, NEW a \in ApplyRun, Reserve(c, a) PROVE RowsMatchPlans'
  <2> DEFINE p == session[c].plan
  <2>1. /\ p \in PlanRun /\ plans[p] # None /\ plans' = plans
        /\ applies'[a].status = "running" /\ applies'[a].plan = p
        /\ applies'[a].env = plans[p].env /\ applies'[a].locks = Requested(p)
        /\ \A b \in ApplyRun \ {a} : applies'[b] = applies[b]
    BY <1>2, Reserved
  <2> QED BY <2>1 DEF RowsMatchPlans, Requested
<1>3. ASSUME NEW c \in Command, NEW status \in Final, Settle(c, status)
      PROVE  RowsMatchPlans'
  BY <1>3, Settled DEF RowsMatchPlans, Requested, TypeOK, Running, Final
<1> QED BY <1>1, <1>2, <1>3, StepShape

(* Two commands never execute one row: a row is reserved only from "none", *)
(* and the row of an executing command is running.                         *)
LEMMA OwnersStep == IInv /\ [Next]_vars => OneCommandPerRow'
<1> SUFFICES ASSUME IInv, [Next]_vars PROVE OneCommandPerRow'
  OBVIOUS
<1> USE DEF IInv
<1>1. CASE Quiet
  BY <1>1 DEF Quiet, OneCommandPerRow, In
<1>2. ASSUME NEW c \in Command, NEW a \in ApplyRun, Reserve(c, a) PROVE OneCommandPerRow'
  <2>1. session'[c].run = a
    BY <1>2, Reserved
  <2>2. \A d \in Command \ {c} : session'[d] = session[d]
    BY <1>2, Reserved
  <2>3. \A d \in Command : In(d, "executing") => session[d].run # a
    BY <1>2, Reserved DEF SessionsMatchRows, In, Running
  <2> QED BY <2>1, <2>2, <2>3 DEF OneCommandPerRow, In
<1>3. ASSUME NEW c \in Command, NEW status \in Final, Settle(c, status)
      PROVE  OneCommandPerRow'
  BY <1>3, Settled DEF OneCommandPerRow, In
<1> QED BY <1>1, <1>2, <1>3, StepShape

(* A reservation conflicts with every running row that shares one of its   *)
(* environments, so leases stay disjoint.                                  *)
LEMMA LeaseStep == IInv /\ [Next]_vars => LeaseExclusion'
<1> SUFFICES ASSUME IInv, [Next]_vars PROVE LeaseExclusion'
  OBVIOUS
<1> USE DEF IInv
<1>1. CASE Quiet
  BY <1>1 DEF Quiet, LeaseExclusion, Running
<1>2. ASSUME NEW c \in Command, NEW a \in ApplyRun, Reserve(c, a) PROVE LeaseExclusion'
  <2> DEFINE p == session[c].plan
  <2>1. \A b \in ApplyRun : Running(b) => applies[b].locks \cap Requested(p) = {}
    BY <1>2, Reserved DEF Conflicting, Running
  <2>2. applies'[a].locks = Requested(p) /\ \A b \in ApplyRun \ {a} : applies'[b] = applies[b]
    BY <1>2, Reserved
  <2> QED BY <2>1, <2>2 DEF LeaseExclusion, Running
<1>3. ASSUME NEW c \in Command, NEW status \in Final, Settle(c, status)
      PROVE  LeaseExclusion'
  BY <1>3, Settled DEF LeaseExclusion, Running, Final
<1> QED BY <1>1, <1>2, <1>3, StepShape

(* Two rows of one plan never run together, because both lock the plan's   *)
(* environment; so the row that succeeds finds no other one running.       *)
LEMMA SuccessStep == IInv /\ [Next]_vars => PlanSucceedsOnce'
<1> SUFFICES ASSUME IInv, [Next]_vars PROVE PlanSucceedsOnce'
  OBVIOUS
<1> USE DEF IInv
<1>1. CASE Quiet
  BY <1>1 DEF Quiet, PlanSucceedsOnce
<1>2. ASSUME NEW c \in Command, NEW a \in ApplyRun, Reserve(c, a) PROVE PlanSucceedsOnce'
  <2> DEFINE p == session[c].plan
  <2>1. \A b \in ApplyRun : applies[b].status = "succeeded" => applies[b].plan # p
    BY <1>2, Reserved DEF Applied
  <2>2. /\ applies'[a].plan = p /\ applies'[a].status = "running"
        /\ \A b \in ApplyRun \ {a} : applies'[b] = applies[b]
    BY <1>2, Reserved
  <2> QED BY <2>1, <2>2 DEF PlanSucceedsOnce
<1>3. ASSUME NEW c \in Command, NEW status \in Final, Settle(c, status)
      PROVE  PlanSucceedsOnce'
  <2> DEFINE a == session[c].run
  <2>1. a \in ApplyRun /\ Running(a)
    BY <1>3, Settled
  <2>2. ASSUME NEW b \in ApplyRun, b # a, Running(b) PROVE applies[b].plan # applies[a].plan
    <3>1. applies[b].locks \cap applies[a].locks = {}
      BY <2>1, <2>2 DEF LeaseExclusion
    <3>2. /\ applies[a].locks = Requested(applies[a].plan)
          /\ applies[b].locks = Requested(applies[b].plan)
      BY <2>1, <2>2 DEF RowsMatchPlans, Running
    <3> QED BY <3>1, <3>2 DEF Requested
  <2>3. /\ \A b \in ApplyRun \ {a} : applies'[b] = applies[b]
        /\ applies'[a].status \in Final /\ applies'[a].plan = applies[a].plan
    BY <1>3, Settled
  <2> QED BY <2>1, <2>2, <2>3 DEF PlanSucceedsOnce, Running, Final
<1> QED BY <1>1, <1>2, <1>3, StepShape

(* A session that goes on to apply names an existing plan, and one that    *)
(* executes names a running row of that plan.                              *)
LEMMA SessionsStep == IInv /\ [Next]_vars => SessionsMatchRows'
<1> SUFFICES ASSUME IInv, [Next]_vars PROVE SessionsMatchRows'
  OBVIOUS
<1> USE DEF IInv
<1>1. ASSUME NEW c \in Command, NEW a \in ApplyRun, Reserve(c, a)
      PROVE  SessionsMatchRows'
  <2> DEFINE p == session[c].plan
  <2>1. /\ p \in PlanRun /\ plans' = plans /\ plans[p].env \in Env
        /\ applies[a].status = "none"
        /\ applies'[a].status = "running" /\ applies'[a].plan = p
        /\ \A b \in ApplyRun \ {a} : applies'[b] = applies[b]
        /\ session'[c].phase = "executing" /\ session'[c].plan = p
        /\ session'[c].env = plans[p].env /\ session'[c].run = a
        /\ \A d \in Command \ {c} : session'[d] = session[d]
    BY <1>1, Reserved
  <2>2. \A d \in Command : In(d, "executing") => session[d].run # a
    BY <2>1 DEF SessionsMatchRows, In, Running
  <2> QED BY <2>1, <2>2 DEF SessionsMatchRows, In, Running
<1>2. ASSUME NEW c \in Command, NEW status \in Final, Settle(c, status)
      PROVE  SessionsMatchRows'
  <2> DEFINE a == session[c].run
  <2>1. /\ session'[c].phase \in {"idle", "forcing"} /\ plans' = plans
        /\ session'[c].phase = "forcing" => session'[c].env = session[c].env /\ c \in Deployer
        /\ \A d \in Command \ {c} : session'[d] = session[d]
        /\ \A b \in ApplyRun \ {a} : applies'[b] = applies[b]
    BY <1>2, Settled
  <2>2. In(c, "executing") /\ session[c].env \in Env
    BY <1>2 DEF Settle, SessionsMatchRows, In
  <2>3. \A d \in Command \ {c} : In(d, "executing") => session[d].run # a
    BY <2>2 DEF OneCommandPerRow
  <2> QED BY <2>1, <2>2, <2>3 DEF SessionsMatchRows, In, Running
<1>3. CASE Quiet
  <2>1. ASSUME NEW c \in Command, NEW s, Become(c, s),
               s.phase \notin {"executing", "forcing"},
               s.phase # "idle" => s.env \in Env,
               s.phase \in {"applying", "integrated", "reobserved"} =>
                 s.plan \in PlanRun /\ plans'[s.plan] # None
        PROVE  SessionsMatchRows'
    <3>1. session'[c] = s /\ \A d \in Command \ {c} : session'[d] = session[d]
      BY <2>1 DEF Become, TypeOK
    <3> QED BY <1>3, <2>1, <3>1 DEF SessionsMatchRows, Quiet, PlansKept, Running
  <2>2. CASE session' = session
    BY <1>3, <2>2 DEF SessionsMatchRows, Quiet, PlansKept, Running
  <2>3. CASE Outside
    BY <2>2, <2>3 DEF Outside, DriftHosting, DriftIntegration, Expire
  <2>4. ASSUME NEW c \in Command, Start(c) \/ Proceed(c) \/ Throw(c) \/ Crash(c)
        PROVE  SessionsMatchRows'
    <3> DEFINE s == session[c]
    <3>1. /\ s \in Session /\ Idle \in Session /\ Idle.phase = "idle"
          /\ s.phase # "idle" => s.env \in Env
          /\ s.phase \in {"applying", "integrated", "reobserved"} =>
               s.plan \in PlanRun /\ plans[s.plan] # None
      BY DEF TypeOK, Session, Phase, Idle, Fingerprint, SessionsMatchRows
    <3>2. CASE WriteSpec(c) \/ ForcedWrite(c) \/ \E e \in Env : Write(c, e)
      BY <2>2, <3>2 DEF WriteSpec, ForcedWrite, Write, Change
    <3>3. ASSUME NEW e \in Env, StartDeploy(c, e) PROVE SessionsMatchRows'
      BY <2>1, <3>1, <3>3 DEF StartDeploy, Session
    <3>4. ASSUME NEW e \in Env, StartPlan(c, e) PROVE SessionsMatchRows'
      BY <2>1, <3>1, <3>4 DEF StartPlan, Session
    <3>5. ASSUME NEW p \in PlanRun, StartApply(c, p) PROVE SessionsMatchRows'
      <4>1. plans[p].env \in Env /\ plans' = plans
        BY <3>5 DEF StartApply, TypeOK, PlanDoc, store
      <4> QED BY <2>1, <3>1, <3>5, <4>1 DEF StartApply, Applying, Session
    <3>6. CASE PlanObserve(c)
      BY <2>1, <3>1, <3>6 DEF PlanObserve, In, Session
    <3>7. CASE PlanIntegrations(c)
      BY <2>1, <3>1, <3>7 DEF PlanIntegrations, In, Session
    <3>8. ASSUME NEW p \in PlanRun, NEW doc \in PlanDoc, Persist(c, p, doc)
          PROVE  SessionsMatchRows'
      <4>1. doc.env \in Env /\ plans'[p] # None
        BY <3>8, DocAssumption DEF Persist, PlanDoc, TypeOK
      <4> QED BY <2>1, <3>1, <3>8, <4>1 DEF Persist, Applying, Session
    <3>9. ASSUME NEW p \in PlanRun, PersistPlan(c, p) \/ PersistRepositoryPlan(c, p)
          PROVE  SessionsMatchRows'
      BY <3>1, <3>8, <3>9
      DEF PersistPlan, PersistRepositoryPlan, In, TypeOK, Session, PlanDoc, Fingerprint
    <3>10. CASE ApplyIntegrations(c) \/ ApplyObserve(c)
      BY <2>1, <3>1, <3>10 DEF ApplyIntegrations, ApplyObserve, In, Session, store
    <3>11. CASE Return(c)
      BY <2>1, <3>1, <3>11 DEF Return
    <3> QED BY <1>1, <1>2, <2>4, <3>2, <3>3, <3>4, <3>5, <3>6, <3>7, <3>9, <3>10, <3>11
            DEF Start, Proceed, Throw, Crash, Reject, Decline, ForcedReturn
  <2> QED BY <2>2, <2>3, <2>4 DEF Next, vars
<1> QED BY <1>1, <1>2, <1>3, StepShape

-----------------------------------------------------------------------------
(* IInv holds in every reachable state: the run table and what commands    *)
(* remember of it agree at every interleaving and after every crash.       *)
THEOREM Invariance == Spec => []IInv
<1>1. IInv /\ [Next]_vars => IInv'
  BY TypeStep, RowsStep, SessionsStep, OwnersStep, LeaseStep, SuccessStep DEF IInv
<1> QED BY InitIInv, <1>1, PTL DEF Spec

(* reserveApply keeps the environments of running applies disjoint, for    *)
(* any number of commands, environments, plans and crashes.                *)
THEOREM Exclusion == Spec => []LeaseExclusion
<1>1. IInv => LeaseExclusion
  BY DEF IInv
<1> QED BY Invariance, <1>1, PTL

(* updateStatus never meets the unique index over succeeded plans: a plan  *)
(* succeeds once, and nothing still runs it when it has succeeded.         *)
THEOREM SucceedsOnce == Spec => []PlanSucceedsOnce
<1>1. IInv => PlanSucceedsOnce
  BY DEF IInv
<1> QED BY Invariance, <1>1, PTL

(* Every variable keeps its type.                                          *)
THEOREM Typed == Spec => []TypeOK
<1>1. IInv => TypeOK
  BY DEF IInv
<1> QED BY Invariance, <1>1, PTL

(* A row is written by the command that executes it, once, at its end.     *)
THEOREM SettledOnce == Spec => RowsAreSettledOnce
<1>1. IInv /\ [Next]_vars => RowsKept
  <2> SUFFICES ASSUME IInv, [Next]_vars PROVE RowsKept
    OBVIOUS
  <2> USE DEF IInv
  <2>1. CASE Quiet
    BY <2>1 DEF Quiet, RowsKept
  <2>2. ASSUME NEW c \in Command, NEW a \in ApplyRun, Reserve(c, a) PROVE RowsKept
    BY <2>2, Reserved DEF RowsKept
  <2>3. ASSUME NEW c \in Command, NEW status \in Final, Settle(c, status) PROVE RowsKept
    <3> DEFINE a == session[c].run
    <3>1. /\ a \in ApplyRun /\ Running(a)
          /\ \A b \in ApplyRun \ {a} : applies'[b] = applies[b]
      BY <2>3, Settled DEF Settle
    <3>2. applies'[a] = [applies[a] EXCEPT !.status = status] /\ applies[a] \in ApplyRow
      BY <2>3, <3>1 DEF Settle, TypeOK
    <3>3. [applies'[a] EXCEPT !.status = ""] = [applies[a] EXCEPT !.status = ""]
      BY <3>2 DEF ApplyRow
    <3> QED BY <2>3, <3>1, <3>3 DEF RowsKept, Settle
  <2> QED BY <2>1, <2>2, <2>3, StepShape
<1> QED BY Invariance, <1>1, PTL DEF Spec, RowsAreSettledOnce

-----------------------------------------------------------------------------
(* What was seen of an environment is not newer than the environment: in a *)
(* session that goes on from it, in a plan, and in the rows of a plan,     *)
(* which were reserved seeing what the plan had seen.                      *)
Known(seen) == seen \notin {None, Unknown}

SessionsSawThePast ==
  \A c \in Command :
    session[c].phase \in {"observed", "planned", "reobserved"} /\ Known(session[c].hosting)
    => session[c].hosting[1] <= writes[session[c].env]

PlansSawThePast ==
  \A p \in PlanRun : plans[p] # None /\ Known(plans[p].hosting)
    => plans[p].hosting[1] <= writes[plans[p].env]

RowsSawTheSame ==
  \A a \in ApplyRun : LET p == applies[a].plan IN
    p # None /\ Known(plans[p].hosting) =>
      /\ history[a].seen = plans[p].hosting
      /\ history[a].began # None => plans[p].hosting[1] <= history[a].began

UnstartedRows == \A a \in ApplyRun : applies[a].plan = None => history[a].began = None

ExecutesItsPlan ==
  \A c \in Command : In(c, "executing") => session[c].env = plans[session[c].plan].env

SightInv ==
  /\ SessionsSawThePast /\ PlansSawThePast /\ RowsSawTheSame /\ UnstartedRows /\ ExecutesItsPlan

(* Only an apply and a forced bootstrap change an environment.             *)
LEMMA Writers ==
  ASSUME [Next]_vars
  PROVE  \/ UNCHANGED <<writes, unseen>>
         \/ \E c \in Command, e \in Env : Write(c, e)
         \/ \E c \in Command : ForcedWrite(c)
<1>1. CASE Outside
  BY <1>1 DEF Outside, DriftHosting, DriftIntegration, Expire, world
<1>2. ASSUME NEW c \in Command, Start(c) \/ Throw(c) \/ Crash(c) PROVE UNCHANGED <<writes, unseen>>
  BY <1>2 DEF Start, WriteSpec, StartDeploy, StartPlan, StartApply, Throw, Crash, world
<1>3. ASSUME NEW c \in Command, Proceed(c)
      PROVE  UNCHANGED <<writes, unseen>> \/ ForcedWrite(c) \/ \E e \in Env : Write(c, e)
  <2>1. ASSUME NEW e \in Env, StartPlan(c, e) PROVE UNCHANGED <<writes, unseen>>
    BY <2>1 DEF StartPlan, world
  <2>2. CASE PlanObserve(c) \/ PlanIntegrations(c) \/ ApplyIntegrations(c) \/ ApplyObserve(c)
    BY <2>2 DEF PlanObserve, PlanIntegrations, ApplyIntegrations, ApplyObserve, world
  <2>3. ASSUME NEW p \in PlanRun, PersistPlan(c, p) \/ PersistRepositoryPlan(c, p)
        PROVE  UNCHANGED <<writes, unseen>>
    BY <2>3 DEF PersistPlan, PersistRepositoryPlan, Persist, world
  <2>4. ASSUME NEW a \in ApplyRun, Reserve(c, a) PROVE UNCHANGED <<writes, unseen>>
    BY <2>4 DEF Reserve, world
  <2>5. CASE Reject(c) \/ Decline(c) \/ ForcedReturn(c)
    BY <2>5 DEF Reject, Decline, ForcedReturn, world
  <2>6. ASSUME NEW status \in Final, Settle(c, status) PROVE UNCHANGED <<writes, unseen>>
    BY <2>6 DEF Settle, world
  <2> QED BY <1>3, <2>1, <2>2, <2>3, <2>4, <2>5, <2>6 DEF Proceed
<1> QED BY <1>1, <1>2, <1>3 DEF Next, vars, world

(* The count of changes of an environment does not fall.                   *)
LEMMA WritesGrow ==
  ASSUME TypeOK, [Next]_vars
  PROVE  \A e \in Env : writes[e] \in Nat /\ writes'[e] \in Nat /\ writes[e] <= writes'[e]
<1>1. ASSUME NEW e \in Env, Change(e)
      PROVE  \A f \in Env : writes[f] \in Nat /\ writes'[f] \in Nat /\ writes[f] <= writes'[f]
  BY <1>1 DEF Change, TypeOK
<1>2. ASSUME NEW c \in Command, ForcedWrite(c), session[c].env \notin Env
      PROVE  UNCHANGED <<writes, unseen>>
  BY <1>2 DEF ForcedWrite, Change, TypeOK
<1>3. ASSUME UNCHANGED <<writes, unseen>>
      PROVE  \A f \in Env : writes[f] \in Nat /\ writes'[f] \in Nat /\ writes[f] <= writes'[f]
  BY <1>3 DEF TypeOK
<1> QED BY <1>1, <1>2, <1>3, Writers DEF Write, ForcedWrite

(* A step that only replaces a session keeps the invariant if the new      *)
(* session has it; it may leave a row running.                             *)
LEMMA SessionSight ==
  ASSUME IInv, SightInv, [Next]_vars, NEW c \in Command, NEW s, Become(c, s),
         plans' = plans, applies' = applies,
         \A a \in ApplyRun : history'[a].seen = history[a].seen /\ history'[a].began = history[a].began,
         s.phase # "executing",
         s.phase \in {"observed", "planned", "reobserved"} /\ Known(s.hosting) =>
           s.env \in Env /\ s.hosting[1] \in Nat /\ s.hosting[1] <= writes[s.env]
  PROVE  SightInv'
<1>1. \A e \in Env : writes[e] \in Nat /\ writes'[e] \in Nat /\ writes[e] <= writes'[e]
  BY WritesGrow DEF IInv
<1>2. session'[c] = s /\ \A d \in Command \ {c} : session'[d] = session[d]
  BY DEF Become, IInv, TypeOK
<1>3. PlansSawThePast'
  <2> SUFFICES ASSUME NEW p \in PlanRun, plans[p] # None, Known(plans[p].hosting)
               PROVE  plans[p].hosting[1] <= writes'[plans[p].env]
    BY DEF PlansSawThePast, Known
  <2>1. plans[p].env \in Env /\ plans[p].hosting[1] \in Nat
    BY DEF IInv, TypeOK, PlanDoc, Fingerprint, Known
  <2>2. plans[p].hosting[1] <= writes[plans[p].env]
    BY DEF SightInv, PlansSawThePast
  <2> QED BY <1>1, <2>1, <2>2
<1>4. SessionsSawThePast'
  <2> SUFFICES ASSUME NEW d \in Command,
                      session'[d].phase \in {"observed", "planned", "reobserved"},
                      Known(session'[d].hosting)
               PROVE  session'[d].hosting[1] <= writes'[session'[d].env]
    BY DEF SessionsSawThePast, Known
  <2>1. CASE d = c
    BY <1>1, <1>2, <2>1
  <2>2. CASE d # c
    <3>1. session'[d] = session[d] /\ session[d].env \in Env
      BY <1>2, <2>2 DEF IInv, SessionsMatchRows
    <3>2. session[d].hosting[1] \in Nat
      BY <3>1 DEF IInv, TypeOK, Session, Fingerprint, Known
    <3>3. session[d].hosting[1] <= writes[session[d].env]
      BY <3>1 DEF SightInv, SessionsSawThePast
    <3> QED BY <1>1, <3>1, <3>2, <3>3
  <2> QED BY <2>1, <2>2
<1>5. RowsSawTheSame' /\ UnstartedRows' /\ ExecutesItsPlan'
  BY <1>2 DEF SightInv, RowsSawTheSame, UnstartedRows, ExecutesItsPlan, In, Known
<1> QED BY <1>3, <1>4, <1>5 DEF SightInv

(* A step that adds a plan seen in a session keeps the invariant.          *)
LEMMA PersistSight ==
  ASSUME IInv, SightInv, [Next]_vars, NEW c \in Command, NEW p \in PlanRun, NEW doc \in PlanDoc,
         Persist(c, p, doc),
         Known(doc.hosting) => doc.hosting[1] \in Nat /\ doc.hosting[1] <= writes[doc.env]
  PROVE  SightInv'
<1>1. \A e \in Env : writes[e] \in Nat /\ writes'[e] = writes[e]
  BY DEF Persist, world, IInv, TypeOK
<1>2. plans' = [plans EXCEPT ![p] = doc] /\ plans[p] = None /\ applies' = applies /\ history' = history
  BY DEF Persist
<1>3. /\ \A d \in Command \ {c} : session'[d] = session[d]
      /\ session'[c].phase \in {"idle", "applying", "integrated"}
  BY DEF Persist, Become, IInv, TypeOK, Applying, Idle
<1>4. PlansSawThePast'
  <2> SUFFICES ASSUME NEW q \in PlanRun, plans'[q] # None, Known(plans'[q].hosting)
               PROVE  plans'[q].hosting[1] <= writes'[plans'[q].env]
    BY DEF PlansSawThePast, Known
  <2>1. CASE q = p
    <3>1. plans'[q] = doc /\ doc.env \in Env
      BY <1>2, <2>1 DEF IInv, TypeOK, PlanDoc
    <3> QED BY <1>1, <3>1
  <2>2. CASE q # p
    <3>1. plans'[q] = plans[q]
      BY <1>2, <2>2 DEF IInv, TypeOK
    <3>2. plans[q].env \in Env /\ plans[q].hosting[1] <= writes[plans[q].env]
      BY <3>1 DEF SightInv, PlansSawThePast, IInv, TypeOK, PlanDoc
    <3> QED BY <1>1, <3>1, <3>2
  <2> QED BY <2>1, <2>2
<1>5. SessionsSawThePast'
  <2> SUFFICES ASSUME NEW d \in Command,
                      session'[d].phase \in {"observed", "planned", "reobserved"},
                      Known(session'[d].hosting)
               PROVE  session'[d].hosting[1] <= writes'[session'[d].env]
    BY DEF SessionsSawThePast, Known
  <2>1. d # c /\ session'[d] = session[d] /\ session[d].env \in Env
    BY <1>3 DEF IInv, SessionsMatchRows
  <2>2. session[d].hosting[1] <= writes[session[d].env]
    BY <2>1 DEF SightInv, SessionsSawThePast
  <2> QED BY <1>1, <2>1, <2>2
<1>6. RowsSawTheSame'
  <2> SUFFICES ASSUME NEW a \in ApplyRun, applies[a].plan # None,
                      Known(plans'[applies[a].plan].hosting)
               PROVE  /\ history[a].seen = plans'[applies[a].plan].hosting
                      /\ history[a].began # None =>
                           plans'[applies[a].plan].hosting[1] <= history[a].began
    BY <1>2 DEF RowsSawTheSame, Known
  <2>1. applies[a].plan \in PlanRun /\ plans[applies[a].plan] # None
    BY DEF IInv, RowsMatchPlans, NoApply
  <2>2. plans'[applies[a].plan] = plans[applies[a].plan]
    BY <1>2, <2>1 DEF IInv, TypeOK
  <2> QED BY <2>1, <2>2 DEF SightInv, RowsSawTheSame
<1>7. ExecutesItsPlan'
  <2> SUFFICES ASSUME NEW d \in Command, session'[d].phase = "executing"
               PROVE  session'[d].env = plans'[session'[d].plan].env
    BY DEF ExecutesItsPlan, In
  <2>1. d # c /\ session'[d] = session[d]
    BY <1>3
  <2>2. /\ session[d].run \in ApplyRun /\ Running(session[d].run)
        /\ applies[session[d].run].plan = session[d].plan
    BY <2>1 DEF IInv, SessionsMatchRows
  <2>3. session[d].plan \in PlanRun /\ plans[session[d].plan] # None
    BY <2>2 DEF IInv, RowsMatchPlans, Running
  <2>4. plans'[session[d].plan] = plans[session[d].plan]
    BY <1>2, <2>3 DEF IInv, TypeOK
  <2> QED BY <2>1, <2>4 DEF SightInv, ExecutesItsPlan, In
<1>8. UnstartedRows'
  BY <1>2 DEF SightInv, UnstartedRows
<1> QED BY <1>4, <1>5, <1>6, <1>7, <1>8 DEF SightInv

(* A step that changes environments, and the history of one apply at most. *)
LEMMA WriteSight ==
  ASSUME IInv, SightInv, [Next]_vars, plans' = plans, applies' = applies, session' = session,
         \A a \in ApplyRun :
           \/ history'[a] = history[a]
           \/ \E e \in Env : /\ history'[a].seen = history[a].seen
                             /\ history'[a].began = writes[e] /\ plans[applies[a].plan].env = e
                             /\ applies[a].plan # None
  PROVE  SightInv'
<1>1. \A e \in Env : writes[e] \in Nat /\ writes'[e] \in Nat /\ writes[e] <= writes'[e]
  BY WritesGrow DEF IInv
<1>2. PlansSawThePast'
  <2> SUFFICES ASSUME NEW p \in PlanRun, plans[p] # None, Known(plans[p].hosting)
               PROVE  plans[p].hosting[1] <= writes'[plans[p].env]
    BY DEF PlansSawThePast, Known
  <2>1. plans[p].env \in Env /\ plans[p].hosting[1] \in Nat
    BY DEF IInv, TypeOK, PlanDoc, Fingerprint, Known
  <2>2. plans[p].hosting[1] <= writes[plans[p].env]
    BY DEF SightInv, PlansSawThePast
  <2> QED BY <1>1, <2>1, <2>2
<1>3. SessionsSawThePast'
  <2> SUFFICES ASSUME NEW d \in Command,
                      session[d].phase \in {"observed", "planned", "reobserved"},
                      Known(session[d].hosting)
               PROVE  session[d].hosting[1] <= writes'[session[d].env]
    BY DEF SessionsSawThePast, Known
  <2>1. session[d].env \in Env /\ session[d].hosting[1] \in Nat
    BY DEF IInv, SessionsMatchRows, TypeOK, Session, Fingerprint, Known
  <2>2. session[d].hosting[1] <= writes[session[d].env]
    BY DEF SightInv, SessionsSawThePast
  <2> QED BY <1>1, <2>1, <2>2
<1>4. RowsSawTheSame'
  <2> SUFFICES ASSUME NEW a \in ApplyRun, applies[a].plan # None,
                      Known(plans[applies[a].plan].hosting)
               PROVE  /\ history'[a].seen = plans[applies[a].plan].hosting
                      /\ history'[a].began # None =>
                           plans[applies[a].plan].hosting[1] <= history'[a].began
    BY DEF RowsSawTheSame, Known
  <2>1. applies[a].plan \in PlanRun /\ plans[applies[a].plan] # None
    BY DEF IInv, RowsMatchPlans, NoApply
  <2>2. plans[applies[a].plan].hosting[1] <= writes[plans[applies[a].plan].env]
    BY <2>1 DEF SightInv, PlansSawThePast
  <2> QED BY <2>2 DEF SightInv, RowsSawTheSame
<1>5. ExecutesItsPlan' /\ UnstartedRows'
  BY DEF SightInv, ExecutesItsPlan, UnstartedRows, In
<1> QED BY <1>2, <1>3, <1>4, <1>5 DEF SightInv

(* The row inserted is of a plan that saw what its command has just seen.  *)
LEMMA ReserveSight ==
  ASSUME IInv, SightInv, [Next]_vars, NEW c \in Command, NEW a \in ApplyRun, Reserve(c, a)
  PROVE  SightInv'
<1> DEFINE p == session[c].plan
<1>1. /\ p \in PlanRun /\ plans[p] # None /\ plans' = plans
      /\ applies'[a].plan = p /\ \A b \in ApplyRun \ {a} : applies'[b] = applies[b]
      /\ session'[c].phase = "executing" /\ session'[c].plan = p /\ session'[c].env = plans[p].env
      /\ \A d \in Command \ {c} : session'[d] = session[d]
  BY Reserved DEF IInv
<1>2. /\ writes' = writes
      /\ history'[a].seen = session[c].hosting /\ history'[a].began = history[a].began
      /\ \A b \in ApplyRun \ {a} : history'[b] = history[b]
  BY DEF Reserve, world, IInv, TypeOK, Record
<1>3. Known(plans[p].hosting) => session[c].hosting = plans[p].hosting
  BY DEF Reserve, Admitted, Fresh, Known
<1>4. history[a].began = None
  BY DEF Reserve, SightInv, UnstartedRows, IInv, RowsMatchPlans, NoApply
<1>5. RowsSawTheSame' /\ UnstartedRows'
  BY <1>1, <1>2, <1>3, <1>4 DEF SightInv, RowsSawTheSame, UnstartedRows, Known
<1>6. PlansSawThePast' /\ SessionsSawThePast' /\ ExecutesItsPlan'
  BY <1>1, <1>2 DEF SightInv, PlansSawThePast, SessionsSawThePast, ExecutesItsPlan, In, Known
<1> QED BY <1>5, <1>6 DEF SightInv

(* Every step keeps what was seen in the past.                             *)
LEMMA SightStep == IInv /\ SightInv /\ [Next]_vars => SightInv'
<1> SUFFICES ASSUME IInv, SightInv, [Next]_vars PROVE SightInv'
  OBVIOUS
<1>1. CASE plans' = plans /\ applies' = applies /\ session' = session /\ history' = history
  BY <1>1, WriteSight
<1>2. ASSUME NEW p \in PlanRun, Expire(p) PROVE SightInv'
  <2>1. plans[p] \in PlanDoc /\ plans[p] # None
    BY <1>2 DEF Expire, IInv, TypeOK
  <2>2. plans' = [plans EXCEPT ![p] = [plans[p] EXCEPT !.expired = TRUE]]
    BY <1>2 DEF Expire
  <2>3. \A q \in PlanRun : /\ plans'[q].hosting = plans[q].hosting /\ plans'[q].env = plans[q].env
                           /\ plans'[q] # None => plans[q] # None
    BY <2>1, <2>2 DEF IInv, TypeOK, PlanDoc
  <2>4. /\ writes' = writes /\ applies' = applies /\ session' = session /\ history' = history
    BY <1>2 DEF Expire, world
  <2>5. PlansSawThePast' /\ SessionsSawThePast'
    BY <2>3, <2>4 DEF SightInv, PlansSawThePast, SessionsSawThePast, Known
  <2>6. RowsSawTheSame' /\ UnstartedRows'
    <3>1. \A a \in ApplyRun : applies[a].plan # None => applies[a].plan \in PlanRun
      BY DEF IInv, RowsMatchPlans, NoApply
    <3> QED BY <2>3, <2>4, <3>1 DEF SightInv, RowsSawTheSame, UnstartedRows, Known
  <2>7. ExecutesItsPlan'
    <3>1. ASSUME NEW d \in Command, In(d, "executing") PROVE session[d].plan \in PlanRun
      <4>1. LET r == session[d].run IN r \in ApplyRun /\ Running(r) /\ applies[r].plan = session[d].plan
        BY <3>1 DEF IInv, SessionsMatchRows, In
      <4> QED BY <4>1 DEF IInv, RowsMatchPlans, Running
    <3> QED BY <2>3, <2>4, <3>1 DEF SightInv, ExecutesItsPlan, In
  <2> QED BY <2>5, <2>6, <2>7 DEF SightInv
<1>3. CASE Outside
  BY <1>1, <1>2, <1>3 DEF Outside, DriftHosting, DriftIntegration, store
<1>4. ASSUME NEW c \in Command, Start(c) \/ Proceed(c) \/ Throw(c) \/ Crash(c) PROVE SightInv'
  <2> DEFINE s == session[c]
  <2>1. /\ s \in Session /\ Idle.phase = "idle"
        /\ s.phase # "idle" => s.env \in Env
        /\ \A e \in Env : writes[e] \in Nat
    BY DEF IInv, TypeOK, SessionsMatchRows, Idle
  <2>2. CASE WriteSpec(c)
    BY <1>1, <2>2 DEF WriteSpec
  <2>3. ASSUME NEW e \in Env, StartDeploy(c, e) PROVE SightInv'
    BY <2>1, <2>3, SessionSight DEF StartDeploy, Idle
  <2>4. ASSUME NEW e \in Env, StartPlan(c, e) PROVE SightInv'
    BY <2>1, <2>4, SessionSight DEF StartPlan, store, Session
  <2>5. ASSUME NEW p \in PlanRun, StartApply(c, p) PROVE SightInv'
    BY <2>1, <2>5, SessionSight DEF StartApply, store, Applying, Idle
  <2>6. CASE PlanObserve(c)
    <3>1. s.env \in Env
      BY <2>1, <2>6 DEF PlanObserve, In
    <3>2. PICK seen \in IF s.env \in tracked THEN Observations(s.env) ELSE {None} :
            Become(c, [s EXCEPT !.hosting = seen,
                        !.phase = IF s.env \in Integrated THEN "observed" ELSE "planned"])
      BY <2>6 DEF PlanObserve
    <3>3. Known(seen) => seen = <<writes[s.env], drift[s.env]>>
      BY DEF Observations, Live, Known
    <3>4. Known(seen) => seen[1] = writes[s.env]
      BY <3>3
    <3> DEFINE t == [s EXCEPT !.hosting = seen,
                       !.phase = IF s.env \in Integrated THEN "observed" ELSE "planned"]
    <3>5. t.phase # "executing" /\ t.env = s.env /\ t.hosting = seen
      BY <2>1 DEF Session
    <3>6. Become(c, t) /\ UNCHANGED <<plans, applies, history>>
      BY <2>6, <3>2 DEF PlanObserve, store
    <3> HIDE DEF t
    <3> QED BY <2>1, <3>1, <3>4, <3>5, <3>6, SessionSight
  <2>7. CASE PlanIntegrations(c)
    <3>1. PICK seen \in {integration[s.env], None} :
            Become(c, [s EXCEPT !.phase = "planned", !.integration = seen])
      BY <2>7 DEF PlanIntegrations
    <3>2. Known(s.hosting) => s.hosting[1] \in Nat /\ s.hosting[1] <= writes[s.env]
      BY <2>7 DEF PlanIntegrations, In, SightInv, SessionsSawThePast, IInv, TypeOK, Session,
                  Fingerprint, Known
    <3> DEFINE t == [s EXCEPT !.phase = "planned", !.integration = seen]
    <3>3. t.phase = "planned" /\ t.env = s.env /\ t.hosting = s.hosting /\ s.env \in Env
      BY <2>1, <2>7 DEF Session, PlanIntegrations, In
    <3>4. Become(c, t) /\ UNCHANGED <<plans, applies, history>>
      BY <2>7, <3>1 DEF PlanIntegrations, store
    <3> HIDE DEF t
    <3> QED BY <3>2, <3>3, <3>4, SessionSight
  <2>8. ASSUME NEW p \in PlanRun, PersistPlan(c, p) PROVE SightInv'
    <3>1. PICK source \in SUBSET (tracked \ {s.env}), noop \in BOOLEAN :
            Persist(c, p, [env |-> s.env, rev |-> s.planned, hosting |-> s.hosting,
                           integration |-> s.integration, locks |-> source,
                           noop |-> noop, expired |-> FALSE])
      BY <2>8 DEF PersistPlan
    <3>2. Known(s.hosting) => s.hosting[1] \in Nat /\ s.hosting[1] <= writes[s.env]
      BY <2>8 DEF PersistPlan, In, SightInv, SessionsSawThePast, IInv, TypeOK, Session,
                  Fingerprint, Known
    <3> DEFINE doc == [env |-> s.env, rev |-> s.planned, hosting |-> s.hosting,
                       integration |-> s.integration, locks |-> source,
                       noop |-> noop, expired |-> FALSE]
    <3>3. doc \in PlanDoc
      BY <2>1, <2>8 DEF PersistPlan, In, Session, PlanDoc, IInv, TypeOK
    <3>4. doc.env = s.env /\ doc.hosting = s.hosting /\ Persist(c, p, doc)
      BY <3>1
    <3> HIDE DEF doc
    <3> QED BY <3>2, <3>3, <3>4, PersistSight
  <2>9. ASSUME NEW p \in PlanRun, PersistRepositoryPlan(c, p) PROVE SightInv'
    <3> DEFINE doc == [env |-> s.env, rev |-> s.planned, hosting |-> None, integration |-> None,
                       locks |-> {}, noop |-> FALSE, expired |-> FALSE]
    <3>1. doc \in PlanDoc
      BY <2>1, <2>9 DEF PersistRepositoryPlan, In, Session, PlanDoc, Fingerprint
    <3>2. ~Known(doc.hosting) /\ Persist(c, p, doc)
      BY <2>9 DEF PersistRepositoryPlan, Known
    <3> HIDE DEF doc
    <3> QED BY <3>1, <3>2, PersistSight
  <2>10. CASE ApplyIntegrations(c)
    BY <2>1, <2>10, SessionSight DEF ApplyIntegrations, store, Session
  <2>11. CASE ApplyObserve(c)
    <3>1. s.env \in Env
      BY <2>1, <2>11 DEF ApplyObserve, In
    <3>2. PICK seen \in Observations(s.env) :
            Become(c, [s EXCEPT !.phase = "reobserved", !.hosting = seen])
      BY <2>11 DEF ApplyObserve
    <3>3. Known(seen) => seen = <<writes[s.env], drift[s.env]>>
      BY DEF Observations, Live, Known
    <3>4. Known(seen) => seen[1] = writes[s.env]
      BY <3>3
    <3> DEFINE t == [s EXCEPT !.phase = "reobserved", !.hosting = seen]
    <3>5. t.phase = "reobserved" /\ t.env = s.env /\ t.hosting = seen
      BY <2>1 DEF Session
    <3>6. Become(c, t) /\ UNCHANGED <<plans, applies, history>>
      BY <2>11, <3>2 DEF ApplyObserve, store
    <3> HIDE DEF t
    <3> QED BY <2>1, <3>1, <3>4, <3>5, <3>6, SessionSight
  <2>12. ASSUME NEW a \in ApplyRun, Reserve(c, a) PROVE SightInv'
    BY <2>12, ReserveSight
  <2>13. CASE Return(c) /\ UNCHANGED <<store, world, history>>
    BY <2>1, <2>13, SessionSight DEF Return, store
  <2>17. CASE Return(c) /\ Leave(c) /\ UNCHANGED <<store, world>>
    <3>1. \A a \in ApplyRun : history'[a].seen = history[a].seen /\ history'[a].began = history[a].began
      BY <2>17 DEF Leave, IInv, TypeOK, Record
    <3> QED BY <2>1, <2>17, <3>1, SessionSight DEF Return, store
  <2>14. ASSUME NEW e \in Env, Write(c, e) PROVE SightInv'
    <3> DEFINE a == s.run
    <3>1. /\ In(c, "executing") /\ a \in ApplyRun /\ applies[a].plan = s.plan
          /\ s.env = plans[s.plan].env
      BY <2>14 DEF Write, IInv, SessionsMatchRows, SightInv, ExecutesItsPlan, In
    <3>2. /\ plans' = plans /\ applies' = applies /\ session' = session
          /\ \/ history' = history
             \/ e = s.env /\ history' = [history EXCEPT ![a] = [@ EXCEPT !.began = writes[e]]]
      BY <2>14 DEF Write, Change, store
    <3>3. \A b \in ApplyRun :
            \/ history'[b] = history[b]
            \/ /\ history'[b].seen = history[b].seen /\ history'[b].began = writes[e]
               /\ plans[applies[b].plan].env = e /\ applies[b].plan # None
      <4>1. applies[a].plan # None
        BY <3>1, NoneAssumption DEF IInv, SessionsMatchRows, RowsMatchPlans, Running, In
      <4> QED BY <3>1, <3>2, <4>1 DEF IInv, TypeOK, Record
    <3> QED BY <3>2, <3>3, WriteSight
  <2>15. ASSUME NEW status \in Final, Settle(c, status) PROVE SightInv'
    <3> DEFINE a == s.run
    <3>1. /\ a \in ApplyRun /\ Running(a)
          /\ \A b \in ApplyRun : applies'[b].plan = applies[b].plan
          /\ \A d \in Command \ {c} : session'[d] = session[d]
          /\ session'[c].phase \in {"idle", "forcing"} /\ plans' = plans
      BY <2>15, Settled DEF IInv
    <3>2. writes' = writes /\ history' = history
      BY <2>15 DEF Settle, world
    <3> QED BY <3>1, <3>2 DEF SightInv, SessionsSawThePast, PlansSawThePast, RowsSawTheSame,
                              UnstartedRows, ExecutesItsPlan, In, Known
  <2>16. CASE ForcedWrite(c)
    BY <1>1, <2>16 DEF ForcedWrite, Change, store
  <2> QED BY <1>4, <2>2, <2>3, <2>4, <2>5, <2>6, <2>7, <2>8, <2>9, <2>10, <2>11, <2>12,
             <2>13, <2>14, <2>15, <2>16, <2>17
          DEF Start, Proceed, Throw, Crash, Reject, Decline, ForcedReturn
<1> QED BY <1>1, <1>3, <1>4 DEF Next, vars, store

(* A plan that knew the live state is not applied again by a command that  *)
(* looked after an earlier attempt had changed the environment: what that  *)
(* command saw would differ from what the plan saw (Fresh).                *)
THEOREM NoReplay == Spec => []NoReplayAfterChange
<1>1. Init => SightInv
  BY DEF Init, SightInv, SessionsSawThePast, PlansSawThePast, RowsSawTheSame, UnstartedRows,
         ExecutesItsPlan, In, Idle, NoApply
<1>2. SightInv => NoReplayAfterChange
  BY DEF SightInv, RowsSawTheSame, NoReplayAfterChange, Known
<1> QED BY Invariance, SightStep, <1>1, <1>2, PTL DEF Spec
-----------------------------------------------------------------------------
(* The command that executes a row goes on doing so until it settles it or *)
(* leaves it.                                                              *)
LEMMA ExecutingStep ==
  ASSUME IInv, [Next]_vars, NEW c \in Command, In(c, "executing")
  PROVE  \/ session'[c] = session[c]
         \/ history'[session[c].run].left
         \/ \E status \in Final : Settle(c, status)
<1> USE DEF IInv
<1>1. CASE UNCHANGED vars \/ Outside
  BY <1>1 DEF vars, Outside, DriftHosting, DriftIntegration, Expire
<1>2. ASSUME NEW d \in Command, Start(d) \/ Proceed(d) \/ Throw(d) \/ Crash(d), d # c
      PROVE  session'[c] = session[c]
  <2>1. ASSUME NEW s, Become(d, s) PROVE session'[c] = session[c]
    BY <1>2, <2>1 DEF Become, TypeOK
  <2>2. CASE WriteSpec(d) \/ ForcedWrite(d) \/ \E e \in Env : Write(d, e)
    BY <2>2 DEF WriteSpec, ForcedWrite, Write, Change
  <2>3. CASE Start(d)
    BY <2>1, <2>2, <2>3 DEF Start, StartDeploy, StartPlan, StartApply
  <2>4. CASE Proceed(d)
    BY <2>1, <2>2, <2>4
    DEF Proceed, StartPlan, PlanObserve, PlanIntegrations, PersistPlan, PersistRepositoryPlan,
        Persist, ApplyIntegrations, ApplyObserve, Reserve, Reject, Decline, Settle, ForcedReturn,
        Return
  <2> QED BY <1>2, <2>1, <2>3, <2>4 DEF Throw, Crash, Return
<1>3. CASE Start(c)
  BY <1>3 DEF Start, WriteSpec, StartDeploy, StartPlan, StartApply, In
<1>4. CASE Proceed(c)
  <2>1. ASSUME NEW e \in Env, Write(c, e) PROVE session'[c] = session[c]
    BY <2>1 DEF Write, Change
  <2>2. \/ \E e \in Env : Write(c, e)
        \/ \E status \in Final : Settle(c, status)
    BY <1>4 DEF Proceed, StartPlan, PlanObserve, PlanIntegrations, PersistPlan,
                PersistRepositoryPlan, ApplyIntegrations, ApplyObserve, Reserve, Reject, Decline,
                ForcedWrite, ForcedReturn, In
  <2> QED BY <2>1, <2>2
<1>5. CASE Throw(c) \/ Crash(c)
  <2>1. session[c].run \in ApplyRun /\ history[session[c].run] \in Record
    BY DEF SessionsMatchRows, In, TypeOK
  <2>2. history' = [history EXCEPT ![session[c].run] = [history[session[c].run] EXCEPT !.left = TRUE]]
    BY <1>5 DEF Throw, Crash, Leave
  <2> QED BY <2>1, <2>2 DEF TypeOK, Record
<1> QED BY <1>1, <1>2, <1>3, <1>4, <1>5 DEF Next

(* A row that was left stays so.                                           *)
LEMMA LeftStep ==
  ASSUME IInv, [Next]_vars
  PROVE  \A a \in ApplyRun : history[a].left => history'[a].left
<1> USE DEF IInv, TypeOK, Record
<1>1. CASE history' = history
  BY <1>1
<1>2. CASE UNCHANGED vars \/ Outside
  BY <1>1, <1>2 DEF vars, Outside, DriftHosting, DriftIntegration, Expire
<1>3. ASSUME NEW c \in Command, Start(c) PROVE history' = history
  BY <1>3 DEF Start, WriteSpec, StartDeploy, StartPlan, StartApply
<1>4. ASSUME NEW c \in Command, NEW a \in ApplyRun, Reserve(c, a)
      PROVE  \A b \in ApplyRun : history[b].left => history'[b].left
  BY <1>4 DEF Reserve
<1>5. ASSUME NEW c \in Command, NEW e \in Env, Write(c, e)
      PROVE  \A b \in ApplyRun : history[b].left => history'[b].left
  BY <1>5 DEF Write
<1>6. ASSUME NEW c \in Command, Leave(c)
      PROVE  \A b \in ApplyRun : history[b].left => history'[b].left
  BY <1>6 DEF Leave
<1>7. ASSUME NEW c \in Command, Proceed(c)
      PROVE  \A b \in ApplyRun : history[b].left => history'[b].left
  BY <1>1, <1>4, <1>5, <1>7
  DEF Proceed, StartPlan, PlanObserve, PlanIntegrations, PersistPlan, PersistRepositoryPlan,
      Persist, ApplyIntegrations, ApplyObserve, Reject, Decline, Settle, ForcedWrite, ForcedReturn
<1> QED BY <1>1, <1>2, <1>3, <1>6, <1>7 DEF Next, Throw, Crash

(* A lease outlives the command that took it only if its process died or a *)
(* write to its row threw: every other end of an apply releases it.        *)
THEOREM NoneForgotten == Spec => []NoRowForgotten
<1>1. Init => NoRowForgotten
  BY DEF Init, NoRowForgotten, Running, NoApply
<1>2. IInv /\ NoRowForgotten /\ [Next]_vars => NoRowForgotten'
  <2> SUFFICES ASSUME IInv, NoRowForgotten, [Next]_vars, NEW a \in ApplyRun, Running(a)'
               PROVE  \/ history'[a].left
                      \/ \E c \in Command : session'[c].phase = "executing" /\ session'[c].run = a
    BY DEF NoRowForgotten, In
  <2>1. CASE Running(a)
    <3>1. CASE history[a].left
      BY <3>1, LeftStep
    <3>2. ASSUME NEW c \in Command, In(c, "executing"), session[c].run = a
          PROVE  session'[c] = session[c] \/ history'[a].left
      <4>1. ASSUME NEW status \in Final, Settle(c, status) PROVE FALSE
        BY <3>2, <4>1, Settled DEF IInv, Running, Final
      <4> QED BY <3>2, <4>1, ExecutingStep
    <3> QED BY <2>1, <3>1, <3>2 DEF NoRowForgotten, In
  <2>2. CASE ~Running(a)
    <3>1. \E c \in Command : Reserve(c, a)
      <4>1. CASE Quiet
        BY <2>2, <4>1 DEF Quiet, Running
      <4>2. ASSUME NEW c \in Command, NEW b \in ApplyRun, Reserve(c, b) PROVE Reserve(c, a)
        BY <2>2, <4>2, Reserved DEF IInv, Running
      <4>3. ASSUME NEW c \in Command, NEW status \in Final, Settle(c, status) PROVE FALSE
        BY <2>2, <4>3, Settled DEF IInv, Running, Final
      <4> QED BY <4>1, <4>2, <4>3, StepShape DEF IInv
    <3> QED BY <3>1, Reserved DEF IInv
  <2> QED BY <2>1, <2>2
<1> QED BY Invariance, <1>1, <1>2, PTL DEF Spec
-----------------------------------------------------------------------------
(* With no hv_deploy command no two commands may change one environment at *)
(* a time: the forced bootstrap is the only way around the run table.      *)
THEOREM OneMutator ==
  ASSUME Deployer = {}
  PROVE  Spec => []OneMutatorPerEnvironment
<1>1. IInv => OneMutatorPerEnvironment
  <2> SUFFICES ASSUME IInv, NEW c \in Command, NEW d \in Command, c # d
               PROVE  MayChange(c) \cap MayChange(d) = {}
    BY DEF OneMutatorPerEnvironment
  <2> USE DEF IInv
  <2>1. ~In(c, "forcing") /\ ~In(d, "forcing")
    BY DEF SessionsMatchRows, In
  <2>2. CASE In(c, "executing") /\ In(d, "executing")
    <3>1. /\ session[c].run \in ApplyRun /\ Running(session[c].run)
          /\ session[d].run \in ApplyRun /\ Running(session[d].run)
      BY <2>2 DEF SessionsMatchRows, In
    <3>2. session[c].run # session[d].run
      BY <2>2 DEF OneCommandPerRow
    <3> QED BY <2>2, <3>1, <3>2 DEF LeaseExclusion, MayChange, In
  <2> QED BY <2>1, <2>2 DEF MayChange, In
<1> QED BY Invariance, <1>1, PTL

(* Without hv_deploy the handshake implements the abstract lease: every    *)
(* change is made under a lease, every lease is disjoint from the others,  *)
(* and a plan is recorded as done once.                                    *)
THEOREM Implementation ==
  ASSUME Deployer = {}
  PROVE  Spec => ImplementsLease
<1>1. Init => Lease!Init
  BY DEF Init, Lease!Init, Running, NoApply
<1>2. IInv /\ [Next]_vars => [Lease!Next]_(Lease!vars)
  <2> SUFFICES ASSUME IInv, [Next]_vars PROVE [Lease!Next]_(Lease!vars)
    OBVIOUS
  <2> USE DEF IInv
  <2> DEFINE total == [e \in Env |-> writes[e] + unseen[e]]
             lease == [a \in ApplyRun |-> IF Running(a) THEN applies[a].locks ELSE {}]
             work == [a \in ApplyRun |-> applies[a].plan]
             done == {applies[a].plan : a \in {b \in ApplyRun : applies[b].status = "succeeded"}}
  <2>1. ASSUME NEW c \in Command, NEW e \in Env, Write(c, e) PROVE Lease!Next
    <3> DEFINE a == session[c].run
    <3>1. a \in ApplyRun /\ Running(a) /\ e \in applies[a].locks
      BY <2>1 DEF Write, In, SessionsMatchRows
    <3>2. applies' = applies /\ total' = [total EXCEPT ![e] = @ + 1]
      <4>1. \A f \in Env : writes[f] \in Nat /\ unseen[f] \in Nat
        BY DEF TypeOK
      <4>2. \/ writes' = [writes EXCEPT ![e] = @ + 1] /\ unseen' = unseen
            \/ unseen' = [unseen EXCEPT ![e] = @ + 1] /\ writes' = writes
        BY <2>1 DEF Write, Change
      <4>3. \A f \in Env : writes'[f] + unseen'[f] = IF f = e THEN writes[e] + unseen[e] + 1
                                                           ELSE writes[f] + unseen[f]
        BY <4>1, <4>2 DEF TypeOK
      <4> QED BY <2>1, <4>3 DEF Write, Change, store
    <3>3. Lease!Write(a, e)
      BY <3>1, <3>2 DEF Lease!Write, Running
    <3> QED BY <3>1, <3>3 DEF Lease!Next
  <2>2. ASSUME NEW c \in Command, NEW a \in ApplyRun, Reserve(c, a) PROVE Lease!Next
    <3>0. PICK p \in PlanRun, envs \in SUBSET Env : p = session[c].plan /\ envs = Requested(p)
      BY <2>2, Reserved
    <3>1. /\ p \in PlanRun /\ plans[p].env \in envs /\ envs \subseteq Env
          /\ applies[a].status = "none"
          /\ applies'[a].status = "running" /\ applies'[a].plan = p
          /\ applies'[a].locks = envs
          /\ \A b \in ApplyRun \ {a} : applies'[b] = applies[b]
          /\ ~Applied(p) /\ ~Conflicting(p)
      BY <2>2, <3>0, Reserved
    <3>2. total' = total
      BY <2>2 DEF Reserve, world
    <3>3. work[a] = None /\ lease[a] = {}
      BY <3>1 DEF RowsMatchPlans, NoApply, Running
    <3>4. p \notin done
      BY <3>1 DEF Applied
    <3>5. \A b \in ApplyRun : lease[b] \cap envs = {}
      BY <3>0, <3>1 DEF Conflicting, Running
    <3>6. /\ lease' = [lease EXCEPT ![a] = envs]
          /\ work' = [work EXCEPT ![a] = p]
      BY <3>1 DEF Running
    <3>7. done' = done
      BY <3>1
    <3>8. Lease!Acquire(a, p, envs)
      BY <3>1, <3>2, <3>3, <3>4, <3>5, <3>6, <3>7 DEF Lease!Acquire
    <3> QED BY <3>8 DEF Lease!Next
  <2>3. ASSUME NEW c \in Command, NEW status \in Final, Settle(c, status) PROVE Lease!Next
    <3>0. PICK a \in ApplyRun : a = session[c].run
      BY <2>3, Settled
    <3>1. /\ Running(a)
          /\ \A b \in ApplyRun \ {a} : applies'[b] = applies[b]
          /\ applies'[a].status = status /\ applies'[a].plan = applies[a].plan
      BY <2>3, <3>0, Settled
    <3>2. total' = total
      BY <2>3 DEF Settle, world
    <3>3. lease[a] # {}
      BY <3>1 DEF RowsMatchPlans, Requested, Running
    <3>4. lease' = [lease EXCEPT ![a] = {}] /\ work' = work
      BY <3>1 DEF Running, Final
    <3>5. CASE status = "succeeded"
      <4>1. work[a] \notin done
        BY <3>1 DEF PlanSucceedsOnce, Running
      <4>2. done' = done \cup {work[a]}
        BY <3>1, <3>5 DEF Running
      <4>3. Lease!ReleaseDone(a)
        BY <3>1, <3>2, <3>3, <3>4, <4>1, <4>2 DEF Lease!ReleaseDone
      <4> QED BY <4>3 DEF Lease!Next
    <3>6. CASE status # "succeeded"
      <4>1. done' = done
        BY <3>1, <3>6 DEF Running
      <4>2. Lease!ReleaseUnfinished(a)
        BY <3>2, <3>3, <3>4, <4>1 DEF Lease!ReleaseUnfinished
      <4> QED BY <4>2 DEF Lease!Next
    <3> QED BY <3>5, <3>6
  <2>4. CASE applies' = applies /\ UNCHANGED <<writes, unseen>>
    BY <2>4 DEF Lease!vars, Running
  <2>5. ASSUME NEW c \in Command, ForcedWrite(c) PROVE FALSE
    BY <2>5 DEF ForcedWrite, SessionsMatchRows, In
  <2> QED BY <2>1, <2>2, <2>3, <2>4, <2>5, StepShape, Writers DEF Quiet
<1> QED BY Invariance, <1>1, <1>2, PTL DEF Spec, ImplementsLease, Lease!Spec
-----------------------------------------------------------------------------
(* Where one command runs at a time and others are calm, what it read for  *)
(* an apply is still so when the apply is reserved: the revision from its  *)
(* first read on (hv_deploy reads before it plans), the integrations and   *)
(* the hosting once it has looked.                                         *)
Deploys(c) == c \in Deployer /\ session[c].phase \in {"deploying", "planning", "observed", "planned"}
Applies(c) == session[c].phase \in {"applying", "integrated", "reobserved"}
Looked(e) == IF e \in Integrated THEN integration[e] ELSE None

ReadsAreCurrent ==
  \A c \in Command : LET s == session[c] IN
    /\ Deploys(c) \/ Applies(c) => s.rev = revision
    /\ Applies(c) => s.env = plans[s.plan].env
    /\ In(c, "applying") => s.env \in Integrated
    /\ In(c, "integrated") \/ In(c, "reobserved") => s.integration = Looked(s.env)
    /\ In(c, "reobserved") => s.hosting \in {Unknown, Live(s.env)}

LEMMA ReadsStep ==
  ASSUME NEW k, Command = {k}, IInv, ReadsAreCurrent, [Next]_vars, [Calm]_vars
  PROVE  ReadsAreCurrent'
<1> USE DEF IInv
<1>1. /\ k \in Command /\ session[k] \in Session
      /\ session[k].phase # "idle" => session[k].env \in Env
      /\ Applies(k) => session[k].plan \in PlanRun /\ plans[session[k].plan] # None
  BY DEF TypeOK, SessionsMatchRows, Applies
<1>2. CASE UNCHANGED vars
  BY <1>2 DEF vars, store, world, ReadsAreCurrent, Deploys, Applies, In, Looked, Live
<1>3. CASE \E e \in Env : DriftHosting(e) \/ DriftIntegration(e)
  <2>1. session' = session /\ revision' = revision /\ plans' = plans /\ writes' = writes
    BY <1>3 DEF DriftHosting, DriftIntegration, store
  <2>2. \/ drift' = drift /\ integration' = integration
        \/ session[k].phase \notin {"integrated", "reobserved"}
    BY <1>1 DEF Calm, vars, world
  <2> QED BY <1>1, <2>1, <2>2 DEF ReadsAreCurrent, Deploys, Applies, In, Looked, Live
<1>4. ASSUME NEW p \in PlanRun, Expire(p) PROVE ReadsAreCurrent'
  <2>1. /\ session' = session /\ revision' = revision /\ world' = world
        /\ plans' = [plans EXCEPT ![p] = [plans[p] EXCEPT !.expired = TRUE]]
    BY <1>4 DEF Expire, world
  <2>2. plans[p] \in PlanDoc
    BY <1>4 DEF Expire, TypeOK
  <2>3. \A q \in PlanRun : plans[q] # None => plans'[q].env = plans[q].env
    BY <2>1, <2>2 DEF TypeOK, PlanDoc
  <2> QED BY <1>1, <2>1, <2>3 DEF ReadsAreCurrent, Deploys, Applies, In, Looked, Live, world
<1>5. CASE Start(k) \/ Proceed(k) \/ Throw(k) \/ Crash(k)
  <2>1. ASSUME session[k].phase \in {"executing", "forcing", "idle"}, session' = session
        PROVE  ReadsAreCurrent'
    BY <2>1 DEF ReadsAreCurrent, Deploys, Applies, In
  <2>2. ASSUME session'[k].phase \in {"idle", "executing", "forcing"} PROVE ReadsAreCurrent'
    BY <2>2 DEF ReadsAreCurrent, Deploys, Applies, In
  <2>3. ASSUME NEW s, Become(k, s) PROVE session'[k] = s
    BY <1>1, <2>3 DEF Become, TypeOK
  <2>4. Idle.phase = "idle"
    BY DEF Idle
  <2>5. CASE WriteSpec(k)
    BY <2>1, <2>5 DEF WriteSpec, In
  <2>6. CASE ForcedWrite(k) \/ \E e \in Env : Write(k, e)
    BY <2>1, <2>6 DEF ForcedWrite, Write, Change, In
  <2>7. ASSUME NEW e \in Env, StartDeploy(k, e) PROVE ReadsAreCurrent'
    <3>1. session'[k] = [Idle EXCEPT !.phase = "deploying", !.env = e, !.rev = revision]
      BY <2>3, <2>7 DEF StartDeploy
    <3>2. session'[k].phase = "deploying" /\ session'[k].rev = revision /\ revision' = revision
      BY <2>7, <3>1 DEF StartDeploy, Idle
    <3> QED BY <3>2 DEF ReadsAreCurrent, Deploys, Applies, In
  <2>8. ASSUME NEW e \in Env, StartPlan(k, e) PROVE ReadsAreCurrent'
    <3>1. session'[k] = [session[k] EXCEPT !.phase = "planning", !.env = e, !.planned = revision]
      BY <2>3, <2>8 DEF StartPlan
    <3>2. session'[k].phase = "planning" /\ session'[k].rev = session[k].rev /\ revision' = revision
      BY <1>1, <2>8, <3>1 DEF StartPlan, Session, store
    <3>3. k \in Deployer => session[k].rev = revision
      BY <1>1, <2>8 DEF StartPlan, In, ReadsAreCurrent, Deploys
    <3> QED BY <3>2, <3>3 DEF ReadsAreCurrent, Deploys, Applies, In
  <2>9. CASE PlanObserve(k) \/ PlanIntegrations(k)
    <3>1. /\ session[k].phase \in {"planning", "observed"} /\ revision' = revision
          /\ session'[k].phase \in {"observed", "planned"} /\ session'[k].rev = session[k].rev
      BY <1>1, <2>3, <2>9 DEF PlanObserve, PlanIntegrations, In, Session, store
    <3> QED BY <1>1, <3>1 DEF ReadsAreCurrent, Deploys, Applies, In
  <2>10. ASSUME NEW p \in PlanRun, NEW doc \in PlanDoc, Persist(k, p, doc),
                k \in Deployer => session[k].rev = revision
         PROVE  ReadsAreCurrent'
    <3>1. CASE k \notin Deployer
      BY <2>2, <2>3, <2>4, <2>10, <3>1 DEF Persist
    <3>2. CASE k \in Deployer
      <4>1. session'[k] = [Idle EXCEPT !.phase = Applying(doc.env), !.plan = p, !.env = doc.env,
                                        !.rev = session[k].rev]
        BY <2>3, <2>10, <3>2 DEF Persist
      <4>2. /\ session'[k].phase = (IF doc.env \in Integrated THEN "applying" ELSE "integrated")
            /\ session'[k].plan = p /\ session'[k].env = doc.env
            /\ session'[k].rev = session[k].rev /\ session'[k].integration = None
        BY <4>1 DEF Idle, Applying
      <4>3. plans'[p] = doc /\ revision' = revision
        BY <2>10 DEF Persist, TypeOK
      <4> QED BY <2>10, <3>2, <4>2, <4>3 DEF ReadsAreCurrent, Deploys, Applies, In, Looked
    <3> QED BY <3>1, <3>2
  <2>11. ASSUME NEW p \in PlanRun, PersistPlan(k, p) \/ PersistRepositoryPlan(k, p)
         PROVE  ReadsAreCurrent'
    <3>1. session[k].phase \in {"planning", "planned"}
      BY <2>11 DEF PersistPlan, PersistRepositoryPlan, In
    <3>2. k \in Deployer => session[k].rev = revision
      BY <1>1, <3>1 DEF ReadsAreCurrent, Deploys
    <3>3. \E doc \in PlanDoc : Persist(k, p, doc)
      BY <1>1, <2>11, <3>1
      DEF PersistPlan, PersistRepositoryPlan, TypeOK, Session, PlanDoc, Fingerprint
    <3> QED BY <2>10, <3>2, <3>3
  <2>12. ASSUME NEW p \in PlanRun, StartApply(k, p) PROVE ReadsAreCurrent'
    <3>1. session'[k] = [Idle EXCEPT !.phase = Applying(plans[p].env), !.plan = p,
                                      !.env = plans[p].env, !.rev = revision]
      BY <2>3, <2>12 DEF StartApply
    <3>2. /\ session'[k].phase = (IF plans[p].env \in Integrated THEN "applying" ELSE "integrated")
          /\ session'[k].plan = p /\ session'[k].env = plans[p].env
          /\ session'[k].rev = revision /\ session'[k].integration = None
      BY <3>1 DEF Idle, Applying
    <3>3. revision' = revision /\ plans' = plans /\ k \notin Deployer
      BY <2>12 DEF StartApply, store
    <3> QED BY <3>2, <3>3 DEF ReadsAreCurrent, Deploys, Applies, In, Looked
  <2>13. CASE ApplyIntegrations(k)
    <3>1. session'[k] = [session[k] EXCEPT !.phase = "integrated",
                                            !.integration = integration[session[k].env]]
      BY <2>3, <2>13 DEF ApplyIntegrations
    <3>2. /\ session'[k].phase = "integrated" /\ session'[k].integration = integration[session[k].env]
          /\ session'[k].env = session[k].env /\ session'[k].plan = session[k].plan
          /\ session'[k].rev = session[k].rev
      BY <1>1, <3>1 DEF Session
    <3>3. session[k].phase = "applying" /\ revision' = revision /\ plans' = plans /\ integration' = integration
      BY <2>13 DEF ApplyIntegrations, In, store, world
    <3>4. session[k].env \in Integrated
      BY <1>1, <3>3 DEF ReadsAreCurrent, In
    <3> QED BY <1>1, <3>2, <3>3, <3>4 DEF ReadsAreCurrent, Deploys, Applies, In, Looked
  <2>14. CASE ApplyObserve(k)
    <3>1. PICK seen \in Observations(session[k].env) :
            session'[k] = [session[k] EXCEPT !.phase = "reobserved", !.hosting = seen]
      BY <2>3, <2>14 DEF ApplyObserve
    <3>2. /\ session'[k].phase = "reobserved" /\ session'[k].hosting = seen
          /\ session'[k].env = session[k].env /\ session'[k].plan = session[k].plan
          /\ session'[k].rev = session[k].rev /\ session'[k].integration = session[k].integration
      BY <1>1, <3>1 DEF Session
    <3>3. session[k].phase = "integrated" /\ revision' = revision /\ plans' = plans /\ world' = world
      BY <2>14 DEF ApplyObserve, In, store, world
    <3>4. seen \in {Unknown, Live(session[k].env)}
      BY DEF Observations
    <3> QED BY <1>1, <3>2, <3>3, <3>4 DEF ReadsAreCurrent, Deploys, Applies, In, Looked, Live, world
  <2>15. ASSUME NEW a \in ApplyRun, Reserve(k, a) PROVE ReadsAreCurrent'
    <3>1. session'[k].phase = "executing"
      BY <1>1, <2>15, Reserved
    <3> QED BY <2>2, <3>1
  <2>16. ASSUME NEW status \in Final, Settle(k, status) PROVE ReadsAreCurrent'
    <3>1. session'[k].phase \in {"idle", "forcing"}
      BY <1>1, <2>16, Settled
    <3> QED BY <2>2, <3>1
  <2>17. CASE Return(k)
    BY <2>2, <2>3, <2>4, <2>17 DEF Return
  <2> QED BY <1>5, <2>5, <2>6, <2>7, <2>8, <2>9, <2>11, <2>12, <2>13, <2>14, <2>15, <2>16, <2>17
          DEF Start, Proceed, Throw, Crash, Reject, Decline, ForcedReturn
<1> QED BY <1>1, <1>2, <1>3, <1>4, <1>5 DEF Next, Outside

(* docs/TOOLS.md:11, for one command at a time while others are calm: an   *)
(* apply is reserved only for a plan of the latest revision that knows the *)
(* environment as it is, or knew it not at all.                            *)
THEOREM StaleIsRejected ==
  ASSUME NEW k, Command = {k}
  PROVE  Spec /\ [][Calm]_vars => StalePlanRejected
<1>1. Init => ReadsAreCurrent
  BY DEF Init, ReadsAreCurrent, Deploys, Applies, In, Idle
<1>2. ASSUME IInv, ReadsAreCurrent, [Next]_vars, NEW a \in ApplyRun, Reserves(a)
      PROVE  LET doc == plans[applies'[a].plan] IN
             /\ doc.rev = revision
             /\ doc.hosting \in {None, Unknown, Live(doc.env)}
             /\ doc.integration \in {None, integration[doc.env]}
  <2>1. Reserve(k, a)
    <3>1. CASE Quiet
      BY <1>2, <3>1 DEF Quiet, Reserves
    <3>2. ASSUME NEW c \in Command, NEW b \in ApplyRun, Reserve(c, b) PROVE Reserve(k, a)
      BY <1>2, <3>2, Reserved DEF IInv, Reserves
    <3>3. ASSUME NEW c \in Command, NEW status \in Final, Settle(c, status) PROVE FALSE
      BY <1>2, <3>3, Settled DEF IInv, Reserves, Running
    <3> QED BY <1>2, <3>1, <3>2, <3>3, StepShape DEF IInv
  <2>2. applies'[a].plan = session[k].plan
    BY <1>2, <2>1, Reserved DEF IInv
  <2>3. Fresh(k) /\ In(k, "reobserved")
    BY <2>1 DEF Reserve, Admitted
  <2> QED BY <1>2, <2>2, <2>3 DEF Fresh, ReadsAreCurrent, Applies, In, Looked
<1>3. IInv /\ ReadsAreCurrent /\ [Next]_vars /\ [Calm]_vars => ReadsAreCurrent'
  BY ReadsStep
<1>4. IInv /\ ReadsAreCurrent /\ [Next]_vars =>
        [\A a \in ApplyRun : Reserves(a) => plans[applies'[a].plan].rev = revision]_vars
  BY <1>2
<1>5. IInv /\ ReadsAreCurrent /\ [Next]_vars =>
        [\A a \in ApplyRun : Reserves(a) =>
           LET doc == plans[applies'[a].plan] IN
           /\ doc.hosting \in {None, Unknown, Live(doc.env)}
           /\ doc.integration \in {None, integration[doc.env]}]_vars
  BY <1>2
<1> QED BY Invariance, <1>1, <1>3, <1>4, <1>5, PTL
        DEF Spec, StalePlanRejected, SupersededPlanRejected, OutdatedPlanRejected
=============================================================================
