--------------------------- MODULE MutationLease ---------------------------
(***************************************************************************)
(* What the run table promises about applying plans, without sessions,     *)
(* observations or fingerprints: an apply works on one plan under a lease  *)
(* of environments, leases never overlap, only a leaseholder changes an    *)
(* environment, and a plan succeeds at most once.  PlanApply implements it.*)
(***************************************************************************)
EXTENDS Naturals

CONSTANTS
  PlanRun,    \* persisted plans
  ApplyRun,   \* apply runs
  Env,        \* environments
  None        \* no plan

VARIABLES
  lease,      \* lease[a]: the environments apply a may change now
  work,       \* work[a]: the plan apply a works on
  done,       \* plans that have succeeded
  writes      \* writes[e]: changes made to environment e

vars == <<lease, work, done, writes>>

Init ==
  /\ lease = [a \in ApplyRun |-> {}]
  /\ work = [a \in ApplyRun |-> None]
  /\ done = {}
  /\ writes = [e \in Env |-> 0]

Acquire(a, p, envs) ==
  /\ work[a] = None
  /\ p \notin done
  /\ envs # {}
  /\ \A b \in ApplyRun : lease[b] \cap envs = {}
  /\ lease' = [lease EXCEPT ![a] = envs]
  /\ work' = [work EXCEPT ![a] = p]
  /\ UNCHANGED <<done, writes>>

Write(a, e) ==
  /\ e \in lease[a]
  /\ writes' = [writes EXCEPT ![e] = @ + 1]
  /\ UNCHANGED <<lease, work, done>>

(* Both ends of an apply give the lease back; success is recorded once.    *)
ReleaseDone(a) ==
  /\ lease[a] # {}
  /\ work[a] \notin done
  /\ lease' = [lease EXCEPT ![a] = {}]
  /\ done' = done \cup {work[a]}
  /\ UNCHANGED <<work, writes>>

ReleaseUnfinished(a) ==
  /\ lease[a] # {}
  /\ lease' = [lease EXCEPT ![a] = {}]
  /\ UNCHANGED <<work, done, writes>>

Next ==
  \E a \in ApplyRun :
    \/ \E p \in PlanRun, envs \in SUBSET Env : Acquire(a, p, envs)
    \/ \E e \in Env : Write(a, e)
    \/ ReleaseDone(a)
    \/ ReleaseUnfinished(a)

Spec == Init /\ [][Next]_vars
=============================================================================
