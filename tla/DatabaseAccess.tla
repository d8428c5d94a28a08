--------------------------- MODULE DatabaseAccess ---------------------------
(***************************************************************************)
(* Temporary access to a managed database (a public proxy, a firewall      *)
(* rule), shared by the queries of one process and removed when the last   *)
(* of them is done, or when its time is up.  Targets share nothing, so the *)
(* module is about one of them: its entry in the coordinator, the queue of *)
(* its promise lock, and what exists at the provider.                      *)
(***************************************************************************)
EXTENDS Naturals, Sequences

CONSTANTS
  User,    \* callers of the coordinator
  Access,  \* accesses the provider can create
  None,    \* no such access, user or lease
  MaxCalls, MaxFaults, MaxCrashes  \* bounds

Assumption == None \notin User \cup Access /\ {MaxCalls, MaxFaults, MaxCrashes} \subseteq Nat

VARIABLES
  shared,   \* the registered lease, or NoLease
  queue,    \* operations on the lock of the target; the head of it is inside
  awaits,   \* the provider call the head awaits, and the access it is about
  user,     \* user[u]: how far it is, and the access it was given
  clock,    \* clock[a]: users whose time on access a is not up yet
  exists,   \* accesses at the provider
  leaked,   \* accesses nothing in the process knows of any more
  used,     \* accesses created so far
  calls, faults, crashes  \* counters
vars == <<shared, queue, awaits, user, clock, exists, leaked, used, calls, faults, crashes>>

Lease == [id : Access \cup {None}, references : Nat, cleanupFailed : BOOLEAN, timer : BOOLEAN]
NoLease == [id |-> None, references |-> 0, cleanupFailed |-> FALSE, timer |-> FALSE]
Nothing == [call |-> "none", id |-> None]
Operation == [op : {"acquire", "release", "reconcile"}, by : User \cup {None}, id : Access \cup {None}]

TypeOK ==
  /\ shared \in Lease /\ queue \in Seq(Operation)
  /\ awaits \in [call : {"none", "create", "discard", "cleanup"}, id : Access \cup {None}]
  /\ user \in [User -> [at : {"idle", "waiting", "holding", "releasing"}, id : Access \cup {None}]]
  /\ clock \in [Access -> SUBSET User]
  /\ exists \subseteq used /\ leaked \subseteq exists /\ used \subseteq Access
  /\ calls \in 0..MaxCalls /\ faults \in 0..MaxFaults /\ crashes \in 0..MaxCrashes

Init ==
  /\ shared = NoLease /\ queue = <<>> /\ awaits = Nothing
  /\ user = [u \in User |-> [at |-> "idle", id |-> None]]
  /\ clock = [a \in Access |-> {}] /\ exists = {} /\ leaked = {} /\ used = {}
  /\ calls = 0 /\ faults = 0 /\ crashes = 0

Enter(op, u, a) == queue' = Append(queue, [op |-> op, by |-> u, id |-> a])
Holds(u, a) == user' = [user EXCEPT ![u] = [at |-> "holding", id |-> a]]
Idles(u) == user' = [user EXCEPT ![u] = [at |-> "idle", id |-> None]]
Fault == faults < MaxFaults /\ faults' = faults + 1

(* Mutated form: a timer that fired is taken for the end of the time. *)
BadExpired(a) == TRUE

(* expiresAt is the latest end of any acquisition of the lease: it is      *)
(* reached when the time of all of them is up.                             *)
Expired(a) == clock[a] = {}

(***************************************************************************)
(* Callers, time and the timer                                             *)
(***************************************************************************)
Call(u) ==
  /\ user[u].at = "idle" /\ calls < MaxCalls /\ calls' = calls + 1
  /\ user' = [user EXCEPT ![u].at = "waiting"]
  /\ Enter("acquire", u, None)
  /\ UNCHANGED <<shared, awaits, clock, exists, leaked, used, faults, crashes>>

Release(u) ==
  /\ user[u].at = "holding"
  /\ user' = [user EXCEPT ![u].at = "releasing"]
  /\ Enter("release", u, user[u].id)
  /\ UNCHANGED <<shared, awaits, clock, exists, leaked, used, calls, faults, crashes>>

(* The time of one acquisition is up, whether or not it is still held.     *)
Elapse(u) ==
  \E a \in Access :
    /\ u \in clock[a]
    /\ clock' = [clock EXCEPT ![a] = @ \ {u}]
    /\ UNCHANGED <<shared, queue, awaits, user, exists, leaked, used, calls, faults, crashes>>

(* The timer of the lease fires and its handler joins the queue, where an  *)
(* acquisition before it may yet extend the lease.                         *)
Fire ==
  /\ shared.timer /\ shared' = [shared EXCEPT !.timer = FALSE]
  /\ Enter("reconcile", None, shared.id)
  /\ UNCHANGED <<awaits, user, clock, exists, leaked, used, calls, faults, crashes>>

(***************************************************************************)
(* Inside the lock: acquire                                                *)
(***************************************************************************)
Runs(op) == queue # <<>> /\ awaits = Nothing /\ queue[1].op = op
By == queue[1].by
Unlock == queue' = Tail(queue) /\ awaits' = Nothing
Await(call, a) == awaits' = [call |-> call, id |-> a] /\ UNCHANGED queue
New == CHOOSE a \in Access : a \notin used
Abandoned == shared.cleanupFailed /\ shared.references = 0

(* A lease in use is shared, and its time extended.                        *)
Share ==
  /\ Runs("acquire") /\ shared # NoLease /\ ~Abandoned
  /\ shared' = [shared EXCEPT !.references = @ + 1, !.timer = TRUE]
  /\ clock' = [clock EXCEPT ![shared.id] = @ \cup {By}]
  /\ Holds(By, shared.id) /\ Unlock
  /\ UNCHANGED <<exists, leaked, used, calls, faults, crashes>>

(* One whose cleanup failed is cleaned up before another is made.          *)
Begin ==
  /\ Runs("acquire")
  /\ \/ shared = NoLease /\ Await("create", None)
     \/ shared # NoLease /\ Abandoned /\ Await("cleanup", shared.id)
  /\ UNCHANGED <<shared, user, clock, exists, leaked, used, calls, faults, crashes>>

(* The access is registered, or cannot be reached and is to be removed.    *)
Created ==
  /\ awaits.call = "create" /\ Access # used
  /\ used' = used \cup {New} /\ exists' = exists \cup {New}
  /\ \/ /\ shared' = [id |-> New, references |-> 1, cleanupFailed |-> FALSE, timer |-> TRUE]
        /\ clock' = [clock EXCEPT ![New] = {By}]
        /\ Holds(By, New) /\ Unlock /\ UNCHANGED faults
     \/ Fault /\ Await("discard", New) /\ UNCHANGED <<shared, clock, user>>
  /\ UNCHANGED <<leaked, calls, crashes>>

(* The provider throws, before or after it made an access; or the address  *)
(* it gives is permanent and there is nothing to register.                 *)
NotCreated ==
  /\ awaits.call = "create"
  /\ Idles(By) /\ Unlock
  /\ \/ UNCHANGED <<exists, leaked, used, faults>>
     \/ /\ Fault /\ Access # used
        /\ used' = used \cup {New} /\ exists' = exists \cup {New} /\ leaked' = leaked \cup {New}
  /\ UNCHANGED <<shared, clock, calls, crashes>>

(* It is removed with one call; if that throws it is registered nowhere.   *)
Discarded ==
  /\ awaits.call = "discard"
  /\ Idles(By) /\ Unlock
  /\ \/ exists' = exists \ {awaits.id} /\ UNCHANGED <<leaked, faults>>
     \/ Fault /\ leaked' = leaked \cup {awaits.id} /\ UNCHANGED exists
  /\ UNCHANGED <<shared, clock, used, calls, crashes>>

(***************************************************************************)
(* Inside the lock: release, reconcile and cleanup                         *)
(***************************************************************************)
Mine == shared.id = queue[1].id

(* Only the last reference cleans up; the count stays at zero for one who  *)
(* releases after its time was up.                                         *)
ReleaseReference ==
  /\ Runs("release")
  /\ LET left == IF shared.references = 0 THEN 0 ELSE shared.references - 1
     IN \/ ~Mine /\ Idles(By) /\ Unlock /\ UNCHANGED shared
        \/ /\ Mine /\ shared' = [shared EXCEPT !.references = left]
           /\ IF left > 0 THEN Idles(By) /\ Unlock
              ELSE Await("cleanup", shared.id) /\ UNCHANGED user
  /\ UNCHANGED <<clock, exists, leaked, used, calls, faults, crashes>>

(* Mutated form: spares a lease that still has references. *)
BadReconcile ==
  /\ Runs("reconcile")
  /\ \/ ~Mine /\ Unlock /\ UNCHANGED shared
     \/ /\ Mine /\ Unlock /\ shared' = [shared EXCEPT !.timer = TRUE]
        /\ ~Expired(shared.id) \/ shared.references > 0
     \/ Mine /\ Expired(shared.id) /\ shared.references = 0 /\ Await("cleanup", shared.id) /\ UNCHANGED shared
  /\ UNCHANGED <<user, clock, exists, leaked, used, calls, faults, crashes>>

(* A lease extended meanwhile is left alone; references that outlive their *)
(* time are taken for abandoned.                                           *)
Reconcile ==
  /\ Runs("reconcile")
  /\ \/ ~Mine /\ Unlock /\ UNCHANGED shared
     \/ Mine /\ ~Expired(shared.id) /\ Unlock /\ shared' = [shared EXCEPT !.timer = TRUE]
     \/ Mine /\ Expired(shared.id) /\ Await("cleanup", shared.id) /\ shared' = [shared EXCEPT !.references = 0]
  /\ UNCHANGED <<user, clock, exists, leaked, used, calls, faults, crashes>>

(* An acquisition goes on to create; the others are done.                  *)
CleanedUp ==
  /\ awaits.call = "cleanup"
  /\ exists' = exists \ {shared.id} /\ shared' = NoLease
  /\ IF queue[1].op = "acquire" THEN Await("create", None) ELSE Unlock
  /\ IF queue[1].op = "release" THEN Idles(By) ELSE UNCHANGED user
  /\ UNCHANGED <<clock, leaked, used, calls, faults, crashes>>

(* Mutated form: the lease is dropped even if it could not be cleaned up. *)
BadCleanupFails ==
  /\ awaits.call = "cleanup" /\ Fault
  /\ exists' \in {exists, exists \ {shared.id}} /\ shared' = NoLease
  /\ IF queue[1].op = "reconcile" THEN UNCHANGED user ELSE Idles(By)
  /\ Unlock
  /\ UNCHANGED <<clock, leaked, used, calls, crashes>>

(* All attempts throw, though one may have removed the access: the lease   *)
(* stays registered, and unless an acquisition tried, a timer is set.      *)
CleanupFails ==
  /\ awaits.call = "cleanup" /\ Fault
  /\ exists' \in {exists, exists \ {shared.id}}
  /\ shared' = [shared EXCEPT !.cleanupFailed = TRUE, !.timer = @ \/ queue[1].op # "acquire"]
  /\ IF queue[1].op = "reconcile" THEN UNCHANGED user ELSE Idles(By)
  /\ Unlock
  /\ UNCHANGED <<clock, leaked, used, calls, crashes>>

(* The process ends, for whatever reason: no timer keeps it alive.         *)
Crash ==
  /\ crashes < MaxCrashes /\ crashes' = crashes + 1
  /\ shared' = NoLease /\ queue' = <<>> /\ awaits' = Nothing /\ leaked' = exists
  /\ user' = [u \in User |-> [at |-> "idle", id |-> None]]
  /\ clock' = [a \in Access |-> {}]
  /\ UNCHANGED <<exists, used, calls, faults>>

Inside == Share \/ Begin \/ Created \/ NotCreated \/ Discarded \/ ReleaseReference
          \/ Reconcile \/ CleanedUp \/ CleanupFails
Next == Inside \/ Fire \/ Crash \/ (\E u \in User : Call(u) \/ Release(u) \/ Elapse(u))

(* Operations proceed, timers fire and time passes; callers need not do    *)
(* anything, and one that holds an access may never release it.            *)
Spec == Init /\ [][Next]_vars /\ WF_vars(Inside) /\ WF_vars(Fire) /\ \A u \in User : WF_vars(Elapse(u))

(***************************************************************************)
(* Properties                                                              *)
(***************************************************************************)
(* As long as its time is not up, who was given an access has it: no       *)
(* release of another, timer or retried cleanup removes it.                *)
HolderHasAccess ==
  \A u \in User, a \in Access :
    user[u] = [at |-> "holding", id |-> a] /\ u \in clock[a] => a \in exists

(* The process has one access to the target, and while it is creating one  *)
(* the former has been removed.                                            *)
OneAccess ==
  /\ \A a, b \in exists \ leaked : a = b
  /\ awaits.call = "create" => exists = leaked

(* A registered lease has a timer, or its handler waits for the lock, or a *)
(* cleanup is under way: nothing registered waits for a call that may not  *)
(* come.                                                                   *)
NeverStranded ==
  shared # NoLease =>
    \/ shared.timer \/ awaits.call = "cleanup"
    \/ \E i \in DOMAIN queue : queue[i].op = "reconcile" /\ queue[i].id = shared.id

(* An access is removed, whether or not its holders release it, unless the *)
(* process lost track of it.                                               *)
AccessIsRemoved ==
  \A a \in Access : a \in exists ~> a \notin exists \/ a \in leaked
=============================================================================
