--------------------------- MODULE ManagedSecrets ---------------------------
(***************************************************************************)
(* One managed runtime secret of one environment, planned and applied from *)
(* several machines.  Its declaration, the value each service of the       *)
(* provider holds and the exported binding, which remembers the value that *)
(* was accepted, are shared; the row of the binding, the plan, the run and *)
(* the encryption key that generated values are derived from are a         *)
(* machine's own.  A machine works on one plan at a time.                  *)
(***************************************************************************)
EXTENDS Naturals, FiniteSets

CONSTANTS
  Machine, Service,
  EncryptionKey, Principal, \* local encryption keys, owners of delegated values
  Supplied,        \* values that principals supply
  MaxGeneration,   \* highest generation of a generated value
  None,            \* no binding, plan, principal or value
  Missing, Unknown,\* a service has no value, or does not show it
  MaxPlans, MaxEdits, MaxFaults, MaxCrashes  \* bounds

ASSUME ServiceAssumption == Service # {}
ASSUME BoundAssumption == {MaxGeneration, MaxPlans, MaxEdits, MaxFaults, MaxCrashes} \subseteq Nat

Generation == 1..MaxGeneration
Derive(k, g) == <<k, g>>
Value == (EncryptionKey \X Generation) \cup Supplied
Declaration ==
  [owner : {"hypervibe"}, principal : {None}, generation : Generation, required : {TRUE}]
  \cup [owner : {"delegated"}, principal : Principal, generation : {0}, required : BOOLEAN]
Binding ==
  [owner : {"hypervibe"}, principal : {None}, generation : Generation, value : Value, by : Machine]
  \cup [owner : {"delegated"}, principal : Principal, generation : {0}, value : Value, by : Machine]

VARIABLES
  slot,     \* the declaration of the secret in the spec
  live,     \* live[s]: the value service s holds
  file,     \* the binding in the repository's export
  row,      \* row[m]: the binding in the database of machine m
  accepted, \* accepted[m]: whether the run that wrote row[m] has a receipt
  key,      \* key[m]: the encryption key of m
  plan,     \* plan[m]: the plan m saved, with an action to execute
  apply,    \* apply[m]: how far the action is, and what it observed
  edited,   \* edited[m]: what others changed since m planned, or observed
  plans, edits, faults, crashes  \* counters
shared == <<slot, live, file>>
counters == <<plans, edits, faults, crashes>>
vars == <<shared, row, accepted, key, plan, apply, edited, counters>>

Plan ==
  [owner : {"hypervibe"}, principal : {None}, generation : Generation, value : Value,
   bindingOnly : BOOLEAN, confirm : BOOLEAN]
  \cup [owner : {"delegated"}, principal : Principal, generation : {0}, value : Value,
        bindingOnly : {FALSE}, confirm : {FALSE}]
Idle == [at |-> "idle", rest |-> {}, failed |-> FALSE, confirmed |-> FALSE, kept |-> None]

TypeOK ==
  /\ slot \in Declaration /\ live \in [Service -> Value \cup {Missing}]
  /\ file \in Binding \cup {None} /\ row \in [Machine -> Binding \cup {None}]
  /\ accepted \in [Machine -> BOOLEAN] /\ key \in [Machine -> EncryptionKey]
  /\ plan \in [Machine -> Plan \cup {None}]
  /\ apply \in [Machine -> [at : {"idle", "sync", "record", "export", "receipt"}, rest : SUBSET Service,
                            failed : BOOLEAN, confirmed : BOOLEAN, kept : Binding \cup {None}]]
  /\ edited \in [Machine -> SUBSET (Service \cup {"slot", "file"})]
  /\ plans \in 0..MaxPlans /\ edits \in 0..MaxEdits /\ faults \in 0..MaxFaults /\ crashes \in 0..MaxCrashes

Init ==
  /\ slot \in {d \in Declaration : d.generation \in {0, 1}} /\ key \in [Machine -> EncryptionKey]
  /\ live = [s \in Service |-> Missing] /\ file = None
  /\ row = [m \in Machine |-> None] /\ accepted = [m \in Machine |-> FALSE]
  /\ plan = [m \in Machine |-> None] /\ apply = [m \in Machine |-> Idle]
  /\ edited = [m \in Machine |-> {}]
  /\ plans = 0 /\ edits = 0 /\ faults = 0 /\ crashes = 0

Fault == faults < MaxFaults /\ faults' = faults + 1
Touches(m, what) == edited' = [n \in Machine |-> IF n = m THEN edited[n] ELSE edited[n] \cup {what}]

(***************************************************************************)
(* What is observed of the services, some of which hide their value        *)
(***************************************************************************)
Observe(hidden) == [s \in Service |-> IF s \in hidden THEN Unknown ELSE live[s]]
Seen(obs) == {obs[s] : s \in Service}
Hashes(obs) == Seen(obs) \ {Missing, Unknown}
HasUnknown(obs) == Unknown \in Seen(obs)
AllMissing(obs) == Seen(obs) = {Missing}
AllUnknown(obs) == Seen(obs) = {Unknown}
(* Mutated form: services without a value are not looked at.               *)
BadConsistent(obs, v) == Hashes(obs) = {v}
Consistent(obs, v) == Seen(obs) = {v}

(***************************************************************************)
(* Bindings                                                                *)
(***************************************************************************)
(* The binding a command of machine m finds: the export overlays the row.  *)
Hydrated(m) == IF file = None THEN row[m] ELSE file

(* A binding whose run this machine knows counts only if the run has a     *)
(* receipt of the action; that of another machine's run counts.            *)
Acceptance(m) ==
  IF Hydrated(m) # None /\ Hydrated(m).by = m /\ ~accepted[m] THEN None ELSE Hydrated(m)

SameSlot(b, d) ==
  b # None /\ b.owner = d.owner /\ b.principal = d.principal /\ b.generation = d.generation
Matches(b, d, v) == SameSlot(b, d) /\ b.value = v

(***************************************************************************)
(* Planning                                                                *)
(***************************************************************************)
NewPlan(v, only, confirm) ==
  [owner |-> slot.owner, principal |-> slot.principal, generation |-> slot.generation,
   value |-> v, bindingOnly |-> only, confirm |-> confirm]

(* Of a generated value v with binding b: what it is planned to do, or     *)
(* None if nothing is to be done or if it is blocked.                      *)
PlanGenerated(obs, b, v) ==
  IF (SameSlot(b, slot) /\ b.value # v) \/ HasUnknown(obs) THEN None
  ELSE IF Consistent(obs, v)
  THEN IF Matches(b, slot, v) THEN None ELSE NewPlan(v, TRUE, FALSE)
  ELSE NewPlan(v, FALSE, (b # None /\ ~Matches(b, slot, v)) \/ ~(Hashes(obs) \subseteq {v}))

(* Of a delegated value v, supplied with the command: without one there is *)
(* nothing to do, or input is required and nothing can be applied.         *)
PlanDelegated(obs, b, v) ==
  IF v = None \/ (Consistent(obs, v) /\ Matches(b, slot, v)) THEN None ELSE NewPlan(v, FALSE, FALSE)

SavePlan(m) ==
  /\ plans < MaxPlans /\ plans' = plans + 1 /\ apply[m].at = "idle"
  /\ row' = [row EXCEPT ![m] = Hydrated(m)]
  /\ \E hidden \in SUBSET Service, v \in Supplied \cup {None} :
       LET obs == Observe(hidden) IN
       plan' = [plan EXCEPT ![m] =
         IF slot.owner = "hypervibe"
         THEN PlanGenerated(obs, Acceptance(m), Derive(key[m], slot.generation))
         ELSE PlanDelegated(obs, Acceptance(m), v)]
  /\ edited' = [edited EXCEPT ![m] = {}]
  /\ UNCHANGED <<shared, accepted, key, apply, edits, faults, crashes>>

(***************************************************************************)
(* Applying                                                                *)
(***************************************************************************)
(* Mutated form: what the services hold is not compared.                   *)
BadReplaces(p, b, obs) == ~p.bindingOnly /\ b # None /\ ~Matches(b, p, p.value)
Replaces(p, b, obs) ==
  ~p.bindingOnly /\ ((b # None /\ ~Matches(b, p, p.value)) \/ ~(Hashes(obs) \subseteq {p.value}))

(* Mutated form: the key that made the accepted value is not checked.      *)
BadAuthorized(p, b, obs, confirmed) ==
  /\ p.owner = slot.owner /\ p.principal = slot.principal
  /\ p.owner = "hypervibe" =>
       /\ p.generation = slot.generation /\ ~HasUnknown(obs)
       /\ p.bindingOnly = Consistent(obs, p.value)
       /\ Replaces(p, b, obs) => p.confirm /\ confirmed

(* The action is authorized against what is declared, bound and observed   *)
(* now.  The binding is read as it is, with or without a receipt.          *)
Authorized(p, b, obs, confirmed) ==
  /\ p.owner = slot.owner /\ p.principal = slot.principal
  /\ p.owner = "hypervibe" =>
       /\ p.generation = slot.generation
       /\ SameSlot(b, p) => b.value = p.value
       /\ ~HasUnknown(obs)
       /\ p.bindingOnly = Consistent(obs, p.value)
       /\ Replaces(p, b, obs) => p.confirm /\ confirmed

Start(m) ==
  /\ plan[m] # None /\ apply[m].at = "idle"
  /\ row' = [row EXCEPT ![m] = Hydrated(m)]
  /\ \E hidden \in SUBSET Service, confirmed \in BOOLEAN :
       IF Authorized(plan[m], Hydrated(m), Observe(hidden), confirmed)
       THEN /\ apply' = [apply EXCEPT ![m] =
                 [Idle EXCEPT !.at = IF plan[m].bindingOnly THEN "record" ELSE "sync",
                              !.rest = Service, !.confirmed = confirmed, !.kept = Hydrated(m)]]
            /\ UNCHANGED plan
       ELSE plan' = [plan EXCEPT ![m] = None] /\ UNCHANGED apply
  /\ edited' = [edited EXCEPT ![m] = {}]
  /\ UNCHANGED <<shared, accepted, key, counters>>

(* The services are written one after the other; one that fails, with or   *)
(* without the value set, does not stop the next.                          *)
Sync(m) ==
  /\ apply[m].at = "sync"
  /\ \E s \in apply[m].rest, ok \in BOOLEAN :
       /\ IF ok THEN live' = [live EXCEPT ![s] = plan[m].value] /\ UNCHANGED faults
          ELSE Fault /\ live' \in {live, [live EXCEPT ![s] = plan[m].value]}
       /\ LET failed == apply[m].failed \/ ~ok
              rest == apply[m].rest \ {s}
          IN IF rest = {} /\ failed
             THEN apply' = [apply EXCEPT ![m] = Idle] /\ plan' = [plan EXCEPT ![m] = None]
             ELSE /\ apply' = [apply EXCEPT ![m].rest = rest, ![m].failed = failed,
                                            ![m].at = IF rest = {} THEN "record" ELSE "sync"]
                  /\ UNCHANGED plan
       /\ Touches(m, s)
  /\ UNCHANGED <<slot, file, row, accepted, key, plans, edits, crashes>>

Record(m) ==
  /\ apply[m].at = "record"
  /\ row' = [row EXCEPT ![m] = [owner |-> plan[m].owner, principal |-> plan[m].principal,
                                generation |-> plan[m].generation, value |-> plan[m].value, by |-> m]]
  /\ accepted' = [accepted EXCEPT ![m] = FALSE]
  /\ apply' = [apply EXCEPT ![m].at = "export"]
  /\ UNCHANGED <<shared, key, plan, edited, counters>>

(* The change of the row is exported; if that throws the action fails with *)
(* the row written.                                                        *)
Export(m) ==
  /\ apply[m].at = "export"
  /\ \/ /\ file' = row[m] /\ apply' = [apply EXCEPT ![m].at = "receipt"]
        /\ Touches(m, "file") /\ UNCHANGED <<plan, faults>>
     \/ /\ Fault /\ apply' = [apply EXCEPT ![m] = Idle] /\ plan' = [plan EXCEPT ![m] = None]
        /\ UNCHANGED <<file, edited>>
  /\ UNCHANGED <<slot, live, row, accepted, key, plans, edits, crashes>>

Receipt(m) ==
  /\ apply[m].at = "receipt"
  /\ accepted' = [accepted EXCEPT ![m] = TRUE]
  /\ apply' = [apply EXCEPT ![m] = Idle] /\ plan' = [plan EXCEPT ![m] = None]
  /\ UNCHANGED <<shared, row, key, edited, counters>>

Crash(m) ==
  /\ crashes < MaxCrashes /\ crashes' = crashes + 1 /\ apply[m].at # "idle"
  /\ apply' = [apply EXCEPT ![m] = Idle] /\ plan' = [plan EXCEPT ![m] = None]
  /\ UNCHANGED <<shared, row, accepted, key, edited, plans, edits, faults>>

(***************************************************************************)
(* Others                                                                  *)
(***************************************************************************)
(* The declaration changes: another owner or principal, a new generation.  *)
Edit ==
  /\ edits < MaxEdits /\ edits' = edits + 1
  /\ slot' \in Declaration \ {slot}
  /\ edited' = [m \in Machine |-> edited[m] \cup {"slot"}]
  /\ UNCHANGED <<live, file, row, accepted, key, plan, apply, plans, faults, crashes>>

(* Somebody sets or removes a value at the provider.                       *)
Drift ==
  /\ edits < MaxEdits /\ edits' = edits + 1
  /\ \E s \in Service, v \in Supplied \cup {Missing} :
       /\ v # live[s] /\ live' = [live EXCEPT ![s] = v]
       /\ edited' = [m \in Machine |-> edited[m] \cup {s}]
  /\ UNCHANGED <<slot, file, row, accepted, key, plan, apply, plans, faults, crashes>>

Step(m) == SavePlan(m) \/ Start(m) \/ Sync(m) \/ Record(m) \/ Export(m) \/ Receipt(m) \/ Crash(m)
Next == Edit \/ Drift \/ \E m \in Machine : Step(m)
Spec == Init /\ [][Next]_vars

(***************************************************************************)
(* Properties                                                              *)
(***************************************************************************)
(* A generated value replaces another, of any origin, only if the operator *)
(* confirmed it, unless the other appeared after it was last looked at.    *)
ReplacedOnlyConfirmed ==
  [][\A m \in Machine, s \in Service :
       apply[m].at = "sync" /\ plan[m].owner = "hypervibe" /\ live'[s] # live[s] /\ s \in apply[m].rest
         /\ apply'[m] # apply[m] /\ live[s] # Missing /\ s \notin edited[m]
       => apply[m].confirmed]_vars

(* An accepted value of a generation is the value of that generation: a    *)
(* machine with another encryption key does not replace it, confirmed or   *)
(* not, even if its plan is older than the acceptance.                     *)
OneValuePerGeneration ==
  \A m \in Machine :
    apply[m].at \in {"sync", "record"} /\ plan[m].owner = "hypervibe" /\ SameSlot(apply[m].kept, plan[m])
      => apply[m].kept.value = plan[m].value

(* A binding is exported only when every service holds the value, but for  *)
(* those that others changed meanwhile: what is accepted was installed.    *)
ExportedWasInstalled ==
  [][\A m \in Machine :
       file' # file /\ file'.by = m =>
         \A s \in Service : live[s] = file'.value \/ s \in edited[m]]_vars

(* A value at the provider is replaced only with consent, and a value is   *)
(* exported only after it was installed.                                   *)
SecretsAreRespected == ReplacedOnlyConfirmed /\ ExportedWasInstalled

(* A plan applied before anything changed, with its action confirmed and   *)
(* the services visible, is not refused.  Left out are the plans made      *)
(* without a binding that has no receipt, which applying does not ignore.  *)
Applicable ==
  \A m \in Machine :
    /\ plan[m] # None /\ apply[m].at = "idle" /\ edited[m] = {}
    /\ Acceptance(m) = Hydrated(m)
    => Authorized(plan[m], Hydrated(m), Observe({}), TRUE)

(* The plans and applies of one generation agree on its value and can be   *)
(* carried out.                                                            *)
GenerationsHold == OneValuePerGeneration /\ Applicable
=============================================================================
