--------------------------- MODULE ResourcesProofs ---------------------------
(***************************************************************************)
(* Runtime secrets, object storage and the Redis cache for any machines,   *)
(* services, keys, names, providers and bounds: the plans and applies of   *)
(* one generation of a secret agree on its value; a value is replaced only *)
(* with consent; and of the buckets and caches Hypervibe creates none is   *)
(* forgotten, made twice, or deleted while a service has its variables.    *)
(***************************************************************************)
EXTENDS MCResources, Sequences, FiniteSetTheorems, TLAPS

(***************************************************************************)
(* Runtime secrets                                                         *)
(***************************************************************************)
Apply == [at : {"idle", "sync", "record", "export", "receipt"}, rest : SUBSET Service,
          failed : BOOLEAN, confirmed : BOOLEAN, kept : Binding \cup {None}]

AppliesAPlan(m) == apply[m].at # "idle" => plan[m] \in Plan

(* The services an apply has written hold the value, and once it records,  *)
(* all do; but for those that others changed since it looked.              *)
Installed(m) ==
  \A s \in Service : s \notin edited[m] =>
    /\ apply[m].at = "sync" /\ ~apply[m].failed /\ s \notin apply[m].rest => live[s] = plan[m].value
    /\ apply[m].at \in {"record", "export"} => live[s] = plan[m].value

(* What an apply is about to write over was seen, and confirmed.           *)
Consented(m) ==
  apply[m].at = "sync" /\ plan[m].owner = "hypervibe" =>
    \A s \in Service : s \in apply[m].rest /\ s \notin edited[m] =>
      live[s] \in {Missing, plan[m].value} \/ apply[m].confirmed

(* The row that is exported is the one the apply recorded.                 *)
RowIsOwn(m) ==
  apply[m].at = "export" => row[m].by = m /\ row[m].value = plan[m].value

OneValue(m) ==
  apply[m].at \in {"sync", "record"} /\ plan[m].owner = "hypervibe" /\ SameSlot(apply[m].kept, plan[m])
    => apply[m].kept.value = plan[m].value

(* A plan nothing happened to since is authorized.                         *)
CanApply(m) ==
  plan[m] # None /\ apply[m].at = "idle" /\ edited[m] = {} /\ Acceptance(m) = Hydrated(m)
    => Authorized(plan[m], Hydrated(m), Observe({}), TRUE)

Sound(m) ==
  AppliesAPlan(m) /\ Installed(m) /\ Consented(m) /\ RowIsOwn(m) /\ OneValue(m) /\ CanApply(m)

SecretsInv == TypeOK /\ \A m \in Machine : Sound(m)

-----------------------------------------------------------------------------
LEMMA SecretsInit == Init => SecretsInv
<1> SUFFICES ASSUME Init PROVE SecretsInv
  OBVIOUS
<1>1. TypeOK
  <2>1. Idle \in Apply
    BY DEF Idle, Apply
  <2>2. 0 \in 0..MaxPlans /\ 0 \in 0..MaxEdits /\ 0 \in 0..MaxFaults /\ 0 \in 0..MaxCrashes
    BY BoundAssumption
  <2> QED BY <2>1, <2>2 DEF Init, TypeOK, Apply
<1>2. ASSUME NEW m \in Machine PROVE Sound(m)
  <2>1. plan[m] = None /\ apply[m].at = "idle"
    BY DEF Init, Idle
  <2> QED BY <2>1 DEF Sound, AppliesAPlan, Installed, Consented, RowIsOwn, OneValue, CanApply
<1> QED BY <1>1, <1>2 DEF SecretsInv

-----------------------------------------------------------------------------
(***************************************************************************)
(* What is observed                                                        *)
(***************************************************************************)
(* If no service hides its value, the observation is what is there.        *)
LEMMA SeenAsItIs ==
  ASSUME NEW hidden \in SUBSET Service, ~HasUnknown(Observe(hidden))
  PROVE  hidden = {} /\ Observe(hidden) = Observe({})
<1>1. ASSUME NEW s \in hidden PROVE FALSE
  <2>1. Observe(hidden)[s] = Unknown
    BY <1>1 DEF Observe
  <2> QED BY <2>1 DEF HasUnknown, Seen
<1> QED BY <1>1

(* A consistent observation without hidden values: every service has it.   *)
LEMMA ConsistentHoldsAll ==
  ASSUME NEW v, Consistent(Observe({}), v), NEW s \in Service
  PROVE  live[s] = v
  BY DEF Consistent, Seen, Observe

(* An observation that replaces nothing: no service has another value.     *)
LEMMA NotReplacedIsSame ==
  ASSUME NEW v, Hashes(Observe({})) \subseteq {v}, ~HasUnknown(Observe({})), NEW s \in Service
  PROVE  live[s] \in {Missing, v}
<1>1. Observe({})[s] = live[s]
  BY DEF Observe
<1>2. live[s] \in Seen(Observe({}))
  BY <1>1 DEF Seen
<1> QED BY <1>2 DEF Hashes, HasUnknown

-----------------------------------------------------------------------------
(***************************************************************************)
(* A machine whose plan, apply and row stay, and that is told of every     *)
(* change of what is shared, stays sound                                   *)
(***************************************************************************)
LEMMA UntouchedStaysSound ==
  ASSUME NEW n \in Machine, Sound(n),
         plan'[n] = plan[n], apply'[n] = apply[n], row'[n] = row[n], accepted'[n] = accepted[n],
         edited[n] \subseteq edited'[n],
         \A s \in Service : live'[s] = live[s] \/ s \in edited'[n],
         slot' = slot \/ edited'[n] # {}, file' = file \/ edited'[n] # {}
  PROVE  Sound(n)'
<1>1. AppliesAPlan(n)' /\ RowIsOwn(n)'
  BY DEF Sound, AppliesAPlan, RowIsOwn
<1>2. OneValue(n)'
  BY DEF Sound, OneValue, SameSlot
<1>3. Installed(n)'
  BY DEF Sound, Installed
<1>4. Consented(n)'
  BY DEF Sound, Consented
<1>5. CanApply(n)'
  <2> SUFFICES ASSUME plan'[n] # None, apply'[n].at = "idle", edited'[n] = {},
                      Acceptance(n)' = Hydrated(n)'
               PROVE  Authorized(plan[n], Hydrated(n), Observe({}), TRUE)'
    BY DEF CanApply
  <2>1. slot' = slot /\ file' = file /\ edited[n] = {} /\ \A s \in Service : live'[s] = live[s]
    OBVIOUS
  <2>2. Observe({})' = Observe({})
    BY <2>1 DEF Observe
  <2>3. Hydrated(n)' = Hydrated(n) /\ Acceptance(n)' = Acceptance(n)
    BY <2>1 DEF Hydrated, Acceptance
  <2>4. Authorized(plan[n], Hydrated(n), Observe({}), TRUE)
    BY <2>1, <2>3 DEF Sound, CanApply
  <2> QED BY <2>1, <2>2, <2>3, <2>4 DEF Authorized, SameSlot, HasUnknown, Consistent, Replaces,
             Matches, Hashes, Seen
<1> QED BY <1>1, <1>2, <1>3, <1>4, <1>5 DEF Sound

(* A machine that gave up, or is done, has nothing to be wrong about.      *)
LEMMA IdleIsSound ==
  ASSUME NEW m \in Machine, plan'[m] = None, apply'[m].at = "idle"
  PROVE  Sound(m)'
  BY DEF Sound, AppliesAPlan, Installed, Consented, RowIsOwn, OneValue, CanApply

(* A step of one machine tells the others what it changed.                 *)
LEMMA OthersStaySound ==
  ASSUME SecretsInv, NEW m \in Machine, NEW n \in Machine \ {m},
         plan'[n] = plan[n], apply'[n] = apply[n], row'[n] = row[n], accepted'[n] = accepted[n],
         slot' = slot, edited[n] \subseteq edited'[n],
         \A s \in Service : live'[s] = live[s] \/ s \in edited'[n],
         file' = file \/ edited'[n] # {}
  PROVE  Sound(n)'
  BY UntouchedStaysSound DEF SecretsInv

-----------------------------------------------------------------------------
(***************************************************************************)
(* Planning                                                                *)
(***************************************************************************)
LEMMA HydratedIsBinding ==
  ASSUME TypeOK, NEW m \in Machine
  PROVE  Hydrated(m) \in Binding \cup {None} /\ Acceptance(m) \in {None, Hydrated(m)}
  BY DEF TypeOK, Hydrated, Acceptance

(* What is planned is of the declared owner, and of a value of its kind.   *)
LEMMA GeneratedPlan ==
  ASSUME TypeOK, NEW k \in EncryptionKey, slot.owner = "hypervibe", NEW b, NEW obs
  PROVE  PlanGenerated(obs, b, Derive(k, slot.generation)) \in Plan \cup {None}
<1>1. slot.generation \in Generation /\ slot.principal = None
  BY DEF TypeOK, Declaration
<1>2. Derive(k, slot.generation) \in Value
  BY <1>1 DEF Derive, Value
<1>3. ASSUME NEW v \in Value, NEW only \in BOOLEAN, NEW confirm \in BOOLEAN
      PROVE  NewPlan(v, only, confirm) \in Plan
  BY <1>1 DEF NewPlan, Plan
<1> DEFINE c == (b # None /\ ~Matches(b, slot, Derive(k, slot.generation)))
                \/ ~(Hashes(obs) \subseteq {Derive(k, slot.generation)})
<1>4. c \in BOOLEAN
  OBVIOUS
<1>5. PlanGenerated(obs, b, Derive(k, slot.generation)) \in
        {None, NewPlan(Derive(k, slot.generation), TRUE, FALSE),
         NewPlan(Derive(k, slot.generation), FALSE, c)}
  BY DEF PlanGenerated
<1> QED BY <1>2, <1>3, <1>4, <1>5

LEMMA DelegatedPlan ==
  ASSUME TypeOK, NEW v \in Supplied \cup {None}, slot.owner # "hypervibe", NEW b, NEW obs
  PROVE  PlanDelegated(obs, b, v) \in Plan \cup {None}
<1>1. slot.owner = "delegated" /\ slot.principal \in Principal /\ slot.generation = 0
  BY DEF TypeOK, Declaration
<1>2. CASE v = None
  BY <1>2 DEF PlanDelegated
<1>3. CASE v # None
  <2>1. v \in Value
    BY <1>3 DEF Value
  <2>2. NewPlan(v, FALSE, FALSE) \in Plan
    BY <1>1, <2>1 DEF NewPlan, Plan
  <2> QED BY <2>2 DEF PlanDelegated
<1> QED BY <1>2, <1>3

(* What is planned for a generated value is what applying asks for, if     *)
(* applying finds the binding that planning accepted.                      *)
LEMMA GeneratedPlanIsAuthorized ==
  ASSUME slot.owner = "hypervibe", NEW v, NEW b, NEW hidden \in SUBSET Service, NEW p,
         p = PlanGenerated(Observe(hidden), b, v), p # None
  PROVE  Authorized(p, b, Observe({}), TRUE)
<1>1. ~(SameSlot(b, slot) /\ b.value # v) /\ ~HasUnknown(Observe(hidden))
  BY DEF PlanGenerated
<1>2. Observe(hidden) = Observe({}) /\ ~HasUnknown(Observe({}))
  BY <1>1, SeenAsItIs
<1>3. CASE Consistent(Observe({}), v)
  <2>1. p = NewPlan(v, TRUE, FALSE)
    BY <1>1, <1>2, <1>3 DEF PlanGenerated
  <2>2. /\ p.owner = slot.owner /\ p.principal = slot.principal /\ p.generation = slot.generation
        /\ p.value = v /\ p.bindingOnly = TRUE
    BY <2>1 DEF NewPlan
  <2>3. SameSlot(b, p) = SameSlot(b, slot)
    BY <2>2 DEF SameSlot
  <2>4. p.bindingOnly = Consistent(Observe({}), p.value)
    BY <1>3, <2>2 DEF Consistent
  <2> QED BY <1>1, <1>2, <2>2, <2>3, <2>4 DEF Authorized, Replaces
<1>4. CASE ~Consistent(Observe({}), v)
  <2>1. p = NewPlan(v, FALSE, (b # None /\ ~Matches(b, slot, v)) \/ ~(Hashes(Observe({})) \subseteq {v}))
    BY <1>1, <1>2, <1>4 DEF PlanGenerated
  <2>2. /\ p.owner = slot.owner /\ p.principal = slot.principal /\ p.generation = slot.generation
        /\ p.value = v /\ p.bindingOnly = FALSE
        /\ p.confirm = ((b # None /\ ~Matches(b, slot, v)) \/ ~(Hashes(Observe({})) \subseteq {v}))
    BY <2>1 DEF NewPlan
  <2>3. SameSlot(b, p) = SameSlot(b, slot)
    BY <2>2 DEF SameSlot
  <2>4. Replaces(p, b, Observe({})) => p.confirm
    BY <2>2, <2>3 DEF Replaces, Matches
  <2>5. p.bindingOnly = Consistent(Observe({}), p.value)
    BY <1>4, <2>2 DEF Consistent
  <2> QED BY <1>1, <1>2, <2>2, <2>3, <2>4, <2>5 DEF Authorized
<1> QED BY <1>3, <1>4

(* A delegated value is authorized by its owner and principal.             *)
LEMMA DelegatedPlanIsAuthorized ==
  ASSUME slot.owner # "hypervibe", NEW v, NEW b, NEW obs, NEW p, NEW now,
         p = PlanDelegated(obs, b, v), p # None
  PROVE  Authorized(p, b, now, TRUE) /\ p.bindingOnly = FALSE
<1>1. p = NewPlan(v, FALSE, FALSE)
  BY DEF PlanDelegated
<1>2. p.owner = slot.owner /\ p.principal = slot.principal /\ p.bindingOnly = FALSE
  BY <1>1 DEF NewPlan
<1> QED BY <1>2 DEF Authorized

LEMMA SavePlanStep ==
  ASSUME SecretsInv, NEW m \in Machine, SavePlan(m)
  PROVE  SecretsInv'
<1>1. /\ plans < MaxPlans /\ plans' = plans + 1 /\ apply[m].at = "idle"
      /\ row' = [row EXCEPT ![m] = Hydrated(m)]
      /\ edited' = [edited EXCEPT ![m] = {}]
      /\ UNCHANGED <<slot, live, file, accepted, key, apply, edits, faults, crashes>>
  BY DEF SavePlan, shared
<1>2. PICK hidden \in SUBSET Service, v \in Supplied \cup {None} :
        plan' = [plan EXCEPT ![m] =
          IF slot.owner = "hypervibe"
          THEN PlanGenerated(Observe(hidden), Acceptance(m), Derive(key[m], slot.generation))
          ELSE PlanDelegated(Observe(hidden), Acceptance(m), v)]
  BY DEF SavePlan
<1>3. TypeOK
  BY DEF SecretsInv
<1>4. PICK p \in Plan \cup {None} :
        p = IF slot.owner = "hypervibe"
            THEN PlanGenerated(Observe(hidden), Acceptance(m), Derive(key[m], slot.generation))
            ELSE PlanDelegated(Observe(hidden), Acceptance(m), v)
  <2>1. key[m] \in EncryptionKey
    BY <1>3 DEF TypeOK
  <2> QED BY <1>3, <2>1, GeneratedPlan, DelegatedPlan
<1>5. /\ row \in [Machine -> Binding \cup {None}] /\ plan \in [Machine -> Plan \cup {None}]
      /\ edited \in [Machine -> SUBSET (Service \cup {"slot", "file"})]
      /\ Hydrated(m) \in Binding \cup {None}
  BY <1>3, HydratedIsBinding DEF TypeOK
<1>6. plan' = [plan EXCEPT ![m] = p]
  BY <1>2, <1>4
<1>7. TypeOK'
  <2>1. plans' \in 0..MaxPlans
    BY <1>1, <1>3, BoundAssumption DEF TypeOK
  <2>2. /\ row' \in [Machine -> Binding \cup {None}] /\ plan' \in [Machine -> Plan \cup {None}]
        /\ edited' \in [Machine -> SUBSET (Service \cup {"slot", "file"})]
    BY <1>1, <1>4, <1>5, <1>6
  <2> QED BY <1>1, <1>3, <2>1, <2>2 DEF TypeOK
<1>8. ASSUME NEW n \in Machine, n # m PROVE Sound(n)'
  <2>1. plan'[n] = plan[n] /\ row'[n] = row[n] /\ edited'[n] = edited[n]
    BY <1>1, <1>5, <1>6, <1>8
  <2> QED BY <1>1, <1>8, <2>1, OthersStaySound
<1>9. Sound(m)'
  <2>1. plan'[m] = p /\ row'[m] = Hydrated(m) /\ apply'[m].at = "idle"
    BY <1>1, <1>5, <1>6
  <2>2. AppliesAPlan(m)'
    BY <2>1 DEF AppliesAPlan
  <2>3. Installed(m)' /\ Consented(m)' /\ RowIsOwn(m)' /\ OneValue(m)'
    BY <2>1 DEF Installed, Consented, RowIsOwn, OneValue
  <2>4. CanApply(m)'
    <3> SUFFICES ASSUME p # None, Acceptance(m)' = Hydrated(m)'
                 PROVE  Authorized(p, Hydrated(m), Observe({}), TRUE)'
      BY <2>1 DEF CanApply
    <3>1. Hydrated(m)' = Hydrated(m) /\ Acceptance(m)' = Acceptance(m) /\ Observe({})' = Observe({})
      BY <1>1, <2>1 DEF Hydrated, Acceptance, Observe
    <3>2. Authorized(p, Acceptance(m), Observe({}), TRUE)
      BY <1>4, GeneratedPlanIsAuthorized, DelegatedPlanIsAuthorized
    <3> QED BY <1>1, <3>1, <3>2 DEF Authorized, SameSlot, HasUnknown, Consistent, Replaces, Matches,
               Hashes, Seen
  <2> QED BY <2>2, <2>3, <2>4 DEF Sound
<1> QED BY <1>7, <1>8, <1>9 DEF SecretsInv

-----------------------------------------------------------------------------
(***************************************************************************)
(* Applying                                                                *)
(***************************************************************************)
LEMMA FaultCounts == ASSUME TypeOK, Fault PROVE faults' \in 0..MaxFaults
  BY BoundAssumption DEF TypeOK, Fault

(* What an authorized apply starts from.                                   *)
LEMMA AuthorizedIsSeen ==
  ASSUME NEW p, NEW b, NEW hidden \in SUBSET Service, NEW c,
         Authorized(p, b, Observe(hidden), c), p.owner = "hypervibe"
  PROVE  /\ SameSlot(b, p) => b.value = p.value
         /\ p.bindingOnly = TRUE => \A s \in Service : live[s] = p.value
         /\ p.bindingOnly = FALSE => \A s \in Service : live[s] \in {Missing, p.value} \/ c
<1>1. /\ ~HasUnknown(Observe(hidden)) /\ p.bindingOnly = Consistent(Observe(hidden), p.value)
      /\ SameSlot(b, p) => b.value = p.value
  BY DEF Authorized
<1>2. Observe(hidden) = Observe({}) /\ ~HasUnknown(Observe({}))
  BY <1>1, SeenAsItIs
<1>3. ASSUME p.bindingOnly = TRUE PROVE \A s \in Service : live[s] = p.value
  BY <1>1, <1>2, <1>3, ConsistentHoldsAll
<1>4. ASSUME p.bindingOnly = FALSE, ~c PROVE \A s \in Service : live[s] \in {Missing, p.value}
  <2>1. Hashes(Observe({})) \subseteq {p.value}
    BY <1>2, <1>4 DEF Authorized, Replaces
  <2> QED BY <1>2, <2>1, NotReplacedIsSame
<1> QED BY <1>1, <1>3, <1>4 DEF Authorized

LEMMA StartStep ==
  ASSUME SecretsInv, NEW m \in Machine, Start(m)
  PROVE  SecretsInv'
<1>1. /\ plan[m] # None /\ apply[m].at = "idle"
      /\ row' = [row EXCEPT ![m] = Hydrated(m)]
      /\ edited' = [edited EXCEPT ![m] = {}]
      /\ UNCHANGED <<slot, live, file, accepted, key, plans, edits, faults, crashes>>
  BY DEF Start, shared, counters
<1>2. PICK hidden \in SUBSET Service, confirmed \in BOOLEAN :
        IF Authorized(plan[m], Hydrated(m), Observe(hidden), confirmed)
        THEN /\ apply' = [apply EXCEPT ![m] =
                  [Idle EXCEPT !.at = IF plan[m].bindingOnly THEN "record" ELSE "sync",
                               !.rest = Service, !.confirmed = confirmed, !.kept = Hydrated(m)]]
             /\ UNCHANGED plan
        ELSE plan' = [plan EXCEPT ![m] = None] /\ UNCHANGED apply
  BY DEF Start
<1>3. /\ TypeOK /\ Hydrated(m) \in Binding \cup {None} /\ plan[m] \in Plan
      /\ row \in [Machine -> Binding \cup {None}] /\ plan \in [Machine -> Plan \cup {None}]
      /\ edited \in [Machine -> SUBSET (Service \cup {"slot", "file"})]
      /\ apply \in [Machine -> Apply]
  BY <1>1, HydratedIsBinding DEF SecretsInv, TypeOK, Apply
<1>4. /\ row' \in [Machine -> Binding \cup {None}]
      /\ edited' \in [Machine -> SUBSET (Service \cup {"slot", "file"})]
      /\ \A n \in Machine : n # m => row'[n] = row[n] /\ edited'[n] = edited[n]
  BY <1>1, <1>3
<1>5. CASE ~Authorized(plan[m], Hydrated(m), Observe(hidden), confirmed)
  <2>1. plan' = [plan EXCEPT ![m] = None] /\ UNCHANGED apply
    BY <1>2, <1>5
  <2>2. plan' \in [Machine -> Plan \cup {None}] /\ plan'[m] = None
        /\ \A n \in Machine : n # m => plan'[n] = plan[n]
    BY <1>3, <2>1
  <2>3. TypeOK'
    BY <1>1, <1>3, <1>4, <2>1, <2>2 DEF TypeOK
  <2>4. Sound(m)'
    BY <1>1, <2>1, <2>2, IdleIsSound
  <2>5. ASSUME NEW n \in Machine, n # m PROVE Sound(n)'
    BY <1>1, <1>4, <2>1, <2>2, <2>5, OthersStaySound
  <2> QED BY <2>3, <2>4, <2>5 DEF SecretsInv
<1>6. CASE Authorized(plan[m], Hydrated(m), Observe(hidden), confirmed)
  <2>1. PICK b : b = Hydrated(m)
    OBVIOUS
  <2>2. PICK p \in Plan : p = plan[m]
    BY <1>3
  <2>3. PICK a : a = [Idle EXCEPT !.at = IF p.bindingOnly THEN "record" ELSE "sync",
                                 !.rest = Service, !.confirmed = confirmed, !.kept = b]
    OBVIOUS
  <2>4. /\ a.at = IF p.bindingOnly THEN "record" ELSE "sync"
        /\ a.rest = Service /\ a.confirmed = confirmed /\ a.kept = b /\ a.failed = FALSE
    BY <2>3 DEF Idle
  <2>5. a \in Apply
    BY <1>3, <2>1, <2>3 DEF Idle, Apply
  <2>6. apply' = [apply EXCEPT ![m] = a] /\ UNCHANGED plan
    BY <1>2, <1>6, <2>1, <2>2, <2>3
  <2>7. apply' \in [Machine -> Apply] /\ apply'[m] = a /\ plan'[m] = p
        /\ \A n \in Machine : n # m => apply'[n] = apply[n]
    BY <1>3, <2>2, <2>5, <2>6
  <2>8. TypeOK'
    BY <1>1, <1>3, <1>4, <2>6, <2>7 DEF TypeOK, Apply
  <2>9. ASSUME NEW n \in Machine, n # m PROVE Sound(n)'
    BY <1>1, <1>4, <2>6, <2>7, <2>9, OthersStaySound
  <2>10. Sound(m)'
    <3>1. p.bindingOnly \in BOOLEAN
      BY DEF Plan
    <3>2. AppliesAPlan(m)'
      BY <2>7 DEF AppliesAPlan
    <3>3. p.owner = "hypervibe" =>
            /\ SameSlot(b, p) => b.value = p.value
            /\ p.bindingOnly = TRUE => \A s \in Service : live[s] = p.value
            /\ p.bindingOnly = FALSE => \A s \in Service : live[s] \in {Missing, p.value} \/ confirmed
      <4>1. Authorized(p, b, Observe(hidden), confirmed)
        BY <1>6, <2>1, <2>2
      <4> QED BY <4>1, AuthorizedIsSeen
    <3>4. p.bindingOnly = TRUE => p.owner = "hypervibe"
      BY DEF Plan
    <3>5. Installed(m)'
      BY <1>1, <2>4, <2>7, <3>1, <3>3, <3>4 DEF Installed
    <3>6. Consented(m)'
      BY <1>1, <2>4, <2>7, <3>1, <3>3 DEF Consented
    <3>7. OneValue(m)'
      BY <2>4, <2>7, <3>3 DEF OneValue, SameSlot
    <3>8. RowIsOwn(m)' /\ CanApply(m)'
      BY <2>4, <2>7 DEF RowIsOwn, CanApply
    <3> QED BY <3>2, <3>5, <3>6, <3>7, <3>8 DEF Sound
  <2> QED BY <2>8, <2>9, <2>10 DEF SecretsInv
<1> QED BY <1>5, <1>6

(* A service that is written is off the list, and the others are told.     *)
LEMMA SyncStep ==
  ASSUME SecretsInv, NEW m \in Machine, Sync(m)
  PROVE  SecretsInv'
<1>1. /\ apply[m].at = "sync"
      /\ UNCHANGED <<slot, file, row, accepted, key, plans, edits, crashes>>
  BY DEF Sync
<1>2. PICK s \in apply[m].rest, ok \in BOOLEAN :
       /\ IF ok THEN live' = [live EXCEPT ![s] = plan[m].value] /\ UNCHANGED faults
          ELSE Fault /\ live' \in {live, [live EXCEPT ![s] = plan[m].value]}
       /\ LET failed == apply[m].failed \/ ~ok
              rest == apply[m].rest \ {s}
          IN IF rest = {} /\ failed
             THEN apply' = [apply EXCEPT ![m] = Idle] /\ plan' = [plan EXCEPT ![m] = None]
             ELSE /\ apply' = [apply EXCEPT ![m].rest = rest, ![m].failed = failed,
                                            ![m].at = IF rest = {} THEN "record" ELSE "sync"]
                  /\ UNCHANGED plan
       /\ Touches(m, s)
  BY DEF Sync
<1>3. TypeOK /\ Sound(m)
  BY DEF SecretsInv
<1>4. PICK p \in Plan : p = plan[m]
  BY <1>1, <1>3 DEF Sound, AppliesAPlan
<1>5. PICK old \in Apply : old = apply[m]
  BY <1>3 DEF TypeOK, Apply
<1>6. /\ s \in Service /\ live \in [Service -> Value \cup {Missing}] /\ p.value \in Value
      /\ apply \in [Machine -> Apply] /\ plan \in [Machine -> Plan \cup {None}]
      /\ edited \in [Machine -> SUBSET (Service \cup {"slot", "file"})]
      /\ old.rest \subseteq Service /\ old.failed \in BOOLEAN
  BY <1>3, <1>4, <1>5 DEF TypeOK, Apply, Plan
<1>7. /\ live' \in [Service -> Value \cup {Missing}]
      /\ \A t \in Service \ {s} : live'[t] = live[t]
      /\ ok => live'[s] = p.value
  BY <1>2, <1>4, <1>6
<1>8. /\ edited' \in [Machine -> SUBSET (Service \cup {"slot", "file"})] /\ edited'[m] = edited[m]
      /\ \A n \in Machine : n # m => edited'[n] = edited[n] \cup {s}
  BY <1>2, <1>6 DEF Touches
<1>9. faults' \in 0..MaxFaults
  BY <1>2, <1>3, FaultCounts DEF TypeOK
<1>10. PICK failed \in BOOLEAN : failed = (old.failed \/ ~ok)
  BY <1>6
<1>11. PICK rest \in SUBSET Service : rest = old.rest \ {s}
  BY <1>6
<1>12. CASE rest = {} /\ failed
  <2>1. apply' = [apply EXCEPT ![m] = Idle] /\ plan' = [plan EXCEPT ![m] = None]
    BY <1>2, <1>5, <1>10, <1>11, <1>12
  <2>2. Idle \in Apply /\ Idle.at = "idle"
    BY DEF Idle, Apply
  <2>3. /\ apply' \in [Machine -> Apply] /\ plan' \in [Machine -> Plan \cup {None}]
        /\ apply'[m].at = "idle" /\ plan'[m] = None
        /\ \A n \in Machine : n # m => apply'[n] = apply[n] /\ plan'[n] = plan[n]
    BY <1>6, <2>1, <2>2
  <2>4. TypeOK'
    BY <1>1, <1>3, <1>7, <1>8, <1>9, <2>3 DEF TypeOK, Apply
  <2>5. Sound(m)'
    BY <2>3, IdleIsSound
  <2>6. ASSUME NEW n \in Machine, n # m PROVE Sound(n)'
    BY <1>1, <1>6, <1>7, <1>8, <2>3, <2>6, OthersStaySound
  <2> QED BY <2>4, <2>5, <2>6 DEF SecretsInv
<1>13. CASE ~(rest = {} /\ failed)
  <2>1. apply' = [apply EXCEPT ![m].rest = rest, ![m].failed = failed,
                               ![m].at = IF rest = {} THEN "record" ELSE "sync"] /\ UNCHANGED plan
    BY <1>2, <1>5, <1>10, <1>11, <1>13
  <2>2. PICK new : new = [old EXCEPT !.rest = rest, !.failed = failed,
                                    !.at = IF rest = {} THEN "record" ELSE "sync"]
    OBVIOUS
  <2>3. /\ new \in Apply /\ new.rest = rest /\ new.failed = failed
        /\ new.at = IF rest = {} THEN "record" ELSE "sync"
        /\ new.confirmed = old.confirmed /\ new.kept = old.kept
    BY <2>2 DEF Apply
  <2>4. apply' = [apply EXCEPT ![m] = new]
    BY <1>5, <1>6, <2>1, <2>2
  <2>5. /\ apply' \in [Machine -> Apply] /\ apply'[m] = new /\ plan'[m] = p
        /\ \A n \in Machine : n # m => apply'[n] = apply[n] /\ plan'[n] = plan[n]
    <3>1. new \in Apply /\ plan'[m] = p /\ plan' = plan
      BY <1>4, <2>1, <2>3
    <3> QED BY <1>6, <2>4, <3>1
  <2>6. TypeOK'
    BY <1>1, <1>3, <1>7, <1>8, <1>9, <2>1, <2>5 DEF TypeOK, Apply
  <2>7. ASSUME NEW n \in Machine, n # m PROVE Sound(n)'
    BY <1>1, <1>6, <1>7, <1>8, <2>5, <2>7, OthersStaySound
  <2>8. Sound(m)'
    <3>1. AppliesAPlan(m)'
      BY <1>3, <1>4, <2>5 DEF Sound, AppliesAPlan
    <3>2. Installed(m)'
      <4> SUFFICES ASSUME NEW t \in Service, t \notin edited[m]
                   PROVE  /\ new.at = "sync" /\ ~new.failed /\ t \notin new.rest => live'[t] = p.value
                          /\ new.at \in {"record", "export"} => live'[t] = p.value
        BY <1>8, <2>5 DEF Installed
      <4>1. ~failed => ok /\ ~old.failed
        BY <1>10
      <4>2. t # s /\ ~failed /\ t \notin rest => live[t] = p.value
        BY <1>1, <1>3, <1>4, <1>5, <1>11, <4>1 DEF Sound, Installed
      <4> QED BY <1>7, <1>13, <2>3, <4>1, <4>2
    <3>3. Consented(m)'
      BY <1>1, <1>3, <1>4, <1>5, <1>7, <1>8, <1>11, <2>3, <2>5 DEF Sound, Consented
    <3>4. OneValue(m)'
      BY <1>1, <1>3, <1>4, <1>5, <2>3, <2>5 DEF Sound, OneValue, SameSlot
    <3>5. RowIsOwn(m)' /\ CanApply(m)'
      BY <2>3, <2>5 DEF RowIsOwn, CanApply
    <3> QED BY <3>1, <3>2, <3>3, <3>4, <3>5 DEF Sound
  <2> QED BY <2>6, <2>7, <2>8 DEF SecretsInv
<1> QED BY <1>12, <1>13

LEMMA RecordStep ==
  ASSUME SecretsInv, NEW m \in Machine, Record(m)
  PROVE  SecretsInv'
<1>1. /\ apply[m].at = "record" /\ TypeOK /\ Sound(m)
      /\ UNCHANGED <<slot, live, file, key, plan, edited, plans, edits, faults, crashes>>
  BY DEF Record, shared, counters, SecretsInv
<1>2. PICK p \in Plan : p = plan[m]
  BY <1>1 DEF Sound, AppliesAPlan
<1>3. PICK b : b = [owner |-> p.owner, principal |-> p.principal, generation |-> p.generation,
                    value |-> p.value, by |-> m]
  OBVIOUS
<1>4. row' = [row EXCEPT ![m] = b] /\ accepted' = [accepted EXCEPT ![m] = FALSE]
  BY <1>2, <1>3 DEF Record
<1>5. PICK old \in Apply : old = apply[m]
  BY <1>1 DEF TypeOK, Apply
<1>6. PICK new : new = [old EXCEPT !.at = "export"]
  OBVIOUS
<1>7. new \in Apply /\ new.at = "export"
  BY <1>6 DEF Apply
<1>8. apply' = [apply EXCEPT ![m] = new]
  BY <1>5, <1>6 DEF Record
<1>9. apply \in [Machine -> Apply] /\ row \in [Machine -> Binding \cup {None}] /\ accepted \in [Machine -> BOOLEAN]
  BY <1>1 DEF TypeOK, Apply
<1>10. /\ row' \in [Machine -> Binding \cup {None}] /\ row'[m] = b
       /\ \A n \in Machine : n # m => row'[n] = row[n]
  <2>1. b \in Binding
    BY <1>3 DEF Plan, Binding
  <2> QED BY <1>4, <1>9, <2>1
<1>11. /\ apply' \in [Machine -> Apply] /\ apply'[m] = new /\ accepted' \in [Machine -> BOOLEAN]
       /\ \A n \in Machine : n # m => apply'[n] = apply[n] /\ accepted'[n] = accepted[n]
  BY <1>4, <1>7, <1>8, <1>9
<1>12. TypeOK'
  BY <1>1, <1>10, <1>11 DEF TypeOK, Apply
<1>13. ASSUME NEW n \in Machine, n # m PROVE Sound(n)'
  BY <1>1, <1>10, <1>11, <1>13, OthersStaySound
<1>14. Sound(m)'
  <2>1. AppliesAPlan(m)' /\ Consented(m)' /\ OneValue(m)' /\ CanApply(m)'
    BY <1>1, <1>2, <1>7, <1>11 DEF AppliesAPlan, Consented, OneValue, CanApply
  <2>2. Installed(m)'
    BY <1>1, <1>7, <1>11 DEF Sound, Installed
  <2>3. RowIsOwn(m)'
    BY <1>1, <1>2, <1>3, <1>10 DEF RowIsOwn
  <2> QED BY <2>1, <2>2, <2>3 DEF Sound
<1> QED BY <1>12, <1>13, <1>14 DEF SecretsInv

(* A machine that gives up, or is done, keeps what was written.            *)
LEMMA GiveUpStep ==
  ASSUME SecretsInv, NEW m \in Machine,
         apply' = [apply EXCEPT ![m] = Idle], plan' = [plan EXCEPT ![m] = None],
         accepted' = accepted \/ accepted' = [accepted EXCEPT ![m] = TRUE],
         UNCHANGED <<slot, live, file, row, key, edited, plans, edits>>,
         faults' \in 0..MaxFaults, crashes' \in 0..MaxCrashes
  PROVE  SecretsInv'
<1>1. /\ apply \in [Machine -> Apply] /\ plan \in [Machine -> Plan \cup {None}]
      /\ accepted \in [Machine -> BOOLEAN]
  BY DEF SecretsInv, TypeOK, Apply
<1>2. Idle \in Apply /\ Idle.at = "idle"
  BY DEF Idle, Apply
<1>3. /\ apply' \in [Machine -> Apply] /\ plan' \in [Machine -> Plan \cup {None}]
      /\ accepted' \in [Machine -> BOOLEAN] /\ apply'[m].at = "idle" /\ plan'[m] = None
      /\ \A n \in Machine : n # m =>
           apply'[n] = apply[n] /\ plan'[n] = plan[n] /\ accepted'[n] = accepted[n]
  BY <1>1, <1>2
<1>4. TypeOK'
  BY <1>3 DEF SecretsInv, TypeOK, Apply
<1>5. ASSUME NEW n \in Machine, n # m PROVE Sound(n)'
  BY <1>3, <1>5, OthersStaySound
<1>6. Sound(m)'
  BY <1>3, IdleIsSound
<1> QED BY <1>4, <1>5, <1>6 DEF SecretsInv

LEMMA ExportStep ==
  ASSUME SecretsInv, NEW m \in Machine, Export(m)
  PROVE  SecretsInv'
<1>1. /\ apply[m].at = "export" /\ TypeOK /\ Sound(m)
      /\ UNCHANGED <<slot, live, row, accepted, key, plans, edits, crashes>>
  BY DEF Export, SecretsInv
<1>2. /\ apply \in [Machine -> Apply] /\ plan \in [Machine -> Plan \cup {None}]
      /\ edited \in [Machine -> SUBSET (Service \cup {"slot", "file"})]
  BY <1>1 DEF TypeOK, Apply
<1>3. CASE /\ file' = row[m] /\ apply' = [apply EXCEPT ![m].at = "receipt"]
           /\ Touches(m, "file") /\ UNCHANGED <<plan, faults>>
  <2>1. PICK old \in Apply : old = apply[m]
    BY <1>2
  <2>2. PICK new : new = [old EXCEPT !.at = "receipt"]
    OBVIOUS
  <2>3. new \in Apply /\ new.at = "receipt"
    BY <2>2 DEF Apply
  <2>4. apply' = [apply EXCEPT ![m] = new]
    BY <1>3, <2>1, <2>2
  <2>5. /\ apply' \in [Machine -> Apply] /\ apply'[m] = new
        /\ \A n \in Machine : n # m => apply'[n] = apply[n]
    BY <1>2, <2>3, <2>4
  <2>6. /\ edited' \in [Machine -> SUBSET (Service \cup {"slot", "file"})]
        /\ \A n \in Machine : n # m => edited'[n] = edited[n] \cup {"file"}
    BY <1>2, <1>3 DEF Touches
  <2>7. TypeOK'
    BY <1>1, <1>3, <2>5, <2>6 DEF TypeOK, Apply
  <2>8. ASSUME NEW n \in Machine, n # m PROVE Sound(n)'
    <3>1. edited[n] \subseteq edited'[n] /\ edited'[n] # {}
      BY <2>6, <2>8
    <3> QED BY <1>1, <1>3, <2>5, <2>8, <3>1, OthersStaySound
  <2>9. Sound(m)'
    <3>1. AppliesAPlan(m)'
      BY <1>1, <1>3 DEF Sound, AppliesAPlan
    <3> QED BY <2>3, <2>5, <3>1 DEF Sound, Installed, Consented, RowIsOwn, OneValue, CanApply
  <2> QED BY <2>7, <2>8, <2>9 DEF SecretsInv
<1>4. CASE /\ Fault /\ apply' = [apply EXCEPT ![m] = Idle] /\ plan' = [plan EXCEPT ![m] = None]
           /\ UNCHANGED <<file, edited>>
  <2>1. faults' \in 0..MaxFaults
    BY <1>1, <1>4, FaultCounts
  <2>2. crashes' \in 0..MaxCrashes
    BY <1>1 DEF TypeOK
  <2> QED BY <1>1, <1>4, <2>1, <2>2, GiveUpStep
<1> QED BY <1>3, <1>4 DEF Export

LEMMA ReceiptStep ==
  ASSUME SecretsInv, NEW m \in Machine, Receipt(m)
  PROVE  SecretsInv'
  BY GiveUpStep DEF Receipt, shared, counters, SecretsInv, TypeOK

LEMMA CrashStep ==
  ASSUME SecretsInv, NEW m \in Machine, Crash(m)
  PROVE  SecretsInv'
<1>1. crashes' \in 0..MaxCrashes
  BY BoundAssumption DEF Crash, SecretsInv, TypeOK
<1> QED BY <1>1, GiveUpStep DEF Crash, shared, SecretsInv, TypeOK

-----------------------------------------------------------------------------
(***************************************************************************)
(* Others                                                                  *)
(***************************************************************************)
LEMMA EditStep == ASSUME SecretsInv, Edit PROVE SecretsInv'
<1>1. /\ slot' \in Declaration /\ edits < MaxEdits /\ edits' = edits + 1
      /\ edited' = [m \in Machine |-> edited[m] \cup {"slot"}]
      /\ UNCHANGED <<live, file, row, accepted, key, plan, apply, plans, faults, crashes>>
  BY DEF Edit
<1>2. TypeOK'
  BY <1>1, BoundAssumption DEF SecretsInv, TypeOK
<1>3. ASSUME NEW n \in Machine PROVE Sound(n)'
  <2>1. edited[n] \subseteq edited'[n] /\ edited'[n] # {}
    BY <1>1
  <2> QED BY <1>1, <2>1, UntouchedStaysSound DEF SecretsInv
<1> QED BY <1>2, <1>3 DEF SecretsInv

LEMMA DriftStep == ASSUME SecretsInv, Drift PROVE SecretsInv'
<1>1. /\ edits < MaxEdits /\ edits' = edits + 1
      /\ UNCHANGED <<slot, file, row, accepted, key, plan, apply, plans, faults, crashes>>
  BY DEF Drift
<1>2. PICK s \in Service, v \in Supplied \cup {Missing} :
        /\ live' = [live EXCEPT ![s] = v]
        /\ edited' = [m \in Machine |-> edited[m] \cup {s}]
  BY DEF Drift
<1>3. v \in Value \cup {Missing} /\ live \in [Service -> Value \cup {Missing}]
  BY DEF Value, SecretsInv, TypeOK
<1>4. live' \in [Service -> Value \cup {Missing}] /\ \A t \in Service \ {s} : live'[t] = live[t]
  BY <1>2, <1>3
<1>5. edits' \in 0..MaxEdits
  BY <1>1, BoundAssumption DEF SecretsInv, TypeOK
<1>6. edited' \in [Machine -> SUBSET (Service \cup {"slot", "file"})]
  BY <1>2 DEF SecretsInv, TypeOK
<1>7. TypeOK'
  BY <1>1, <1>4, <1>5, <1>6 DEF SecretsInv, TypeOK
<1>8. ASSUME NEW n \in Machine PROVE Sound(n)'
  <2>1. edited[n] \subseteq edited'[n] /\ s \in edited'[n]
    BY <1>2
  <2>2. \A t \in Service : live'[t] = live[t] \/ t \in edited'[n]
    BY <1>4, <2>1
  <2> QED BY <1>1, <2>1, <2>2, UntouchedStaysSound DEF SecretsInv
<1> QED BY <1>7, <1>8 DEF SecretsInv

LEMMA SecretsStep == SecretsInv /\ [Next]_vars => SecretsInv'
<1> SUFFICES ASSUME SecretsInv, [Next]_vars PROVE SecretsInv'
  OBVIOUS
<1>1. CASE Edit \/ Drift
  BY <1>1, EditStep, DriftStep
<1>2. ASSUME NEW m \in Machine, Step(m) PROVE SecretsInv'
  BY <1>2, SavePlanStep, StartStep, SyncStep, RecordStep, ExportStep, ReceiptStep, CrashStep DEF Step
<1>3. CASE UNCHANGED vars
  <2>1. UNCHANGED <<slot, live, file, row, accepted, key, plan, apply, edited, plans, edits, faults, crashes>>
    BY <1>3 DEF vars, shared, counters
  <2>2. TypeOK'
    BY <2>1 DEF SecretsInv, TypeOK
  <2>3. ASSUME NEW n \in Machine PROVE Sound(n)'
    BY <2>1, UntouchedStaysSound DEF SecretsInv
  <2> QED BY <2>2, <2>3 DEF SecretsInv
<1> QED BY <1>1, <1>2, <1>3 DEF Next

(* A secret takes steps only where it is what moves.                       *)
LEMMA SecretsInvariance == MCSpec => []SecretsInv
<1>1. MCInit => SecretsInv
  BY SecretsInit DEF MCInit
<1>2. [MCNext]_<<part, vars, storage, cache>> => [Next]_vars
  BY DEF MCNext
<1> QED BY <1>1, <1>2, SecretsStep, PTL DEF MCSpec

LEMMA SecretsSteps == MCSpec => [][Next]_vars
<1>1. [MCNext]_<<part, vars, storage, cache>> => [Next]_vars
  BY DEF MCNext
<1> QED BY <1>1, PTL DEF MCSpec

(* Machines with different encryption keys never write two values for one  *)
(* generation, and what is planned can be applied as long as nothing       *)
(* changed (planRuntimeSecret against the checks of applyRuntimeSecret).   *)
THEOREM OneGeneration == MCSpec => []GenerationsHold
<1>1. SecretsInv => GenerationsHold
  BY DEF SecretsInv, Sound, OneValue, CanApply, GenerationsHold, OneValuePerGeneration, Applicable
<1> QED BY SecretsInvariance, <1>1, PTL

(* A value at a provider is replaced only if it was confirmed or not there *)
(* when it was looked at, and exported only after every service took it.   *)
THEOREM SecretsRespected == MCSpec => SecretsAreRespected
<1>1. ASSUME SecretsInv, [Next]_vars, NEW m \in Machine, NEW s \in Service,
             apply[m].at = "sync", plan[m].owner = "hypervibe", live'[s] # live[s], s \in apply[m].rest,
             apply'[m] # apply[m], live[s] # Missing, s \notin edited[m]
      PROVE  apply[m].confirmed
  <2>1. live \in [Service -> Value \cup {Missing}] /\ apply \in [Machine -> Apply] /\ Sound(m)
    BY <1>1 DEF SecretsInv, TypeOK, Apply
  <2>2. PICK n \in Machine : Sync(n)
    BY <1>1 DEF Next, Step, Edit, Drift, SavePlan, Start, Record, Export, Receipt, Crash, vars, shared
  <2>3. n = m
    <3>1. n # m => apply'[m] = apply[m]
      BY <2>1, <2>2 DEF Sync
    <3> QED BY <1>1, <3>1
  <2>4. live'[s] = plan[m].value
    BY <1>1, <2>1, <2>2, <2>3 DEF Sync
  <2> QED BY <1>1, <2>1, <2>4 DEF Sound, Consented
<1>2. ASSUME SecretsInv, [Next]_vars, NEW m \in Machine, file' # file, file'.by = m, NEW s \in Service
      PROVE  live[s] = file'.value \/ s \in edited[m]
  <2>1. PICK n \in Machine : Export(n)
    BY <1>2 DEF Next, Step, Edit, Drift, SavePlan, Start, Sync, Record, Receipt, Crash, vars, shared
  <2>2. file' = row[n] /\ apply[n].at = "export" /\ Sound(n)
    BY <1>2, <2>1 DEF Export, SecretsInv
  <2>3. n = m /\ file'.value = plan[n].value
    BY <1>2, <2>2 DEF Sound, RowIsOwn
  <2> QED BY <2>2, <2>3 DEF Sound, Installed
<1>3. SecretsInv /\ [Next]_vars =>
        [\A m \in Machine, s \in Service :
           apply[m].at = "sync" /\ plan[m].owner = "hypervibe" /\ live'[s] # live[s] /\ s \in apply[m].rest
             /\ apply'[m] # apply[m] /\ live[s] # Missing /\ s \notin edited[m]
           => apply[m].confirmed]_vars
  BY <1>1
<1>4. SecretsInv /\ [Next]_vars =>
        [\A m \in Machine :
           file' # file /\ file'.by = m =>
             \A s \in Service : live[s] = file'.value \/ s \in edited[m]]_vars
  BY <1>2
<1> QED BY SecretsInvariance, SecretsSteps, <1>3, <1>4, PTL
        DEF SecretsAreRespected, ReplacedOnlyConfirmed, ExportedWasInstalled

------------------------------------------------------------------------------
(***************************************************************************)
(* Object storage                                                          *)
(***************************************************************************)
StorageKept == (made \cap buckets) \ lost

(* What exists or is bound was created with a name, and a bucket is bound  *)
(* to one name.                                                            *)
StorageEachWasCreated ==
  /\ \A i \in buckets \cup made : nameOf[i] # None
  /\ \A n \in Name : bound[n] # None => nameOf[bound[n].id] # None
  /\ \A m, n \in Name : bound[m] # None /\ bound[n] # None /\ bound[m].id = bound[n].id => m = n

(* A bucket is bound to the name it was created with, or the marker of     *)
(* that name is about it.                                                  *)
BoundFits ==
  \A n \in Name : bound[n] # None /\ bound[n].id \in StorageKept =>
    nameOf[bound[n].id] = n \/ marker[nameOf[bound[n].id]] # None

(* A name whose bucket is still to be created has no services, and buckets *)
(* are created before services are wired.                                  *)
EnsuresFit ==
  \A a \in todo : a.op = "ensure" =>
    /\ bound[a.name] # None => bound[a.name].services = {}
    /\ \A b \in todo : b.op = "wire" => a.turn < b.turn

(* Only services are wired.                                                *)
WiringsFit == \A a \in todo : a.op \in {"wire", "unwire"} => a.service \in Injected

(* A bucket that is to be deleted is to be unwired from all of its services*)
(* first, and nothing else is to be done to it.                            *)
StorageDestroysFit ==
  \A a \in todo : a.op = "destroy" =>
    /\ \A b \in todo : b.name = a.name => b = a \/ b.op = "unwire"
    /\ bound[a.name] # None /\ bound[a.name].id = a.id =>
         \A s \in bound[a.name].services : Storage!Do(a.turn, "unwire", a.name, s, 0) \in todo

(* The bindings that were read are the present ones, but for imports.      *)
ReadFits ==
  held # Storage!Ended =>
    /\ held.action \in todo /\ \A b \in todo : ~Storage!Before(b, held.action)
    /\ \A m \in Name \ adopted : held.read[m] = bound[m]
    /\ \A m \in adopted : held.read[m] = None /\ bound[m] # None /\ bound[m].services = {}

(* What is in hand is about the bucket and the service of the action.      *)
StorageHeldFits ==
  held # Storage!Ended =>
    LET a == held.action  n == held.action.name  result == held.result IN
    /\ a.op = "clear" => /\ result.state # "done" /\ n \in waived
                         /\ \A k \in StorageKept : nameOf[k] # n
    /\ a.op = "ensure" /\ result.state = "done" =>
         /\ result.id \in Storage!Id \ Storage!BoundIds /\ nameOf[result.id] = n /\ n \notin late \ waived
         /\ \A k \in StorageKept : nameOf[k] = n => k = result.id
    /\ a.op \in {"wire", "unwire", "destroy"} => result.state = "done" /\ held.read[n] # None
    /\ a.op = "wire" => a.service \in Injected /\ access[a.service] = held.read[n].id
    /\ a.op = "unwire" => a.service \in Injected /\ access[a.service] \notin Storage!Id
    /\ a.op = "destroy" => /\ held.read[n].id = a.id /\ a.id \notin buckets
                           /\ \A s \in Injected \ unrecorded : access[s] # a.id

(* A create that may yet take effect is the only one awaited of its name.  *)
StorageLateFits ==
  \A n \in late \ waived : (marker[n] # None \/ Storage!InHand("ensure", n)) /\ \A k \in StorageKept : nameOf[k] # n

StorageInv ==
  /\ Storage!TypeOK /\ StorageEachWasCreated /\ BoundFits /\ EnsuresFit /\ StorageDestroysFit /\ WiringsFit /\ ReadFits
  /\ StorageHeldFits /\ StorageLateFits /\ Storage!NothingForgotten /\ Storage!OneBucketPerName /\ Storage!AccessIsRecorded

LEMMA StorageValues ==
  ASSUME Storage!Assumption
  PROVE  /\ 0 \notin Storage!Id /\ NoKeys \notin Storage!Id /\ Cleared \notin Storage!Id
         /\ None \notin Name /\ None \notin Storage!Binding /\ None \notin Storage!Marker
BY DEF Storage!Assumption, Storage!Id

(* Names are counted in storage as they are here.                          *)
LEMMA NamesAreFinite ==
  ASSUME Storage!Assumption
  PROVE  IsFiniteSet(Name) /\ Cardinality(Name) \in Nat /\ Storage!Cardinality(Name) = Cardinality(Name)
PROOF
<1>1. IsFiniteSet(Name)
  <2>1. Storage!IsFiniteSet(Name) = IsFiniteSet(Name)
    BY DEF Storage!IsFiniteSet, IsFiniteSet
  <2> QED BY <2>1 DEF Storage!Assumption
<1>2. Storage!Cardinality(Name) = Cardinality(Name)
  BY DEF Storage!Cardinality, Cardinality
<1> QED BY <1>1, <1>2, FS_CardinalityType

LEMMA StoragePlaceType ==
  ASSUME Storage!Assumption
  PROVE  Storage!Place \in [Name -> Nat]
PROOF
<1> DEFINE k == Cardinality(Name)
           Good(f) == \A m, n \in Name : f[m] = f[n] => m = n
<1>1. k \in Nat /\ ExistsBijection(1..k, Name)
  BY NamesAreFinite, FS_CardinalityType
<1>2. PICK b \in Bijection(1..k, Name) : TRUE
  BY <1>1 DEF ExistsBijection
<1>3. b \in [1..k -> Name] /\ \A n \in Name : \E i \in 1..k : b[i] = n
  BY <1>2 DEF Bijection, Injection, Surjection
<1> DEFINE g == [n \in Name |-> CHOOSE i \in 1..k : b[i] = n]
<1>4. g \in [Name -> 1..k] /\ \A n \in Name : b[g[n]] = n
  BY <1>3
<1>5. Good(g)
  BY <1>4
<1>6. \E f \in [Name -> 1..k] : Good(f)
  BY <1>4, <1>5
<1>7. Storage!Place \in [Name -> 1..k]
  BY <1>6, NamesAreFinite DEF Storage!Place
<1> QED BY <1>1, <1>7

LEMMA StorageRowType ==
  ASSUME Storage!TypeOK, NEW n \in Name
  PROVE  /\ bound[n] # None => bound[n] \in Storage!Binding /\ bound[n].id \in Storage!Id /\ bound[n].services \subseteq Injected
         /\ marker[n] # None => marker[n] \in Storage!Marker
BY DEF Storage!TypeOK, Storage!Binding

LEMMA StorageHeldType ==
  ASSUME Storage!TypeOK, held # Storage!Ended
  PROVE  /\ held.action \in Storage!Action /\ held.action.op \in Storage!Op /\ held.action.name \in Name
         /\ held.action.id \in Storage!Id \cup {0} /\ held.read \in [Name -> Storage!Binding \cup {None}]
         /\ held.result \in Storage!Result
         /\ held.result.state # "done" => held.result \in Storage!Marker
BY DEF Storage!TypeOK, Storage!Held, Storage!Action, Storage!Result

(***************************************************************************)
(* Planning                                                                *)
(***************************************************************************)
LEMMA EnsurePlanned ==
  ASSUME Storage!Assumption, NEW t \in Nat, NEW n \in Name, NEW known \in BOOLEAN, NEW a \in Storage!PlanEnsure(t, n, known)
  PROVE  /\ a.turn = t /\ a.name = n /\ a.op \in {"clear", "ensure", "blocked"}
         /\ a.op # "blocked" => a \in Storage!Action
         /\ a.op = "ensure" => bound[n] = None
BY StorageValues DEF Storage!PlanEnsure, Storage!Releasable, Storage!Blocked, Storage!Do, Storage!Action, Storage!Op

LEMMA WiringPlanned ==
  ASSUME Storage!Assumption, NEW t \in Nat, NEW d \in Storage!Entry, NEW known \in BOOLEAN, NEW a \in Storage!PlanWiring(t, d, known)
  PROVE  /\ a.turn = t /\ a.name = d.name /\ a.op \in {"wire", "unwire", "blocked"}
         /\ a.op # "blocked" => a \in Storage!Action /\ a.service \in Injected
BY StorageValues DEF Storage!PlanWiring, Storage!Blocked, Storage!Do, Storage!Action, Storage!Op, Storage!Entry

LEMMA RemovalPlanned ==
  ASSUME Storage!Assumption, Storage!TypeOK, NEW t \in Nat, NEW n \in Name, bound[n] # None, NEW known \in BOOLEAN,
         NEW a \in Storage!PlanRemoval(t, n, known)
  PROVE  /\ a.turn = t /\ a.name = n /\ a.op \in {"unwire", "destroy", "blocked"}
         /\ a.op # "blocked" => a \in Storage!Action
         /\ a.op = "unwire" => a.service \in Injected
         /\ a.op = "destroy" => /\ a = Storage!Do(t, "destroy", n, None, bound[n].id)
                                /\ \A s \in bound[n].services :
                                     Storage!Do(t, "unwire", n, s, 0) \in Storage!PlanRemoval(t, n, known)
PROOF
<1>1. bound[n].id \in Storage!Id /\ bound[n].services \subseteq Injected
  BY StorageRowType
<1>2. CASE ~known
  BY <1>2 DEF Storage!PlanRemoval, Storage!Blocked, Storage!Do
<1>3. CASE known
  <2>1. CASE a = Storage!Do(t, "destroy", n, None, bound[n].id)
    BY <1>1, <1>3, <2>1, StorageValues DEF Storage!PlanRemoval, Storage!Do, Storage!Action, Storage!Op
  <2>2. CASE \E s \in bound[n].services : a = Storage!Do(t, "unwire", n, s, 0)
    BY <1>1, <1>3, <2>2 DEF Storage!Do, Storage!Action, Storage!Op
  <2> QED BY <1>3, <2>1, <2>2 DEF Storage!PlanRemoval
<1> QED BY <1>2, <1>3

LEMMA StorageSpecType ==
  ASSUME Storage!Assumption, NEW sp \in Storage!Specs
  PROVE  /\ Len(sp) \in Nat /\ DOMAIN sp = 1..Len(sp)
         /\ \A i \in DOMAIN sp : sp[i] \in Storage!Entry /\ sp[i].name \in Name /\ sp[i].name \in Storage!Declared(sp)
PROOF
<1>1. Cardinality(Name) \in Nat
  BY NamesAreFinite
<1>2. PICK k \in 0..Cardinality(Name) : sp \in [1..k -> Storage!Entry]
  BY NamesAreFinite DEF Storage!Specs
<1>3. k \in Nat /\ sp \in Seq(Storage!Entry)
  BY <1>1, <1>2
<1>4. Len(sp) = k
  BY <1>2, <1>3
<1> QED BY <1>2, <1>3, <1>4 DEF Storage!Entry, Storage!Declared

(* What a plan can be.                                                     *)
LEMMA StoragePlansFit ==
  ASSUME StorageInv, Storage!Assumption, Storage!StartApply
  PROVE  todo' \subseteq Storage!Action /\ EnsuresFit' /\ StorageDestroysFit' /\ WiringsFit'
PROOF
<1>0. Storage!TypeOK /\ Storage!Place \in [Name -> Nat]
  BY StoragePlaceType DEF StorageInv
<1>1. PICK known \in BOOLEAN : todo' = Storage!Plan(known)
  BY DEF Storage!StartApply
<1>2. bound' = bound
  BY DEF Storage!StartApply, Storage!row
<1> DEFINE k == Len(spec)
           gone == Name \ Storage!Declared(spec)
           orphaned == {n \in gone : marker[n] # None}
           removed == {n \in gone \ orphaned : bound[n] # None}
           E == UNION {Storage!PlanEnsure(i, spec[i].name, known) : i \in DOMAIN spec}
           B == {Storage!Blocked(k + 1, n) : n \in orphaned}
           W == UNION {Storage!PlanWiring(k + 1 + i, spec[i], known) : i \in DOMAIN spec}
           R == UNION {Storage!PlanRemoval(2 * k + 1 + Storage!Place[n], n, known) : n \in removed}
           all == E \cup B \cup W \cup R
<1>3. todo' = {a \in all : \A b \in all : b.op = "blocked" => a.turn < b.turn}
  BY <1>1 DEF Storage!Plan
<1>4. /\ k \in Nat /\ DOMAIN spec = 1..k
      /\ \A i \in 1..k : spec[i] \in Storage!Entry /\ spec[i].name \in Name /\ spec[i].name \in Storage!Declared(spec)
  BY <1>0, StorageSpecType DEF Storage!TypeOK
<1> HIDE DEF k
<1>5. \A a \in E : /\ a.turn \in 1..k /\ a.name \in Storage!Declared(spec) /\ a.op \in {"clear", "ensure", "blocked"}
                   /\ a.op # "blocked" => a \in Storage!Action
                   /\ a.op = "ensure" => bound[a.name] = None
  <2> SUFFICES ASSUME NEW i \in 1..k, NEW a \in Storage!PlanEnsure(i, spec[i].name, known)
               PROVE  /\ a.turn \in 1..k /\ a.name \in Storage!Declared(spec) /\ a.op \in {"clear", "ensure", "blocked"}
                      /\ a.op # "blocked" => a \in Storage!Action
                      /\ a.op = "ensure" => bound[a.name] = None
    BY <1>4
  <2>1. i \in Nat /\ spec[i].name \in Name /\ spec[i].name \in Storage!Declared(spec)
    BY <1>4
  <2> DEFINE n == spec[i].name
  <2>2. /\ a.turn = i /\ a.name = n /\ a.op \in {"clear", "ensure", "blocked"}
        /\ a.op # "blocked" => a \in Storage!Action
        /\ a.op = "ensure" => bound[n] = None
    BY <2>1, EnsurePlanned
  <2> QED BY <2>1, <2>2
<1>6. \A a \in W : /\ a.turn \in Nat /\ a.turn > k /\ a.name \in Storage!Declared(spec) /\ a.op \in {"wire", "unwire", "blocked"}
                   /\ a.op # "blocked" => a \in Storage!Action /\ a.service \in Injected
  <2> SUFFICES ASSUME NEW i \in 1..k, NEW a \in Storage!PlanWiring(k + 1 + i, spec[i], known)
               PROVE  /\ a.turn \in Nat /\ a.turn > k /\ a.name \in Storage!Declared(spec) /\ a.op \in {"wire", "unwire", "blocked"}
                      /\ a.op # "blocked" => a \in Storage!Action /\ a.service \in Injected
    BY <1>4
  <2>1. k + 1 + i \in Nat /\ k + 1 + i > k /\ spec[i] \in Storage!Entry /\ spec[i].name \in Storage!Declared(spec)
    BY <1>4
  <2> DEFINE d == spec[i]  t == k + 1 + i
  <2>2. /\ a.turn = t /\ a.name = d.name /\ a.op \in {"wire", "unwire", "blocked"}
        /\ a.op # "blocked" => a \in Storage!Action /\ a.service \in Injected
    BY <2>1, WiringPlanned
  <2> QED BY <2>1, <2>2
<1>7. ASSUME NEW n \in removed, NEW a \in Storage!PlanRemoval(2 * k + 1 + Storage!Place[n], n, known)
      PROVE  /\ a.turn = 2 * k + 1 + Storage!Place[n] /\ a.turn \in Nat /\ a.name = n /\ a.op \in {"unwire", "destroy", "blocked"}
             /\ a.op # "blocked" => a \in Storage!Action
             /\ a.op = "unwire" => a.service \in Injected
             /\ a.op = "destroy" => /\ a = Storage!Do(a.turn, "destroy", n, None, bound[n].id)
                                    /\ \A s \in bound[n].services : Storage!Do(a.turn, "unwire", n, s, 0) \in R
  <2> DEFINE t == 2 * k + 1 + Storage!Place[n]
  <2>1. t \in Nat /\ n \in Name /\ bound[n] # None
    BY <1>0, <1>4
  <2> HIDE DEF t
  <2>2. a \in Storage!PlanRemoval(t, n, known)
    BY DEF t
  <2>3. /\ a.turn = t /\ a.name = n /\ a.op \in {"unwire", "destroy", "blocked"}
        /\ a.op # "blocked" => a \in Storage!Action
        /\ a.op = "unwire" => a.service \in Injected
        /\ a.op = "destroy" => /\ a = Storage!Do(t, "destroy", n, None, bound[n].id)
                               /\ \A s \in bound[n].services : Storage!Do(t, "unwire", n, s, 0) \in Storage!PlanRemoval(t, n, known)
    BY <1>0, <2>1, <2>2, RemovalPlanned
  <2>4. Storage!PlanRemoval(t, n, known) \subseteq R
    BY DEF t
  <2> QED BY <2>1, <2>3, <2>4 DEF t
<1>8. \A b \in B : b.op = "blocked" /\ b.turn \in Nat
  BY <1>4 DEF Storage!Blocked, Storage!Do
<1>9. \A a \in todo' : /\ a \in E \cup W \cup R /\ a.op # "blocked"
                       /\ \A b \in all : b.op = "blocked" => a.turn < b.turn
  <2>1. \A a \in all : a.turn \in Nat
    BY <1>4, <1>5, <1>6, <1>7, <1>8
  <2> QED BY <1>3, <1>8, <2>1
<1>10. \A a \in R : \E n \in removed : a \in Storage!PlanRemoval(2 * k + 1 + Storage!Place[n], n, known)
  OBVIOUS
<1> HIDE DEF E, W, R, B, all
<1>11. todo' \subseteq Storage!Action
  BY <1>5, <1>6, <1>7, <1>9, <1>10
<1>12. EnsuresFit'
  <2>1. \A a \in todo' : a.op = "ensure" => a \in E
    BY <1>6, <1>7, <1>9, <1>10
  <2>2. \A a \in todo' : a.op = "wire" => a \in W
    BY <1>5, <1>7, <1>9, <1>10
  <2> QED BY <1>2, <1>4, <1>5, <1>6, <2>1, <2>2 DEF EnsuresFit
<1>13. WiringsFit'
  BY <1>5, <1>6, <1>7, <1>9, <1>10 DEF WiringsFit
<1>14. StorageDestroysFit'
  <2> SUFFICES ASSUME NEW a \in todo', a.op = "destroy"
               PROVE  /\ \A b \in todo' : b.name = a.name => b = a \/ b.op = "unwire"
                      /\ bound[a.name] # None /\ bound[a.name].id = a.id =>
                           \A s \in bound[a.name].services : Storage!Do(a.turn, "unwire", a.name, s, 0) \in todo'
    BY <1>2 DEF StorageDestroysFit, Storage!Do
  <2>1. a \in R
    BY <1>5, <1>6, <1>9
  <2>2. PICK n \in removed : a \in Storage!PlanRemoval(2 * k + 1 + Storage!Place[n], n, known)
    BY <1>10, <2>1
  <2>3. /\ a.name = n /\ a = Storage!Do(a.turn, "destroy", n, None, bound[n].id)
        /\ a.turn = 2 * k + 1 + Storage!Place[n]
        /\ \A s \in bound[n].services : Storage!Do(a.turn, "unwire", n, s, 0) \in R
    BY <1>7, <2>2
  <2>4. ASSUME NEW b \in todo', b.name = n
        PROVE  b = a \/ b.op = "unwire"
    <3>1. b \in R
      BY <1>5, <1>6, <1>9, <2>4
    <3>2. PICK m \in removed : b \in Storage!PlanRemoval(2 * k + 1 + Storage!Place[m], m, known)
      BY <1>10, <3>1
    <3>3. m = n
      BY <1>7, <2>4, <3>2
    <3> QED BY <1>7, <1>9, <2>3, <3>2, <3>3
  <2>5. ASSUME NEW s \in bound[n].services
        PROVE  Storage!Do(a.turn, "unwire", n, s, 0) \in todo'
    <3>1. Storage!Do(a.turn, "unwire", n, s, 0) \in all
      BY <2>3 DEF all
    <3>2. Storage!Do(a.turn, "unwire", n, s, 0).turn = a.turn
      BY DEF Storage!Do
    <3> QED BY <1>3, <1>9, <3>1, <3>2
  <2> QED BY <2>3, <2>4, <2>5
<1> QED BY <1>11, <1>12, <1>13, <1>14

(***************************************************************************)
(* Each action                                                             *)
(***************************************************************************)
LEMMA StorageParts ==
  ASSUME StorageInv
  PROVE  /\ Storage!TypeOK /\ StorageEachWasCreated /\ BoundFits /\ EnsuresFit /\ StorageDestroysFit /\ WiringsFit /\ ReadFits
         /\ StorageHeldFits /\ StorageLateFits /\ Storage!NothingForgotten /\ Storage!OneBucketPerName /\ Storage!AccessIsRecorded
BY DEF StorageInv

LEMMA StorageFreeIsNew ==
  ASSUME StorageInv, Storage!Assumption, NEW i \in Storage!Free
  PROVE  /\ i \in Storage!Id /\ i # 0 /\ i \notin buckets /\ i \notin made /\ nameOf[i] = None
         /\ i \notin Storage!BoundIds
         /\ held # Storage!Ended /\ held.action.op = "destroy" => held.action.id # i
PROOF
<1>1. i \in Storage!Id /\ i # 0 /\ nameOf[i] = None
  BY StorageValues DEF Storage!Free
<1>2. i \notin buckets /\ i \notin made /\ i \notin Storage!BoundIds
  BY <1>1, StorageParts DEF StorageEachWasCreated, Storage!BoundIds
<1>3. ASSUME held # Storage!Ended, held.action.op = "destroy"
      PROVE  held.action.id # i
  <2>1. held.action.name \in Name /\ held.action.op \in {"wire", "unwire", "destroy"}
    BY <1>3, StorageHeldType, StorageParts
  <2>2. held.read[held.action.name] # None /\ held.read[held.action.name].id = held.action.id
    BY <1>3, <2>1, StorageParts DEF StorageHeldFits
  <2>3. bound[held.action.name] = held.read[held.action.name]
    BY <1>3, <2>1, <2>2, StorageParts DEF ReadFits
  <2> QED BY <1>2, <2>1, <2>2, <2>3 DEF Storage!BoundIds
<1> QED BY <1>1, <1>2, <1>3

LEMMA StorageStartKeeps ==
  ASSUME StorageInv, Storage!Assumption, Storage!StartApply
  PROVE  StorageInv'
PROOF
<1>1. /\ held = Storage!Ended /\ held' = Storage!Ended
      /\ UNCHANGED <<spec, nameOf, buckets, late, access, bound, marker, adopted, made, waived, lost, unrecorded,
                     rewrites, errors, deaths, drifts>>
      /\ applied' = spec
  BY DEF Storage!StartApply, Storage!provider, Storage!row, Storage!ghosts
<1>2. applies' \in 0..MaxApplies
  BY StorageParts, Storage!Assumption DEF Storage!StartApply, Storage!TypeOK, Storage!Assumption
<1>3. Storage!TypeOK'
  BY <1>1, <1>2, StorageParts, StoragePlansFit DEF Storage!TypeOK
<1>4. StorageEachWasCreated' /\ BoundFits' /\ StorageLateFits' /\ Storage!AccessIsRecorded'
  BY <1>1, StorageParts DEF StorageEachWasCreated, BoundFits, StorageLateFits, Storage!AccessIsRecorded, StorageKept, Storage!InHand, Storage!Wired
<1>5. ReadFits' /\ StorageHeldFits'
  BY <1>1 DEF ReadFits, StorageHeldFits
<1>6. Storage!NothingForgotten' /\ Storage!OneBucketPerName'
  BY <1>1, StorageParts DEF Storage!NothingForgotten, Storage!OneBucketPerName, Storage!BoundIds, Storage!InHand
<1> QED BY <1>3, <1>4, <1>5, <1>6, StoragePlansFit DEF StorageInv

(* An apply that ends early forgets what it had still to do.               *)
LEMMA StorageHaltFits ==
  ASSUME StorageInv, held = Storage!Ended, held' = held, todo' = {}, UNCHANGED <<nameOf, late, bound, marker, made, waived, lost>>,
         buckets' \subseteq buckets
  PROVE  /\ StorageEachWasCreated' /\ BoundFits' /\ EnsuresFit' /\ StorageDestroysFit' /\ WiringsFit' /\ ReadFits' /\ StorageHeldFits'
         /\ StorageLateFits' /\ Storage!NothingForgotten' /\ Storage!OneBucketPerName'
PROOF
<1>1. EnsuresFit' /\ StorageDestroysFit' /\ WiringsFit' /\ ReadFits' /\ StorageHeldFits'
  BY DEF EnsuresFit, StorageDestroysFit, WiringsFit, ReadFits, StorageHeldFits
<1>2. StorageKept' \subseteq StorageKept
  BY DEF StorageKept
<1>3. StorageEachWasCreated' /\ BoundFits'
  BY <1>2, StorageParts DEF StorageEachWasCreated, BoundFits
<1>4. StorageLateFits'
  BY <1>2, StorageParts DEF StorageLateFits, Storage!InHand
<1>5. Storage!NothingForgotten' /\ Storage!OneBucketPerName'
  BY StorageParts DEF Storage!NothingForgotten, Storage!OneBucketPerName, Storage!BoundIds, Storage!InHand
<1> QED BY <1>1, <1>3, <1>4, <1>5

(* What an action holds after its call, and what it leaves as it was.      *)
LEMMA StorageHoldFits ==
  ASSUME StorageInv, NEW a \in todo, NEW result \in Storage!Result, held = Storage!Ended, \A b \in todo : ~Storage!Before(b, a), Storage!Hold(a, result),
         UNCHANGED <<bound, marker, lost>>
  PROVE  /\ held' \in Storage!Held /\ held' # Storage!Ended /\ held'.action = a /\ held'.result = result /\ held'.read = bound
         /\ todo' = todo /\ adopted' = {}
         /\ EnsuresFit' /\ StorageDestroysFit' /\ WiringsFit' /\ ReadFits'
         /\ \A op, n : Storage!InHand(op, n)' <=> (a.op = op /\ a.name = n)
PROOF
<1>1. held' = [ok |-> TRUE, action |-> a, read |-> bound, result |-> result] /\ todo' = todo /\ adopted' = {}
  BY DEF Storage!Hold
<1>2. held'.ok = TRUE /\ Storage!Ended.ok = FALSE
  BY <1>1 DEF Storage!Ended
<1>3. held' # Storage!Ended
  BY <1>2
<1>4. held' \in Storage!Held
  BY <1>1, StorageParts DEF Storage!Held, Storage!TypeOK
<1>5. EnsuresFit' /\ WiringsFit'
  BY <1>1, StorageParts DEF EnsuresFit, WiringsFit
<1>6. StorageDestroysFit'
  BY <1>1, StorageParts DEF StorageDestroysFit, Storage!Do
<1>7. ReadFits'
  BY <1>1 DEF ReadFits, Storage!Before
<1>8. \A op, n : Storage!InHand(op, n)' <=> (a.op = op /\ a.name = n)
  <2>1. Storage!Ended' = Storage!Ended
    BY DEF Storage!Ended
  <2> QED BY <1>1, <1>3, <2>1 DEF Storage!InHand
<1> QED BY <1>1, <1>3, <1>4, <1>5, <1>6, <1>7, <1>8

LEMMA StorageClearKeeps ==
  ASSUME StorageInv, Storage!Assumption, NEW a \in todo, Storage!Clear(a)
  PROVE  StorageInv'
PROOF
<1> DEFINE n == a.name
<1>1. /\ held = Storage!Ended /\ a.op = "clear" /\ \A b \in todo : ~Storage!Before(b, a)
      /\ UNCHANGED <<spec, nameOf, buckets, late, access, bound, marker, applied, made, lost, unrecorded,
                     rewrites, applies, errors, deaths, drifts>>
  BY DEF Storage!Clear, Storage!Ready, Storage!provider, Storage!row, Storage!counters
<1>2. a \in Storage!Action /\ n \in Name
  BY StorageParts DEF Storage!TypeOK, Storage!Action
<1>3. Storage!AccessIsRecorded'
  BY <1>1, StorageParts DEF Storage!AccessIsRecorded, Storage!Wired
<1>4. CASE Storage!Halt /\ UNCHANGED waived
  <2>1. todo' = {} /\ held' = held /\ adopted' = adopted
    BY <1>4 DEF Storage!Halt
  <2>2. Storage!TypeOK'
    BY <1>1, <1>4, <2>1, StorageParts DEF Storage!TypeOK
  <2> QED BY <1>1, <1>3, <1>4, <2>1, <2>2, StorageHaltFits DEF StorageInv
<1>5. CASE marker[n] # None /\ Storage!Releasable(n, TRUE) /\ Storage!Hold(a, marker[n]) /\ waived' = waived \cup {n}
  <2>1. marker[n] \in Storage!Result /\ marker[n].state = "unresolved"
    BY <1>2, <1>5, StorageParts, StorageRowType DEF Storage!Result, Storage!Releasable
  <2>2. /\ held' \in Storage!Held /\ held' # Storage!Ended /\ held'.action = a /\ held'.result = marker[n] /\ held'.read = bound
        /\ todo' = todo /\ adopted' = {}
        /\ EnsuresFit' /\ StorageDestroysFit' /\ WiringsFit' /\ ReadFits'
        /\ \A op, m : Storage!InHand(op, m)' <=> (a.op = op /\ a.name = m)
    BY <1>1, <1>5, <2>1, StorageHoldFits
  <2>3. Storage!TypeOK'
    BY <1>1, <1>2, <1>5, <2>2, StorageParts DEF Storage!TypeOK
  <2>4. StorageEachWasCreated' /\ BoundFits' /\ Storage!OneBucketPerName'
    BY <1>1, StorageParts DEF StorageEachWasCreated, BoundFits, Storage!OneBucketPerName, StorageKept
  <2>5. StorageHeldFits'
    <3>1. \A k \in StorageKept' : nameOf'[k] # n
      BY <1>1, <1>5 DEF StorageKept, Storage!Releasable, Storage!Named
    <3> QED BY <1>1, <1>5, <2>1, <2>2, <3>1 DEF StorageHeldFits
  <2>6. StorageLateFits'
    BY <1>1, <1>5, StorageParts DEF StorageLateFits, StorageKept, Storage!InHand
  <2>7. Storage!NothingForgotten'
    BY <1>1, StorageParts DEF Storage!NothingForgotten, Storage!BoundIds, Storage!InHand
  <2> QED BY <1>3, <2>2, <2>3, <2>4, <2>5, <2>6, <2>7 DEF StorageInv
<1> QED BY <1>4, <1>5 DEF Storage!Clear

LEMMA StorageWireKeeps ==
  ASSUME StorageInv, Storage!Assumption, NEW a \in todo, Storage!Wire(a)
  PROVE  StorageInv'
PROOF
<1> DEFINE n == a.name  s == a.service
<1>1. /\ held = Storage!Ended /\ a.op = "wire" /\ \A b \in todo : ~Storage!Before(b, a)
      /\ UNCHANGED <<spec, nameOf, buckets, late, bound, marker, applied, made, waived, lost,
                     rewrites, applies, deaths, drifts>>
      /\ errors' = errors \/ Storage!Fault
  BY DEF Storage!Wire, Storage!Ready, Storage!row, Storage!Halt
<1>2. a \in Storage!Action /\ n \in Name /\ s \in Injected
  BY <1>1, StorageParts DEF Storage!TypeOK, Storage!Action, WiringsFit
<1>3. errors' \in 0..MaxStorageFaults
  BY <1>1, StorageParts DEF Storage!Fault, Storage!TypeOK, Storage!Assumption
<1>4. \/ access' = access /\ unrecorded' = unrecorded
      \/ bound[n] # None /\ access' = [access EXCEPT ![s] = bound[n].id] /\ unrecorded' = unrecorded \cup {s}
  BY DEF Storage!Wire
<1>5. Storage!AccessIsRecorded'
  <2> SUFFICES ASSUME NEW r \in Injected \ unrecorded', access'[r] \in Storage!Id
               PROVE  \E m \in Name : Storage!Wired(m, r)' /\ bound'[m].id = access'[r]
    BY DEF Storage!AccessIsRecorded
  <2>1. r \in Injected \ unrecorded /\ access'[r] = access[r]
    BY <1>4, <1>2, StorageParts DEF Storage!TypeOK
  <2> QED BY <1>1, <2>1, StorageParts DEF Storage!AccessIsRecorded, Storage!Wired
<1>6. access' \in [Injected -> Storage!Id \cup {NoKeys, Cleared}] /\ unrecorded' \subseteq Injected
  BY <1>2, <1>4, StorageParts, StorageRowType DEF Storage!TypeOK
<1>7. CASE Storage!Halt
  <2>1. todo' = {} /\ held' = held /\ adopted' = adopted
    BY <1>7 DEF Storage!Halt
  <2>2. Storage!TypeOK'
    BY <1>1, <1>3, <1>6, <2>1, StorageParts DEF Storage!TypeOK
  <2> QED BY <1>1, <1>5, <2>1, <2>2, StorageHaltFits DEF StorageInv
<1>8. CASE bound[n] # None /\ Storage!Hold(a, Storage!Done(bound[n].id)) /\ access' = [access EXCEPT ![s] = bound[n].id]
  <2>1. bound[n].id \in Storage!Id /\ Storage!Done(bound[n].id) \in Storage!Result /\ Storage!Done(bound[n].id).state = "done"
    BY <1>2, <1>8, StorageParts, StorageRowType DEF Storage!Result, Storage!Done
  <2>2. /\ held' \in Storage!Held /\ held' # Storage!Ended /\ held'.action = a /\ held'.result = Storage!Done(bound[n].id) /\ held'.read = bound
        /\ todo' = todo /\ adopted' = {}
        /\ EnsuresFit' /\ StorageDestroysFit' /\ WiringsFit' /\ ReadFits'
        /\ \A op, m : Storage!InHand(op, m)' <=> (a.op = op /\ a.name = m)
    BY <1>1, <1>8, <2>1, StorageHoldFits
  <2>3. Storage!TypeOK'
    BY <1>1, <1>3, <1>6, <2>2, StorageParts DEF Storage!TypeOK
  <2>4. StorageEachWasCreated' /\ BoundFits' /\ Storage!OneBucketPerName'
    BY <1>1, StorageParts DEF StorageEachWasCreated, BoundFits, Storage!OneBucketPerName, StorageKept
  <2>5. StorageHeldFits'
    <3>1. access'[s] = bound[n].id
      BY <1>2, <1>8, StorageParts DEF Storage!TypeOK
    <3> QED BY <1>1, <1>2, <1>8, <2>1, <2>2, <3>1 DEF StorageHeldFits
  <2>6. StorageLateFits'
    BY <1>1, StorageParts DEF StorageLateFits, StorageKept, Storage!InHand
  <2>7. Storage!NothingForgotten'
    BY <1>1, StorageParts DEF Storage!NothingForgotten, Storage!BoundIds, Storage!InHand
  <2> QED BY <1>5, <2>2, <2>3, <2>4, <2>5, <2>6, <2>7 DEF StorageInv
<1> QED BY <1>7, <1>8 DEF Storage!Wire

LEMMA StorageUnwireKeeps ==
  ASSUME StorageInv, Storage!Assumption, NEW a \in todo, Storage!Unwire(a)
  PROVE  StorageInv'
PROOF
<1> DEFINE n == a.name  s == a.service
<1>1. /\ held = Storage!Ended /\ a.op = "unwire" /\ \A b \in todo : ~Storage!Before(b, a)
      /\ UNCHANGED <<spec, nameOf, buckets, late, bound, marker, applied, made, waived, lost, unrecorded,
                     rewrites, applies, deaths, drifts>>
      /\ errors' = errors \/ Storage!Fault
  BY DEF Storage!Unwire, Storage!Ready, Storage!row, Storage!Halt, Storage!ghosts
<1>2. a \in Storage!Action /\ n \in Name /\ s \in Injected
  BY <1>1, StorageParts DEF Storage!TypeOK, Storage!Action, WiringsFit
<1>3. errors' \in 0..MaxStorageFaults
  BY <1>1, StorageParts DEF Storage!Fault, Storage!TypeOK, Storage!Assumption
<1>4. access' = access \/ \E none \in {NoKeys, Cleared} : access' = [access EXCEPT ![s] = none]
  BY DEF Storage!Unwire
<1>5. Storage!AccessIsRecorded'
  <2> SUFFICES ASSUME NEW r \in Injected \ unrecorded', access'[r] \in Storage!Id
               PROVE  \E m \in Name : Storage!Wired(m, r)' /\ bound'[m].id = access'[r]
    BY DEF Storage!AccessIsRecorded
  <2>1. r \in Injected \ unrecorded /\ access'[r] = access[r]
    BY <1>1, <1>4, <1>2, StorageParts, StorageValues DEF Storage!TypeOK
  <2> QED BY <1>1, <2>1, StorageParts DEF Storage!AccessIsRecorded, Storage!Wired
<1>6. access' \in [Injected -> Storage!Id \cup {NoKeys, Cleared}]
  BY <1>2, <1>4, StorageParts DEF Storage!TypeOK
<1>7. CASE Storage!Halt
  <2>1. todo' = {} /\ held' = held /\ adopted' = adopted
    BY <1>7 DEF Storage!Halt
  <2>2. Storage!TypeOK'
    BY <1>1, <1>3, <1>6, <2>1, StorageParts DEF Storage!TypeOK
  <2> QED BY <1>1, <1>5, <2>1, <2>2, StorageHaltFits DEF StorageInv
<1>8. CASE /\ bound[n] # None /\ Storage!Hold(a, Storage!Done(0))
           /\ \E none \in {NoKeys, Cleared} : access' = [access EXCEPT ![s] = none]
  <2>1. Storage!Done(0) \in Storage!Result /\ Storage!Done(0).state = "done"
    BY DEF Storage!Result, Storage!Done
  <2>2. /\ held' \in Storage!Held /\ held' # Storage!Ended /\ held'.action = a /\ held'.result = Storage!Done(0) /\ held'.read = bound
        /\ todo' = todo /\ adopted' = {}
        /\ EnsuresFit' /\ StorageDestroysFit' /\ WiringsFit' /\ ReadFits'
        /\ \A op, m : Storage!InHand(op, m)' <=> (a.op = op /\ a.name = m)
    BY <1>1, <1>8, <2>1, StorageHoldFits
  <2>3. Storage!TypeOK'
    BY <1>1, <1>3, <1>6, <2>2, StorageParts DEF Storage!TypeOK
  <2>4. StorageEachWasCreated' /\ BoundFits' /\ Storage!OneBucketPerName'
    BY <1>1, StorageParts DEF StorageEachWasCreated, BoundFits, Storage!OneBucketPerName, StorageKept
  <2>5. StorageHeldFits'
    <3>1. access'[s] \notin Storage!Id
      BY <1>2, <1>8, StorageParts, StorageValues DEF Storage!TypeOK
    <3> QED BY <1>1, <1>2, <1>8, <2>1, <2>2, <3>1 DEF StorageHeldFits
  <2>6. StorageLateFits'
    BY <1>1, StorageParts DEF StorageLateFits, StorageKept, Storage!InHand
  <2>7. Storage!NothingForgotten'
    BY <1>1, StorageParts DEF Storage!NothingForgotten, Storage!BoundIds, Storage!InHand
  <2> QED BY <1>5, <2>2, <2>3, <2>4, <2>5, <2>6, <2>7 DEF StorageInv
<1> QED BY <1>7, <1>8 DEF Storage!Unwire

(* When a bucket is about to be deleted, no service has its variables.     *)
LEMMA NotWired ==
  ASSUME StorageInv, Storage!Assumption, NEW a \in todo, Storage!Ready(a, "destroy"), bound[a.name] # None, bound[a.name].id = a.id
  PROVE  \A s \in Injected \ unrecorded : access[s] # a.id
PROOF
<1>1. a \in Storage!Action /\ a.name \in Name
  BY StorageParts DEF Storage!TypeOK, Storage!Action
<1>2. a.id \in Storage!Id
  BY <1>1, StorageParts, StorageRowType
<1> SUFFICES ASSUME NEW s \in Injected \ unrecorded, access[s] = a.id
             PROVE  FALSE
  OBVIOUS
<1>3. PICK m \in Name : Storage!Wired(m, s) /\ bound[m].id = a.id
  BY <1>2, StorageParts DEF Storage!AccessIsRecorded
<1>4. m = a.name
  BY <1>1, <1>3, StorageParts DEF StorageEachWasCreated, Storage!Wired
<1>5. Storage!Do(a.turn, "unwire", a.name, s, 0) \in todo
  BY <1>3, <1>4, StorageParts DEF Storage!Wired, StorageDestroysFit, Storage!Ready
<1>6. Storage!Before(Storage!Do(a.turn, "unwire", a.name, s, 0), a)
  BY DEF Storage!Before, Storage!Do, Storage!Stage, Storage!Ready
<1> QED BY <1>5, <1>6 DEF Storage!Ready

LEMMA StorageDestroyKeeps ==
  ASSUME StorageInv, Storage!Assumption, NEW a \in todo, Storage!Destroy(a)
  PROVE  StorageInv'
PROOF
<1> DEFINE n == a.name
<1>1. /\ held = Storage!Ended /\ a.op = "destroy" /\ \A b \in todo : ~Storage!Before(b, a)
      /\ UNCHANGED <<spec, nameOf, late, access, bound, marker, applied, made, waived, lost, unrecorded,
                     rewrites, applies, deaths, drifts>>
      /\ errors' = errors \/ Storage!Fault
      /\ buckets' = buckets \/ buckets' = buckets \ {a.id}
  BY DEF Storage!Destroy, Storage!Ready, Storage!row, Storage!ghosts
<1>2. a \in Storage!Action /\ n \in Name
  BY StorageParts DEF Storage!TypeOK, Storage!Action
<1>3. errors' \in 0..MaxStorageFaults /\ buckets' \subseteq Storage!Id
  BY <1>1, StorageParts DEF Storage!Fault, Storage!TypeOK, Storage!Assumption
<1>4. Storage!AccessIsRecorded'
  BY <1>1, StorageParts DEF Storage!AccessIsRecorded, Storage!Wired
<1>5. CASE Storage!Halt
  <2>1. todo' = {} /\ held' = held /\ adopted' = adopted
    BY <1>5 DEF Storage!Halt
  <2>2. Storage!TypeOK'
    BY <1>1, <1>3, <2>1, StorageParts DEF Storage!TypeOK
  <2> QED BY <1>1, <1>4, <2>1, <2>2, StorageHaltFits DEF StorageInv
<1>6. CASE bound[n] # None /\ bound[n].id = a.id /\ Storage!Hold(a, Storage!Done(0)) /\ buckets' = buckets \ {a.id}
  <2>1. Storage!Done(0) \in Storage!Result /\ Storage!Done(0).state = "done"
    BY DEF Storage!Result, Storage!Done
  <2>2. /\ held' \in Storage!Held /\ held' # Storage!Ended /\ held'.action = a /\ held'.result = Storage!Done(0) /\ held'.read = bound
        /\ todo' = todo /\ adopted' = {}
        /\ EnsuresFit' /\ StorageDestroysFit' /\ WiringsFit' /\ ReadFits'
        /\ \A op, m : Storage!InHand(op, m)' <=> (a.op = op /\ a.name = m)
    BY <1>1, <1>6, <2>1, StorageHoldFits
  <2>3. Storage!TypeOK'
    BY <1>1, <1>3, <2>2, StorageParts DEF Storage!TypeOK
  <2>4. StorageKept' \subseteq StorageKept
    BY <1>1 DEF StorageKept
  <2>5. StorageEachWasCreated' /\ BoundFits'
    BY <1>1, <2>4, StorageParts DEF StorageEachWasCreated, BoundFits
  <2>6. StorageHeldFits'
    <3>1. \A s \in Injected \ unrecorded : access[s] # a.id
      BY <1>6, NotWired DEF Storage!Destroy
    <3> QED BY <1>1, <1>2, <1>6, <2>1, <2>2, <3>1 DEF StorageHeldFits
  <2>7. StorageLateFits'
    BY <1>1, <2>4, StorageParts DEF StorageLateFits, Storage!InHand
  <2>8. Storage!NothingForgotten' /\ Storage!OneBucketPerName'
    BY <1>1, StorageParts DEF Storage!NothingForgotten, Storage!OneBucketPerName, Storage!BoundIds, Storage!InHand
  <2> QED BY <1>4, <2>2, <2>3, <2>5, <2>6, <2>7, <2>8 DEF StorageInv
<1> QED BY <1>5, <1>6 DEF Storage!Destroy

LEMMA StorageEnsureKeeps ==
  ASSUME StorageInv, Storage!Assumption, NEW a \in todo, Storage!Ensure(a)
  PROVE  StorageInv'
PROOF
<1> DEFINE n == a.name
<1>1. /\ held = Storage!Ended /\ a.op = "ensure" /\ \A b \in todo : ~Storage!Before(b, a)
      /\ UNCHANGED <<spec, access, bound, marker, applied, waived, lost, unrecorded,
                     rewrites, applies, deaths, drifts>>
      /\ errors' = errors \/ Storage!Fault
  BY DEF Storage!Ensure, Storage!Ready, Storage!row, Storage!Halt
<1>2. a \in Storage!Action /\ n \in Name
  BY StorageParts DEF Storage!TypeOK, Storage!Action
<1>3. errors' \in 0..MaxStorageFaults
  BY <1>1, StorageParts DEF Storage!Fault, Storage!TypeOK, Storage!Assumption
<1>4. Storage!AccessIsRecorded'
  BY <1>1, StorageParts DEF Storage!AccessIsRecorded, Storage!Wired
<1>5. CASE Storage!Halt /\ UNCHANGED <<nameOf, buckets, late, made>>
  <2>1. todo' = {} /\ held' = held /\ adopted' = adopted
    BY <1>5 DEF Storage!Halt
  <2>2. Storage!TypeOK'
    BY <1>1, <1>3, <1>5, <2>1, StorageParts DEF Storage!TypeOK
  <2> QED BY <1>1, <1>4, <1>5, <2>1, <2>2, StorageHaltFits DEF StorageInv
<1>6. CASE /\ Storage!Hold(a, Storage!Unresolved) /\ UNCHANGED <<nameOf, buckets, made>>
           /\ late' = late \/ (late' = late \cup {n} /\ Storage!Named(n) = {})
  <2>1. Storage!Unresolved \in Storage!Result /\ Storage!Unresolved.state # "done"
    BY DEF Storage!Result, Storage!Marker, Storage!Unresolved
  <2>2. /\ held' \in Storage!Held /\ held' # Storage!Ended /\ held'.action = a /\ held'.result = Storage!Unresolved /\ held'.read = bound
        /\ todo' = todo /\ adopted' = {}
        /\ EnsuresFit' /\ StorageDestroysFit' /\ WiringsFit' /\ ReadFits'
        /\ \A op, m : Storage!InHand(op, m)' <=> (a.op = op /\ a.name = m)
    BY <1>1, <1>6, <2>1, StorageHoldFits
  <2>3. Storage!TypeOK'
    BY <1>1, <1>2, <1>3, <1>6, <2>2, StorageParts DEF Storage!TypeOK
  <2>4. StorageEachWasCreated' /\ BoundFits' /\ Storage!OneBucketPerName'
    BY <1>1, <1>6, StorageParts DEF StorageEachWasCreated, BoundFits, Storage!OneBucketPerName, StorageKept
  <2>5. StorageHeldFits'
    BY <1>1, <2>1, <2>2 DEF StorageHeldFits
  <2>6. StorageLateFits'
    <3> SUFFICES ASSUME NEW m \in late' \ waived'
                 PROVE  (marker'[m] # None \/ Storage!InHand("ensure", m)') /\ \A k \in StorageKept' : nameOf'[k] # m
      BY DEF StorageLateFits
    <3>1. StorageKept' = StorageKept
      BY <1>1, <1>6 DEF StorageKept
    <3>2. CASE m \in late \ waived
      BY <1>1, <1>6, <3>1, <3>2, StorageParts DEF StorageLateFits, Storage!InHand
    <3>3. CASE m = n /\ Storage!Named(n) = {}
      BY <1>1, <1>6, <2>2, <3>1, <3>3 DEF Storage!Named, StorageKept
    <3> QED BY <1>1, <1>6, <3>2, <3>3
  <2>7. Storage!NothingForgotten'
    BY <1>1, <1>6, StorageParts DEF Storage!NothingForgotten, Storage!BoundIds, Storage!InHand
  <2> QED BY <1>4, <2>2, <2>3, <2>4, <2>5, <2>6, <2>7 DEF StorageInv
<1>7. ASSUME NEW i \in Storage!Free, NEW result \in {Storage!Done(i), Storage!Unresolved, Storage!Identified(i)}, Storage!Create(i, n), Storage!Hold(a, result),
             marker[n] = None, Storage!Named(n) = {}, UNCHANGED late
      PROVE  StorageInv'
  <2>1. /\ i \in Storage!Id /\ i # 0 /\ i \notin buckets /\ i \notin made /\ nameOf[i] = None /\ i \notin Storage!BoundIds
    BY StorageFreeIsNew
  <2>2. result \in Storage!Result /\ (result.state = "done" => result.id = i)
    BY <2>1 DEF Storage!Result, Storage!Marker, Storage!Unresolved, Storage!Done, Storage!Identified
  <2>3. /\ held' \in Storage!Held /\ held' # Storage!Ended /\ held'.action = a /\ held'.result = result /\ held'.read = bound
        /\ todo' = todo /\ adopted' = {}
        /\ EnsuresFit' /\ StorageDestroysFit' /\ WiringsFit' /\ ReadFits'
        /\ \A op, m : Storage!InHand(op, m)' <=> (a.op = op /\ a.name = m)
    BY <1>1, <1>7, <2>2, StorageHoldFits
  <2>4. /\ buckets' = buckets \cup {i} /\ made' = made \cup {i}
        /\ nameOf' \in [Storage!Id -> Name \cup {None}] /\ nameOf'[i] = n /\ \A k \in Storage!Id \ {i} : nameOf'[k] = nameOf[k]
    BY <1>2, <1>7, <2>1, StorageParts DEF Storage!Create, Storage!TypeOK
  <2>5. Storage!TypeOK'
    BY <1>1, <1>3, <1>7, <2>1, <2>3, <2>4, StorageParts DEF Storage!TypeOK
  <2>6. /\ StorageKept' = StorageKept \cup ({i} \ lost)
        /\ \A k \in StorageKept : k \in Storage!Id \ {i} /\ nameOf[k] # n /\ nameOf'[k] = nameOf[k]
    BY <1>1, <1>7, <2>1, <2>4, StorageParts DEF StorageKept, Storage!Named, Storage!TypeOK
  <2>7. \A m \in Name : bound[m] # None => bound[m].id \in Storage!Id \ {i} /\ nameOf'[bound[m].id] = nameOf[bound[m].id]
    BY <2>1, <2>4, StorageParts, StorageRowType DEF Storage!BoundIds
  <2>8. StorageEachWasCreated'
    BY <1>1, <1>2, <2>1, <2>4, <2>7, StorageValues, StorageParts DEF StorageEachWasCreated, Storage!TypeOK
  <2>9. BoundFits'
    BY <1>1, <2>6, <2>7, StorageParts DEF BoundFits
  <2>10. n \notin late \ waived
    BY <1>1, <1>7, StorageParts DEF StorageLateFits, Storage!InHand
  <2>11. StorageHeldFits'
    <3>1. Storage!BoundIds' = Storage!BoundIds
      BY <1>1 DEF Storage!BoundIds
    <3> QED BY <1>1, <1>7, <2>1, <2>2, <2>3, <2>4, <2>6, <2>10, <3>1 DEF StorageHeldFits
  <2>12. StorageLateFits'
    <3> SUFFICES ASSUME NEW m \in late \ waived
                 PROVE  marker[m] # None /\ \A k \in StorageKept' : nameOf'[k] # m
      BY <1>1, <1>7 DEF StorageLateFits
    <3>1. marker[m] # None /\ \A k \in StorageKept : nameOf[k] # m
      BY <1>1, StorageParts DEF StorageLateFits, Storage!InHand
    <3> QED BY <2>4, <2>6, <2>10, <3>1
  <2>13. Storage!NothingForgotten'
    <3> SUFFICES ASSUME NEW k \in made' \cap buckets'
                 PROVE  k \in Storage!BoundIds' \/ marker'[nameOf'[k]] # None \/ Storage!InHand("ensure", nameOf[k])' \/ k \in lost'
      BY DEF Storage!NothingForgotten
    <3>1. CASE k = i
      BY <1>1, <2>3, <2>4, <3>1 DEF Storage!InHand
    <3>2. CASE k # i
      <4>1. k \in made \cap buckets /\ k \in Storage!Id /\ nameOf'[k] = nameOf[k]
        BY <2>4, <3>2, StorageParts DEF Storage!TypeOK
      <4> QED BY <1>1, <4>1, StorageParts DEF Storage!NothingForgotten, Storage!BoundIds, Storage!InHand
    <3> QED BY <3>1, <3>2
  <2>14. Storage!OneBucketPerName'
    <3>1. \A k, l \in StorageKept' : nameOf'[k] = nameOf'[l] => k = l
      BY <2>4, <2>6, StorageParts DEF Storage!OneBucketPerName, StorageKept
    <3> QED BY <3>1 DEF Storage!OneBucketPerName, StorageKept
  <2> QED BY <1>4, <2>3, <2>5, <2>8, <2>9, <2>11, <2>12, <2>13, <2>14 DEF StorageInv
<1>8. \/ Storage!Halt /\ UNCHANGED <<nameOf, buckets, late, made>>
      \/ /\ Storage!Hold(a, Storage!Unresolved) /\ UNCHANGED <<nameOf, buckets, made>>
         /\ late' = late \/ (late' = late \cup {n} /\ Storage!Named(n) = {})
      \/ /\ marker[n] = None /\ Storage!Named(n) = {} /\ UNCHANGED late
         /\ \E i \in Storage!Free : \E result \in {Storage!Done(i), Storage!Unresolved, Storage!Identified(i)} : Storage!Create(i, n) /\ Storage!Hold(a, result)
  <2>1. CASE marker[n] # None \/ Storage!Named(n) # {}
    BY <2>1 DEF Storage!Ensure
  <2>2. CASE marker[n] = None /\ Storage!Named(n) = {}
    BY <2>2 DEF Storage!Ensure
  <2> QED BY <2>1, <2>2
<1> QED BY <1>5, <1>6, <1>7, <1>8

(* An action that ends leaves what the others have to do.                  *)
LEMMA StorageFinishFits ==
  ASSUME StorageInv, held # Storage!Ended, todo' \subseteq todo, held' = Storage!Ended, UNCHANGED bound
  PROVE  /\ EnsuresFit' /\ WiringsFit' /\ ReadFits' /\ StorageHeldFits'
         /\ (todo' = {} \/ (held.action.op \notin {"unwire"} /\ todo' = todo \ {held.action})) => StorageDestroysFit'
PROOF
<1>0. Storage!Ended' = Storage!Ended
  BY DEF Storage!Ended
<1>1. EnsuresFit' /\ WiringsFit' /\ ReadFits' /\ StorageHeldFits'
  BY <1>0, StorageParts DEF EnsuresFit, WiringsFit, ReadFits, StorageHeldFits
<1>2. CASE todo' = {}
  BY <1>1, <1>2 DEF StorageDestroysFit
<1>3. ASSUME held.action.op # "unwire", todo' = todo \ {held.action}
      PROVE  StorageDestroysFit'
  <2>1. \A t, m, s : Storage!Do(t, "unwire", m, s, 0) # held.action
    BY <1>3 DEF Storage!Do
  <2> QED BY <1>3, <2>1, StorageParts DEF StorageDestroysFit, Storage!Do
<1> QED BY <1>1, <1>2, <1>3

LEMMA StorageWriteClearedKeeps ==
  ASSUME StorageInv, Storage!Assumption, Storage!WriteCleared
  PROVE  StorageInv'
PROOF
<1> DEFINE a == held.action  n == held.action.name
<1>1. /\ held # Storage!Ended /\ a.op = "clear" /\ held' = Storage!Ended /\ adopted' = {}
      /\ todo' = {} \/ todo' = todo \ {a}
      /\ marker' = marker \/ (marker[n] = held.result /\ marker' = [marker EXCEPT ![n] = None])
      /\ UNCHANGED <<spec, nameOf, buckets, late, access, bound, applied, made, waived, lost, unrecorded,
                     rewrites, applies, errors, deaths, drifts>>
  BY DEF Storage!WriteCleared, Storage!Finish, Storage!Frame, Storage!provider, Storage!counters
<1>2. n \in Name
  BY <1>1, StorageHeldType, StorageParts
<1>3. n \in waived /\ \A k \in StorageKept : nameOf[k] # n
  BY <1>1, StorageParts DEF StorageHeldFits
<1>4. \A m \in Name : m # n => marker'[m] = marker[m]
  BY <1>1, <1>2, StorageParts DEF Storage!TypeOK
<1>5. Storage!TypeOK'
  <2>1. marker' \in [Name -> Storage!Marker \cup {None}] /\ held' \in Storage!Held /\ todo' \subseteq Storage!Action
    BY <1>1, StorageParts DEF Storage!TypeOK, Storage!Held
  <2> QED BY <1>1, <2>1, StorageParts DEF Storage!TypeOK
<1>6. EnsuresFit' /\ WiringsFit' /\ ReadFits' /\ StorageHeldFits' /\ StorageDestroysFit'
  BY <1>1, StorageFinishFits
<1>7. StorageEachWasCreated' /\ Storage!OneBucketPerName' /\ Storage!AccessIsRecorded'
  BY <1>1, StorageParts DEF StorageEachWasCreated, Storage!OneBucketPerName, Storage!AccessIsRecorded, Storage!Wired
<1>8. StorageKept' = StorageKept /\ \A k \in StorageKept : nameOf[k] \in Name
  BY <1>1, StorageParts DEF StorageKept, StorageEachWasCreated, Storage!TypeOK
<1>9. BoundFits'
  BY <1>1, <1>3, <1>4, <1>8, StorageParts DEF BoundFits
<1>10. StorageLateFits'
  BY <1>1, <1>3, <1>4, <1>8, StorageParts DEF StorageLateFits, Storage!InHand, Storage!TypeOK
<1>11. Storage!NothingForgotten'
  BY <1>1, <1>3, <1>4, <1>8, StorageParts DEF Storage!NothingForgotten, Storage!InHand, Storage!BoundIds, StorageKept
<1> QED BY <1>5, <1>6, <1>7, <1>9, <1>10, <1>11 DEF StorageInv

LEMMA StorageWriteMarkerKeeps ==
  ASSUME StorageInv, Storage!Assumption, Storage!WriteMarker
  PROVE  StorageInv'
PROOF
<1> DEFINE a == held.action  n == held.action.name
<1>1. /\ held # Storage!Ended /\ a.op = "ensure" /\ held' = Storage!Ended /\ adopted' = {} /\ todo' = {}
      /\ held.result.state # "done" /\ marker' = [marker EXCEPT ![n] = held.result]
      /\ UNCHANGED <<spec, nameOf, buckets, late, access, bound, applied, made, waived, lost, unrecorded,
                     rewrites, applies, errors, deaths, drifts>>
  BY DEF Storage!WriteMarker, Storage!Finish, Storage!Frame, Storage!provider, Storage!counters
<1>2. n \in Name /\ held.result \in Storage!Marker
  BY <1>1, StorageHeldType, StorageParts
<1>3. marker'[n] # None /\ \A m \in Name : m # n => marker'[m] = marker[m]
  BY <1>1, <1>2, StorageParts, StorageValues DEF Storage!TypeOK
<1>4. Storage!TypeOK'
  <2>1. marker' \in [Name -> Storage!Marker \cup {None}] /\ held' \in Storage!Held /\ todo' \subseteq Storage!Action
    BY <1>1, <1>2, StorageParts DEF Storage!TypeOK, Storage!Held
  <2> QED BY <1>1, <2>1, StorageParts DEF Storage!TypeOK
<1>5. EnsuresFit' /\ WiringsFit' /\ ReadFits' /\ StorageHeldFits' /\ StorageDestroysFit'
  BY <1>1, StorageFinishFits
<1>6. StorageEachWasCreated' /\ Storage!OneBucketPerName' /\ Storage!AccessIsRecorded'
  BY <1>1, StorageParts DEF StorageEachWasCreated, Storage!OneBucketPerName, Storage!AccessIsRecorded, Storage!Wired
<1>7. StorageKept' = StorageKept /\ \A k \in made \cap buckets : nameOf[k] \in Name
  BY <1>1, StorageParts DEF StorageKept, StorageEachWasCreated, Storage!TypeOK
<1>8. BoundFits'
  BY <1>1, <1>3, <1>7, StorageParts DEF BoundFits, StorageKept
<1>9. StorageLateFits'
  BY <1>1, <1>3, <1>7, StorageParts DEF StorageLateFits, Storage!InHand, Storage!TypeOK
<1>10. Storage!NothingForgotten'
  BY <1>1, <1>3, <1>7, StorageParts DEF Storage!NothingForgotten, Storage!InHand, Storage!BoundIds
<1> QED BY <1>4, <1>5, <1>6, <1>8, <1>9, <1>10 DEF StorageInv

(* What a write does to the bindings: those of imports that the action did *)
(* not read are dropped, and the one of its name becomes what it did.      *)
LEMMA BindingWritten ==
  ASSUME StorageInv, Storage!Assumption, Storage!WriteBinding
  PROVE  LET a == held.action  n == held.action.name IN
         /\ \A m \in Name : m # n => \/ bound'[m] = bound[m]
                                     \/ bound'[m] = None /\ m \in adopted /\ bound[m].services = {}
         /\ a.op = "ensure" => /\ bound'[n] = [id |-> held.result.id, services |-> {}]
                               /\ bound[n] # None => bound[n].services = {}
         /\ a.op # "ensure" => n \notin adopted /\ bound[n] # None
         /\ a.op = "wire" => bound'[n] = [id |-> bound[n].id, services |-> bound[n].services \cup {a.service}]
         /\ a.op = "unwire" => bound'[n] = [id |-> bound[n].id, services |-> bound[n].services \ {a.service}]
         /\ a.op = "destroy" => bound'[n] = None
         /\ a.op \in {"ensure", "wire", "unwire", "destroy"}
         /\ DOMAIN bound' = Name
PROOF
<1> DEFINE a == held.action  n == held.action.name
<1>1. held # Storage!Ended /\ a.op # "clear" /\ bound' = Storage!Written(a, held.result.id)
  BY DEF Storage!WriteBinding
<1>2. n \in Name /\ a.op \in {"ensure", "wire", "unwire", "destroy"} /\ held.read \in [Name -> Storage!Binding \cup {None}]
  BY <1>1, StorageHeldType, StorageParts DEF Storage!Op
<1>3. /\ a \in todo
      /\ \A m \in Name \ adopted : held.read[m] = bound[m]
      /\ \A m \in adopted : held.read[m] = None /\ bound[m] # None /\ bound[m].services = {}
  BY <1>1, StorageParts DEF ReadFits
<1>4. CASE a.op = "ensure"
  <2>1. bound[n] # None => bound[n].services = {}
    BY <1>3, <1>4, StorageParts DEF EnsuresFit
  <2>2. bound' = [bound EXCEPT ![n] = [id |-> held.result.id, services |-> {}]]
    BY <1>1, <1>4, <2>1 DEF Storage!Written
  <2> QED BY <1>2, <1>4, <2>1, <2>2, StorageParts DEF Storage!TypeOK
<1>5. CASE a.op # "ensure"
  <2>1. held.read[n] # None
    BY <1>1, <1>2, <1>5, StorageParts DEF StorageHeldFits
  <2>2. n \notin adopted /\ held.read[n] = bound[n]
    BY <1>2, <1>3, <2>1
  <2>3. held.read[n] \in Storage!Binding
    BY <1>2, <2>1
  <2>4. CASE a.op = "wire"
    <3>1. bound' = [held.read EXCEPT ![n].services = held.read[n].services \cup {a.service}]
      BY <1>1, <2>4 DEF Storage!Written
    <3> QED BY <1>2, <1>3, <2>1, <2>2, <2>3, <2>4, <3>1 DEF Storage!Binding
  <2>5. CASE a.op = "unwire"
    <3>1. bound' = [held.read EXCEPT ![n].services = held.read[n].services \ {a.service}]
      BY <1>1, <2>5 DEF Storage!Written
    <3> QED BY <1>2, <1>3, <2>1, <2>2, <2>3, <2>5, <3>1 DEF Storage!Binding
  <2>6. CASE a.op = "destroy"
    <3>1. bound' = [held.read EXCEPT ![n] = None]
      BY <1>1, <2>6 DEF Storage!Written
    <3> QED BY <1>2, <1>3, <2>1, <2>2, <2>6, <3>1
  <2> QED BY <1>2, <1>5, <2>4, <2>5, <2>6
<1> QED BY <1>4, <1>5

LEMMA StorageWriteBindingKeeps ==
  ASSUME StorageInv, Storage!Assumption, Storage!WriteBinding
  PROVE  StorageInv'
PROOF
<1> DEFINE a == held.action  n == held.action.name
<1>0. Storage!Ended' = Storage!Ended
  BY DEF Storage!Ended
<1>1. /\ held # Storage!Ended /\ a.op # "clear" /\ held.result.state = "done"
      /\ held' = Storage!Ended /\ adopted' = {} /\ todo' = todo \ {a}
      /\ lost' = lost \cup {bound[m].id : m \in {l \in adopted : bound'[l] = None \/ bound'[l].id # bound[l].id}}
      /\ unrecorded' = IF a.op = "wire" THEN unrecorded \ {a.service} ELSE unrecorded
      /\ UNCHANGED <<spec, nameOf, buckets, late, access, marker, applied, made, waived,
                     rewrites, applies, errors, deaths, drifts>>
  BY DEF Storage!WriteBinding, Storage!Finish, Storage!Frame, Storage!provider, Storage!counters
<1>2. n \in Name /\ a \in Storage!Action
  BY <1>1, StorageHeldType, StorageParts
<1>3. /\ a \in todo /\ \A b \in todo : ~Storage!Before(b, a)
      /\ adopted \subseteq Name /\ \A m \in adopted : bound[m] # None
  BY <1>1, StorageParts DEF ReadFits, Storage!TypeOK
<1>4. /\ \A m \in Name : m # n => \/ bound'[m] = bound[m]
                                  \/ bound'[m] = None /\ m \in adopted /\ bound[m].services = {}
      /\ a.op = "ensure" => /\ bound'[n] = [id |-> held.result.id, services |-> {}]
                            /\ bound[n] # None => bound[n].services = {}
      /\ a.op # "ensure" => n \notin adopted /\ bound[n] # None
      /\ a.op = "wire" => bound'[n] = [id |-> bound[n].id, services |-> bound[n].services \cup {a.service}]
      /\ a.op = "unwire" => bound'[n] = [id |-> bound[n].id, services |-> bound[n].services \ {a.service}]
      /\ a.op = "destroy" => bound'[n] = None
      /\ a.op \in {"ensure", "wire", "unwire", "destroy"}
      /\ DOMAIN bound' = Name
  BY BindingWritten
<1>5. /\ a.op = "ensure" =>
           /\ held.result.id \in Storage!Id /\ held.result.id \notin Storage!BoundIds /\ nameOf[held.result.id] = n
           /\ n \notin late \ waived
           /\ \A k \in StorageKept : nameOf[k] = n => k = held.result.id
      /\ a.op = "wire" => a.service \in Injected /\ access[a.service] = bound[n].id
      /\ a.op = "unwire" => a.service \in Injected /\ access[a.service] \notin Storage!Id
      /\ a.op = "destroy" => /\ bound[n].id = a.id /\ a.id \notin buckets
                             /\ \A s \in Injected \ unrecorded : access[s] # a.id
  <2>1. a.op # "ensure" => held.read[n] = bound[n]
    BY <1>1, <1>2, <1>4, StorageParts DEF ReadFits
  <2> QED BY <1>1, <2>1, StorageParts DEF StorageHeldFits
<1>6. \A m \in Name : bound'[m] # None => bound'[m] \in Storage!Binding
  <2> SUFFICES ASSUME NEW m \in Name, bound'[m] # None PROVE bound'[m] \in Storage!Binding
    OBVIOUS
  <2>1. CASE m # n
    BY <1>4, <2>1, StorageRowType, StorageParts
  <2>2. CASE m = n /\ a.op = "ensure"
    BY <1>4, <1>5, <2>2 DEF Storage!Binding
  <2>3. CASE m = n /\ a.op # "ensure"
    <3>1. bound[n].id \in Storage!Id /\ bound[n].services \subseteq Injected
      BY <1>2, <1>4, <2>3, StorageRowType, StorageParts
    <3> QED BY <1>4, <1>5, <2>3, <3>1 DEF Storage!Binding
  <2> QED BY <2>1, <2>2, <2>3
<1>7. Storage!TypeOK'
  <2>1. bound' = [m \in Name |-> bound'[m]]
    <3>1. CASE a.op = "ensure"
      BY <1>4, <3>1, StorageParts DEF Storage!WriteBinding, Storage!Written, Storage!TypeOK
    <3>2. CASE a.op # "ensure"
      BY <1>1, <1>4, <3>2, StorageHeldType, StorageParts DEF Storage!WriteBinding, Storage!Written
    <3> QED BY <3>1, <3>2
  <2>2. bound' \in [Name -> Storage!Binding \cup {None}]
    BY <1>6, <2>1
  <2>3. lost' \subseteq Storage!Id
    <3> SUFFICES ASSUME NEW m \in adopted PROVE bound[m].id \in Storage!Id
      BY <1>1, StorageParts DEF Storage!TypeOK
    <3> QED BY <1>3, StorageRowType, StorageParts
  <2>4. unrecorded' \subseteq Injected /\ held' \in Storage!Held /\ todo' \subseteq Storage!Action
    BY <1>1, StorageParts DEF Storage!TypeOK, Storage!Held
  <2> QED BY <1>1, <2>2, <2>3, <2>4, StorageParts DEF Storage!TypeOK
<1>8. StorageKept' \subseteq StorageKept
  BY <1>1 DEF StorageKept
<1>9. StorageEachWasCreated'
  <2>1. \A m \in Name : bound'[m] # None /\ m # n => bound'[m] = bound[m]
    BY <1>4
  <2>2. bound'[n] # None => IF a.op = "ensure" THEN bound'[n].id = held.result.id
                            ELSE bound[n] # None /\ bound'[n].id = bound[n].id
    BY <1>4
  <2>3. \A m \in Name : bound'[m] # None => nameOf[bound'[m].id] # None
    BY <1>2, <1>5, <2>1, <2>2, StorageValues, StorageParts DEF StorageEachWasCreated
  <2>4. \A m, l \in Name : bound'[m] # None /\ bound'[l] # None /\ bound'[m].id = bound'[l].id => m = l
    <3>1. CASE a.op = "ensure"
      BY <1>2, <1>5, <2>1, <2>2, <3>1, StorageParts DEF StorageEachWasCreated, Storage!BoundIds
    <3>2. CASE a.op # "ensure"
      BY <1>2, <2>1, <2>2, <3>2, StorageParts DEF StorageEachWasCreated
    <3> QED BY <3>1, <3>2
  <2> QED BY <1>1, <2>3, <2>4, StorageParts DEF StorageEachWasCreated
<1>10. BoundFits'
  <2> SUFFICES ASSUME NEW m \in Name, bound'[m] # None, bound'[m].id \in StorageKept
               PROVE  nameOf[bound'[m].id] = m \/ marker[nameOf[bound'[m].id]] # None
    BY <1>1, <1>8 DEF BoundFits
  <2>1. CASE bound[m] # None /\ bound'[m].id = bound[m].id
    BY <2>1, StorageParts DEF BoundFits
  <2>2. CASE m = n /\ a.op = "ensure"
    BY <1>4, <1>5, <2>2
  <2> QED BY <1>4, <2>1, <2>2
<1>11. EnsuresFit'
  <2> SUFFICES ASSUME NEW b \in todo', b.op = "ensure", bound'[b.name] # None
               PROVE  bound'[b.name].services = {}
    BY <1>1, StorageParts DEF EnsuresFit
  <2>1. b \in todo /\ b.name \in Name /\ b.turn \in Nat /\ a.turn \in Nat
    BY <1>1, <1>2, StorageParts DEF Storage!TypeOK, Storage!Action
  <2>2. a.op # "wire"
    BY <1>3, <2>1, StorageParts DEF EnsuresFit, Storage!Before
  <2>3. bound[b.name] # None => bound[b.name].services = {}
    BY <2>1, StorageParts DEF EnsuresFit
  <2> QED BY <1>4, <2>1, <2>2, <2>3
<1>12. WiringsFit' /\ ReadFits' /\ StorageHeldFits'
  BY <1>0, <1>1, StorageParts DEF WiringsFit, ReadFits, StorageHeldFits
<1>13. StorageDestroysFit'
  <2> SUFFICES ASSUME NEW d \in todo', d.op = "destroy"
               PROVE  bound'[d.name] # None /\ bound'[d.name].id = d.id =>
                        \A s \in bound'[d.name].services : Storage!Do(d.turn, "unwire", d.name, s, 0) \in todo'
    BY <1>1, StorageParts DEF StorageDestroysFit, Storage!Do
  <2> SUFFICES ASSUME bound'[d.name] # None, bound'[d.name].id = d.id, NEW s \in bound'[d.name].services
               PROVE  Storage!Do(d.turn, "unwire", d.name, s, 0) \in todo'
    OBVIOUS
  <2>1. d \in todo /\ d # a /\ d.name \in Name
    BY <1>1, StorageParts DEF Storage!TypeOK, Storage!Action
  <2>2. Storage!Do(d.turn, "unwire", d.name, s, 0).name = d.name /\ Storage!Do(d.turn, "unwire", d.name, s, 0).service = s
    BY DEF Storage!Do
  <2>3. CASE d.name # n
    BY <1>1, <1>4, <2>1, <2>2, <2>3, StorageParts DEF StorageDestroysFit
  <2>4. CASE d.name = n
    <3>1. a.op = "unwire"
      BY <1>3, <2>1, <2>4, StorageParts DEF StorageDestroysFit
    <3>2. bound[n].id = d.id /\ s \in bound[n].services /\ s # a.service
      BY <1>4, <2>4, <3>1
    <3> QED BY <1>1, <1>4, <2>1, <2>2, <2>4, <3>1, <3>2, StorageParts DEF StorageDestroysFit
  <2> QED BY <2>3, <2>4
<1>14. StorageLateFits'
  <2> SUFFICES ASSUME NEW m \in late \ waived
               PROVE  marker[m] # None /\ \A k \in StorageKept : nameOf[k] # m
    BY <1>1, <1>8 DEF StorageLateFits
  <2> QED BY <1>5, StorageParts DEF StorageLateFits, Storage!InHand
<1>15. Storage!OneBucketPerName'
  BY <1>1, StorageParts DEF Storage!OneBucketPerName
<1>16. Storage!NothingForgotten'
  <2> SUFFICES ASSUME NEW k \in made \cap buckets, k \notin lost', marker[nameOf[k]] = None
               PROVE  k \in Storage!BoundIds'
    BY <1>1 DEF Storage!NothingForgotten
  <2>1. k \in StorageKept
    BY <1>1 DEF StorageKept
  <2>2. CASE Storage!InHand("ensure", nameOf[k])
    <3>1. k = held.result.id /\ a.op = "ensure"
      BY <1>5, <2>1, <2>2 DEF Storage!InHand
    <3>2. bound'[n] = [id |-> held.result.id, services |-> {}]
      BY <1>4, <3>1
    <3>3. bound'[n] \in Storage!Binding
      BY <1>5, <3>1, <3>2 DEF Storage!Binding
    <3> QED BY <1>2, <3>1, <3>2, <3>3, StorageValues DEF Storage!BoundIds
  <2>3. CASE k \in Storage!BoundIds
    <3>1. PICK m \in Name : bound[m] # None /\ bound[m].id = k
      BY <2>3 DEF Storage!BoundIds
    <3>2. m \notin adopted \/ (bound'[m] # None /\ bound'[m].id = bound[m].id)
      BY <1>1, <3>1
    <3>3. bound'[m] # None /\ bound'[m].id = k
      <4>1. CASE m # n
        BY <1>4, <3>1, <3>2, <4>1
      <4>2. CASE m = n /\ a.op = "ensure"
        <5>1. nameOf[k] = n \/ marker[nameOf[k]] # None
          BY <2>1, <3>1, <4>2, StorageParts DEF BoundFits
        <5>2. k = held.result.id
          BY <1>5, <2>1, <4>2, <5>1
        <5> QED BY <1>5, <2>3, <4>2, <5>2
      <4>3. CASE m = n /\ a.op = "destroy"
        BY <1>5, <3>1, <4>3
      <4>4. CASE m = n /\ a.op \in {"wire", "unwire"}
        <5>1. bound'[n].id = bound[n].id /\ bound'[n].services \subseteq Injected
          <6>1. bound[n].services \subseteq Injected
            BY <3>1, <4>4, StorageRowType, StorageParts
          <6> QED BY <1>4, <1>5, <4>4, <6>1
        <5>2. bound[n].id \in Storage!Id
          BY <3>1, <4>4, StorageRowType, StorageParts
        <5>3. bound'[n] \in Storage!Binding
          BY <1>4, <4>4, <5>1, <5>2 DEF Storage!Binding
        <5> QED BY <3>1, <4>4, <5>1, <5>3, StorageValues
      <4> QED BY <1>4, <4>1, <4>2, <4>3, <4>4
    <3> QED BY <3>3 DEF Storage!BoundIds
  <2> QED BY <2>1, <2>2, <2>3, StorageParts DEF Storage!NothingForgotten, StorageKept
<1>17. Storage!AccessIsRecorded'
  <2> SUFFICES ASSUME NEW s \in Injected \ unrecorded', access[s] \in Storage!Id
               PROVE  \E m \in Name : Storage!Wired(m, s)' /\ bound'[m].id = access[s]
    BY <1>1 DEF Storage!AccessIsRecorded
  <2>1. CASE a.op = "wire" /\ s = a.service
    <3>1. /\ bound'[n] = [id |-> bound[n].id, services |-> bound[n].services \cup {a.service}]
          /\ access[s] = bound[n].id /\ bound[n].id \in Storage!Id /\ bound[n].services \subseteq Injected
          /\ a.service \in Injected
      BY <1>2, <1>4, <1>5, <2>1, StorageRowType, StorageParts
    <3>2. bound'[n] \in Storage!Binding
      BY <3>1 DEF Storage!Binding
    <3> QED BY <1>2, <2>1, <3>1, <3>2, StorageValues DEF Storage!Wired
  <2>2. CASE ~(a.op = "wire" /\ s = a.service)
    <3>1. PICK m \in Name : Storage!Wired(m, s) /\ bound[m].id = access[s]
      BY <1>1, <2>2, StorageParts DEF Storage!AccessIsRecorded
    <3>2. CASE m # n
      BY <1>4, <3>1, <3>2 DEF Storage!Wired
    <3>3. CASE m = n
      <4>1. a.op # "ensure" /\ a.op # "destroy"
        BY <1>1, <1>4, <1>5, <3>1, <3>3 DEF Storage!Wired
      <4>2. /\ bound'[n].id = bound[n].id /\ s \in bound'[n].services
        BY <1>4, <1>5, <3>1, <3>3, <4>1 DEF Storage!Wired
      <4>3. bound'[n] # None
        <5>1. bound[n].id \in Storage!Id /\ bound[n].services \subseteq Injected
          BY <1>2, <1>4, <4>1, StorageRowType, StorageParts
        <5>2. bound'[n] \in Storage!Binding
          BY <1>4, <1>5, <4>1, <5>1 DEF Storage!Binding
        <5> QED BY <5>2, StorageValues
      <4> QED BY <3>1, <3>3, <4>2, <4>3 DEF Storage!Wired
    <3> QED BY <3>2, <3>3
  <2> QED BY <2>1, <2>2
<1> QED BY <1>7, <1>9, <1>10, <1>11, <1>12, <1>13, <1>14, <1>15, <1>16, <1>17 DEF StorageInv

LEMMA StorageDeployKeeps ==
  ASSUME StorageInv, Storage!Assumption, Storage!Deploy
  PROVE  StorageInv'
PROOF
<1>1. PICK i \in DOMAIN applied, s \in Injected :
        /\ bound[applied[i].name] # None
        /\ access' = [access EXCEPT ![s] = bound[applied[i].name].id]
        /\ unrecorded' = IF Storage!Wired(applied[i].name, s) THEN unrecorded \ {s} ELSE unrecorded \cup {s}
  BY DEF Storage!Deploy
<1> DEFINE n == applied[i].name
<1>2. /\ held = Storage!Ended /\ held' = Storage!Ended
      /\ UNCHANGED <<spec, nameOf, buckets, late, bound, marker, todo, applied, adopted, made, waived, lost,
                     rewrites, applies, errors, deaths, drifts>>
  BY DEF Storage!Deploy, Storage!row, Storage!counters
<1>3. n \in Name
  BY StorageSpecType, StorageParts DEF Storage!TypeOK
<1>4. bound[n].id \in Storage!Id
  BY <1>1, <1>3, StorageRowType, StorageParts
<1>5. Storage!TypeOK'
  <2>1. access' \in [Injected -> Storage!Id \cup {NoKeys, Cleared}] /\ unrecorded' \subseteq Injected
    BY <1>1, <1>4, StorageParts DEF Storage!TypeOK
  <2> QED BY <1>2, <2>1, StorageParts DEF Storage!TypeOK
<1>6. StorageEachWasCreated' /\ BoundFits' /\ EnsuresFit' /\ WiringsFit' /\ StorageLateFits' /\ Storage!NothingForgotten' /\ Storage!OneBucketPerName'
  BY <1>2, StorageParts DEF StorageEachWasCreated, BoundFits, EnsuresFit, WiringsFit, StorageLateFits, Storage!NothingForgotten,
                     Storage!OneBucketPerName, StorageKept, Storage!InHand, Storage!BoundIds
<1>7. StorageDestroysFit' /\ ReadFits' /\ StorageHeldFits'
  BY <1>2, StorageParts DEF StorageDestroysFit, ReadFits, StorageHeldFits, Storage!Do
<1>8. Storage!AccessIsRecorded'
  <2> SUFFICES ASSUME NEW r \in Injected \ unrecorded', access'[r] \in Storage!Id
               PROVE  \E m \in Name : Storage!Wired(m, r) /\ bound[m].id = access'[r]
    BY <1>2 DEF Storage!AccessIsRecorded, Storage!Wired
  <2>1. CASE r = s
    <3>1. Storage!Wired(n, s) /\ access'[s] = bound[n].id
      BY <1>1, <2>1, StorageParts DEF Storage!TypeOK
    <3> QED BY <1>3, <2>1, <3>1
  <2>2. CASE r # s
    <3>1. r \in Injected \ unrecorded /\ access'[r] = access[r]
      BY <1>1, <2>2, StorageParts DEF Storage!TypeOK
    <3> QED BY <3>1, StorageParts DEF Storage!AccessIsRecorded
  <2> QED BY <2>1, <2>2
<1> QED BY <1>5, <1>6, <1>7, <1>8 DEF StorageInv

LEMMA StorageCrashKeeps ==
  ASSUME StorageInv, Storage!Assumption, Storage!Crash
  PROVE  StorageInv'
PROOF
<1>0. Storage!Ended' = Storage!Ended
  BY DEF Storage!Ended
<1> DEFINE cut == {n \in Name : Storage!InHand("ensure", n)}
<1>1. /\ held' = Storage!Ended /\ todo' = {} /\ adopted' = {}
      /\ waived' = waived \cup cut
      /\ lost' = lost \cup (made \cap UNION {Storage!Named(n) : n \in cut})
      /\ UNCHANGED <<spec, nameOf, buckets, late, access, bound, marker, applied, made, unrecorded,
                     rewrites, applies, errors, drifts>>
  BY DEF Storage!Crash, Storage!Finish, Storage!provider, Storage!row
<1>2. deaths' \in 0..MaxStorageCrashes
  BY StorageParts DEF Storage!Crash, Storage!TypeOK, Storage!Assumption
<1>3. Storage!TypeOK'
  <2>1. held' \in Storage!Held /\ waived' \subseteq Name /\ lost' \subseteq Storage!Id
    BY <1>1, StorageParts DEF Storage!Held, Storage!TypeOK
  <2> QED BY <1>1, <1>2, <2>1, StorageParts DEF Storage!TypeOK
<1>4. StorageKept' \subseteq StorageKept
  BY <1>1 DEF StorageKept
<1>5. StorageEachWasCreated' /\ BoundFits' /\ Storage!OneBucketPerName' /\ Storage!AccessIsRecorded'
  BY <1>1, <1>4, StorageParts DEF StorageEachWasCreated, BoundFits, Storage!OneBucketPerName, Storage!AccessIsRecorded, Storage!Wired
<1>6. EnsuresFit' /\ StorageDestroysFit' /\ WiringsFit' /\ ReadFits' /\ StorageHeldFits'
  BY <1>0, <1>1 DEF EnsuresFit, StorageDestroysFit, WiringsFit, ReadFits, StorageHeldFits
<1>7. StorageLateFits'
  BY <1>1, <1>4, StorageParts DEF StorageLateFits, Storage!TypeOK
<1>8. Storage!NothingForgotten'
  <2> SUFFICES ASSUME NEW k \in made \cap buckets, k \notin lost'
               PROVE  k \in Storage!BoundIds \/ marker[nameOf[k]] # None
    BY <1>1 DEF Storage!NothingForgotten, Storage!BoundIds
  <2>1. nameOf[k] \in Name
    BY StorageParts DEF StorageEachWasCreated, Storage!TypeOK
  <2>2. ~Storage!InHand("ensure", nameOf[k])
    BY <1>1, <2>1 DEF Storage!Named
  <2> QED BY <1>1, <2>2, StorageParts DEF Storage!NothingForgotten
<1> QED BY <1>3, <1>5, <1>6, <1>7, <1>8 DEF StorageInv

LEMMA StorageEditKeeps ==
  ASSUME StorageInv, Storage!Assumption, Storage!Edit
  PROVE  StorageInv'
PROOF
<1>0. Storage!Ended' = Storage!Ended
  BY DEF Storage!Ended
<1>1. UNCHANGED <<nameOf, buckets, late, access, bound, marker, todo, applied, held, adopted, made, waived, lost,
                  unrecorded, applies, errors, deaths, drifts>>
  BY DEF Storage!Edit, Storage!provider, Storage!row, Storage!ghosts
<1>2. Storage!TypeOK'
  BY <1>1, StorageParts DEF Storage!Edit, Storage!TypeOK, Storage!Assumption
<1>3. StorageEachWasCreated' /\ BoundFits' /\ EnsuresFit' /\ WiringsFit' /\ Storage!AccessIsRecorded'
  BY <1>1, StorageParts DEF StorageEachWasCreated, BoundFits, EnsuresFit, WiringsFit, StorageKept, Storage!AccessIsRecorded, Storage!Wired
<1>4. StorageLateFits' /\ Storage!NothingForgotten' /\ Storage!OneBucketPerName'
  BY <1>0, <1>1, StorageParts DEF StorageLateFits, Storage!NothingForgotten, Storage!OneBucketPerName, StorageKept, Storage!InHand, Storage!BoundIds
<1>5. StorageDestroysFit' /\ ReadFits'
  BY <1>0, <1>1, StorageParts DEF StorageDestroysFit, ReadFits, Storage!Do, Storage!Before, Storage!Stage
<1>6. StorageHeldFits'
  BY <1>0, <1>1, StorageParts DEF StorageHeldFits, StorageKept, Storage!BoundIds
<1> QED BY <1>2, <1>3, <1>4, <1>5, <1>6 DEF StorageInv

LEMMA StorageLandKeeps ==
  ASSUME StorageInv, Storage!Assumption, Storage!Land
  PROVE  StorageInv'
PROOF
<1>0. Storage!Ended' = Storage!Ended
  BY DEF Storage!Ended
<1>1. PICK n \in late, i \in Storage!Free :
        /\ Storage!Create(i, n) /\ late' = late \ {n}
        /\ lost' = IF n \in waived THEN lost \cup {i} ELSE lost
  BY DEF Storage!Land
<1>2. UNCHANGED <<spec, access, bound, marker, todo, applied, held, adopted, waived, unrecorded,
                  rewrites, applies, errors, deaths, drifts>>
  BY DEF Storage!Land, Storage!row, Storage!counters
<1>3. /\ i \in Storage!Id /\ i \notin buckets /\ i \notin made /\ nameOf[i] = None /\ i \notin Storage!BoundIds /\ n \in Name
      /\ held # Storage!Ended /\ held.action.op = "destroy" => held.action.id # i
  BY StorageFreeIsNew, StorageParts DEF Storage!TypeOK
<1>4. /\ buckets' = buckets \cup {i} /\ made' = made \cup {i}
      /\ nameOf' \in [Storage!Id -> Name \cup {None}] /\ nameOf'[i] = n /\ \A k \in Storage!Id \ {i} : nameOf'[k] = nameOf[k]
  BY <1>1, <1>3, StorageParts DEF Storage!Create, Storage!TypeOK
<1>5. Storage!TypeOK'
  <2>1. held' \in Storage!Held /\ lost' \subseteq Storage!Id
    BY <1>1, <1>2, <1>3, StorageParts DEF Storage!TypeOK, Storage!Held
  <2> QED BY <1>1, <1>2, <1>3, <1>4, <2>1, StorageParts DEF Storage!TypeOK
<1>6. /\ \A k \in StorageKept' : k = i \/ k \in StorageKept
      /\ n \in waived => i \notin StorageKept'
      /\ \A k \in StorageKept : k \in Storage!Id \ {i} /\ nameOf'[k] = nameOf[k]
  BY <1>1, <1>3, <1>4, StorageParts DEF StorageKept, Storage!TypeOK
<1>7. n \notin waived => (marker[n] # None \/ Storage!InHand("ensure", n)) /\ \A k \in StorageKept : nameOf[k] # n
  BY <1>1, StorageParts DEF StorageLateFits
<1>8. \A m \in Name : bound[m] # None => bound[m].id \in Storage!Id \ {i} /\ nameOf'[bound[m].id] = nameOf[bound[m].id]
  BY <1>3, <1>4, StorageParts, StorageRowType DEF Storage!BoundIds
<1>9. StorageEachWasCreated'
  BY <1>2, <1>3, <1>4, <1>8, StorageValues, StorageParts DEF StorageEachWasCreated, Storage!TypeOK
<1>10. BoundFits'
  BY <1>2, <1>6, <1>8, StorageParts DEF BoundFits
<1>11. EnsuresFit' /\ WiringsFit' /\ StorageDestroysFit' /\ ReadFits' /\ Storage!AccessIsRecorded'
  <2>1. EnsuresFit' /\ WiringsFit' /\ Storage!AccessIsRecorded'
    BY <1>2, StorageParts DEF EnsuresFit, WiringsFit, Storage!AccessIsRecorded, Storage!Wired
  <2>2. StorageDestroysFit' /\ ReadFits'
    BY <1>0, <1>2, StorageParts DEF StorageDestroysFit, ReadFits, Storage!Do, Storage!Before, Storage!Stage
  <2> QED BY <2>1, <2>2
<1>12. StorageHeldFits'
  <2> SUFFICES ASSUME held # Storage!Ended PROVE StorageHeldFits'
    BY <1>0, <1>2 DEF StorageHeldFits
  <2> DEFINE a == held.action  result == held.result
  <2>1. Storage!BoundIds' = Storage!BoundIds
    BY <1>2 DEF Storage!BoundIds
  <2>2. a.op = "clear" => \A k \in StorageKept' : nameOf'[k] # a.name
    BY <1>4, <1>6, StorageParts DEF StorageHeldFits
  <2>3. a.op = "ensure" /\ result.state = "done" =>
          /\ result.id \in Storage!Id \ Storage!BoundIds /\ nameOf'[result.id] = a.name /\ a.name \notin late' \ waived
          /\ \A k \in StorageKept' : nameOf'[k] = a.name => k = result.id
    <3> SUFFICES ASSUME a.op = "ensure", result.state = "done"
                 PROVE  /\ result.id \in Storage!Id \ Storage!BoundIds /\ nameOf'[result.id] = a.name /\ a.name \notin late' \ waived
                        /\ \A k \in StorageKept' : nameOf'[k] = a.name => k = result.id
      OBVIOUS
    <3>1. /\ result.id \in Storage!Id \ Storage!BoundIds /\ nameOf[result.id] = a.name /\ a.name \notin late \ waived
          /\ \A k \in StorageKept : nameOf[k] = a.name => k = result.id
      BY StorageParts DEF StorageHeldFits
    <3>2. a.name \in Name
      BY StorageHeldType, StorageParts
    <3>3. result.id # i
      BY <1>3, <3>1, <3>2, StorageValues
    <3>4. i \in StorageKept' => a.name # n
      BY <1>1, <1>6, <3>1
    <3> QED BY <1>1, <1>4, <1>6, <3>1, <3>3, <3>4
  <2>4. a.op = "destroy" => a.id \notin buckets'
    BY <1>3, <1>4, StorageParts DEF StorageHeldFits
  <2> QED BY <1>2, <2>1, <2>2, <2>3, <2>4, StorageParts DEF StorageHeldFits
<1>13. StorageLateFits'
  <2> SUFFICES ASSUME NEW m \in late \ waived, m # n
               PROVE  (marker[m] # None \/ Storage!InHand("ensure", m)) /\ \A k \in StorageKept' : nameOf'[k] # m
    BY <1>0, <1>1, <1>2 DEF StorageLateFits, Storage!InHand
  <2> QED BY <1>4, <1>6, StorageParts DEF StorageLateFits
<1>14. Storage!NothingForgotten'
  <2> SUFFICES ASSUME NEW k \in made' \cap buckets', k \notin lost'
               PROVE  k \in Storage!BoundIds \/ marker[nameOf'[k]] # None \/ Storage!InHand("ensure", nameOf'[k])
    BY <1>0, <1>2 DEF Storage!NothingForgotten, Storage!InHand, Storage!BoundIds
  <2>1. CASE k = i
    BY <1>1, <1>4, <1>7, <2>1
  <2>2. CASE k # i
    <3>1. k \in made \cap buckets /\ k \notin lost /\ nameOf'[k] = nameOf[k]
      BY <1>1, <1>4, <2>2, StorageParts DEF Storage!TypeOK
    <3> QED BY <3>1, StorageParts DEF Storage!NothingForgotten
  <2> QED BY <2>1, <2>2
<1>15. Storage!OneBucketPerName'
  <2>1. \A k, l \in StorageKept' : nameOf'[k] = nameOf'[l] => k = l
    <3> SUFFICES ASSUME NEW k \in StorageKept', NEW l \in StorageKept', nameOf'[k] = nameOf'[l], k # l
                 PROVE  FALSE
      OBVIOUS
    <3>1. CASE k \in StorageKept /\ l \in StorageKept
      BY <1>6, <3>1, StorageParts DEF Storage!OneBucketPerName, StorageKept
    <3>2. CASE k = i /\ l \in StorageKept
      BY <1>4, <1>6, <1>7, <3>2
    <3>3. CASE l = i /\ k \in StorageKept
      BY <1>4, <1>6, <1>7, <3>3
    <3> QED BY <1>6, <3>1, <3>2, <3>3
  <2> QED BY <2>1 DEF Storage!OneBucketPerName, StorageKept
<1> QED BY <1>5, <1>9, <1>10, <1>11, <1>12, <1>13, <1>14, <1>15 DEF StorageInv

LEMMA StorageDriftKeeps ==
  ASSUME StorageInv, Storage!Assumption, Storage!Drift
  PROVE  StorageInv'
PROOF
<1>0. Storage!Ended' = Storage!Ended
  BY DEF Storage!Ended
<1>1. UNCHANGED <<spec, late, access, bound, marker, todo, applied, held, adopted, made, waived, lost, unrecorded,
                  rewrites, applies, errors, deaths>>
  BY DEF Storage!Drift, Storage!row, Storage!ghosts
<1>2. drifts' \in 0..MaxDrifts
  BY StorageParts DEF Storage!Drift, Storage!TypeOK, Storage!Assumption
<1>3. EnsuresFit' /\ WiringsFit' /\ StorageDestroysFit' /\ ReadFits' /\ Storage!AccessIsRecorded'
  <2>1. EnsuresFit' /\ WiringsFit' /\ Storage!AccessIsRecorded'
    BY <1>1, StorageParts DEF EnsuresFit, WiringsFit, Storage!AccessIsRecorded, Storage!Wired
  <2>2. StorageDestroysFit' /\ ReadFits'
    BY <1>0, <1>1, StorageParts DEF StorageDestroysFit, ReadFits, Storage!Do, Storage!Before, Storage!Stage
  <2> QED BY <2>1, <2>2
<1>4. Storage!BoundIds' = Storage!BoundIds
  BY <1>1 DEF Storage!BoundIds
<1>5. CASE \E i \in Storage!Free, n \in Name : nameOf' = [nameOf EXCEPT ![i] = n] /\ buckets' = buckets \cup {i}
  <2>1. PICK i \in Storage!Free, n \in Name : nameOf' = [nameOf EXCEPT ![i] = n] /\ buckets' = buckets \cup {i}
    BY <1>5
  <2>2. /\ i \in Storage!Id /\ i \notin buckets /\ i \notin made /\ nameOf[i] = None /\ i \notin Storage!BoundIds
        /\ held # Storage!Ended /\ held.action.op = "destroy" => held.action.id # i
    BY StorageFreeIsNew
  <2>3. nameOf' \in [Storage!Id -> Name \cup {None}] /\ nameOf'[i] = n /\ \A k \in Storage!Id \ {i} : nameOf'[k] = nameOf[k]
    BY <2>1, <2>2, StorageParts DEF Storage!TypeOK
  <2>4. Storage!TypeOK'
    <3>1. held' \in Storage!Held
      BY <1>1, StorageParts DEF Storage!TypeOK, Storage!Held
    <3> QED BY <1>1, <1>2, <2>1, <2>2, <2>3, <3>1, StorageParts DEF Storage!TypeOK
  <2>5. StorageKept' = StorageKept /\ \A k \in made : k \in Storage!Id \ {i} /\ nameOf'[k] = nameOf[k]
    BY <1>1, <2>1, <2>2, <2>3, StorageParts DEF StorageKept, Storage!TypeOK
  <2>6. \A m \in Name : bound[m] # None => bound[m].id \in Storage!Id \ {i} /\ nameOf'[bound[m].id] = nameOf[bound[m].id]
    BY <2>2, <2>3, StorageParts, StorageRowType DEF Storage!BoundIds
  <2>7. StorageEachWasCreated'
    BY <1>1, <2>1, <2>3, <2>5, <2>6, StorageValues, StorageParts DEF StorageEachWasCreated, Storage!TypeOK
  <2>8. BoundFits'
    BY <1>1, <2>5, <2>6, StorageParts DEF BoundFits
  <2>9. StorageLateFits' /\ Storage!NothingForgotten' /\ Storage!OneBucketPerName'
    <3>1. \A k \in StorageKept : k \in made
      BY DEF StorageKept
    <3>2. made' \cap buckets' = made \cap buckets
      BY <1>1, <2>1, <2>2
    <3> QED BY <1>0, <1>1, <1>4, <2>5, <3>1, <3>2, StorageParts DEF StorageLateFits, Storage!NothingForgotten, Storage!OneBucketPerName, Storage!InHand
  <2>10. StorageHeldFits'
    <3> SUFFICES ASSUME held # Storage!Ended PROVE StorageHeldFits'
      BY <1>0, <1>1 DEF StorageHeldFits
    <3> DEFINE a == held.action  result == held.result
    <3>1. \A k \in StorageKept : nameOf'[k] = nameOf[k]
      BY <2>5 DEF StorageKept
    <3>2. a.op = "ensure" /\ result.state = "done" => nameOf'[result.id] = a.name
      <4>1. a.name \in Name
        BY StorageHeldType, StorageParts
      <4>2. a.op = "ensure" /\ result.state = "done" => result.id \in Storage!Id /\ nameOf[result.id] = a.name
        BY StorageParts DEF StorageHeldFits
      <4> QED BY <2>2, <2>3, <4>1, <4>2, StorageValues
    <3>3. a.op = "destroy" => a.id \notin buckets'
      BY <2>1, <2>2, StorageParts DEF StorageHeldFits
    <3> QED BY <1>1, <1>4, <2>5, <3>1, <3>2, <3>3, StorageParts DEF StorageHeldFits
  <2> QED BY <1>3, <2>4, <2>7, <2>8, <2>9, <2>10 DEF StorageInv
<1>6. CASE buckets' \subseteq buckets /\ nameOf' = nameOf
  <2>1. Storage!TypeOK'
    <3>1. held' \in Storage!Held
      BY <1>1, StorageParts DEF Storage!TypeOK, Storage!Held
    <3> QED BY <1>1, <1>2, <1>6, <3>1, StorageParts DEF Storage!TypeOK
  <2>2. StorageKept' \subseteq StorageKept
    BY <1>1, <1>6 DEF StorageKept
  <2>3. StorageEachWasCreated' /\ BoundFits' /\ StorageLateFits' /\ Storage!NothingForgotten' /\ Storage!OneBucketPerName'
    BY <1>0, <1>1, <1>4, <1>6, <2>2, StorageParts DEF StorageEachWasCreated, BoundFits, StorageLateFits, Storage!NothingForgotten,
                                            Storage!OneBucketPerName, Storage!InHand
  <2>4. StorageHeldFits'
    BY <1>0, <1>1, <1>4, <1>6, <2>2, StorageParts DEF StorageHeldFits
  <2> QED BY <1>3, <2>1, <2>3, <2>4 DEF StorageInv
<1> QED BY <1>5, <1>6 DEF Storage!Drift

LEMMA StorageImportKeeps ==
  ASSUME StorageInv, Storage!Assumption, Storage!Import
  PROVE  StorageInv'
PROOF
<1>0. Storage!Ended' = Storage!Ended
  BY DEF Storage!Ended
<1>1. PICK n \in Name, i \in buckets \ Storage!BoundIds :
        /\ bound[n] = None /\ ~Storage!InHand("ensure", nameOf[i])
        /\ bound' = [bound EXCEPT ![n] = [id |-> i, services |-> {}]]
        /\ marker' = [marker EXCEPT ![n] = None]
        /\ adopted' = IF held = Storage!Ended THEN {} ELSE adopted \cup {n}
        /\ IF marker[n] = None THEN UNCHANGED <<waived, lost>>
           ELSE waived' = waived \cup {n} /\ lost' = lost \cup ((Storage!Named(n) \cap made) \ {i})
  BY DEF Storage!Import
<1>2. UNCHANGED <<spec, nameOf, buckets, late, access, todo, applied, held, made, unrecorded,
                  rewrites, applies, errors, deaths, drifts>>
  BY DEF Storage!Import, Storage!provider, Storage!counters
<1>3. i \in Storage!Id /\ nameOf[i] \in Name
  BY StorageParts DEF Storage!TypeOK, StorageEachWasCreated
<1>4. /\ DOMAIN bound' = Name
      /\ bound'[n] = [id |-> i, services |-> {}] /\ bound'[n] # None
      /\ bound'[n].id = i /\ bound'[n].services = {}
      /\ \A m \in Name : m # n => bound'[m] = bound[m] /\ marker'[m] = marker[m]
      /\ marker'[n] = None
  <2>1. [id |-> i, services |-> {}] \in Storage!Binding
    BY <1>3 DEF Storage!Binding
  <2> QED BY <1>1, <2>1, StorageValues, StorageParts DEF Storage!TypeOK
<1>5. Storage!TypeOK'
  <2>1. bound' \in [Name -> Storage!Binding \cup {None}] /\ marker' \in [Name -> Storage!Marker \cup {None}]
    <3>1. [id |-> i, services |-> {}] \in Storage!Binding
      BY <1>3 DEF Storage!Binding
    <3> QED BY <1>1, <3>1, StorageParts DEF Storage!TypeOK
  <2>2. waived' \subseteq Name /\ lost' \subseteq Storage!Id /\ adopted' \subseteq Name /\ held' \in Storage!Held
    BY <1>1, <1>2, StorageParts DEF Storage!TypeOK, Storage!Held
  <2> QED BY <1>2, <2>1, <2>2, StorageParts DEF Storage!TypeOK
<1>6. /\ StorageKept' \subseteq StorageKept
      /\ waived \subseteq waived'
      /\ marker[n] # None => n \in waived' /\ \A k \in StorageKept' : nameOf[k] = n => k = i
  BY <1>1, <1>2 DEF StorageKept, Storage!Named
<1>7. \A m \in Name : bound[m] # None => m # n /\ bound[m].id # i
  BY <1>1 DEF Storage!BoundIds
<1>8. Storage!BoundIds' = Storage!BoundIds \cup {i}
  BY <1>1, <1>4, <1>7 DEF Storage!BoundIds
<1>9. StorageEachWasCreated'
  BY <1>2, <1>3, <1>4, <1>7, StorageValues, StorageParts DEF StorageEachWasCreated
<1>10. BoundFits'
  <2> SUFFICES ASSUME NEW m \in Name, bound'[m] # None, bound'[m].id \in StorageKept'
               PROVE  nameOf[bound'[m].id] = m \/ marker'[nameOf[bound'[m].id]] # None
    BY <1>2 DEF BoundFits
  <2>1. CASE m = n
    <3>1. i \in StorageKept /\ i \notin Storage!BoundIds
      BY <1>1, <1>4, <1>6, <2>1
    <3>2. marker[nameOf[i]] # None
      BY <1>1, <3>1, StorageParts DEF Storage!NothingForgotten, StorageKept
    <3> QED BY <1>3, <1>4, <2>1, <3>2
  <2>2. CASE m # n
    <3> DEFINE k == bound[m].id
    <3>1. bound[m] # None /\ bound'[m].id = k /\ k \in StorageKept /\ k # i
      BY <1>4, <1>6, <1>7, <2>2
    <3>2. nameOf[k] = m \/ marker[nameOf[k]] # None
      BY <3>1, StorageParts DEF BoundFits
    <3>3. nameOf[k] \in Name
      BY <3>1, StorageParts DEF StorageEachWasCreated, Storage!TypeOK, StorageKept
    <3> QED BY <1>4, <1>6, <3>1, <3>2, <3>3
  <2> QED BY <2>1, <2>2
<1>11. EnsuresFit' /\ WiringsFit'
  <2>1. \A b \in todo : b.name \in Name
    BY StorageParts DEF Storage!TypeOK, Storage!Action
  <2> QED BY <1>2, <1>4, <2>1, StorageParts DEF EnsuresFit, WiringsFit
<1>12. StorageDestroysFit'
  <2>1. \A b \in todo : b.name \in Name
    BY StorageParts DEF Storage!TypeOK, Storage!Action
  <2> QED BY <1>2, <1>4, <2>1, StorageParts DEF StorageDestroysFit, Storage!Do
<1>13. ReadFits'
  <2> SUFFICES ASSUME held # Storage!Ended
               PROVE  /\ held.action \in todo /\ \A b \in todo : ~Storage!Before(b, held.action)
                      /\ \A m \in Name \ adopted' : held.read[m] = bound'[m]
                      /\ \A m \in adopted' : held.read[m] = None /\ bound'[m] # None /\ bound'[m].services = {}
    BY <1>0, <1>2 DEF ReadFits, Storage!Before, Storage!Stage
  <2>1. adopted' = adopted \cup {n} /\ n \notin adopted
    BY <1>1, StorageParts DEF ReadFits
  <2>2. held.read[n] = None
    BY <1>1, <2>1, StorageParts DEF ReadFits
  <2>3. adopted \subseteq Name
    BY StorageParts DEF Storage!TypeOK
  <2> QED BY <1>4, <2>1, <2>2, <2>3, StorageParts DEF ReadFits
<1>14. StorageHeldFits'
  <2> SUFFICES ASSUME held # Storage!Ended PROVE StorageHeldFits'
    BY <1>0, <1>2 DEF StorageHeldFits
  <2> DEFINE a == held.action  result == held.result
  <2>1. a.op = "ensure" /\ result.state = "done" => result.id # i
    <3>1. a.op = "ensure" /\ result.state = "done" => nameOf[result.id] = a.name
      BY StorageParts DEF StorageHeldFits
    <3> QED BY <1>1, <3>1 DEF Storage!InHand
  <2> QED BY <1>2, <1>6, <1>8, <2>1, StorageParts DEF StorageHeldFits
<1>15. StorageLateFits'
  <2> SUFFICES ASSUME NEW m \in late \ waived'
               PROVE  (marker'[m] # None \/ Storage!InHand("ensure", m)) /\ \A k \in StorageKept' : nameOf[k] # m
    BY <1>0, <1>2 DEF StorageLateFits, Storage!InHand
  <2>1. m \in Name /\ m \in late \ waived
    BY <1>6, StorageParts DEF Storage!TypeOK
  <2>2. (marker[m] # None \/ Storage!InHand("ensure", m)) /\ \A k \in StorageKept : nameOf[k] # m
    BY <2>1, StorageParts DEF StorageLateFits
  <2> QED BY <1>4, <1>6, <2>1, <2>2
<1>16. Storage!NothingForgotten'
  <2> SUFFICES ASSUME NEW k \in made \cap buckets, k \notin lost'
               PROVE  k \in Storage!BoundIds' \/ marker'[nameOf[k]] # None \/ Storage!InHand("ensure", nameOf[k])
    BY <1>0, <1>2 DEF Storage!NothingForgotten, Storage!InHand
  <2>1. nameOf[k] \in Name /\ k \in StorageKept'
    BY <1>2, StorageParts DEF StorageEachWasCreated, Storage!TypeOK, StorageKept
  <2>2. k \in Storage!BoundIds \/ marker[nameOf[k]] # None \/ Storage!InHand("ensure", nameOf[k])
    BY <1>6, <2>1, StorageParts DEF Storage!NothingForgotten, StorageKept
  <2> QED BY <1>4, <1>6, <1>8, <2>1, <2>2
<1>17. Storage!OneBucketPerName'
  BY <1>2, <1>6, StorageParts DEF Storage!OneBucketPerName, StorageKept
<1>18. Storage!AccessIsRecorded'
  BY <1>2, <1>4, <1>7, StorageParts DEF Storage!AccessIsRecorded, Storage!Wired
<1> QED BY <1>5, <1>9, <1>10, <1>11, <1>12, <1>13, <1>14, <1>15, <1>16, <1>17, <1>18 DEF StorageInv

LEMMA StorageInit ==
  ASSUME Storage!Init, Storage!Assumption
  PROVE  StorageInv
PROOF
<1>1. <<>> \in Storage!Specs
  <2>1. Cardinality(Name) \in Nat
    BY NamesAreFinite
  <2>2. <<>> \in [1..0 -> Storage!Entry] /\ DOMAIN <<>> = {}
    OBVIOUS
  <2> QED BY <2>1, <2>2, NamesAreFinite DEF Storage!Specs
<1>2. Storage!TypeOK
  BY <1>1, Storage!Assumption DEF Storage!Init, Storage!TypeOK, Storage!Held, Storage!Assumption
<1>3. StorageEachWasCreated /\ BoundFits /\ EnsuresFit /\ StorageDestroysFit /\ WiringsFit /\ ReadFits /\ StorageHeldFits /\ StorageLateFits
  BY DEF Storage!Init, StorageEachWasCreated, BoundFits, EnsuresFit, StorageDestroysFit, WiringsFit, ReadFits, StorageHeldFits, StorageLateFits
<1>4. Storage!NothingForgotten /\ Storage!OneBucketPerName /\ Storage!AccessIsRecorded
  BY StorageValues DEF Storage!Init, Storage!NothingForgotten, Storage!OneBucketPerName, Storage!AccessIsRecorded
<1> QED BY <1>2, <1>3, <1>4 DEF StorageInv

LEMMA StorageStutter ==
  ASSUME StorageInv, UNCHANGED Storage!vars
  PROVE  StorageInv'
PROOF
<1>0. Storage!Ended' = Storage!Ended
  BY DEF Storage!Ended
<1>1. UNCHANGED <<spec, nameOf, buckets, late, access, bound, marker, todo, applied, held, adopted, made, waived, lost,
                  unrecorded, rewrites, applies, errors, deaths, drifts>>
  BY DEF Storage!vars, Storage!provider, Storage!row, Storage!ghosts, Storage!counters
<1>2. Storage!TypeOK'
  BY <1>1, StorageParts DEF Storage!TypeOK
<1>3. StorageEachWasCreated' /\ BoundFits' /\ EnsuresFit' /\ WiringsFit' /\ Storage!AccessIsRecorded'
  BY <1>1, StorageParts DEF StorageEachWasCreated, BoundFits, EnsuresFit, WiringsFit, StorageKept, Storage!AccessIsRecorded, Storage!Wired
<1>4. StorageLateFits' /\ Storage!NothingForgotten' /\ Storage!OneBucketPerName'
  BY <1>0, <1>1, StorageParts DEF StorageLateFits, Storage!NothingForgotten, Storage!OneBucketPerName, StorageKept, Storage!InHand, Storage!BoundIds
<1>5. StorageDestroysFit' /\ ReadFits'
  BY <1>0, <1>1, StorageParts DEF StorageDestroysFit, ReadFits, Storage!Do, Storage!Before, Storage!Stage
<1>6. StorageHeldFits'
  BY <1>0, <1>1, StorageParts DEF StorageHeldFits, StorageKept, Storage!BoundIds
<1> QED BY <1>2, <1>3, <1>4, <1>5, <1>6 DEF StorageInv

LEMMA StorageStep ==
  ASSUME StorageInv, Storage!Assumption, Storage!Next
  PROVE  StorageInv'
BY StorageStartKeeps, StorageWriteClearedKeeps, StorageWriteMarkerKeeps, StorageWriteBindingKeeps, StorageDeployKeeps, StorageCrashKeeps, StorageClearKeeps,
   StorageEnsureKeeps, StorageWireKeeps, StorageUnwireKeeps, StorageDestroyKeeps, StorageEditKeeps, StorageLandKeeps, StorageDriftKeeps, StorageImportKeeps DEF Storage!Next, Storage!Apply

(* Only the deletion of a bucket and a user take a bucket away.            *)
LEMMA StorageUnwired ==
  ASSUME StorageInv, Storage!Assumption, Storage!Next \/ UNCHANGED Storage!vars
  PROVE  \A i \in buckets \ buckets' : drifts' = drifts => \A s \in Injected \ unrecorded : access[s] # i
PROOF
<1> SUFFICES ASSUME NEW i \in buckets \ buckets', drifts' = drifts
             PROVE  \A s \in Injected \ unrecorded : access[s] # i
  OBVIOUS
<1>1. ASSUME NEW a \in todo, Storage!Destroy(a)
      PROVE  \A s \in Injected \ unrecorded : access[s] # i
  <2>1. i = a.id /\ bound[a.name] # None /\ bound[a.name].id = a.id /\ Storage!Ready(a, "destroy")
    BY <1>1 DEF Storage!Destroy
  <2> QED BY <2>1, NotWired
<1>2. CASE Storage!Drift
  BY <1>2, StorageParts DEF Storage!Drift, Storage!TypeOK
<1>3. CASE UNCHANGED Storage!vars
  BY <1>3 DEF Storage!vars, Storage!provider
<1>4. CASE Storage!StartApply \/ Storage!WriteCleared \/ Storage!WriteMarker \/ Storage!WriteBinding \/ Storage!Deploy \/ Storage!Crash \/ Storage!Edit \/ Storage!Import
  BY <1>4 DEF Storage!StartApply, Storage!WriteCleared, Storage!WriteMarker, Storage!WriteBinding, Storage!Deploy, Storage!Crash, Storage!Edit, Storage!Import, Storage!Frame, Storage!provider
<1>5. CASE Storage!Land
  BY <1>5 DEF Storage!Land, Storage!Create
<1>6. ASSUME NEW a \in todo, Storage!Clear(a) \/ Storage!Wire(a) \/ Storage!Unwire(a)
      PROVE  FALSE
  BY <1>6 DEF Storage!Clear, Storage!Wire, Storage!Unwire, Storage!provider
<1>7. ASSUME NEW a \in todo, Storage!Ensure(a)
      PROVE  FALSE
  BY <1>7 DEF Storage!Ensure, Storage!Create
<1> QED BY <1>1, <1>2, <1>3, <1>4, <1>5, <1>6, <1>7 DEF Storage!Next, Storage!Apply

------------------------------------------------------------------------------
(***************************************************************************)
(* The Redis cache                                                         *)
(***************************************************************************)
CacheHolds(op) == cacheHeld # None /\ cacheHeld.action.op = op
CacheKept == (madeCaches \cap caches) \ lostCaches

(* What exists or is wired was created somewhere.                          *)
CacheEachWasCreated ==
  /\ \A i \in caches \cup madeCaches : providerOf[i] # None
  /\ \A s \in Service : url[s] # NoUrl => providerOf[url[s]] # None
  /\ retained # None => providerOf[retained.id] # None

(* A new cache is staged at the hosting provider, the old one elsewhere;   *)
(* no service has the URL of an unfinished one.                            *)
ComponentFits ==
  Cache!Bound =>
    /\ component.id = 0 => component.incomplete
    /\ component.id # 0 => providerOf[component.id] = component.provider
    /\ component.previous # None =>
         /\ component.provider = Host /\ component.previous.provider # Host
         /\ providerOf[component.previous.id] = component.previous.provider
    /\ component.incomplete => \A s \in Service : url[s] = NoUrl \/ url[s] # component.id

(* Another cache is created by itself, and only to leave a provider that   *)
(* is not the hosting one.                                                 *)
CreatesFit ==
  \A a \in cacheTodo : a.op = "create" =>
    /\ \A b \in cacheTodo : b = a \/ b.op = "deploy"
    /\ Cache!Bound => ~component.incomplete /\ a.provider = Host /\ component.provider # Host

(* One cache is deleted at most, and when it is the bound one, the old one *)
(* was deleted before, and all services were unwired.                      *)
CacheDestroysFit ==
  \A a \in cacheTodo : a.op = "destroy" =>
    /\ a.id # 0
    /\ \A b \in cacheTodo : b.op # "destroyRetained" /\ (b.op = "destroy" => b = a)
    /\ Cache!Bound /\ ~component.incomplete =>
         /\ component.previous # None => \E b \in cacheTodo : b.op = "destroyPrevious"
         /\ \A s \in Service : url[s] = a.id => Cache!Do("unwire", s, Host, 0) \in cacheTodo

(* What was answered is about the current action.                          *)
CacheHeldFits ==
  cacheHeld # None =>
    /\ cacheHeld.action \in cacheTodo /\ \A b \in cacheTodo : Cache!Stage(cacheHeld.action) <= Cache!Stage(b)
    /\ cacheHeld.action.op \in {"create", "destroyPrevious", "destroy", "destroyRetained"}
    /\ CacheHolds("create") /\ cacheHeld.state = "unresolved" => cacheHeld.id = 0
    /\ CacheHolds("create") /\ cacheHeld.state # "unresolved" =>
         /\ cacheHeld.id # 0 /\ providerOf[cacheHeld.id] = cacheHeld.action.provider
         /\ \A j \in CacheKept : providerOf[j] = cacheHeld.action.provider => j = cacheHeld.id
         /\ \A s \in Service : url[s] = NoUrl \/ url[s] # cacheHeld.id
    /\ cacheHeld.action.op # "create" => cacheHeld.action.id \notin caches /\ cacheHeld.action.id # 0
    /\ CacheHolds("destroyPrevious") => Cache!Previous(cacheHeld.action.id)
    /\ CacheHolds("destroy") => Cache!Active(cacheHeld.action.id) /\ (component.incomplete \/ component.previous = None)
    /\ CacheHolds("destroyRetained") => retained # None /\ retained.id = cacheHeld.action.id

(* A create that may yet take effect is the only one awaited there.        *)
CacheLateFits ==
  \A p \in lateCaches :
    /\ Cache!Unresolved(p) \/ (CacheHolds("create") /\ cacheHeld.state = "unresolved" /\ cacheHeld.action.provider = p)
    /\ \A j \in CacheKept : providerOf[j] # p

CacheInv ==
  /\ Cache!TypeOK /\ CacheEachWasCreated /\ ComponentFits /\ CreatesFit /\ CacheDestroysFit /\ CacheHeldFits /\ CacheLateFits
  /\ Cache!NothingForgotten /\ Cache!OneCachePerProvider

LEMMA CacheValues ==
  ASSUME Cache!Assumption
  PROVE  /\ 0 \notin Cache!Id /\ NoUrl \notin Cache!Id /\ Host \in Provider
         /\ None \notin Provider /\ None \notin Cache!Identity /\ None \notin Cache!Component /\ None \notin Cache!Result
BY DEF Cache!Assumption, Cache!Id

LEMMA ComponentType ==
  ASSUME Cache!TypeOK, Cache!Bound
  PROVE  /\ component.provider \in Provider /\ component.id \in Cache!Id \cup {0}
         /\ component.incomplete \in BOOLEAN
         /\ component.previous # None =>
              component.previous.provider \in Provider /\ component.previous.id \in Cache!Id
BY DEF Cache!TypeOK, Cache!Bound, Cache!Component, Cache!Identity

LEMMA CacheHeldType ==
  ASSUME Cache!TypeOK, cacheHeld # None
  PROVE  /\ cacheHeld.action \in Cache!Action /\ cacheHeld.action.op \in Cache!Op /\ cacheHeld.action.provider \in Provider
         /\ cacheHeld.action.id \in Cache!Id \cup {0}
         /\ cacheHeld.state \in {"done", "partial", "unresolved"} /\ cacheHeld.id \in Cache!Id \cup {0}
BY DEF Cache!TypeOK, Cache!Result, Cache!Action

LEMMA EachType ==
  ASSUME Cache!Assumption, NEW S \in SUBSET Service, NEW op \in Cache!Op
  PROVE  /\ Cache!Each(S, op) \subseteq Cache!Action
         /\ \A a \in Cache!Each(S, op) : a.op = op /\ a.service \in S
         /\ \A s \in S : Cache!Do(op, s, Host, 0) \in Cache!Each(S, op)
BY CacheValues DEF Cache!Each, Cache!Do, Cache!Action

(* What a plan can be.                                                     *)
LEMMA CachePlansFit ==
  ASSUME CacheInv, Cache!Assumption, Cache!StartApply
  PROVE  cacheTodo' \subseteq Cache!Action /\ CreatesFit' /\ CacheDestroysFit'
PROOF
<1> USE DEF Cache!Op
<1>0. Cache!TypeOK /\ ComponentFits
  BY DEF CacheInv
<1>1. PICK known \in BOOLEAN, some \in SUBSET Service :
        cacheTodo' \in {Cache!FullPlan(known, some), Cache!PartPlan(known, some), Cache!RetainedPlan}
  BY DEF Cache!StartApply
<1>2. UNCHANGED <<cacheSpec, component, caches, url>>
  BY DEF Cache!StartApply, Cache!cloud, Cache!row
<1>a. Cache!Each(some, "deploy") \subseteq Cache!Action /\ \A a \in Cache!Each(some, "deploy") : a.op = "deploy"
  BY EachType
<1>b. Cache!Each(Service, "deploy") \subseteq Cache!Action /\ \A a \in Cache!Each(Service, "deploy") : a.op = "deploy"
  BY EachType
<1>3. CASE cacheTodo' = {}
  BY <1>3 DEF CreatesFit, CacheDestroysFit
<1>4. CASE cacheTodo' = Cache!Each(some, "deploy")
  BY <1>4, <1>a DEF CreatesFit, CacheDestroysFit
<1>5. CASE cacheTodo' = Cache!RetainedPlan
  <2>1. cacheTodo' \subseteq Cache!Action /\ \A a \in cacheTodo' : a.op = "destroyRetained"
    BY <1>5, <1>0, CacheValues DEF Cache!RetainedPlan, Cache!Do, Cache!Action, Cache!TypeOK, Cache!Identity
  <2> QED BY <2>1 DEF CreatesFit, CacheDestroysFit
<1>6. ASSUME NEW S \in SUBSET Service, cacheSpec # None, ~Cache!Blocked(known), ~Cache!InSync(known),
             cacheTodo' = {Cache!Create} \cup Cache!Each(S, "deploy")
      PROVE  cacheTodo' \subseteq Cache!Action /\ CreatesFit' /\ CacheDestroysFit'
  <2>1. Cache!Create \in Cache!Action /\ Cache!Create.op = "create" /\ Cache!Create.provider = cacheSpec
    BY <1>0, <1>6, CacheValues DEF Cache!Create, Cache!Do, Cache!Action, Cache!TypeOK
  <2>2. Cache!Each(S, "deploy") \subseteq Cache!Action /\ \A a \in Cache!Each(S, "deploy") : a.op = "deploy"
    BY EachType
  <2>3. Cache!Bound => ~component.incomplete /\ component.provider # cacheSpec /\ cacheSpec = Host
    BY <1>6 DEF Cache!Blocked, Cache!InSync, Cache!Observable, Cache!Usable
  <2>4. \A a \in cacheTodo' : a.op \in {"create", "deploy"} /\ (a.op = "create" => a = Cache!Create)
    BY <1>6, <2>1, <2>2
  <2>5. CreatesFit'
    BY <1>2, <2>1, <2>3, <2>4 DEF CreatesFit, Cache!Bound
  <2> QED BY <1>6, <2>1, <2>2, <2>4, <2>5 DEF CacheDestroysFit
<1>7. ASSUME NEW S \in SUBSET Service, Cache!Usable, cacheTodo' = Cache!DestroyPrevious \cup Cache!Each(S, "deploy")
      PROVE  cacheTodo' \subseteq Cache!Action /\ CreatesFit' /\ CacheDestroysFit'
  <2>1. Cache!DestroyPrevious \subseteq Cache!Action /\ \A a \in Cache!DestroyPrevious : a.op = "destroyPrevious"
    BY <1>0, <1>7, CacheValues, ComponentType DEF Cache!DestroyPrevious, Cache!Do, Cache!Action, Cache!Usable
  <2>2. Cache!Each(S, "deploy") \subseteq Cache!Action /\ \A a \in Cache!Each(S, "deploy") : a.op = "deploy"
    BY EachType
  <2> QED BY <1>7, <2>1, <2>2 DEF CreatesFit, CacheDestroysFit
<1>8. ASSUME Cache!Usable, cacheTodo' = Cache!Removal \cup Cache!Each(some, "deploy")
      PROVE  cacheTodo' \subseteq Cache!Action /\ CreatesFit' /\ CacheDestroysFit'
  <2>1. Cache!DestroyPrevious \subseteq Cache!Action /\ \A a \in Cache!DestroyPrevious : a.op = "destroyPrevious"
    BY <1>0, <1>8, CacheValues, ComponentType DEF Cache!DestroyPrevious, Cache!Do, Cache!Action, Cache!Usable
  <2>2. /\ Cache!DestroyBound \subseteq Cache!Action /\ \A a \in Cache!DestroyBound : a.op = "destroy" /\ a.id # 0
        /\ \A a, b \in Cache!DestroyBound : a = b
    BY <1>0, <1>8, CacheValues, ComponentType DEF Cache!DestroyBound, Cache!Do, Cache!Action, Cache!Usable, ComponentFits
  <2>3. /\ Cache!Each(Service, "unwire") \subseteq Cache!Action
        /\ \A a \in Cache!Each(Service, "unwire") : a.op = "unwire"
        /\ \A s \in Service : Cache!Do("unwire", s, Host, 0) \in Cache!Each(Service, "unwire")
    BY EachType
  <2>4. \A a \in cacheTodo' : /\ a.op # "create" /\ a.op # "destroyRetained"
                              /\ a.op = "destroy" => a.id # 0 /\ a \in Cache!DestroyBound
    BY <1>8, <1>a, <2>1, <2>2, <2>3 DEF Cache!Removal
  <2>5. component.previous # None => \E b \in cacheTodo' : b.op = "destroyPrevious"
    <3>1. component.previous # None =>
            Cache!Do("destroyPrevious", None, component.previous.provider, component.previous.id) \in cacheTodo'
      BY <1>8 DEF Cache!Removal, Cache!DestroyPrevious
    <3> QED BY <3>1 DEF Cache!Do
  <2>6. \A s \in Service : Cache!Do("unwire", s, Host, 0) \in cacheTodo'
    BY <1>8, <2>3 DEF Cache!Removal
  <2>7. \A s \in Service : Cache!Do("unwire", s, Host, 0) = Cache!Do("unwire", s, Host, 0)'
    BY DEF Cache!Do
  <2>8. CacheDestroysFit'
    <3> SUFFICES ASSUME NEW a \in cacheTodo', a.op = "destroy"
                 PROVE  /\ a.id # 0
                        /\ \A b \in cacheTodo' : b.op # "destroyRetained" /\ (b.op = "destroy" => b = a)
                        /\ component'.previous # None => \E b \in cacheTodo' : b.op = "destroyPrevious"
                        /\ \A s \in Service : Cache!Do("unwire", s, Host, 0) \in cacheTodo'
      BY <2>7 DEF CacheDestroysFit
    <3> QED BY <1>2, <2>2, <2>4, <2>5, <2>6
  <2>9. CreatesFit'
    BY <2>4 DEF CreatesFit
  <2> QED BY <1>8, <1>a, <2>1, <2>2, <2>3, <2>8, <2>9 DEF Cache!Removal
<1>9. ASSUME Cache!Bound, component.incomplete, component.id # 0, cacheTodo' = Cache!DestroyBound \cup Cache!Each(some, "deploy")
      PROVE  cacheTodo' \subseteq Cache!Action /\ CreatesFit' /\ CacheDestroysFit'
  <2>2. /\ Cache!DestroyBound \subseteq Cache!Action /\ \A a \in Cache!DestroyBound : a.op = "destroy" /\ a.id # 0
        /\ \A a, b \in Cache!DestroyBound : a = b
    BY <1>0, <1>9, CacheValues, ComponentType DEF Cache!DestroyBound, Cache!Do, Cache!Action, Cache!Usable, ComponentFits
  <2>3. \A a \in cacheTodo' : /\ a.op # "create" /\ a.op # "destroyRetained"
                              /\ a.op = "destroy" => a.id # 0 /\ a \in Cache!DestroyBound
    BY <1>9, <1>a, <2>2
  <2>4. CacheDestroysFit'
    <3>1. Cache!Bound' /\ component'.incomplete
      BY <1>2, <1>9 DEF Cache!Bound
    <3> SUFFICES ASSUME NEW a \in cacheTodo', a.op = "destroy"
                 PROVE  /\ a.id # 0
                        /\ \A b \in cacheTodo' : b.op # "destroyRetained" /\ (b.op = "destroy" => b = a)
      BY <3>1 DEF CacheDestroysFit
    <3> QED BY <2>2, <2>3
  <2> QED BY <1>9, <1>a, <2>2, <2>3, <2>4 DEF CreatesFit
<1>10. CASE cacheTodo' = Cache!PartPlan(known, some)
  <2>1. \/ cacheTodo' = Cache!Each(some, "deploy")
        \/ cacheSpec # None /\ ~Cache!Blocked(known) /\ ~Cache!InSync(known) /\ cacheTodo' = {Cache!Create} \cup Cache!Each(some, "deploy")
    <3>1. CASE cacheSpec # None /\ ~Cache!Blocked(known) /\ ~Cache!InSync(known)
      BY <1>10, <3>1 DEF Cache!PartPlan
    <3>2. CASE ~(cacheSpec # None /\ ~Cache!Blocked(known) /\ ~Cache!InSync(known))
      <4>1. cacheTodo' = {} \cup Cache!Each(some, "deploy")
        BY <1>10, <3>2 DEF Cache!PartPlan
      <4> QED BY <4>1
    <3> QED BY <3>1, <3>2
  <2> QED BY <2>1, <1>4, <1>6
<1>11. CASE cacheTodo' = Cache!FullPlan(known, some) /\ cacheSpec # None
  <2>1. \/ cacheTodo' = {}
        \/ Cache!InSync(known) /\ cacheTodo' = Cache!DestroyPrevious \cup Cache!Each(Cache!Stale \cup some, "deploy")
        \/ ~Cache!Blocked(known) /\ ~Cache!InSync(known) /\ cacheTodo' = {Cache!Create} \cup Cache!Each(Service, "deploy")
    BY <1>11 DEF Cache!FullPlan, Cache!InSync
  <2>2. Cache!Stale \cup some \in SUBSET Service /\ Service \in SUBSET Service
    BY DEF Cache!Stale
  <2>3. Cache!InSync(known) => Cache!Usable
    BY DEF Cache!InSync
  <2> QED BY <1>11, <2>1, <2>2, <2>3, <1>3, <1>6, <1>7
<1>12. CASE cacheTodo' = Cache!FullPlan(known, some) /\ cacheSpec = None
  <2>1. \/ cacheTodo' = {} \/ cacheTodo' = Cache!Each(some, "deploy")
        \/ Cache!Bound /\ component.incomplete /\ component.id # 0 /\ cacheTodo' = Cache!DestroyBound \cup Cache!Each(some, "deploy")
        \/ Cache!Usable /\ cacheTodo' = Cache!Removal \cup Cache!Each(some, "deploy")
    <3>1. CASE ~Cache!Bound
      BY <1>12, <3>1 DEF Cache!FullPlan, Cache!Usable
    <3>2. CASE Cache!Bound /\ component.incomplete
      BY <1>12, <3>2 DEF Cache!FullPlan, Cache!Usable
    <3>3. CASE Cache!Usable
      BY <1>12, <3>3 DEF Cache!FullPlan, Cache!Usable
    <3> QED BY <3>1, <3>2, <3>3 DEF Cache!Usable
  <2> QED BY <2>1, <1>3, <1>4, <1>8, <1>9
<1> QED BY <1>1, <1>5, <1>10, <1>11, <1>12

LEMMA CacheFreeIsNew ==
  ASSUME CacheInv, Cache!Assumption, NEW i \in Cache!Free
  PROVE  /\ i \in Cache!Id /\ i \notin caches /\ i \notin madeCaches /\ providerOf[i] = None
         /\ \A s \in Service : url[s] # i
         /\ Cache!Bound => component.id # i /\ (component.previous # None => component.previous.id # i)
         /\ retained # None => retained.id # i
         /\ cacheHeld # None /\ cacheHeld.action.op # "create" => cacheHeld.action.id # i
         /\ cacheHeld # None /\ cacheHeld.id # 0 /\ cacheHeld.action.op = "create" => cacheHeld.id # i
PROOF
<1>1. i \in Cache!Id /\ providerOf[i] = None
  BY DEF Cache!Free
<1>2. Cache!TypeOK /\ CacheEachWasCreated /\ ComponentFits /\ CacheHeldFits
  BY DEF CacheInv
<1>3. i \notin caches /\ i \notin madeCaches /\ \A s \in Service : url[s] # i
  BY <1>1, <1>2, CacheValues DEF CacheEachWasCreated
<1>4. Cache!Bound => component.id # i /\ (component.previous # None => component.previous.id # i)
  BY <1>1, <1>2, CacheValues, ComponentType DEF ComponentFits
<1>5. retained # None => retained.id # i
  BY <1>1, <1>2 DEF CacheEachWasCreated
<1>6. cacheHeld # None /\ cacheHeld.action.op # "create" => cacheHeld.action.id # i
  BY <1>1, <1>2, <1>4, <1>5 DEF CacheHeldFits, CacheHolds, Cache!Previous, Cache!Active
<1>7. cacheHeld # None /\ cacheHeld.id # 0 /\ cacheHeld.action.op = "create" => cacheHeld.id # i
  BY <1>1, <1>2, CacheValues, CacheHeldType DEF CacheHeldFits, CacheHolds
<1> QED BY <1>1, <1>3, <1>4, <1>5, <1>6, <1>7

(***************************************************************************)
(* Each action                                                             *)
(***************************************************************************)
LEMMA CacheStartKeeps ==
  ASSUME CacheInv, Cache!Assumption, Cache!StartApply
  PROVE  CacheInv'
PROOF
<1>1. Cache!TypeOK /\ cacheHeld = None /\ cacheHeld' = None
  BY DEF CacheInv, Cache!StartApply
<1>2. UNCHANGED <<cacheSpec, Cache!cloud, Cache!row, cacheHeld, Cache!ghosts, cacheEdits, cacheFaults, cacheCrashes, cacheDrifts>>
  BY DEF Cache!StartApply
<1>3. cacheApplies' \in 0..MaxCacheApplies
  BY <1>1, Cache!Assumption DEF Cache!StartApply, Cache!TypeOK, Cache!Assumption
<1>4. Cache!TypeOK'
  BY <1>1, <1>2, <1>3, CachePlansFit DEF Cache!TypeOK, Cache!cloud, Cache!row, Cache!ghosts
<1>5. CacheEachWasCreated' /\ ComponentFits' /\ Cache!NothingForgotten' /\ Cache!OneCachePerProvider'
  BY <1>1, <1>2 DEF CacheInv, CacheEachWasCreated, ComponentFits, Cache!NothingForgotten, Cache!OneCachePerProvider, Cache!cloud, Cache!row, Cache!ghosts,
     Cache!Bound, Cache!Active, Cache!Previous, Cache!Unresolved, Cache!Current
<1>6. CacheHeldFits' /\ CacheLateFits'
  BY <1>1, <1>2 DEF CacheInv, CacheHeldFits, CacheLateFits, CacheHolds, CacheKept, Cache!cloud, Cache!row, Cache!ghosts, Cache!Unresolved, Cache!Bound
<1> QED BY <1>4, <1>5, <1>6, CachePlansFit DEF CacheInv

(* An apply that ends early forgets what it had still to do.               *)
LEMMA CacheHaltFits ==
  ASSUME CacheInv, cacheHeld = None, cacheHeld' = None, cacheTodo' = {}, UNCHANGED <<component, retained, url, providerOf, lateCaches, madeCaches, lostCaches>>,
         caches' \subseteq caches
  PROVE  /\ CacheEachWasCreated' /\ ComponentFits' /\ CreatesFit' /\ CacheDestroysFit' /\ CacheHeldFits' /\ CacheLateFits'
         /\ Cache!NothingForgotten' /\ Cache!OneCachePerProvider'
PROOF
<1>1. CacheEachWasCreated' /\ ComponentFits'
  BY DEF CacheInv, CacheEachWasCreated, ComponentFits, Cache!Bound
<1>2. CreatesFit' /\ CacheDestroysFit' /\ CacheHeldFits'
  BY DEF CreatesFit, CacheDestroysFit, CacheHeldFits
<1>3. CacheLateFits'
  BY DEF CacheInv, CacheLateFits, CacheHolds, CacheKept, Cache!Unresolved, Cache!Bound
<1>4. Cache!NothingForgotten' /\ Cache!OneCachePerProvider'
  BY DEF CacheInv, Cache!NothingForgotten, Cache!OneCachePerProvider, Cache!Active, Cache!Previous, Cache!Unresolved, Cache!Bound, Cache!Current
<1> QED BY <1>1, <1>2, <1>3, <1>4

LEMMA CacheProvisionKeeps ==
  ASSUME CacheInv, Cache!Assumption, NEW a \in cacheTodo, Cache!Provision(a)
  PROVE  CacheInv'
PROOF
<1>1. /\ Cache!TypeOK /\ CacheEachWasCreated /\ ComponentFits /\ CreatesFit /\ CacheDestroysFit /\ CacheLateFits
      /\ Cache!NothingForgotten /\ Cache!OneCachePerProvider
  BY DEF CacheInv
<1>2. /\ cacheHeld = None /\ a.op = "create" /\ \A b \in cacheTodo : Cache!Stage(a) <= Cache!Stage(b)
      /\ UNCHANGED <<cacheSpec, url, component, retained, stray, lostCaches, cacheEdits, cacheApplies, cacheCrashes, cacheDrifts>>
      /\ cacheFaults' = cacheFaults \/ Cache!Fault
  BY DEF Cache!Provision, Cache!Turn, Cache!row, Cache!Halt
<1>3. a \in Cache!Action /\ a.provider \in Provider
  BY <1>1 DEF Cache!TypeOK, Cache!Action
<1>4. cacheFaults' \in 0..MaxCacheFaults
  BY <1>1, <1>2 DEF Cache!Fault, Cache!TypeOK, Cache!Assumption
<1>5. lateCaches = {}
  <2>1. Cache!Bound => component.id # 0
    BY <1>1, <1>2 DEF CreatesFit, ComponentFits
  <2> QED BY <2>1, <1>1, <1>2 DEF CacheLateFits, CacheHolds, Cache!Unresolved
<1>6. CASE cacheTodo' = {} /\ UNCHANGED <<cacheHeld, providerOf, caches, lateCaches, madeCaches>>
  <2>1. Cache!TypeOK'
    BY <1>1, <1>2, <1>4, <1>6 DEF Cache!TypeOK
  <2> QED BY <2>1, <1>2, <1>6, CacheHaltFits DEF CacheInv
<1>7. ASSUME NEW i \in Cache!Free, NEW state \in {"done", "partial", "unresolved"}, NEW j \in {i, 0},
             j = 0 <=> state = "unresolved",
             Cache!At(a.provider) = {}, Cache!Appear(i, a.provider), Cache!Hold(a, state, j), UNCHANGED lateCaches
      PROVE  CacheInv'
  <2>1. /\ i \in Cache!Id /\ i \notin caches /\ i \notin madeCaches /\ i # 0 /\ \A s \in Service : url[s] # i
        /\ Cache!Bound => component.id # i /\ (component.previous # None => component.previous.id # i)
        /\ retained # None => retained.id # i
    BY CacheFreeIsNew, CacheValues
  <2>2. /\ caches' = caches \cup {i} /\ madeCaches' = madeCaches \cup {i} /\ cacheTodo' = cacheTodo
        /\ providerOf' \in [Cache!Id -> Provider \cup {None}] /\ providerOf'[i] = a.provider
        /\ \A k \in Cache!Id \ {i} : providerOf'[k] = providerOf[k]
    BY <1>1, <1>3, <1>7, <2>1 DEF Cache!Appear, Cache!Hold, Cache!TypeOK
  <2>3. /\ cacheHeld' = [action |-> a, state |-> state, id |-> j] /\ cacheHeld' \in Cache!Result
        /\ cacheHeld'.action = a /\ cacheHeld'.state = state /\ cacheHeld'.id = j
    BY <1>3, <1>7, <2>1 DEF Cache!Hold, Cache!Result
  <2>4. cacheHeld' # None
    BY <2>3, CacheValues
  <2>5. Cache!TypeOK'
    BY <1>1, <1>2, <1>4, <1>7, <2>1, <2>2, <2>3 DEF Cache!TypeOK
  <2>6. CacheEachWasCreated'
    BY <1>1, <1>2, <1>3, <2>1, <2>2, CacheValues DEF CacheEachWasCreated, Cache!TypeOK, Cache!Identity
  <2>7. ComponentFits'
    BY <1>1, <1>2, <2>1, <2>2, ComponentType DEF ComponentFits, Cache!Bound
  <2>8. CreatesFit' /\ CacheDestroysFit'
    BY <1>1, <1>2, <2>2 DEF CreatesFit, CacheDestroysFit, Cache!Bound
  <2>9. CacheKept' = CacheKept \cup ({i} \ lostCaches) /\ \A k \in CacheKept : k \in Cache!Id /\ providerOf[k] # a.provider /\ k # i
    BY <1>1, <1>2, <1>7, <2>1, <2>2 DEF CacheKept, Cache!At, Cache!TypeOK
  <2>10. CacheHeldFits'
    <3>1. cacheHeld'.action \in cacheTodo' /\ \A b \in cacheTodo' : Cache!Stage(cacheHeld'.action) <= Cache!Stage(b)
      BY <1>2, <2>2, <2>3
    <3>2. CacheHolds("create")' /\ ~CacheHolds("destroy")' /\ ~CacheHolds("destroyPrevious")' /\ ~CacheHolds("destroyRetained")'
      BY <1>2, <2>3, <2>4 DEF CacheHolds
    <3>3. state # "unresolved" =>
            /\ j # 0 /\ providerOf'[j] = a.provider /\ \A k \in CacheKept' : providerOf'[k] = a.provider => k = j
            /\ \A s \in Service : url'[s] # j
      BY <1>2, <1>7, <2>1, <2>2, <2>9
    <3> QED BY <1>2, <1>7, <2>3, <3>1, <3>2, <3>3 DEF CacheHeldFits, Cache!Stage
  <2>11. CacheLateFits'
    BY <1>5, <1>7 DEF CacheLateFits
  <2>12. Cache!NothingForgotten'
    <3> SUFFICES ASSUME NEW k \in CacheKept' 
                 PROVE  \/ Cache!Active(k)' \/ Cache!Previous(k)' \/ Cache!Unresolved(providerOf[k])'
                        \/ retained' # None /\ retained'.id = k
                        \/ cacheHeld' # None /\ cacheHeld'.action.op = "create" /\ cacheHeld'.action.provider = providerOf'[k]
      BY DEF Cache!NothingForgotten, CacheKept, Cache!Current
    <3>1. CASE k = i
      BY <3>1, <1>2, <2>2, <2>3, <2>4
    <3>2. CASE k \in CacheKept
      BY <3>2, <1>1, <1>2, <2>2, <2>9 DEF Cache!NothingForgotten, CacheKept, Cache!Active, Cache!Previous, Cache!Unresolved, Cache!Bound
    <3> QED BY <3>1, <3>2, <2>9
  <2>13. Cache!OneCachePerProvider'
    <3>1. \A k, l \in CacheKept' : providerOf'[k] = providerOf'[l] => k = l
      BY <1>1, <2>2, <2>9 DEF Cache!OneCachePerProvider, CacheKept
    <3> QED BY <3>1 DEF Cache!OneCachePerProvider, CacheKept
  <2> QED BY <2>5, <2>6, <2>7, <2>8, <2>10, <2>11, <2>12, <2>13 DEF CacheInv
<1>8. CASE /\ Cache!At(a.provider) = {} /\ Cache!Hold(a, "unresolved", 0) /\ lateCaches' \in {lateCaches, lateCaches \cup {a.provider}}
           /\ UNCHANGED <<providerOf, caches, madeCaches>>
  <2>1. /\ cacheHeld' = [action |-> a, state |-> "unresolved", id |-> 0] /\ cacheHeld' \in Cache!Result /\ cacheTodo' = cacheTodo
        /\ cacheHeld'.action = a /\ cacheHeld'.state = "unresolved" /\ cacheHeld'.id = 0
    BY <1>3, <1>8 DEF Cache!Hold, Cache!Result
  <2>2. cacheHeld' # None
    BY <2>1, CacheValues
  <2>3. Cache!TypeOK'
    BY <1>1, <1>2, <1>3, <1>4, <1>8, <2>1 DEF Cache!TypeOK
  <2>4. CacheEachWasCreated' /\ ComponentFits' /\ CreatesFit' /\ CacheDestroysFit' /\ Cache!OneCachePerProvider'
    BY <1>1, <1>2, <1>8, <2>1
       DEF CacheEachWasCreated, ComponentFits, CreatesFit, CacheDestroysFit, Cache!Bound, Cache!OneCachePerProvider
  <2>5. CacheHeldFits'
    <3>1. cacheHeld'.action \in cacheTodo' /\ \A b \in cacheTodo' : Cache!Stage(cacheHeld'.action) <= Cache!Stage(b)
      BY <1>2, <2>1
    <3>2. CacheHolds("create")' /\ ~CacheHolds("destroy")' /\ ~CacheHolds("destroyPrevious")' /\ ~CacheHolds("destroyRetained")'
      BY <1>2, <2>1, <2>2 DEF CacheHolds
    <3> QED BY <1>2, <2>1, <3>1, <3>2 DEF CacheHeldFits, Cache!Stage
  <2>6. CacheLateFits'
    BY <1>1, <1>2, <1>5, <1>8, <2>1, <2>2 DEF CacheLateFits, CacheHolds, CacheKept, Cache!At, Cache!TypeOK
  <2>7. Cache!NothingForgotten'
    BY <1>1, <1>2, <1>8, <2>1 DEF Cache!NothingForgotten, Cache!Active, Cache!Previous, Cache!Unresolved, Cache!Bound
  <2> QED BY <2>3, <2>4, <2>5, <2>6, <2>7 DEF CacheInv
<1>9. \/ cacheTodo' = {} /\ UNCHANGED <<cacheHeld, providerOf, caches, lateCaches, madeCaches>>
      \/ /\ Cache!At(a.provider) = {} /\ Cache!Hold(a, "unresolved", 0) /\ lateCaches' \in {lateCaches, lateCaches \cup {a.provider}}
         /\ UNCHANGED <<providerOf, caches, madeCaches>>
      \/ /\ Cache!At(a.provider) = {} /\ UNCHANGED lateCaches
         /\ \E i \in Cache!Free : Cache!Appear(i, a.provider) /\
              (Cache!Hold(a, "done", i) \/ Cache!Hold(a, "partial", i) \/ Cache!Hold(a, "unresolved", 0))
  BY DEF Cache!Provision, Cache!Halt
<1>10. CASE Cache!At(a.provider) = {} /\ UNCHANGED lateCaches /\ \E i \in Cache!Free : Cache!Appear(i, a.provider) /\
              (Cache!Hold(a, "done", i) \/ Cache!Hold(a, "partial", i) \/ Cache!Hold(a, "unresolved", 0))
  <2>1. PICK i \in Cache!Free : Cache!Appear(i, a.provider) /\
              (Cache!Hold(a, "done", i) \/ Cache!Hold(a, "partial", i) \/ Cache!Hold(a, "unresolved", 0))
    BY <1>10
  <2>2. i # 0
    BY CacheFreeIsNew, CacheValues
  <2> QED BY <1>7, <1>10, <2>1, <2>2
<1> QED BY <1>6, <1>8, <1>9, <1>10

LEMMA CacheDeleteKeeps ==
  ASSUME CacheInv, Cache!Assumption, NEW a \in cacheTodo, Cache!Delete(a)
  PROVE  CacheInv'
PROOF
<1>1. /\ Cache!TypeOK /\ CacheEachWasCreated /\ ComponentFits /\ CreatesFit /\ CacheDestroysFit /\ CacheLateFits
      /\ Cache!NothingForgotten /\ Cache!OneCachePerProvider
  BY DEF CacheInv
<1>2. /\ cacheHeld = None /\ a.op \in {"destroyPrevious", "destroy", "destroyRetained"}
      /\ \A b \in cacheTodo : Cache!Stage(a) <= Cache!Stage(b)
      /\ UNCHANGED <<cacheSpec, providerOf, lateCaches, url, component, retained, madeCaches, stray, lostCaches, cacheEdits, cacheApplies, cacheCrashes, cacheDrifts>>
      /\ cacheFaults' = cacheFaults \/ Cache!Fault
      /\ caches' \subseteq caches
  BY DEF Cache!Delete, Cache!Turn, Cache!row, Cache!ghosts, Cache!Halt
<1>3. cacheFaults' \in 0..MaxCacheFaults
  BY <1>1, <1>2 DEF Cache!Fault, Cache!TypeOK, Cache!Assumption
<1>4. CASE cacheTodo' = {} /\ cacheHeld' = None
  <2>1. Cache!TypeOK'
    BY <1>1, <1>2, <1>3, <1>4 DEF Cache!TypeOK
  <2> QED BY <2>1, <1>2, <1>4, CacheHaltFits DEF CacheInv
<1>5. CASE Cache!Intended(a) /\ caches' = caches \ {a.id} /\ Cache!Hold(a, "done", a.id)
  <2>1. a \in Cache!Action /\ a.id \in Cache!Id \cup {0}
    BY <1>1 DEF Cache!TypeOK, Cache!Action
  <2>2. /\ cacheHeld' = [action |-> a, state |-> "done", id |-> a.id] /\ cacheHeld' \in Cache!Result /\ cacheTodo' = cacheTodo
        /\ cacheHeld'.action = a
    BY <1>5, <2>1 DEF Cache!Hold, Cache!Result
  <2>3. cacheHeld' # None
    BY <2>2, CacheValues
  <2>4. Cache!TypeOK'
    BY <1>1, <1>2, <1>3, <2>2 DEF Cache!TypeOK
  <2>5. CacheEachWasCreated' /\ ComponentFits' /\ CreatesFit' /\ CacheDestroysFit' /\ Cache!OneCachePerProvider'
    BY <1>1, <1>2, <2>2
       DEF CacheEachWasCreated, ComponentFits, CreatesFit, CacheDestroysFit, Cache!Bound, Cache!OneCachePerProvider
  <2>6. a.id # 0 /\ a.id \notin caches'
    <3>1. CASE a.op = "destroyPrevious"
      BY <3>1, <1>1, <1>5, CacheValues, ComponentType DEF Cache!Intended, Cache!Previous
    <3>2. CASE a.op = "destroy"
      BY <3>2, <1>1, <1>5 DEF CacheDestroysFit
    <3>3. CASE a.op = "destroyRetained"
      BY <3>3, <1>1, <1>5, CacheValues DEF Cache!Intended, Cache!TypeOK, Cache!Identity
    <3> QED BY <1>2, <1>5, <3>1, <3>2, <3>3
  <2>7. a.op = "destroy" => Cache!Active(a.id) /\ (component.incomplete \/ component.previous = None)
    <3> SUFFICES ASSUME a.op = "destroy"
                 PROVE  Cache!Active(a.id) /\ (component.incomplete \/ component.previous = None)
      OBVIOUS
    <3>1. Cache!Active(a.id)
      BY <1>5 DEF Cache!Intended
    <3>2. \A b \in cacheTodo : b.op # "destroyPrevious"
      BY <1>2 DEF Cache!Stage
    <3> QED BY <1>1, <3>1, <3>2 DEF CacheDestroysFit, Cache!Active
  <2>8. CacheHeldFits'
    <3>1. cacheHeld'.action \in cacheTodo' /\ \A b \in cacheTodo' : Cache!Stage(cacheHeld'.action) <= Cache!Stage(b)
      BY <1>2, <2>2
    <3>2. ~CacheHolds("create")' /\ (CacheHolds("destroyPrevious")' => Cache!Previous(a.id)') /\ (CacheHolds("destroy")' => Cache!Active(a.id)')
          /\ (CacheHolds("destroyRetained")' => retained' # None /\ retained'.id = a.id)
      BY <1>2, <1>5, <2>2 DEF CacheHolds, Cache!Intended, Cache!Previous, Cache!Active, Cache!Bound
    <3>3. CacheHolds("destroy")' => a.op = "destroy"
      BY <2>2 DEF CacheHolds
    <3> QED BY <1>2, <2>2, <2>6, <2>7, <3>1, <3>2, <3>3 DEF CacheHeldFits, Cache!Stage
  <2>9. CacheLateFits'
    BY <1>1, <1>2 DEF CacheLateFits, CacheHolds, CacheKept, Cache!Unresolved, Cache!Bound
  <2>10. Cache!NothingForgotten'
    BY <1>1, <1>2 DEF Cache!NothingForgotten, Cache!Active, Cache!Previous, Cache!Unresolved, Cache!Bound
  <2> QED BY <2>4, <2>5, <2>8, <2>9, <2>10 DEF CacheInv
<1> QED BY <1>2, <1>4, <1>5 DEF Cache!Delete, Cache!Halt

LEMMA CacheRewireKeeps ==
  ASSUME CacheInv, Cache!Assumption, NEW a \in cacheTodo, Cache!Deploy(a) \/ Cache!Unwire(a)
  PROVE  CacheInv'
PROOF
<1>1. /\ Cache!TypeOK /\ CacheEachWasCreated /\ ComponentFits /\ CreatesFit /\ CacheDestroysFit /\ CacheLateFits
      /\ Cache!NothingForgotten /\ Cache!OneCachePerProvider
  BY DEF CacheInv
<1>2. /\ cacheHeld = None /\ a.op \in {"deploy", "unwire"} /\ \A b \in cacheTodo : Cache!Stage(a) <= Cache!Stage(b)
      /\ UNCHANGED <<cacheSpec, providerOf, caches, lateCaches, component, retained, cacheHeld, madeCaches, stray, lostCaches, cacheEdits, cacheApplies, cacheCrashes, cacheDrifts>>
      /\ cacheFaults' = cacheFaults \/ Cache!Fault
      /\ cacheTodo' = {} \/ cacheTodo' = cacheTodo \ {a}
  BY DEF Cache!Deploy, Cache!Unwire, Cache!Rewire, Cache!Turn, Cache!row, Cache!ghosts
<1>3. cacheFaults' \in 0..MaxCacheFaults
  BY <1>1, <1>2 DEF Cache!Fault, Cache!TypeOK, Cache!Assumption
<1>4. Cache!Usable => component.id \in Cache!Id
  BY <1>1, ComponentType DEF Cache!Usable, ComponentFits
<1>5. /\ DOMAIN url' = Service /\ url' = [s \in Service |-> url'[s]]
      /\ \A s \in Service : url'[s] = url[s] \/ url'[s] = NoUrl \/ (Cache!Usable /\ url'[s] = component.id)
  BY <1>1 DEF Cache!Deploy, Cache!Unwire, Cache!Rewire, Cache!TypeOK
<1>6. url' \in [Service -> Cache!Id \cup {NoUrl}]
  BY <1>1, <1>4, <1>5 DEF Cache!TypeOK
<1>7. Cache!TypeOK'
  BY <1>1, <1>2, <1>3, <1>6 DEF Cache!TypeOK
<1>8. CacheEachWasCreated'
  BY <1>1, <1>2, <1>4, <1>5, CacheValues, ComponentType DEF CacheEachWasCreated, ComponentFits, Cache!Usable
<1>9. ComponentFits'
  BY <1>1, <1>2, <1>5 DEF ComponentFits, Cache!Usable, Cache!Bound
<1>10. CreatesFit'
  BY <1>1, <1>2 DEF CreatesFit, Cache!Bound
<1>11. CacheDestroysFit'
  <2>1. CASE a.op = "deploy" \/ cacheTodo' = {}
    <3>1. \A b \in cacheTodo' : b.op # "destroy"
      BY <1>2, <2>1 DEF Cache!Stage
    <3> QED BY <3>1 DEF CacheDestroysFit
  <2>2. CASE a.op = "unwire" /\ cacheTodo' # {}
    <3>1. \A s \in Service : url'[s] = IF s = a.service THEN NoUrl ELSE url[s]
      BY <1>1, <2>2 DEF Cache!Deploy, Cache!Unwire, Cache!Rewire, Cache!TypeOK
    <3>0. cacheTodo' = cacheTodo \ {a}
      BY <1>2, <2>2
    <3>2. \A s \in Service : Cache!Do("unwire", s, Host, 0) = a => s = a.service
      BY DEF Cache!Do
    <3>3. \A b \in cacheTodo : b.id \in Cache!Id \cup {0}
      BY <1>1 DEF Cache!TypeOK, Cache!Action
    <3> SUFFICES ASSUME NEW b \in cacheTodo', b.op = "destroy"
                 PROVE  /\ b.id # 0
                        /\ \A c \in cacheTodo' : c.op # "destroyRetained" /\ (c.op = "destroy" => c = b)
                        /\ Cache!Bound /\ ~component.incomplete =>
                             /\ component.previous # None => \E c \in cacheTodo' : c.op = "destroyPrevious"
                             /\ \A s \in Service : url'[s] = b.id => Cache!Do("unwire", s, Host, 0) \in cacheTodo'
      BY <1>2 DEF CacheDestroysFit, Cache!Do, Cache!Bound
    <3>4. /\ b.id # 0
          /\ \A c \in cacheTodo : c.op # "destroyRetained" /\ (c.op = "destroy" => c = b)
          /\ Cache!Bound /\ ~component.incomplete =>
               /\ component.previous # None => \E c \in cacheTodo : c.op = "destroyPrevious"
               /\ \A s \in Service : url[s] = b.id => Cache!Do("unwire", s, Host, 0) \in cacheTodo
      BY <1>1, <3>0 DEF CacheDestroysFit
    <3> QED BY <2>2, <3>0, <3>1, <3>2, <3>3, <3>4, CacheValues
  <2> QED BY <1>2, <2>1, <2>2
<1>12. CacheHeldFits' /\ CacheLateFits'
  BY <1>1, <1>2 DEF CacheHeldFits, CacheLateFits, CacheHolds, CacheKept, Cache!Unresolved, Cache!Bound
<1>13. Cache!NothingForgotten' /\ Cache!OneCachePerProvider'
  BY <1>1, <1>2 DEF Cache!NothingForgotten, Cache!OneCachePerProvider, Cache!Active, Cache!Previous, Cache!Unresolved, Cache!Bound
<1> QED BY <1>7, <1>8, <1>9, <1>10, <1>11, <1>12, <1>13 DEF CacheInv

LEMMA CacheWriteCreatedKeeps ==
  ASSUME CacheInv, Cache!Assumption, Cache!WriteCreated
  PROVE  CacheInv'
PROOF
<1> DEFINE a == cacheHeld.action
<1>1. /\ Cache!TypeOK /\ CacheEachWasCreated /\ ComponentFits /\ CreatesFit /\ CacheDestroysFit /\ CacheHeldFits /\ CacheLateFits
      /\ Cache!NothingForgotten /\ Cache!OneCachePerProvider
  BY DEF CacheInv
<1>2. /\ cacheHeld # None /\ a.op = "create" /\ cacheHeld' = None /\ cacheTodo' \subseteq cacheTodo \ {a}
      /\ component' = [provider |-> a.provider, id |-> cacheHeld.id, incomplete |-> cacheHeld.state # "done",
                       previous |-> IF Cache!Bound THEN [provider |-> component.provider, id |-> component.id] ELSE None]
      /\ UNCHANGED <<cacheSpec, providerOf, caches, lateCaches, url, retained, madeCaches, stray, lostCaches, cacheEdits, cacheApplies, cacheFaults, cacheCrashes, cacheDrifts>>
  BY DEF Cache!WriteCreated, Cache!Finish, Cache!Current, Cache!cloud, Cache!ghosts, Cache!counters
<1>3. /\ a \in cacheTodo /\ a.provider \in Provider /\ cacheHeld.id \in Cache!Id \cup {0}
      /\ cacheHeld.state = "unresolved" <=> cacheHeld.id = 0
      /\ cacheHeld.id # 0 => /\ providerOf[cacheHeld.id] = a.provider
                             /\ \A j \in CacheKept : providerOf[j] = a.provider => j = cacheHeld.id
                             /\ \A s \in Service : url[s] = NoUrl \/ url[s] # cacheHeld.id
  BY <1>1, <1>2, CacheHeldType DEF CacheHeldFits, CacheHolds
<1>4. /\ \A b \in cacheTodo' : b.op = "deploy"
      /\ Cache!Bound => ~component.incomplete /\ a.provider = Host /\ component.provider # Host
  BY <1>1, <1>2, <1>3 DEF CreatesFit
<1>5. Cache!Bound => component.provider \in Provider /\ component.id \in Cache!Id /\ component.previous = None
  BY <1>1, <1>4, ComponentType DEF ComponentFits
<1>6. component' \in Cache!Component
  BY <1>2, <1>3, <1>5 DEF Cache!Component, Cache!Identity
<1>7. Cache!Bound'
  BY <1>6, CacheValues DEF Cache!Bound
<1>8. Cache!TypeOK'
  BY <1>1, <1>2, <1>6 DEF Cache!TypeOK
<1>9. CacheEachWasCreated' /\ Cache!OneCachePerProvider'
  BY <1>1, <1>2 DEF CacheEachWasCreated, Cache!OneCachePerProvider
<1>10. ComponentFits'
  <2>1. cacheHeld.id = 0 => component'.incomplete
    BY <1>2, <1>3
  <2>2. Cache!Bound => providerOf[component.id] = component.provider
    BY <1>1, <1>5, CacheValues DEF ComponentFits
  <2>3. \A s \in Service : url[s] = NoUrl \/ url[s] # cacheHeld.id
    BY <1>1, <1>3, CacheValues DEF Cache!TypeOK
  <2> QED BY <1>2, <1>3, <1>4, <1>5, <2>1, <2>2, <2>3 DEF ComponentFits
<1>11. CreatesFit' /\ CacheDestroysFit' /\ CacheHeldFits'
  BY <1>2, <1>4 DEF CreatesFit, CacheDestroysFit, CacheHeldFits
<1>12. \A q \in lateCaches : cacheHeld.state = "unresolved" /\ a.provider = q
  BY <1>1, <1>5, CacheValues DEF CacheLateFits, Cache!Unresolved
<1>13. CacheLateFits'
  BY <1>1, <1>2, <1>3, <1>7, <1>12 DEF CacheLateFits, Cache!Unresolved, CacheKept
<1>14. Cache!NothingForgotten'
  <2> SUFFICES ASSUME NEW i \in CacheKept
               PROVE  \/ Cache!Active(i)' \/ Cache!Previous(i)' \/ Cache!Unresolved(providerOf[i])'
                      \/ retained # None /\ retained.id = i
    BY <1>2 DEF Cache!NothingForgotten, CacheKept
  <2>1. i \in Cache!Id
    BY <1>1 DEF CacheKept, Cache!TypeOK
  <2>2. CASE Cache!Active(i)
    <3>1. component'.previous = [provider |-> component.provider, id |-> component.id]
      BY <1>2, <2>2 DEF Cache!Active
    <3>2. component'.previous \in Cache!Identity
      BY <2>2, <1>5, <3>1 DEF Cache!Active, Cache!Identity
    <3> QED BY <2>2, <1>7, <3>1, <3>2, CacheValues DEF Cache!Active, Cache!Previous
  <2>3. CASE a.provider = providerOf[i]
    BY <2>3, <1>2, <1>3, <1>7, <2>1 DEF Cache!Active, Cache!Unresolved
  <2>4. ~Cache!Previous(i) /\ ~Cache!Unresolved(providerOf[i])
    BY <1>5, CacheValues DEF Cache!Previous, Cache!Unresolved
  <2> QED BY <1>1, <2>2, <2>3, <2>4 DEF Cache!NothingForgotten, CacheKept, Cache!Current
<1> QED BY <1>8, <1>9, <1>10, <1>11, <1>13, <1>14 DEF CacheInv

LEMMA CacheWriteDeletedKeeps ==
  ASSUME CacheInv, Cache!Assumption, Cache!WriteDeleted
  PROVE  CacheInv'
PROOF
<1> DEFINE a == cacheHeld.action
<1>1. /\ Cache!TypeOK /\ CacheEachWasCreated /\ ComponentFits /\ CreatesFit /\ CacheDestroysFit /\ CacheHeldFits /\ CacheLateFits
      /\ Cache!NothingForgotten /\ Cache!OneCachePerProvider
  BY DEF CacheInv
<1>2. /\ cacheHeld # None /\ a.op # "create" /\ cacheHeld' = None /\ cacheTodo' = cacheTodo \ {a} /\ a \in cacheTodo
      /\ a.op \in {"destroyPrevious", "destroy", "destroyRetained"}
      /\ a.id \notin caches /\ a.id # 0 /\ a.provider \in Provider
      /\ UNCHANGED <<cacheSpec, providerOf, caches, url, madeCaches, cacheEdits, cacheApplies, cacheFaults, cacheCrashes, cacheDrifts>>
  BY <1>1, CacheHeldType DEF Cache!WriteDeleted, Cache!Finish, Cache!Current, Cache!counters, CacheHeldFits
<1>3. \A b \in cacheTodo : b.op # "create"
  BY <1>1, <1>2 DEF CreatesFit
<1>4. CreatesFit' /\ CacheHeldFits' /\ CacheEachWasCreated'
  <2>1. retained' = retained \/ retained' = None
    BY <1>2 DEF Cache!WriteDeleted, Cache!Current
  <2> QED BY <1>1, <1>2, <1>3, <2>1 DEF CreatesFit, CacheHeldFits, CacheEachWasCreated
<1>5. Cache!Bound => /\ Cache!Restored \in Cache!Component \cup {None}
                     /\ component.previous # None => Cache!Restored \in Cache!Component
  BY <1>1, ComponentType DEF Cache!Restored, Cache!Component
<1>6. CASE a.op = "destroyPrevious"
  <2>1. Cache!Previous(a.id) /\ component' = [component EXCEPT !.previous = None]
        /\ UNCHANGED <<lateCaches, stray, lostCaches, retained>>
    BY <1>1, <1>2, <1>6 DEF Cache!WriteDeleted, Cache!Current, Cache!Awaited, CacheHeldFits, CacheHolds
  <2>2. Cache!Bound /\ component \in Cache!Component
    BY <1>1, <2>1 DEF Cache!Previous, Cache!TypeOK, Cache!Bound
  <2>3. /\ component' \in Cache!Component /\ component'.previous = None /\ component'.id = component.id
        /\ component'.provider = component.provider /\ component'.incomplete = component.incomplete
    BY <2>1, <2>2 DEF Cache!Component
  <2>4. Cache!Bound'
    BY <2>3, CacheValues DEF Cache!Bound
  <2>5. Cache!TypeOK'
    BY <1>1, <1>2, <2>1, <2>3 DEF Cache!TypeOK
  <2>6. ComponentFits'
    BY <1>1, <1>2, <2>2, <2>3, <2>4 DEF ComponentFits
  <2>7. CacheDestroysFit'
    <3>1. \A s \in Service : Cache!Do("unwire", s, Host, 0) # a
      BY <1>6 DEF Cache!Do
    <3> QED BY <1>1, <1>2, <2>2, <2>3, <3>1 DEF CacheDestroysFit, Cache!Do
  <2>8. CacheLateFits'
    BY <1>1, <1>2, <2>1, <2>2, <2>3, <2>4 DEF CacheLateFits, CacheHolds, Cache!Unresolved, CacheKept
  <2>9. Cache!NothingForgotten' /\ Cache!OneCachePerProvider'
    <3>1. \A i \in CacheKept : ~Cache!Previous(i)
      BY <1>2, <2>1 DEF CacheKept, Cache!Previous
    <3> QED BY <1>1, <1>2, <2>1, <2>2, <2>3, <2>4, <3>1
            DEF Cache!NothingForgotten, Cache!OneCachePerProvider, Cache!Active, Cache!Unresolved, CacheKept, Cache!Current
  <2> QED BY <1>4, <2>5, <2>6, <2>7, <2>8, <2>9 DEF CacheInv
<1>7. CASE a.op = "destroy"
  <2>1. /\ Cache!Active(a.id) /\ (component.incomplete \/ component.previous = None)
        /\ component' = (IF component.incomplete THEN Cache!Restored ELSE None)
        /\ UNCHANGED <<lateCaches, stray, lostCaches, retained>>
    BY <1>1, <1>2, <1>7 DEF Cache!WriteDeleted, Cache!Current, Cache!Awaited, CacheHeldFits, CacheHolds
  <2>2. Cache!Bound /\ component.id = a.id
    BY <2>1 DEF Cache!Active
  <2>3. component' \in Cache!Component \cup {None}
    BY <1>5, <2>1, <2>2
  <2>4. Cache!TypeOK'
    BY <1>1, <1>2, <2>1, <2>3 DEF Cache!TypeOK
  <2>5. Cache!Bound' => /\ component.previous # None /\ component'.id = component.previous.id /\ component'.id \in Cache!Id
                        /\ component'.provider = component.previous.provider
                        /\ ~component'.incomplete /\ component'.previous = None
    BY <1>1, <2>1, <2>2, ComponentType DEF Cache!Restored, Cache!Bound
  <2>6. ComponentFits'
    BY <1>1, <1>2, <2>2, <2>5, CacheValues DEF ComponentFits
  <2>7. CacheDestroysFit'
    <3>1. \A b \in cacheTodo' : b.op # "destroy"
      BY <1>1, <1>2, <1>7 DEF CacheDestroysFit
    <3> QED BY <3>1 DEF CacheDestroysFit
  <2>8. CacheLateFits'
    BY <1>1, <1>2, <2>1, <2>2 DEF CacheLateFits, CacheHolds, Cache!Unresolved
  <2>9. Cache!NothingForgotten' /\ Cache!OneCachePerProvider'
    <3> SUFFICES ASSUME NEW i \in CacheKept
                 PROVE  Cache!Active(i)' \/ (retained # None /\ retained.id = i)
      BY <1>1, <1>2, <2>1 DEF Cache!NothingForgotten, Cache!OneCachePerProvider, CacheKept
    <3>1. Cache!Previous(i) => Cache!Active(i)'
      <4> SUFFICES ASSUME Cache!Previous(i) PROVE Cache!Active(i)'
        OBVIOUS
      <4>1. component.incomplete /\ component' = Cache!Restored /\ Cache!Restored.id = i
        BY <2>1 DEF Cache!Previous, Cache!Restored
      <4>2. Cache!Restored # None
        BY <1>5, <2>2, CacheValues DEF Cache!Previous
      <4> QED BY <4>1, <4>2 DEF Cache!Active, Cache!Bound
    <3>2. i # component.id
      BY <1>2, <2>2 DEF CacheKept
    <3> QED BY <1>1, <1>2, <2>2, <3>1, <3>2 DEF Cache!NothingForgotten, CacheKept, Cache!Active, Cache!Unresolved, Cache!Current
  <2> QED BY <1>4, <2>4, <2>6, <2>7, <2>8, <2>9 DEF CacheInv
<1>8. CASE a.op = "destroyRetained"
  <2>1. retained # None /\ retained.id = a.id /\ retained' = None
    BY <1>1, <1>2, <1>8 DEF Cache!WriteDeleted, Cache!Current, CacheHeldFits, CacheHolds
  <2>2. CASE ~Cache!Unresolved(a.provider)
    <3>1. UNCHANGED <<lateCaches, stray, lostCaches, component>>
      BY <1>8, <2>2 DEF Cache!WriteDeleted, Cache!Current, Cache!Awaited
    <3>2. Cache!TypeOK' /\ ComponentFits' /\ Cache!OneCachePerProvider'
      BY <1>1, <1>2, <2>1, <3>1 DEF Cache!TypeOK, ComponentFits, Cache!OneCachePerProvider, Cache!Bound
    <3>3. CacheDestroysFit'
      <4>1. \A b \in cacheTodo' : b.op # "destroy"
        BY <1>1, <1>2, <1>8 DEF CacheDestroysFit
      <4> QED BY <4>1 DEF CacheDestroysFit
    <3>4. CacheLateFits'
      BY <1>1, <1>2, <3>1 DEF CacheLateFits, CacheHolds, Cache!Unresolved, CacheKept, Cache!Bound
    <3>5. Cache!NothingForgotten'
      BY <1>1, <1>2, <2>1, <3>1 DEF Cache!NothingForgotten, Cache!Active, Cache!Previous, Cache!Unresolved, CacheKept, Cache!Current, Cache!Bound
    <3> QED BY <1>4, <3>2, <3>3, <3>4, <3>5 DEF CacheInv
  <2>3. CASE Cache!Unresolved(a.provider)
    <3>1. /\ component' = Cache!Restored /\ lostCaches' = lostCaches \cup (madeCaches \cap Cache!At(a.provider))
          /\ lateCaches' = lateCaches \ {a.provider}
          /\ stray' = IF a.provider \in lateCaches THEN stray \cup {a.provider} ELSE stray
      BY <1>8, <2>3 DEF Cache!WriteDeleted, Cache!Current, Cache!Forget
    <3>2. Cache!Bound /\ component.id = 0 /\ component.provider = a.provider
      BY <2>3 DEF Cache!Unresolved
    <3>3. Cache!TypeOK'
      BY <1>1, <1>2, <1>5, <2>1, <3>1, <3>2 DEF Cache!TypeOK, Cache!At
    <3>4. Cache!Bound' => /\ component.previous # None /\ component'.id = component.previous.id /\ component'.id \in Cache!Id
                          /\ component'.provider = component.previous.provider
                          /\ ~component'.incomplete /\ component'.previous = None
      BY <1>1, <3>1, <3>2, ComponentType DEF Cache!Restored, Cache!Bound
    <3>5. ComponentFits'
      BY <1>1, <1>2, <3>2, <3>4, CacheValues DEF ComponentFits
    <3>6. CacheDestroysFit'
      <4>1. \A b \in cacheTodo' : b.op # "destroy"
        BY <1>1, <1>2, <1>8 DEF CacheDestroysFit
      <4> QED BY <4>1 DEF CacheDestroysFit
    <3>7. CacheLateFits'
      BY <1>1, <1>2, <3>1, <3>2 DEF CacheLateFits, CacheHolds, Cache!Unresolved
    <3>8. Cache!OneCachePerProvider'
      BY <1>1, <1>2, <3>1 DEF Cache!OneCachePerProvider
    <3>9. Cache!NothingForgotten'
      <4> SUFFICES ASSUME NEW i \in CacheKept, providerOf[i] # a.provider
                   PROVE  Cache!Active(i)'
        BY <1>2, <3>1 DEF Cache!NothingForgotten, CacheKept, Cache!At
      <4>1. Cache!Previous(i) => Cache!Active(i)'
        <5> SUFFICES ASSUME Cache!Previous(i) PROVE Cache!Active(i)'
          OBVIOUS
        <5>1. component' = Cache!Restored /\ Cache!Restored.id = i
          BY <3>1 DEF Cache!Previous, Cache!Restored
        <5>2. Cache!Restored # None
          BY <1>5, <3>2, CacheValues DEF Cache!Previous
        <5> QED BY <5>1, <5>2 DEF Cache!Active, Cache!Bound
      <4>2. i \in Cache!Id /\ i # 0 /\ i # a.id
        BY <1>1, <1>2, CacheValues DEF CacheKept, Cache!TypeOK
      <4> QED BY <1>1, <1>2, <2>1, <3>2, <4>1, <4>2 DEF Cache!NothingForgotten, CacheKept, Cache!Active, Cache!Unresolved, Cache!Current
    <3> QED BY <1>4, <3>3, <3>5, <3>6, <3>7, <3>8, <3>9 DEF CacheInv
  <2> QED BY <2>2, <2>3
<1> QED BY <1>2, <1>6, <1>7, <1>8

LEMMA CacheCrashKeeps ==
  ASSUME CacheInv, Cache!Assumption, Cache!Crash
  PROVE  CacheInv'
PROOF
<1>1. /\ Cache!TypeOK /\ CacheEachWasCreated /\ ComponentFits /\ CacheHeldFits /\ CacheLateFits
      /\ Cache!NothingForgotten /\ Cache!OneCachePerProvider
  BY DEF CacheInv
<1>2. /\ cacheTodo' = {} /\ cacheHeld' = None /\ cacheCrashes' = cacheCrashes + 1 /\ cacheCrashes < MaxCacheCrashes
      /\ UNCHANGED <<cacheSpec, providerOf, caches, url, component, retained, madeCaches, cacheEdits, cacheApplies, cacheFaults, cacheDrifts>>
  BY DEF Cache!Crash, Cache!Finish, Cache!row
<1>3. CreatesFit' /\ CacheDestroysFit' /\ CacheHeldFits' /\ CacheEachWasCreated' /\ ComponentFits'
  BY <1>1, <1>2 DEF CreatesFit, CacheDestroysFit, CacheHeldFits, CacheEachWasCreated, ComponentFits, Cache!Bound
<1>4. cacheCrashes' \in 0..MaxCacheCrashes
  BY <1>1, <1>2 DEF Cache!TypeOK, Cache!Assumption
<1>5. CASE ~CacheHolds("create")
  <2>1. UNCHANGED <<lateCaches, stray, lostCaches>>
    BY <1>5 DEF Cache!Crash, Cache!Current, CacheHolds, Cache!Awaited
  <2>2. Cache!TypeOK'
    BY <1>1, <1>2, <1>4, <2>1 DEF Cache!TypeOK
  <2>3. CacheLateFits'
    BY <1>1, <1>2, <1>5, <2>1 DEF CacheLateFits, Cache!Unresolved, Cache!Bound, CacheKept
  <2>4. Cache!NothingForgotten' /\ Cache!OneCachePerProvider'
    BY <1>1, <1>2, <1>5, <2>1
       DEF Cache!NothingForgotten, Cache!OneCachePerProvider, Cache!Active, Cache!Previous, Cache!Unresolved, Cache!Bound, Cache!Current, CacheHolds
  <2> QED BY <1>3, <2>2, <2>3, <2>4 DEF CacheInv
<1>6. CASE CacheHolds("create")
  <2> DEFINE p == cacheHeld.action.provider
  <2>1. /\ lostCaches' = lostCaches \cup (madeCaches \cap Cache!At(p)) /\ lateCaches' = lateCaches \ {p}
        /\ stray' = IF p \in lateCaches THEN stray \cup {p} ELSE stray
        /\ p \in Provider /\ cacheHeld # None
    BY <1>1, <1>6, CacheHeldType DEF Cache!Crash, Cache!Current, CacheHolds, Cache!Forget
  <2>2. Cache!TypeOK'
    BY <1>1, <1>2, <1>4, <2>1 DEF Cache!TypeOK, Cache!At
  <2>3. CacheLateFits'
    BY <1>1, <1>2, <2>1 DEF CacheLateFits, CacheHolds, Cache!Unresolved, Cache!Bound, CacheKept
  <2>4. Cache!NothingForgotten' /\ Cache!OneCachePerProvider'
    BY <1>1, <1>2, <2>1
       DEF Cache!NothingForgotten, Cache!OneCachePerProvider, Cache!Active, Cache!Previous, Cache!Unresolved, Cache!Bound, Cache!Current, Cache!At
  <2> QED BY <1>3, <2>2, <2>3, <2>4 DEF CacheInv
<1> QED BY <1>5, <1>6

LEMMA CacheEditKeeps ==
  ASSUME CacheInv, Cache!Assumption, Cache!Edit
  PROVE  CacheInv'
PROOF
<1>1. UNCHANGED <<Cache!cloud, Cache!row, cacheTodo, cacheHeld, Cache!ghosts>>
  BY DEF Cache!Edit
<1>2. Cache!TypeOK'
  <2>1. Cache!TypeOK /\ cacheEdits' \in 0..MaxCacheEdits
    BY DEF CacheInv, Cache!TypeOK, Cache!Edit, Cache!Assumption
  <2> QED BY <1>1, <2>1 DEF Cache!TypeOK, Cache!Edit, Cache!cloud, Cache!row, Cache!ghosts
<1>3. CacheEachWasCreated' /\ ComponentFits' /\ CreatesFit' /\ CacheDestroysFit'
  <2>1. UNCHANGED <<providerOf, caches, url, component, retained, madeCaches, cacheTodo>>
    BY <1>1 DEF Cache!cloud, Cache!row, Cache!ghosts
  <2> QED BY <2>1 DEF CacheInv, CacheEachWasCreated, ComponentFits, CreatesFit, CacheDestroysFit, Cache!Bound
<1>4. CacheHeldFits' /\ CacheLateFits'
  BY <1>1 DEF CacheInv, CacheHeldFits, CacheLateFits, Cache!cloud, Cache!row, Cache!ghosts, Cache!Bound, CacheHolds, Cache!Unresolved, CacheKept, Cache!Previous, Cache!Active
<1>5. Cache!NothingForgotten' /\ Cache!OneCachePerProvider'
  BY <1>1 DEF CacheInv, Cache!NothingForgotten, Cache!OneCachePerProvider, Cache!cloud, Cache!row, Cache!ghosts, Cache!Bound, Cache!Current, Cache!Unresolved,
     Cache!Previous, Cache!Active
<1> QED BY <1>2, <1>3, <1>4, <1>5 DEF CacheInv

(* A cache that appears, whoever created it.                               *)
LEMMA CacheAppearsFits ==
  ASSUME CacheInv, Cache!Assumption, NEW i \in Cache!Free, NEW p \in Provider, providerOf' = [providerOf EXCEPT ![i] = p],
         caches' = caches \cup {i}, madeCaches' = madeCaches \/ madeCaches' = madeCaches \cup {i},
         UNCHANGED <<url, component, retained, cacheTodo, cacheHeld>>
  PROVE  CacheEachWasCreated' /\ ComponentFits' /\ CreatesFit' /\ CacheDestroysFit'
PROOF
<1>1. Cache!TypeOK /\ CacheEachWasCreated /\ ComponentFits /\ CreatesFit /\ CacheDestroysFit
  BY DEF CacheInv
<1>2. /\ i \in Cache!Id /\ \A s \in Service : url[s] # i
      /\ Cache!Bound => component.id # i /\ (component.previous # None => component.previous.id # i)
      /\ retained # None => retained.id # i
  BY CacheFreeIsNew
<1>3. providerOf'[i] = p /\ \A k \in Cache!Id \ {i} : providerOf'[k] = providerOf[k]
  BY <1>1, <1>2 DEF Cache!TypeOK
<1>4. CacheEachWasCreated'
  BY <1>1, <1>2, <1>3, CacheValues DEF CacheEachWasCreated, Cache!TypeOK, Cache!Identity
<1>5. ComponentFits'
  BY <1>1, <1>2, <1>3, ComponentType DEF ComponentFits, Cache!Bound
<1>6. CreatesFit' /\ CacheDestroysFit'
  BY <1>1 DEF CreatesFit, CacheDestroysFit, Cache!Bound
<1> QED BY <1>4, <1>5, <1>6

LEMMA CacheLandKeeps ==
  ASSUME CacheInv, Cache!Assumption, Cache!Land
  PROVE  CacheInv'
PROOF
<1>1. /\ Cache!TypeOK /\ CacheEachWasCreated /\ ComponentFits /\ CreatesFit /\ CacheHeldFits /\ CacheLateFits
      /\ Cache!NothingForgotten /\ Cache!OneCachePerProvider
  BY DEF CacheInv
<1>2. PICK p \in Provider, i \in Cache!Free :
        /\ Cache!Appear(i, p)
        /\ \/ p \in lateCaches /\ lateCaches' = lateCaches \ {p} /\ UNCHANGED <<stray, lostCaches>>
           \/ p \in stray /\ stray' = stray \ {p} /\ lostCaches' = lostCaches \cup {i} /\ UNCHANGED lateCaches
  BY DEF Cache!Land
<1>3. /\ providerOf' = [providerOf EXCEPT ![i] = p] /\ caches' = caches \cup {i} /\ madeCaches' = madeCaches \cup {i}
      /\ UNCHANGED <<cacheSpec, url, component, retained, cacheTodo, cacheHeld, cacheEdits, cacheApplies, cacheFaults, cacheCrashes, cacheDrifts>>
  BY <1>2 DEF Cache!Appear, Cache!Land, Cache!row, Cache!counters
<1>4. /\ i \in Cache!Id /\ i \notin caches /\ i \notin madeCaches /\ i # 0
      /\ cacheHeld # None /\ cacheHeld.action.op # "create" => cacheHeld.action.id # i
      /\ cacheHeld # None /\ cacheHeld.id # 0 /\ cacheHeld.action.op = "create" => cacheHeld.id # i
  BY CacheFreeIsNew, CacheValues
<1>5. providerOf'[i] = p /\ \A k \in Cache!Id \ {i} : providerOf'[k] = providerOf[k]
  BY <1>1, <1>3, <1>4 DEF Cache!TypeOK
<1>6. Cache!TypeOK'
  <2>1. lateCaches' \subseteq Provider /\ stray' \subseteq Provider /\ lostCaches' \subseteq Cache!Id
    BY <1>1, <1>2, <1>4 DEF Cache!TypeOK
  <2> QED BY <1>1, <1>3, <1>4, <2>1 DEF Cache!TypeOK
<1>7. CacheEachWasCreated' /\ ComponentFits' /\ CreatesFit' /\ CacheDestroysFit'
  BY <1>3, CacheAppearsFits
<1>8. \A k \in CacheKept : k \in Cache!Id \ {i} /\ k \in CacheKept' /\ providerOf'[k] = providerOf[k]
  BY <1>1, <1>2, <1>3, <1>4, <1>5 DEF CacheKept, Cache!TypeOK
<1>9. \A k \in CacheKept' : k \in CacheKept \/ (k = i /\ p \in lateCaches /\ lateCaches' = lateCaches \ {p})
  BY <1>2, <1>3 DEF CacheKept
<1>10. p \in lateCaches => /\ \A j \in CacheKept : providerOf[j] # p
                           /\ Cache!Unresolved(p) \/ (CacheHolds("create") /\ cacheHeld.state = "unresolved" /\ cacheHeld.action.provider = p)
  BY <1>1 DEF CacheLateFits
<1>11. CacheHolds("create") /\ Cache!Bound => component.id # 0
  BY <1>1 DEF CacheHolds, CacheHeldFits, CreatesFit, ComponentFits
<1>12. CacheHeldFits'
  <2>1. cacheHeld # None => cacheHeld.id \in Cache!Id \cup {0}
    BY <1>1, CacheHeldType
  <2>2. CacheHolds("create") /\ cacheHeld.state # "unresolved" => \A j \in CacheKept' : j \in CacheKept /\ providerOf'[j] = providerOf[j]
    BY <1>8, <1>9, <1>10, <1>11 DEF Cache!Unresolved
  <2>3. CacheHolds("create") /\ cacheHeld.state # "unresolved" => providerOf'[cacheHeld.id] = providerOf[cacheHeld.id]
    BY <1>1, <1>4, <1>5, <2>1 DEF CacheHeldFits, CacheHolds
  <2>4. /\ \A op : CacheHolds(op)' <=> CacheHolds(op)
        /\ \A x : (Cache!Previous(x)' <=> Cache!Previous(x)) /\ (Cache!Active(x)' <=> Cache!Active(x))
    BY <1>3 DEF CacheHolds, Cache!Previous, Cache!Active, Cache!Bound
  <2> QED BY <1>1, <1>3, <1>4, <2>2, <2>3, <2>4 DEF CacheHeldFits
<1>13. CacheLateFits'
  <2> SUFFICES ASSUME NEW q \in lateCaches'
               PROVE  /\ Cache!Unresolved(q) \/ (CacheHolds("create") /\ cacheHeld.state = "unresolved" /\ cacheHeld.action.provider = q)
                      /\ \A j \in CacheKept' : providerOf'[j] # q
    BY <1>3 DEF CacheLateFits, Cache!Unresolved, Cache!Bound, CacheHolds
  <2>1. q \in lateCaches
    BY <1>2
  <2> QED BY <1>1, <1>5, <1>8, <1>9, <2>1 DEF CacheLateFits
<1>14. Cache!NothingForgotten'
  <2> SUFFICES ASSUME NEW k \in CacheKept'
               PROVE  \/ Cache!Active(k) \/ Cache!Previous(k) \/ Cache!Unresolved(providerOf'[k])
                      \/ retained # None /\ retained.id = k
                      \/ cacheHeld # None /\ cacheHeld.action.op = "create" /\ cacheHeld.action.provider = providerOf'[k]
    BY <1>3 DEF Cache!NothingForgotten, CacheKept, Cache!Active, Cache!Previous, Cache!Unresolved, Cache!Bound, Cache!Current
  <2>1. CASE k \in CacheKept
    BY <2>1, <1>1, <1>8 DEF Cache!NothingForgotten, CacheKept, Cache!Current
  <2>2. CASE k = i /\ p \in lateCaches
    BY <2>2, <1>5, <1>10 DEF CacheHolds
  <2> QED BY <1>9, <2>1, <2>2
<1>15. Cache!OneCachePerProvider'
  <2>1. \A k, l \in CacheKept' : providerOf'[k] = providerOf'[l] => k = l
    BY <1>1, <1>5, <1>8, <1>9, <1>10 DEF Cache!OneCachePerProvider, CacheKept
  <2> QED BY <2>1 DEF Cache!OneCachePerProvider, CacheKept
<1> QED BY <1>6, <1>7, <1>12, <1>13, <1>14, <1>15 DEF CacheInv

LEMMA CacheDriftKeeps ==
  ASSUME CacheInv, Cache!Assumption, Cache!Drift
  PROVE  CacheInv'
PROOF
<1>1. /\ Cache!TypeOK /\ CacheEachWasCreated /\ ComponentFits /\ CreatesFit /\ CacheDestroysFit /\ CacheHeldFits /\ CacheLateFits
      /\ Cache!NothingForgotten /\ Cache!OneCachePerProvider
  BY DEF CacheInv
<1>2. /\ cacheDrifts' = cacheDrifts + 1 /\ cacheDrifts < MaxCacheDrifts
      /\ UNCHANGED <<cacheSpec, lateCaches, url, component, retained, cacheTodo, cacheHeld, madeCaches, stray, lostCaches, cacheEdits, cacheApplies, cacheFaults, cacheCrashes>>
  BY DEF Cache!Drift, Cache!row, Cache!ghosts
<1>3. cacheDrifts' \in 0..MaxCacheDrifts
  BY <1>1, <1>2 DEF Cache!TypeOK, Cache!Assumption
<1>4. /\ \A op : CacheHolds(op)' <=> CacheHolds(op)
      /\ \A x : /\ Cache!Previous(x)' <=> Cache!Previous(x)
                /\ Cache!Active(x)' <=> Cache!Active(x)
                /\ Cache!Unresolved(x)' <=> Cache!Unresolved(x)
  BY <1>2 DEF CacheHolds, Cache!Previous, Cache!Active, Cache!Unresolved, Cache!Bound
<1>5. ASSUME NEW i \in Cache!Free, NEW p \in Provider, providerOf' = [providerOf EXCEPT ![i] = p],
             caches' = caches \cup {i}
      PROVE  CacheInv'
  <2>1. /\ i \in Cache!Id /\ i \notin caches /\ i \notin madeCaches
        /\ cacheHeld # None /\ cacheHeld.action.op # "create" => cacheHeld.action.id # i
        /\ cacheHeld # None /\ cacheHeld.id # 0 /\ cacheHeld.action.op = "create" => cacheHeld.id # i
    BY CacheFreeIsNew
  <2>2. \A k \in Cache!Id \ {i} : providerOf'[k] = providerOf[k]
    BY <1>1, <1>5, <2>1 DEF Cache!TypeOK
  <2>3. Cache!TypeOK'
    BY <1>1, <1>2, <1>3, <1>5, <2>1 DEF Cache!TypeOK
  <2>4. CacheEachWasCreated' /\ ComponentFits' /\ CreatesFit' /\ CacheDestroysFit'
    BY <1>2, <1>5, CacheAppearsFits
  <2>5. CacheKept' = CacheKept /\ \A k \in CacheKept : providerOf'[k] = providerOf[k]
    BY <1>1, <1>2, <1>5, <2>1, <2>2 DEF CacheKept, Cache!TypeOK
  <2>6. CacheHeldFits'
    <3>1. cacheHeld # None => cacheHeld.id \in Cache!Id \cup {0}
      BY <1>1, CacheHeldType
    <3>2. CacheHolds("create") /\ cacheHeld.state # "unresolved" => providerOf'[cacheHeld.id] = providerOf[cacheHeld.id]
      BY <1>1, <2>1, <2>2, <3>1 DEF CacheHeldFits, CacheHolds
    <3> QED BY <1>1, <1>2, <1>4, <1>5, <2>1, <2>5, <3>2 DEF CacheHeldFits
  <2>7. CacheLateFits'
    BY <1>1, <1>2, <1>4, <2>5 DEF CacheLateFits
  <2>8. Cache!NothingForgotten' /\ Cache!OneCachePerProvider'
    <3>1. \A k \in CacheKept : \/ Cache!Active(k)' \/ Cache!Previous(k)' \/ Cache!Unresolved(providerOf'[k])
                               \/ retained # None /\ retained.id = k
                               \/ cacheHeld # None /\ cacheHeld.action.op = "create" /\ cacheHeld.action.provider = providerOf'[k]
      BY <1>1, <1>4, <2>5 DEF Cache!NothingForgotten, CacheKept, Cache!Current
    <3>2. \A k, l \in CacheKept : providerOf'[k] = providerOf'[l] => k = l
      BY <1>1, <2>5 DEF Cache!OneCachePerProvider, CacheKept
    <3> QED BY <1>2, <2>5, <3>1, <3>2 DEF Cache!NothingForgotten, Cache!OneCachePerProvider, CacheKept, Cache!Current, Cache!Unresolved, Cache!Bound
  <2> QED BY <2>3, <2>4, <2>6, <2>7, <2>8 DEF CacheInv
<1>6. CASE caches' \subseteq caches /\ UNCHANGED providerOf
  <2>1. Cache!TypeOK'
    BY <1>1, <1>2, <1>3, <1>6 DEF Cache!TypeOK
  <2>2. CacheEachWasCreated' /\ ComponentFits' /\ CreatesFit' /\ CacheDestroysFit' /\ Cache!OneCachePerProvider'
    BY <1>1, <1>2, <1>6 DEF CacheEachWasCreated, ComponentFits, CreatesFit, CacheDestroysFit, Cache!OneCachePerProvider, Cache!Bound
  <2>3. CacheKept' \subseteq CacheKept
    BY <1>2, <1>6 DEF CacheKept
  <2>4. CacheHeldFits' /\ CacheLateFits'
    BY <1>1, <1>2, <1>4, <1>6, <2>3 DEF CacheHeldFits, CacheLateFits
  <2>5. Cache!NothingForgotten'
    BY <1>1, <1>2, <1>6 DEF Cache!NothingForgotten, Cache!Active, Cache!Previous, Cache!Unresolved, Cache!Bound, Cache!Current
  <2> QED BY <2>1, <2>2, <2>4, <2>5 DEF CacheInv
<1> QED BY <1>5, <1>6 DEF Cache!Drift

LEMMA CacheRetainKeeps ==
  ASSUME CacheInv, Cache!Assumption, Cache!Retain
  PROVE  CacheInv'
PROOF
<1>1. /\ Cache!TypeOK /\ CacheEachWasCreated /\ ComponentFits /\ CreatesFit /\ CacheDestroysFit /\ CacheHeldFits /\ CacheLateFits
      /\ Cache!NothingForgotten /\ Cache!OneCachePerProvider
  BY DEF CacheInv
<1>2. /\ retained = None
      /\ UNCHANGED <<cacheSpec, providerOf, caches, lateCaches, url, component, cacheTodo, cacheHeld, madeCaches, stray, lostCaches,
                     cacheEdits, cacheApplies, cacheFaults, cacheCrashes, cacheDrifts>>
  BY DEF Cache!Retain, Cache!cloud, Cache!ghosts, Cache!counters
<1>3. PICK i \in caches : retained' = [provider |-> providerOf[i], id |-> i]
  BY DEF Cache!Retain
<1>4. i \in Cache!Id /\ providerOf[i] \in Provider
  BY <1>1 DEF CacheEachWasCreated, Cache!TypeOK
<1>5. Cache!TypeOK'
  BY <1>1, <1>2, <1>3, <1>4 DEF Cache!TypeOK, Cache!Identity
<1>6. CacheEachWasCreated'
  BY <1>1, <1>2, <1>3, <1>4, CacheValues DEF CacheEachWasCreated
<1>7. ComponentFits' /\ CreatesFit' /\ CacheDestroysFit'
  BY <1>1, <1>2 DEF ComponentFits, CreatesFit, CacheDestroysFit, Cache!Bound
<1>8. CacheHeldFits' /\ CacheLateFits'
  BY <1>1, <1>2 DEF CacheHeldFits, CacheLateFits, CacheHolds, Cache!Unresolved, Cache!Active, Cache!Previous, CacheKept, Cache!Bound
<1>9. Cache!NothingForgotten' /\ Cache!OneCachePerProvider'
  BY <1>1, <1>2 DEF Cache!NothingForgotten, Cache!OneCachePerProvider, Cache!Unresolved, Cache!Active, Cache!Previous, Cache!Current, Cache!Bound
<1> QED BY <1>5, <1>6, <1>7, <1>8, <1>9 DEF CacheInv

(***************************************************************************)
(* Theorems                                                                *)
(***************************************************************************)
LEMMA CacheInit ==
  ASSUME Cache!Assumption, Cache!Init
  PROVE  CacheInv
PROOF
<1>1. Cache!TypeOK
  BY DEF Cache!Init, Cache!TypeOK, Cache!Assumption
<1>2. CacheKept = {} /\ ~Cache!Bound
  BY DEF Cache!Init, CacheKept, Cache!Bound
<1> QED BY <1>1, <1>2 DEF CacheInv, Cache!Init, CacheEachWasCreated, ComponentFits, CreatesFit, CacheDestroysFit, CacheHeldFits, CacheLateFits,
           Cache!NothingForgotten, Cache!OneCachePerProvider

LEMMA CacheStep ==
  ASSUME CacheInv, Cache!Assumption, Cache!Next
  PROVE  CacheInv'
BY CacheStartKeeps, CacheProvisionKeeps, CacheDeleteKeeps, CacheRewireKeeps, CacheWriteCreatedKeeps, CacheWriteDeletedKeeps, CacheCrashKeeps,
   CacheEditKeeps, CacheLandKeeps, CacheDriftKeeps, CacheRetainKeeps DEF Cache!Next, Cache!Apply

LEMMA CacheStutter ==
  ASSUME CacheInv, UNCHANGED Cache!vars
  PROVE  CacheInv'
PROOF
<1> USE DEF Cache!vars, Cache!cloud, Cache!row, Cache!ghosts, Cache!counters
<1>1. Cache!TypeOK'
  BY DEF CacheInv, Cache!TypeOK
<1>2. CacheEachWasCreated' /\ ComponentFits' /\ CreatesFit' /\ CacheDestroysFit'
  BY DEF CacheInv, CacheEachWasCreated, ComponentFits, CreatesFit, CacheDestroysFit, Cache!Bound
<1>3. CacheHeldFits' /\ CacheLateFits'
  BY DEF CacheInv, CacheHeldFits, CacheLateFits, Cache!Bound, CacheHolds, Cache!Unresolved, CacheKept, Cache!Previous, Cache!Active
<1>4. Cache!NothingForgotten' /\ Cache!OneCachePerProvider'
  BY DEF CacheInv, Cache!NothingForgotten, Cache!OneCachePerProvider, Cache!Bound, Cache!Current, Cache!Unresolved, Cache!Previous, Cache!Active
<1> QED BY <1>1, <1>2, <1>3, <1>4 DEF CacheInv

LEMMA CacheUnwired ==
  ASSUME CacheInv, Cache!Assumption, Cache!Next, NEW i \in caches \ caches', cacheDrifts' = cacheDrifts, Cache!Active(i)
  PROVE  \A s \in Service : url[s] # i
PROOF
<1>1. Cache!TypeOK /\ ComponentFits /\ CacheDestroysFit
  BY DEF CacheInv
<1>2. ~Cache!Drift
  BY <1>1 DEF Cache!Drift, Cache!TypeOK
<1>3. PICK a \in cacheTodo : Cache!Delete(a)
  BY <1>2 DEF Cache!Next, Cache!Apply, Cache!StartApply, Cache!WriteCreated, Cache!WriteDeleted, Cache!Crash, Cache!Provision, Cache!Appear, Cache!Deploy, Cache!Unwire, Cache!Rewire,
     Cache!Edit, Cache!Land, Cache!Retain, Cache!cloud, Cache!ghosts
<1>4. Cache!Intended(a) /\ i = a.id
  BY <1>3 DEF Cache!Delete
<1>5. CASE a.op = "destroy"
  <2>1. \A b \in cacheTodo : b.op # "unwire"
    BY <1>3, <1>5 DEF Cache!Delete, Cache!Turn, Cache!Stage
  <2>2. \A s \in Service : url[s] \in Cache!Id \cup {NoUrl} /\ Cache!Do("unwire", s, Host, 0) \notin cacheTodo
    BY <1>1, <2>1 DEF Cache!TypeOK, Cache!Do
  <2>3. CASE component.incomplete
    BY <2>3, <1>1, <1>4, <1>5, <2>2, CacheValues DEF ComponentFits, Cache!Active, Cache!TypeOK
  <2>4. CASE ~component.incomplete
    BY <2>4, <1>1, <1>4, <1>5, <2>2 DEF CacheDestroysFit, Cache!Active
  <2> QED BY <2>3, <2>4
<1>6. a.op # "destroyRetained"
  BY <1>4 DEF Cache!Intended
<1>7. CASE a.op = "destroyPrevious"
  <2>1. Cache!Previous(i) /\ component.id = i /\ i # 0
    BY <1>1, <1>4, <1>7, CacheValues DEF Cache!Intended, Cache!Active, Cache!TypeOK
  <2> QED BY <1>1, <2>1 DEF ComponentFits, Cache!Previous
<1> QED BY <1>4, <1>5, <1>6, <1>7 DEF Cache!Intended

------------------------------------------------------------------------------
(* Storage and the cache, too, take steps only where they are what moves.  *)
LEMMA StorageInvariance == MCSpec => []StorageInv
<1>1. Storage!Assumption
  BY PartsAssumption
<1>2. MCInit => StorageInv
  BY <1>1, StorageInit DEF MCInit
<1>3. [MCNext]_<<part, vars, storage, cache>> => [Storage!Next]_Storage!vars
  BY DEF MCNext, storage, Storage!vars, Storage!provider, Storage!row, Storage!ghosts, Storage!counters
<1>4. StorageInv /\ [Storage!Next]_Storage!vars => StorageInv'
  BY <1>1, StorageStep, StorageStutter
<1> QED BY <1>2, <1>3, <1>4, PTL DEF MCSpec

LEMMA CacheInvariance == MCSpec => []CacheInv
<1>1. Cache!Assumption
  BY PartsAssumption
<1>2. MCInit => CacheInv
  BY <1>1, CacheInit DEF MCInit
<1>3. [MCNext]_<<part, vars, storage, cache>> => [Cache!Next]_Cache!vars
  BY DEF MCNext, cache, Cache!vars, Cache!cloud, Cache!row, Cache!ghosts, Cache!counters
<1>4. CacheInv /\ [Cache!Next]_Cache!vars => CacheInv'
  BY <1>1, CacheStep, CacheStutter
<1> QED BY <1>2, <1>3, <1>4, PTL DEF MCSpec

(* Whatever fails, crashes or takes effect late, a bucket or a cache that  *)
(* Hypervibe created is bound, marked or in hand, and no second one of its *)
(* name or provider is created; and who has access to a bucket is listed   *)
(* in its binding (planStorage, planCache and their apply operations).     *)
THEOREM ResourcesTracked == MCSpec => []ResourcesAreTracked
<1>1. StorageInv => Storage!BucketsAreKnown /\ Storage!AccessIsRecorded
  BY DEF StorageInv, Storage!BucketsAreKnown
<1>2. CacheInv => Cache!CachesAreKnown
  BY DEF CacheInv, Cache!CachesAreKnown
<1> QED BY <1>1, <1>2, StorageInvariance, CacheInvariance, PTL DEF ResourcesAreTracked

(* A bucket, or the bound cache, that an apply deletes was taken from      *)
(* every service before.                                                   *)
THEOREM DeletesUnwired == MCSpec => DeletedIsUnwired
<1>1. Storage!Assumption /\ Cache!Assumption
  BY PartsAssumption
<1>2. StorageInv /\ [MCNext]_<<part, vars, storage, cache>> =>
        [\A i \in buckets \ buckets' :
           drifts' = drifts => \A s \in Injected \ unrecorded : access[s] # i]_Storage!vars
  <2>1. [MCNext]_<<part, vars, storage, cache>> => [Storage!Next]_Storage!vars
    BY DEF MCNext, storage, Storage!vars, Storage!provider, Storage!row, Storage!ghosts, Storage!counters
  <2> QED BY <1>1, <2>1, StorageUnwired
<1>3. CacheInv /\ [MCNext]_<<part, vars, storage, cache>> =>
        [\A i \in caches \ caches' :
           cacheDrifts' = cacheDrifts /\ Cache!Active(i) => \A s \in Service : url[s] # i]_Cache!vars
  <2>1. [MCNext]_<<part, vars, storage, cache>> => [Cache!Next]_Cache!vars
    BY DEF MCNext, cache, Cache!vars, Cache!cloud, Cache!row, Cache!ghosts, Cache!counters
  <2> QED BY <1>1, <2>1, CacheUnwired
<1> QED BY <1>2, <1>3, StorageInvariance, CacheInvariance, PTL
        DEF MCSpec, DeletedIsUnwired, Storage!DeletedIsUnwired, Cache!BoundIsUnwired
=============================================================================
