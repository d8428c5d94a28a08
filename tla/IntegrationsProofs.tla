------------------------- MODULE IntegrationsProofs -------------------------
(***************************************************************************)
(* Proofs about what Hypervibe keeps at Stripe and GitHub, for any prices, *)
(* services, variables, webhooks, slots and files and any numbers of edits,*)
(* failures and changes made by other people: prices are archived after    *)
(* the services let go of them, no endpoint is left behind, and nobody's   *)
(* commits are overwritten unseen.                                         *)
(***************************************************************************)
EXTENDS MCIntegrations, FiniteSetTheorems, SequenceTheorems, TLAPS

(***************************************************************************)
(* The catalog                                                             *)
(***************************************************************************)
Price == [tuple : Tuple \cup {None}, key : PriceKey \cup {None}, lookup : PriceKey \cup {None}, active : BOOLEAN]

CatalogTyped ==
  /\ var \in [PriceKey -> EnvVar] /\ spec \in Document /\ price \in Seq(Price)
  /\ key \in [PriceKey -> Nat] /\ bound \in [PriceKey -> Nat] /\ carried \in [Service -> [EnvVar -> Nat]]
  /\ plan.spec \in Document /\ plan.price \in [PriceKey -> Nat] /\ plan.remove \subseteq EnvVar

(* A service that carries what the plan resolved, and nothing retired.     *)
Carries(s) ==
  /\ \A v \in Vars(Declared(plan.spec)) : \E k \in Declared(plan.spec) : carried[s][v] = bound[k]
  /\ \A v \in plan.remove : carried[s][v] = 0

(* The inductive invariant: a service that is not to be updated any more   *)
(* carries what it should, and no price is to be bound any more.           *)
Updated(s) == <<"hosting", "update", s>> \notin todo
PlanFits ==
  /\ plan.remove \cap Vars(Declared(plan.spec)) = {}
  /\ \A k \in PriceKey : <<"archive", "removed", k>> \in todo => k \notin Declared(plan.spec)
  /\ \A s \in Targets(plan.spec) : Updated(s) =>
       /\ s \notin touched => Carries(s)
       /\ \A a \in todo : a[1] \notin {"product", "price"}
CatalogInv == CatalogTyped /\ (todo # {} => PlanFits)

-----------------------------------------------------------------------------
(* What was resolved is bound to a declared key.                           *)
LEMMA ResolvedFits ==
  ASSUME CatalogTyped, NEW s, NEW v \in EnvVar
  PROVE  /\ Resolved(s)[v] \in Nat
         /\ Resolved(s)[v] # 0 => \E k \in Declared(s) : Resolved(s)[v] = bound[k]
<1> DEFINE fit == {k \in Declared(s) \cap Bound :
                     /\ var[k] = v /\ known = "yes" /\ product = "active" /\ bound[k] \notin gone
                     /\ price[bound[k]].active /\ price[bound[k]].tuple = s.prices[k]}
           c == CHOOSE k \in fit : TRUE
<1>1. Resolved(s)[v] = IF fit = {} THEN 0 ELSE bound[c]
  BY DEF Resolved
<1>2. fit # {} => c \in fit
  OBVIOUS
<1>3. c \in fit => c \in Declared(s) /\ bound[c] \in Nat
  BY DEF Bound, CatalogTyped
<1> HIDE DEF fit, c
<1> QED BY <1>1, <1>2, <1>3

(* A planned adoption has a candidate.                                     *)
LEMMA CandidateFits ==
  ASSUME CatalogTyped, NEW k, bound[k] = 0, PriceOp(k) = "adopt"
  PROVE  (CHOOSE i \in Candidates(k) : TRUE) \in Nat
<1>1. Candidates(k) # {}
  <2>1. Cardinality(Candidates(k)) # 0
    BY DEF PriceOp
  <2> QED BY <2>1, FS_EmptySet
<1>2. Candidates(k) \subseteq DOMAIN price
  BY DEF Candidates, Live
<1> QED BY <1>1, <1>2 DEF CatalogTyped

LEMMA StartApplyFits == ASSUME CatalogInv, StartApply PROVE CatalogInv'
<1>1. /\ todo' = Planned /\ touched' = {} /\ plan'.spec = spec /\ plan'.remove = Retired(spec)
      /\ plan'.price = [k \in PriceKey |->
                          IF bound[k] # 0 THEN bound[k]
                          ELSE IF k \in Declared(spec) /\ PriceOp(k) = "adopt"
                          THEN CHOOSE i \in Candidates(k) : TRUE ELSE 0]
      /\ UNCHANGED <<var, spec, price, key, carried, bound, known, product>>
  BY DEF StartApply, stripe, binding
<1>2. plan'.price \in [PriceKey -> Nat]
  <2>1. ASSUME NEW k \in PriceKey PROVE bound[k] \in Nat
    BY DEF CatalogInv, CatalogTyped
  <2>2. ASSUME NEW k \in PriceKey, bound[k] = 0, PriceOp(k) = "adopt"
        PROVE (CHOOSE i \in Candidates(k) : TRUE) \in Nat
    BY <2>2, CandidateFits DEF CatalogInv
  <2> QED BY <1>1, <2>1, <2>2
<1>3. Retired(spec) \subseteq EnvVar
  BY DEF Retired, Vars, Bound, CatalogInv, CatalogTyped
<1>4. CatalogTyped'
  BY <1>1, <1>2, <1>3 DEF CatalogInv, CatalogTyped
<1>5. ASSUME NEW k \in PriceKey, <<"archive", "removed", k>> \in Planned PROVE k \notin Declared(spec)
  <2>1. <<"archive", "removed", k>> \in Archives
    BY <1>5 DEF Planned, Changing
  <2>2. k \in Bound \ Declared(spec)
    BY <2>1 DEF Archives
  <2> QED BY <2>2
<1>6. ASSUME NEW s \in Targets(spec), <<"hosting", "update", s>> \notin Planned
      PROVE /\ \A v \in Vars(Declared(spec)) : \E k \in Declared(spec) : carried[s][v] = bound[k]
            /\ \A v \in Retired(spec) : carried[s][v] = 0
            /\ \A a \in Planned : a[1] \notin {"product", "price"}
  <2>1. InSync(s)
    BY <1>6 DEF Planned
  <2>2. ASSUME NEW v \in Vars(Declared(spec)) PROVE \E k \in Declared(spec) : carried[s][v] = bound[k]
    <3>1. v \in EnvVar
      BY DEF Vars, Declared, CatalogInv, CatalogTyped
    <3>2. Resolved(spec)[v] # 0 /\ carried[s][v] = Resolved(spec)[v]
      BY <2>1 DEF InSync
    <3> QED BY <3>1, <3>2, ResolvedFits DEF CatalogInv
  <2>3. ASSUME NEW a \in Planned PROVE a[1] \notin {"product", "price"}
    <3>1. Changing = {}
      BY <2>1 DEF InSync
    <3>2. a \notin Archives => a[1] = "hosting"
      BY <3>1 DEF Planned
    <3>3. a \in Archives => a[1] \in {"archive", "retire"}
      BY DEF Archives
    <3> QED BY <3>2, <3>3
  <2> QED BY <2>1, <2>2, <2>3 DEF InSync
<1>7. PlanFits'
  <2>1. Declared(plan.spec)' = Declared(spec) /\ Targets(plan.spec)' = Targets(spec)
    BY <1>1 DEF Declared, Targets
  <2>2. Vars(Declared(plan.spec))' = Vars(Declared(spec))
    BY <1>1, <2>1 DEF Vars
  <2>3. Retired(spec) \cap Vars(Declared(spec)) = {}
    BY DEF Retired
  <2> QED BY <1>1, <1>5, <1>6, <2>1, <2>2, <2>3 DEF PlanFits, Updated, Carries
<1> QED BY <1>4, <1>7 DEF CatalogInv

(* Whatever ends the apply.                                                *)
LEMMA EndsFits == ASSUME CatalogTyped', todo' = {} PROVE CatalogInv'
BY DEF CatalogInv

(* An action that is done, and neither binds a declared key nor sets what  *)
(* a service carries.                                                      *)
LEMMA DoneFits ==
  ASSUME CatalogInv, CatalogTyped', todo # {}, NEW a, todo' = todo \ {a}, a[1] # "hosting",
         UNCHANGED <<var, plan, carried, touched>>,
         (a[1] \in {"product", "price"} /\ a \in todo) \/ \A k \in Declared(plan.spec) : bound'[k] = bound[k]
  PROVE  CatalogInv'
<1>1. Declared(plan.spec)' = Declared(plan.spec) /\ Targets(plan.spec)' = Targets(plan.spec)
      /\ Vars(Declared(plan.spec))' = Vars(Declared(plan.spec))
  BY DEF Declared, Targets, Vars
<1>2. ASSUME NEW s \in Targets(plan.spec), Updated(s)'
      PROVE  /\ s \notin touched => Carries(s)'
             /\ \A b \in todo' : b[1] \notin {"product", "price"}
  <2>1. Updated(s)
    BY <1>2 DEF Updated
  <2>2. s \notin touched => Carries(s)
    BY <2>1 DEF CatalogInv, PlanFits
  <2>3. \A b \in todo : b[1] \notin {"product", "price"}
    BY <2>1 DEF CatalogInv, PlanFits
  <2> QED BY <1>1, <2>2, <2>3 DEF Carries
<1> QED BY <1>1, <1>2 DEF CatalogInv, PlanFits

LEMMA SameTyped ==
  ASSUME CatalogTyped, UNCHANGED <<var, spec, price, key, bound, carried, plan>>
  PROVE  CatalogTyped'
BY DEF CatalogTyped

LEMMA EnsureProductFits ==
  ASSUME CatalogInv, NEW op, EnsureProduct(op), UNCHANGED <<var, spec, plan>>
  PROVE  CatalogInv'
<1>1. UNCHANGED <<price, key, carried, touched, bound>>
  BY DEF EnsureProduct, Broken, binding
<1>2. CatalogTyped'
  BY <1>1, SameTyped DEF CatalogInv
<1>3. CASE Done(<<"product", op>>)
  BY <1>1, <1>2, <1>3, DoneFits DEF Done, EnsureProduct, Turn
<1> QED BY <1>2, <1>3, EndsFits DEF EnsureProduct, Broken

LEMMA CreatePriceFits ==
  ASSUME CatalogInv, NEW op, NEW k \in PriceKey, CreatePrice(op, k), UNCHANGED <<var, spec, plan>>
  PROVE  CatalogInv'
<1> DEFINE p == [tuple |-> plan.spec.prices[k], key |-> k, lookup |-> k, active |-> TRUE]
<1>1. UNCHANGED <<carried, touched>> /\ <<"price", op, k>> \in todo
  BY DEF CreatePrice, Turn
<1>2. p \in Price
  BY DEF CatalogInv, CatalogTyped, Document, Price
<1>3. Append(price, p) \in Seq(Price) /\ Len(Append(price, p)) \in Nat
  BY <1>2 DEF CatalogInv, CatalogTyped
<1> HIDE DEF p
<1>4. CatalogTyped'
  <2>1. CASE price' = Append(price, p) /\ key' = [key EXCEPT ![k] = Len(price')]
    <3>1. bound' = bound \/ bound' = [bound EXCEPT ![k] = Len(price')]
      BY <2>1 DEF CreatePrice, Broken, binding
    <3> QED BY <1>1, <1>3, <2>1, <3>1 DEF CatalogInv, CatalogTyped
  <2>2. CASE UNCHANGED <<price, key>> /\ bound' = [bound EXCEPT ![k] = key[k]]
    BY <1>1, <2>2 DEF CatalogInv, CatalogTyped
  <2> QED BY <2>1, <2>2 DEF CreatePrice, p
<1>5. CASE Done(<<"price", op, k>>)
  BY <1>1, <1>4, <1>5, DoneFits DEF Done
<1> QED BY <1>4, <1>5, EndsFits DEF CreatePrice, Broken

LEMMA AdoptedFits ==
  ASSUME CatalogTyped, NEW f, f = [j \in DOMAIN price |-> f[j]], \A j \in DOMAIN price : f[j] \in Price
  PROVE  f \in Seq(Price)
<1>1. Len(price) \in Nat /\ DOMAIN price = 1..Len(price)
  BY DEF CatalogTyped
<1>2. f \in [1..Len(price) -> Price]
  BY <1>1
<1> QED BY <1>1, <1>2, SeqDef

LEMMA AdoptPriceFits ==
  ASSUME CatalogInv, NEW op, NEW k \in PriceKey, AdoptPrice(op, k), UNCHANGED <<var, spec, plan>>
  PROVE  /\ CatalogInv'
         /\ \A i \in DOMAIN price : price[i].active => price'[i].active
<1> DEFINE i == plan.price[k]
           x == IF price[i].active /\ op = "adopt" THEN price[i].key ELSE k
<1>1. UNCHANGED <<product, key, carried, touched>> /\ <<"price", op, k>> \in todo
  BY DEF AdoptPrice, Turn
<1>2. /\ price' = [price EXCEPT ![i].active = TRUE, ![i].key = IF price[i].active /\ op = "adopt" THEN @ ELSE k]
      /\ bound' = bound \/ bound' = [bound EXCEPT ![k] = i]
  BY DEF AdoptPrice, Broken, binding
<1>3. DOMAIN price' = DOMAIN price /\ price' = [j \in DOMAIN price |-> price'[j]]
  BY <1>2 DEF CatalogInv, CatalogTyped
<1>4. \A j \in DOMAIN price : price[j] \in Price
  BY DEF CatalogInv, CatalogTyped
<1>5. \A j \in DOMAIN price : j # i => price'[j] = price[j]
  BY <1>2 DEF CatalogInv, CatalogTyped
<1>6. i \in DOMAIN price => price'[i] \in Price /\ price'[i].active
  <2> SUFFICES ASSUME i \in DOMAIN price PROVE price'[i] \in Price /\ price'[i].active
    OBVIOUS
  <2>1. price[i] \in Price
    BY <1>4
  <2>2. price'[i] = [price[i] EXCEPT !.active = TRUE, !.key = x]
    BY <1>2, <2>1 DEF CatalogInv, CatalogTyped, Price
  <2>3. x \in PriceKey \cup {None}
    BY <2>1 DEF Price
  <2> HIDE DEF x, i
  <2> QED BY <2>1, <2>2, <2>3 DEF Price
<1>7. \A j \in DOMAIN price : price'[j] \in Price /\ (price[j].active => price'[j].active)
  BY <1>4, <1>5, <1>6
<1>8. price' \in Seq(Price)
  BY <1>3, <1>7, AdoptedFits DEF CatalogInv
<1>9. CatalogTyped'
  <2>1. i \in Nat
    BY DEF CatalogInv, CatalogTyped
  <2> HIDE DEF i
  <2>2. bound' \in [PriceKey -> Nat]
    BY <1>2, <2>1 DEF CatalogInv, CatalogTyped
  <2> QED BY <1>1, <1>8, <2>2 DEF CatalogInv, CatalogTyped
<1>10. Done(<<"price", op, k>>) => CatalogInv'
  BY <1>1, <1>9, DoneFits DEF Done
<1>11. CatalogInv'
  BY <1>9, <1>10, EndsFits DEF AdoptPrice, Broken
<1> QED BY <1>7, <1>11

(* A refusal ends the apply.                                               *)
LEMMA RefusedFits ==
  ASSUME CatalogInv, Refused, UNCHANGED <<var, spec, plan>>
  PROVE  CatalogInv'
<1>1. CatalogTyped'
  BY SameTyped DEF CatalogInv, Refused, stripe, binding
<1> QED BY <1>1, EndsFits DEF Refused

LEMMA SyncHostingFits ==
  ASSUME CatalogInv, NEW s \in Service, SyncHosting(s), UNCHANGED <<var, spec, plan>>
  PROVE  CatalogInv'
<1> DEFINE h == <<"hosting", "update", s>>
<1>1. UNCHANGED <<price, key, product, touched, bound, known>> /\ h \in todo
  BY DEF SyncHosting, Turn, stripe, binding, Broken
<1>2. /\ Removed(s) \in [EnvVar -> Nat] /\ Synced(s) \in [EnvVar -> Nat]
      /\ Removed(s) = [v \in EnvVar |-> IF v \in plan.remove THEN 0 ELSE carried[s][v]]
      /\ Synced(s) = [v \in EnvVar |-> IF v \in Vars(Declared(plan.spec)) THEN Resolved(plan.spec)[v] ELSE Removed(s)[v]]
  <2>1. \A v \in EnvVar : carried[s][v] \in Nat /\ Resolved(plan.spec)[v] \in Nat
    BY ResolvedFits DEF CatalogInv, CatalogTyped
  <2> QED BY <2>1 DEF Removed, Synced
<1>3. CatalogTyped'
  BY <1>1, <1>2 DEF SyncHosting, CatalogInv, CatalogTyped
<1>4. CASE Done(h) /\ carried' = [carried EXCEPT ![s] = Synced(s)]
  <2>1. Declared(plan.spec)' = Declared(plan.spec) /\ Targets(plan.spec)' = Targets(plan.spec)
        /\ Vars(Declared(plan.spec))' = Vars(Declared(plan.spec))
    BY DEF Declared, Targets, Vars
  <2>2. carried'[s] = Synced(s) /\ \A t \in Service \ {s} : carried'[t] = carried[t]
    BY <1>4 DEF CatalogInv, CatalogTyped
  <2>3. \A b \in todo : b[1] \notin {"product", "price"}
    <3>1. \A b \in todo : Rank(h) <= Rank(b)
      BY DEF SyncHosting, Turn
    <3>2. Rank(h) = 3
      BY DEF Rank
    <3>3. \A b \in todo : (b[1] = "product" => Rank(b) = 1) /\ (b[1] = "price" => Rank(b) = 2)
      BY DEF Rank
    <3> QED BY <3>1, <3>2, <3>3
  <2>4. Carries(s)'
    <3>1. ASSUME NEW v \in Vars(Declared(plan.spec))
          PROVE  \E k \in Declared(plan.spec) : Synced(s)[v] = bound[k]
      <4>1. v \in EnvVar
        BY DEF Vars, Declared, CatalogInv, CatalogTyped
      <4>2. Resolved(plan.spec)[v] # 0
        BY DEF SyncHosting, Complete
      <4> QED BY <1>2, <4>1, <4>2, ResolvedFits DEF CatalogInv
    <3>2. ASSUME NEW v \in plan.remove PROVE Synced(s)[v] = 0
      <4>1. v \in EnvVar /\ v \notin Vars(Declared(plan.spec))
        BY <1>1 DEF CatalogInv, PlanFits, CatalogTyped
      <4> QED BY <1>2, <4>1
    <3> QED BY <1>1, <2>1, <2>2, <3>1, <3>2 DEF Carries
  <2>5. ASSUME NEW t \in Targets(plan.spec), Updated(t)'
        PROVE  /\ t \notin touched => Carries(t)'
               /\ \A b \in todo' : b[1] \notin {"product", "price"}
    <3>1. CASE t = s
      BY <1>4, <2>3, <2>4, <3>1 DEF Done
    <3>2. CASE t # s
      <4>1. Updated(t)
        BY <1>4, <2>5, <3>2 DEF Updated, Done
      <4>2. t \notin touched => Carries(t)
        BY <1>1, <4>1 DEF CatalogInv, PlanFits
      <4>3. t \in Service
        BY DEF Targets, CatalogInv, CatalogTyped, Document
      <4> QED BY <1>1, <1>4, <2>1, <2>2, <2>3, <3>2, <4>2, <4>3 DEF Carries, Done
    <3> QED BY <3>1, <3>2
  <2> QED BY <1>1, <1>3, <1>4, <2>1, <2>5 DEF CatalogInv, PlanFits, Done
<1> QED BY <1>3, <1>4, EndsFits DEF SyncHosting, Broken

LEMMA ArchivePriceFits ==
  ASSUME CatalogInv, NEW why \in {"replaced", "removed"}, NEW k \in PriceKey, ArchivePrice(why, k), UNCHANGED <<var, spec, plan>>
  PROVE  /\ CatalogInv'
         /\ \A i \in DOMAIN price : i # plan.price[k] => price'[i] = price[i]
<1> DEFINE i == plan.price[k]
           a == <<"archive", why, k>>
<1>1. /\ UNCHANGED <<product, key, carried, touched>> /\ a \in todo
      /\ price' = price \/ price' = [price EXCEPT ![i].active = FALSE]
      /\ bound' = bound \/ (bound' = [bound EXCEPT ![k] = 0] /\ why # "replaced" /\ Done(a))
  BY DEF ArchivePrice, Turn, Broken, binding
<1>2. DOMAIN price' = DOMAIN price /\ price' = [j \in DOMAIN price |-> price'[j]]
  BY <1>1 DEF CatalogInv, CatalogTyped
<1>3. \A j \in DOMAIN price : j # i => price'[j] = price[j]
  BY <1>1 DEF CatalogInv, CatalogTyped
<1>4. i \in DOMAIN price => price'[i] \in Price
  <2>1. i \in DOMAIN price =>
          price[i] \in Price /\ (price'[i] = price[i] \/ price'[i] = [price[i] EXCEPT !.active = FALSE])
    BY <1>1 DEF CatalogInv, CatalogTyped
  <2> QED BY <2>1 DEF Price
<1>5. \A j \in DOMAIN price : price'[j] \in Price
  BY <1>3, <1>4 DEF CatalogInv, CatalogTyped
<1>6. price' \in Seq(Price)
  BY <1>2, <1>5, AdoptedFits DEF CatalogInv
<1>7. CatalogTyped'
  BY <1>1, <1>6 DEF CatalogInv, CatalogTyped
<1>8. ASSUME Done(a) PROVE CatalogInv'
  <2>1. why = "removed" => k \notin Declared(plan.spec)
    BY <1>1 DEF CatalogInv, PlanFits
  <2>2. bound' # bound => why = "removed"
    BY <1>1 DEF ArchivePrice
  <2>3. \A l \in Declared(plan.spec) : bound'[l] = bound[l]
    BY <1>1, <2>1, <2>2 DEF CatalogInv, CatalogTyped, Declared
  <2> QED BY <1>1, <1>7, <1>8, <2>3, DoneFits DEF Done
<1> QED BY <1>3, <1>7, <1>8, EndsFits DEF ArchivePrice, Broken

LEMMA ArchiveProductFits ==
  ASSUME CatalogInv, ArchiveProduct, UNCHANGED <<var, spec, plan>>
  PROVE  CatalogInv'
<1>1. UNCHANGED <<price, key, carried, touched, bound>> /\ <<"retire", "product">> \in todo
  BY DEF ArchiveProduct, Broken, binding, Turn
<1>2. CatalogTyped'
  BY <1>1, SameTyped DEF CatalogInv
<1>3. CASE Done(<<"retire", "product">>)
  BY <1>1, <1>2, <1>3, DoneFits DEF Done
<1> QED BY <1>2, <1>3, EndsFits DEF ArchiveProduct, Broken

LEMMA HandlerFits == ASSUME CatalogInv, Handler PROVE CatalogInv'
<1>1. UNCHANGED <<var, spec, plan>> /\ Step
  BY DEF Handler
<1>2. ASSUME NEW s \in Service, SyncHosting(s) \/ HostingRefused(s) PROVE CatalogInv'
  BY <1>1, <1>2, SyncHostingFits, RefusedFits DEF HostingRefused
<1>3. ASSUME NEW k \in PriceKey, NEW op, CreatePrice(op, k) \/ KeyRefused(op, k) \/ AdoptPrice(op, k) \/ PriceRefused(op, k)
      PROVE CatalogInv'
  BY <1>1, <1>3, CreatePriceFits, AdoptPriceFits, RefusedFits DEF KeyRefused, PriceRefused
<1>4. ASSUME NEW k \in PriceKey, NEW why, ArchiveRefused(why, k) PROVE CatalogInv'
  BY <1>1, <1>4, RefusedFits DEF ArchiveRefused
<1> QED BY <1>1, <1>2, <1>3, <1>4, EnsureProductFits, ArchivePriceFits, ArchiveProductFits DEF Step

LEMMA InterruptFits == ASSUME CatalogInv, Interrupt PROVE CatalogInv'
<1>1. CatalogTyped' /\ todo' = {}
  BY SameTyped DEF CatalogInv, Interrupt, Stop, Broken, stripe, binding
<1> QED BY <1>1, EndsFits

(* The bindings, the plan and what is to be done stay; a service that a    *)
(* user sets a variable of is touched.                                     *)
LEMMA AsideFits ==
  ASSUME CatalogInv, CatalogTyped', UNCHANGED <<var, bound, todo, plan>>, touched \subseteq touched',
         \A s \in Service \ touched' : carried'[s] = carried[s]
  PROVE  CatalogInv'
<1>1. Declared(plan.spec)' = Declared(plan.spec) /\ Targets(plan.spec)' = Targets(plan.spec)
      /\ Vars(Declared(plan.spec))' = Vars(Declared(plan.spec))
  BY DEF Declared, Targets, Vars
<1>2. Targets(plan.spec) \subseteq Service
  BY DEF Targets, CatalogInv, CatalogTyped, Document
<1>3. ASSUME todo # {}, NEW s \in Targets(plan.spec), Updated(s)
      PROVE  /\ s \notin touched' => Carries(s)'
             /\ \A b \in todo : b[1] \notin {"product", "price"}
  <2>1. s \notin touched' => Carries(s) /\ carried'[s] = carried[s]
    BY <1>2, <1>3 DEF CatalogInv, PlanFits
  <2>2. s \notin touched' => Carries(s)'
    BY <1>1, <2>1 DEF Carries
  <2> QED BY <1>3, <2>2 DEF CatalogInv, PlanFits
<1> QED BY <1>1, <1>3 DEF CatalogInv, PlanFits, Updated

LEMMA EditSpecFits == ASSUME CatalogInv, EditSpec PROVE CatalogInv'
<1>1. UNCHANGED <<var, price, key, carried, bound, todo, plan>> /\ todo = {} /\ spec' \in Document
  BY DEF EditSpec, stripe, binding
<1> QED BY <1>1 DEF CatalogInv, CatalogTyped, Document

LEMMA RetargetFits == ASSUME CatalogInv, Retarget PROVE CatalogInv'
<1>1. UNCHANGED <<var, spec, price, carried, bound, todo, plan>> /\ todo = {} /\ key' \in [PriceKey -> Nat]
  BY DEF Retarget
<1> QED BY <1>1 DEF CatalogInv, CatalogTyped

LEMMA DriftFits == ASSUME CatalogInv, Drift PROVE CatalogInv'
<1>1. UNCHANGED <<var, spec, key, bound, todo, plan>>
  BY DEF Drift, binding, stripe
<1>2. CASE UNCHANGED <<price, carried, touched>>
  BY <1>1, <1>2, SameTyped, AsideFits DEF CatalogInv
<1>3. CASE \E i \in DOMAIN price : price' = [price EXCEPT ![i].active = FALSE] /\ UNCHANGED <<carried, touched>>
  <2>1. PICK i \in DOMAIN price : price' = [price EXCEPT ![i].active = FALSE] /\ UNCHANGED <<carried, touched>>
    BY <1>3
  <2>2. DOMAIN price' = DOMAIN price /\ price' = [j \in DOMAIN price |-> price'[j]]
    BY <2>1 DEF CatalogInv, CatalogTyped
  <2>3. price'[i] \in Price /\ \A j \in DOMAIN price : j # i => price'[j] = price[j]
    <3>1. price[i] \in Price /\ price'[i] = [price[i] EXCEPT !.active = FALSE]
      BY <2>1 DEF CatalogInv, CatalogTyped
    <3>2. price'[i] \in Price
      BY <3>1 DEF Price
    <3> QED BY <2>1, <3>2 DEF CatalogInv, CatalogTyped
  <2>4. \A j \in DOMAIN price : price'[j] \in Price
    BY <2>3 DEF CatalogInv, CatalogTyped
  <2>5. price' \in Seq(Price)
    BY <2>2, <2>4, AdoptedFits DEF CatalogInv
  <2>6. CatalogTyped'
    BY <1>1, <2>1, <2>5 DEF CatalogInv, CatalogTyped
  <2> QED BY <1>1, <2>1, <2>6, AsideFits
<1>4. CASE \E s \in Service, v \in EnvVar, i \in 0..Len(price) :
             /\ carried' = [carried EXCEPT ![s][v] = i] /\ touched' = touched \cup {s} /\ UNCHANGED price
  <2>1. PICK s \in Service, v \in EnvVar, i \in 0..Len(price) :
             /\ carried' = [carried EXCEPT ![s][v] = i] /\ touched' = touched \cup {s} /\ UNCHANGED price
    BY <1>4
  <2>2. Len(price) \in Nat
    BY DEF CatalogInv, CatalogTyped
  <2>3. i \in Nat
    BY <2>2
  <2>4. carried' \in [Service -> [EnvVar -> Nat]] /\ \A t \in Service \ {s} : carried'[t] = carried[t]
    BY <2>1, <2>3 DEF CatalogInv, CatalogTyped
  <2>5. CatalogTyped'
    BY <1>1, <2>1, <2>4 DEF CatalogInv, CatalogTyped
  <2> QED BY <1>1, <2>1, <2>4, <2>5, AsideFits
<1> QED BY <1>2, <1>3, <1>4 DEF Drift, stripe, Live

LEMMA ForgetFits == ASSUME CatalogInv, Forget PROVE CatalogInv'
<1>1. UNCHANGED <<var, spec, price, carried, bound, todo, plan, touched>> /\ key' \in [PriceKey -> Nat]
  BY DEF Forget, binding, CatalogInv, CatalogTyped
<1>2. CatalogTyped'
  BY <1>1 DEF CatalogInv, CatalogTyped
<1> QED BY <1>1, <1>2, AsideFits

LEMMA CatalogStutter == ASSUME CatalogInv, UNCHANGED vars PROVE CatalogInv'
<1>1. UNCHANGED <<var, spec, price, key, carried, bound, todo, plan, touched>>
  BY DEF vars, stripe, binding
<1> QED BY <1>1, SameTyped, AsideFits DEF CatalogInv

LEMMA CatalogInit == ASSUME Init PROVE CatalogInv
<1>1. /\ var \in [PriceKey -> EnvVar] /\ spec \in Document /\ todo = {} /\ bound = [k \in PriceKey |-> 0]
      /\ key = [k \in PriceKey |-> 0] /\ carried = [s \in Service |-> [v \in EnvVar |-> 0]]
      /\ plan.spec = spec /\ plan.remove = {} /\ plan.price = bound
  BY DEF Init
<1>2. price \in Seq(Price)
  <2>1. <<>> \in Seq(Price)
    OBVIOUS
  <2>2. \A t \in Tuple : <<[tuple |-> t, key |-> None, lookup |-> None, active |-> TRUE]>> \in Seq(Price)
    <3> TAKE t \in Tuple
    <3>1. [tuple |-> t, key |-> None, lookup |-> None, active |-> TRUE] \in Price
      BY DEF Price
    <3> QED BY <3>1
  <2> QED BY <2>1, <2>2 DEF Init
<1> QED BY <1>1, <1>2 DEF CatalogInv, CatalogTyped

LEMMA CatalogStep == ASSUME CatalogInv, [Next]_vars PROVE CatalogInv'
BY StartApplyFits, HandlerFits, InterruptFits, EditSpecFits, RetargetFits, DriftFits, ForgetFits, CatalogStutter DEF Next

(* Only the archival of a price, and a user by hand, deactivate one.       *)
LEMMA OnlyArchival ==
  ASSUME CatalogInv, Next, NEW i \in DOMAIN price, Archiving(i)
  PROVE  \E k \in PriceKey, why \in {"replaced", "removed"} : ArchivePrice(why, k) /\ i = plan.price[k]
<1>1. price' # price /\ todo' # todo /\ price[i].active /\ ~price'[i].active
  BY DEF Archiving
<1>2. ~StartApply /\ ~Interrupt /\ ~EditSpec /\ ~Retarget /\ ~Drift /\ ~Forget
  BY <1>1 DEF StartApply, Interrupt, Stop, EditSpec, Retarget, Drift, Forget, stripe
<1>3. Step /\ UNCHANGED <<var, spec, plan>>
  BY <1>2 DEF Next, Handler
<1>4. ~ArchiveProduct /\ ~\E op \in {"create", "adopt", "update", "replace"} : EnsureProduct(op)
  BY <1>1 DEF ArchiveProduct, EnsureProduct
<1>5. ~\E s \in Service : SyncHosting(s) \/ HostingRefused(s)
  BY <1>1 DEF SyncHosting, HostingRefused, Refused, stripe
<1>6. ASSUME NEW k \in PriceKey, NEW op PROVE ~(CreatePrice(op, k) \/ KeyRefused(op, k) \/ AdoptPrice(op, k) \/ PriceRefused(op, k))
  <2>1. ~KeyRefused(op, k) /\ ~PriceRefused(op, k)
    BY <1>1 DEF KeyRefused, PriceRefused, Refused, stripe
  <2>2. ~AdoptPrice(op, k)
    BY <1>1, <1>3, AdoptPriceFits
  <2>3. ~CreatePrice(op, k)
    <3>1. \A p : Append(price, p)[i] = price[i]
      BY DEF CatalogInv, CatalogTyped
    <3> QED BY <1>1, <3>1 DEF CreatePrice
  <2> QED BY <2>1, <2>2, <2>3
<1>7. PICK k \in PriceKey, why \in {"replaced", "removed"} : ArchivePrice(why, k)
  BY <1>1, <1>3, <1>4, <1>5, <1>6 DEF Step, ArchiveRefused, Refused, stripe
<1>8. i = plan.price[k]
  BY <1>1, <1>3, <1>7, ArchivePriceFits
<1> QED BY <1>7, <1>8

LEMMA ArchivesUncarried ==
  ASSUME CatalogInv, Next, NEW i \in DOMAIN price, Archiving(i), ~Shared(i)
  PROVE  Reached(i) \subseteq touched
<1>1. PICK k \in PriceKey, why \in {"replaced", "removed"} : ArchivePrice(why, k) /\ i = plan.price[k]
  BY OnlyArchival
<1>2. <<"archive", why, k>> \in todo /\ \A b \in todo : Rank(<<"archive", why, k>>) <= Rank(b)
  BY <1>1 DEF ArchivePrice, Turn
<1>3. ASSUME NEW s PROVE Updated(s)
  <2>1. Rank(<<"archive", why, k>>) = 4 /\ Rank(<<"hosting", "update", s>>) = 3
    BY DEF Rank
  <2> QED BY <1>2, <2>1 DEF Updated
<1>4. i # 0
  BY DEF CatalogInv, CatalogTyped
<1>5. ASSUME NEW s \in Reached(i), s \notin touched PROVE FALSE
  <2>1. s \in Targets(plan.spec) /\ \E v \in Vars(Declared(plan.spec)) \cup plan.remove : carried[s][v] = i
    BY DEF Reached
  <2>2. Carries(s)
    BY <1>2, <1>3, <1>5, <2>1 DEF CatalogInv, PlanFits
  <2> QED BY <1>4, <2>1, <2>2 DEF Carries, Shared
<1> QED BY <1>5

-----------------------------------------------------------------------------
(***************************************************************************)
(* The webhooks                                                            *)
(***************************************************************************)
(* The inductive invariant. What an apply may still do is known by its     *)
(* handler.                                                                *)
After == {"sync", "record", "undo", "undo silent"}

Stages(op) ==
  CASE op = "destroy" -> {"delete", "clear"}
    [] op = "replace" -> {"delete", "create"} \cup After
    [] op = "create" -> {"create"} \cup After
    [] op \in {"adopt", "update"} -> {"configure"}
    [] op = "blocked" -> {}

(* What is written to an endpoint or a slot belongs to a declared name.    *)
Planneds == jobs \cup (IF worker = None THEN {} ELSE {worker.act})
TargetsDeclared ==
  \A a \in Planneds : a.op \in {"create", "adopt", "update", "replace"} => a.name \in Webhooks!Declared

(* The handler at work has the binding it was planned with, whose endpoint *)
(* it deletes before it does anything else.                                *)
TurnFits ==
  worker # None =>
    /\ worker.at \in Stages(Webhooks!Act.op)
    /\ Webhooks!Me \in Webhooks!Bound => Webhooks!Act.op \notin {"create", "adopt"} /\ hooked[Webhooks!Me].id = Webhooks!Act.id
    /\ Webhooks!Act.op = "destroy" => Webhooks!Me \in Webhooks!Bound
    /\ Webhooks!Act.op \in {"destroy", "replace"} /\ worker.at # "delete" => Webhooks!Act.id \notin Webhooks!Live
    /\ worker.at \in After => worker.new \in DOMAIN endpoints

Tracked(i) ==
  \/ i \in lost
  \/ \E n \in Webhooks!Bound : hooked[n].id = i
  \/ worker # None /\ worker.at \in After /\ worker.new = i
AllTracked == \A i \in Webhooks!Live \cap created : Tracked(i)

(* A hash is that of the endpoint's secret, of no secret, or trusted.      *)
HashesFit == \A n \in Webhooks!Bound \ adopted : hooked[n].hash \in {0, hooked[n].id}

(* No id is one that Stripe has yet to give.                               *)
Given == DOMAIN endpoints \cup {0}
IdsFit == (\A n \in Webhooks!Bound : hooked[n].id \in Given) /\ (\A a \in Planneds : a.id \in Given)

WebhooksInv == Webhooks!TypeOK /\ TargetsDeclared /\ TurnFits /\ AllTracked /\ HashesFit /\ IdsFit

-----------------------------------------------------------------------------
(* What planning returns.                                                  *)
LEMMA Sites == ASSUME Webhooks!TypeOK, NEW u PROVE Webhooks!At(u) \subseteq DOMAIN endpoints /\ DOMAIN endpoints \subseteq Nat \ {0} /\ IsFiniteSet(Webhooks!At(u))
<1>1. DOMAIN endpoints = 1..Len(endpoints) /\ Len(endpoints) \in Nat
  BY DEF Webhooks!TypeOK
<1>2. Webhooks!At(u) \subseteq 1..Len(endpoints)
  BY <1>1 DEF Webhooks!At, Webhooks!Live
<1>3. IsFiniteSet(1..Len(endpoints))
  BY <1>1, FS_Interval
<1>4. IsFiniteSet(Webhooks!At(u))
  BY <1>2, <1>3, FS_Subset
<1> QED BY <1>1, <1>2, <1>4

LEMMA OpFits ==
  ASSUME Webhooks!TypeOK, NEW n \in Webhooks!Declared \cup Webhooks!Bound, NEW seen \in BOOLEAN
  PROVE  /\ Webhooks!Op(n, seen) \in {"create", "adopt", "update", "replace", "destroy", "blocked", "noop"}
         /\ Webhooks!Op(n, seen) \in {"create", "adopt", "update", "replace"} => n \in Webhooks!Declared
<1>1. Webhooks!BoundOp(n, seen) \in {"blocked", "replace", "update", "noop"}
  BY DEF Webhooks!BoundOp
<1>2. Webhooks!NewOp(n, seen) \in {"create", "adopt", "replace", "blocked"}
  <2> DEFINE same == Webhooks!At(hooks[n].url)
  <2>1. IsFiniteSet(same)
    BY Sites
  <2>2. Cardinality(same) \in Nat /\ (Cardinality(same) = 0 <=> same = {})
    BY <2>1, FS_CardinalityType, FS_EmptySet
  <2>3. Webhooks!Cardinality(same) = Cardinality(same)
    BY DEF Webhooks!Cardinality, Cardinality
  <2> QED BY <2>2, <2>3 DEF Webhooks!NewOp
<1> QED BY <1>1, <1>2 DEF Webhooks!Op

LEMMA PlannedFits ==
  ASSUME Webhooks!TypeOK, NEW seen \in BOOLEAN
  PROVE  /\ Webhooks!Planned(seen) \subseteq Webhooks!Action
         /\ \A a \in Webhooks!Planned(seen) : a.op \in {"create", "adopt", "update", "replace"} => a.name \in Webhooks!Declared
         /\ (\A n \in Webhooks!Bound : hooked[n].id \in Given) => \A a \in Webhooks!Planned(seen) : a.id \in Given
<1> SUFFICES ASSUME NEW a \in Webhooks!Planned(seen)
    PROVE /\ a \in Webhooks!Action /\ (a.op \in {"create", "adopt", "update", "replace"} => a.name \in Webhooks!Declared)
          /\ (\A n \in Webhooks!Bound : hooked[n].id \in Given) => a.id \in Given
  OBVIOUS
<1>1. PICK n \in Webhooks!Declared \cup Webhooks!Bound :
        /\ a = [name |-> n, op |-> Webhooks!Op(n, seen), id |-> Webhooks!Subject(n),
                hash |-> IF n \in Webhooks!Declared THEN hosting[hooks[n].slot] ELSE 0]
        /\ a.op # "noop"
  BY DEF Webhooks!Planned
<1>2. n \in Name
  BY DEF Webhooks!Declared, Webhooks!Bound
<1>3. Webhooks!Subject(n) \in Nat /\ (n \in Webhooks!Bound => Webhooks!Subject(n) = hooked[n].id) /\ (n \notin Webhooks!Bound => Webhooks!Subject(n) \in Given)
  <2>1. CASE n \in Webhooks!Bound
    BY <2>1, <1>2 DEF Webhooks!Subject, Webhooks!Bound, Webhooks!TypeOK, Webhooks!Binding
  <2>2. CASE n \notin Webhooks!Bound
    BY <2>2, Sites DEF Webhooks!Subject, Given
  <2> QED BY <2>1, <2>2
<1>4. (IF n \in Webhooks!Declared THEN hosting[hooks[n].slot] ELSE 0) \in Nat
  <2>1. n \in Webhooks!Declared => hooks[n] \in Webhooks!Wanted
    BY DEF Webhooks!Declared, Webhooks!TypeOK, Webhooks!Document
  <2> QED BY <2>1 DEF Webhooks!Wanted, Webhooks!TypeOK
<1> QED BY <1>1, <1>2, <1>3, <1>4, OpFits DEF Webhooks!Action

LEMMA SameLength ==
  ASSUME Webhooks!TypeOK, NEW f, f = [j \in DOMAIN endpoints |-> f[j]], \A j \in DOMAIN endpoints : f[j] \in Webhooks!Endpoint
  PROVE  f \in Seq(Webhooks!Endpoint)
<1>1. Len(endpoints) \in Nat /\ DOMAIN endpoints = 1..Len(endpoints)
  BY DEF Webhooks!TypeOK
<1>2. f \in [1..Len(endpoints) -> Webhooks!Endpoint]
  BY <1>1
<1> QED BY <1>1, <1>2, SeqDef

(* What deleting, changing and adding an endpoint does to those that live. *)
LEMMA DeletedFits ==
  ASSUME Webhooks!TypeOK, NEW i, Webhooks!Deleted(i)
  PROVE  endpoints' \in Seq(Webhooks!Endpoint) /\ DOMAIN endpoints' = DOMAIN endpoints /\ Webhooks!Live' = Webhooks!Live \ {i}
<1>1. \A j \in DOMAIN endpoints : endpoints[j] \in Webhooks!Endpoint
  BY DEF Webhooks!TypeOK
<1>2. DOMAIN endpoints' = DOMAIN endpoints
  BY DEF Webhooks!Deleted, Webhooks!TypeOK
<1>3. \A j \in DOMAIN endpoints : endpoints'[j] = IF j = i THEN [endpoints[j] EXCEPT !.live = FALSE] ELSE endpoints[j]
  BY DEF Webhooks!Deleted, Webhooks!TypeOK
<1>4. \A j \in DOMAIN endpoints : endpoints'[j] \in Webhooks!Endpoint /\ (endpoints'[j].live <=> endpoints[j].live /\ j # i)
  BY <1>1, <1>3 DEF Webhooks!Endpoint
<1>5. endpoints' \in Seq(Webhooks!Endpoint)
  BY <1>2, <1>4, SameLength DEF Webhooks!Deleted
<1> QED BY <1>2, <1>4, <1>5 DEF Webhooks!Live

LEMMA ConfiguredFits ==
  ASSUME Webhooks!TypeOK, Webhooks!Act \in Webhooks!Action, Webhooks!Me \in Webhooks!Declared, Webhooks!Configured
  PROVE  endpoints' \in Seq(Webhooks!Endpoint) /\ DOMAIN endpoints' = DOMAIN endpoints /\ Webhooks!Live' = Webhooks!Live
<1>1. \A j \in DOMAIN endpoints : endpoints[j] \in Webhooks!Endpoint
  BY DEF Webhooks!TypeOK
<1>2. DOMAIN endpoints' = DOMAIN endpoints
  BY DEF Webhooks!Configured, Webhooks!TypeOK
<1>3. hooks[Webhooks!Me].url \in Url
  BY DEF Webhooks!Declared, Webhooks!TypeOK, Webhooks!Document, Webhooks!Wanted
<1>4. \A j \in DOMAIN endpoints : endpoints'[j] =
        IF j = Webhooks!Act.id THEN [endpoints[j] EXCEPT !.url = hooks[Webhooks!Me].url, !.fits = TRUE] ELSE endpoints[j]
  BY DEF Webhooks!Configured, Webhooks!TypeOK
<1>5. \A j \in DOMAIN endpoints : endpoints'[j] \in Webhooks!Endpoint /\ endpoints'[j].live = endpoints[j].live
  BY <1>1, <1>3, <1>4 DEF Webhooks!Endpoint
<1>6. endpoints' \in Seq(Webhooks!Endpoint)
  BY <1>2, <1>5, SameLength DEF Webhooks!Configured
<1> QED BY <1>2, <1>5, <1>6 DEF Webhooks!Live

LEMMA UnfitFits ==
  ASSUME Webhooks!TypeOK, NEW i, endpoints' = [endpoints EXCEPT ![i].fits = FALSE]
  PROVE  endpoints' \in Seq(Webhooks!Endpoint) /\ DOMAIN endpoints' = DOMAIN endpoints /\ Webhooks!Live' = Webhooks!Live
<1>1. \A j \in DOMAIN endpoints : endpoints[j] \in Webhooks!Endpoint
  BY DEF Webhooks!TypeOK
<1>2. DOMAIN endpoints' = DOMAIN endpoints
  BY DEF Webhooks!TypeOK
<1>3. \A j \in DOMAIN endpoints : endpoints'[j] = IF j = i THEN [endpoints[j] EXCEPT !.fits = FALSE] ELSE endpoints[j]
  BY DEF Webhooks!TypeOK
<1>4. \A j \in DOMAIN endpoints : endpoints'[j] \in Webhooks!Endpoint /\ endpoints'[j].live = endpoints[j].live
  BY <1>1, <1>3 DEF Webhooks!Endpoint
<1>5. endpoints' \in Seq(Webhooks!Endpoint)
  BY <1>2, <1>4, SameLength
<1> QED BY <1>2, <1>4, <1>5 DEF Webhooks!Live

LEMMA AppendedFits ==
  ASSUME Webhooks!TypeOK, NEW e \in Webhooks!Endpoint, e.live, endpoints' = Append(endpoints, e)
  PROVE  /\ endpoints' \in Seq(Webhooks!Endpoint) /\ DOMAIN endpoints \subseteq DOMAIN endpoints'
         /\ Len(endpoints') \in DOMAIN endpoints' /\ Len(endpoints') \in Nat \ {0}
         /\ Len(endpoints') \notin DOMAIN endpoints /\ Webhooks!Live' = Webhooks!Live \cup {Len(endpoints')}
<1> DEFINE l == Len(endpoints)
<1>1. l \in Nat /\ DOMAIN endpoints = 1..l /\ endpoints \in Seq(Webhooks!Endpoint)
  BY DEF Webhooks!TypeOK
<1>2. endpoints' \in Seq(Webhooks!Endpoint) /\ Len(endpoints') = l + 1 /\ DOMAIN endpoints' = 1..(l + 1)
  BY <1>1
<1>3. \A j \in 1..l : endpoints'[j] = endpoints[j]
  BY <1>1
<1>4. endpoints'[l + 1] = e
  BY <1>1
<1>5. \A j \in 1..(l + 1) : j \in 1..l \/ j = l + 1
  BY <1>1
<1>6. 1..l \subseteq 1..(l + 1) /\ l + 1 \in 1..(l + 1) /\ l + 1 \notin 1..l
  BY <1>1
<1>7. Webhooks!Live' = Webhooks!Live \cup {l + 1}
  <2> HIDE DEF l
  <2> QED BY <1>1, <1>2, <1>3, <1>4, <1>5, <1>6 DEF Webhooks!Live
<1> QED BY <1>1, <1>2, <1>6, <1>7

-----------------------------------------------------------------------------
(* Each action keeps the invariant.                                        *)
LEMMA Working ==
  ASSUME Webhooks!Assumption, Webhooks!TypeOK, worker # None
  PROVE  worker \in Webhooks!Work /\ Webhooks!Act \in Webhooks!Action /\ Webhooks!Me \in Name
BY DEF Webhooks!TypeOK, Webhooks!Work, Webhooks!Action, Webhooks!Act, Webhooks!Me

LEMMA Advance ==
  ASSUME Webhooks!Assumption, Webhooks!TypeOK, worker # None, NEW at, at \in {"delete", "clear", "configure", "create"} \cup After,
         NEW new \in Nat, worker' = [worker EXCEPT !.at = at, !.new = new]
  PROVE  worker' \in Webhooks!Work /\ worker' # None /\ worker'.at = at /\ worker'.new = new /\ Webhooks!Act' = Webhooks!Act /\ Webhooks!Me' = Webhooks!Me
<1>1. worker \in Webhooks!Work
  BY Working
<1>2. worker' \in Webhooks!Work /\ worker'.at = at /\ worker'.new = new /\ worker'.act = worker.act
  BY <1>1 DEF Webhooks!Work, After
<1> QED BY <1>2 DEF Webhooks!Assumption, Webhooks!Act, Webhooks!Me

LEMMA GoesFits ==
  ASSUME Webhooks!Assumption, Webhooks!TypeOK, worker # None, NEW at, at \in {"delete", "clear", "configure", "create"} \cup After,
         worker' = [worker EXCEPT !.at = at]
  PROVE  worker' \in Webhooks!Work /\ worker' # None /\ worker'.at = at /\ worker'.new = worker.new /\ Webhooks!Act' = Webhooks!Act /\ Webhooks!Me' = Webhooks!Me
<1>1. worker \in Webhooks!Work
  BY Working
<1>2. worker' = [worker EXCEPT !.at = at, !.new = worker.new] /\ worker.new \in Nat
  BY <1>1 DEF Webhooks!Work
<1> QED BY <1>2, Advance

LEMMA SameIds ==
  ASSUME \A a \in Planneds : a.id \in Given, jobs' \subseteq jobs, DOMAIN endpoints \subseteq DOMAIN endpoints',
         worker' = None \/ (worker # None /\ worker' # None /\ worker'.act = worker.act)
  PROVE  \A a \in (Planneds)' : a.id \in (Given)'
<1>1. \A a \in (Planneds)' : a \in Planneds
  BY DEF Planneds
<1> QED BY <1>1 DEF Given

LEMMA SameTargets ==
  ASSUME TargetsDeclared, hooks' = hooks, jobs' \subseteq jobs,
         worker' = None \/ (worker # None /\ worker' # None /\ worker'.act = worker.act)
  PROVE  TargetsDeclared'
<1>1. \A a \in (Planneds)' : a \in Planneds
  BY DEF Planneds
<1>2. Webhooks!Declared' = Webhooks!Declared
  BY DEF Webhooks!Declared
<1> QED BY <1>1, <1>2 DEF TargetsDeclared

(* When a handler ends without touching the bindings, what it had created  *)
(* must be gone, or be noted as lost.                                      *)
LEMMA WebhookEndFits ==
  ASSUME Webhooks!Assumption, WebhooksInv, UNCHANGED <<hooks, hooked, adopted>>, created' \subseteq created, jobs' \subseteq jobs,
         worker' = None, lost \subseteq lost', endpoints' \in Seq(Webhooks!Endpoint), Webhooks!Live' \subseteq Webhooks!Live, DOMAIN endpoints' = DOMAIN endpoints, hosting' \in [Slot -> Nat],
         worker # None /\ worker.at \in After /\ worker.new \in Webhooks!Live' => worker.new \in lost'
  PROVE  WebhooksInv'
<1>1. Webhooks!TypeOK'
  BY DEF WebhooksInv, Webhooks!TypeOK
<1>2. TargetsDeclared'
  BY SameTargets DEF WebhooksInv
<1>3. TurnFits'
  BY DEF TurnFits
<1>4. AllTracked'
  BY DEF AllTracked, Tracked, WebhooksInv, Webhooks!Bound
<1>5. HashesFit'
  BY DEF HashesFit, WebhooksInv, Webhooks!Bound
<1>6. IdsFit'
  BY SameIds DEF IdsFit, WebhooksInv, Webhooks!Bound, Given
<1> QED BY <1>1, <1>2, <1>3, <1>4, <1>5, <1>6 DEF WebhooksInv

LEMMA WebhookStartApplyFits == ASSUME Webhooks!Assumption, WebhooksInv, Webhooks!StartApply PROVE WebhooksInv'
<1>1. PICK seen \in BOOLEAN : jobs' = Webhooks!Planned(seen)
  BY DEF Webhooks!StartApply
<1>2. /\ jobs' \subseteq Webhooks!Action /\ \A a \in jobs' : a.op \in {"create", "adopt", "update", "replace"} => a.name \in Webhooks!Declared
      /\ \A a \in jobs' : a.id \in Given
  BY <1>1, PlannedFits DEF WebhooksInv, IdsFit
<1>3. worker' = None /\ UNCHANGED <<hooks, Webhooks!provider, hooked, worker, created, lost, adopted>>
  BY DEF Webhooks!StartApply
<1>4. Webhooks!TypeOK'
  BY <1>2, <1>3 DEF WebhooksInv, Webhooks!TypeOK, Webhooks!provider
<1>5. TargetsDeclared'
  BY <1>2, <1>3 DEF TargetsDeclared, Planneds, Webhooks!Declared
<1>6. TurnFits'
  BY <1>3 DEF TurnFits
<1>7. AllTracked' /\ HashesFit'
  BY <1>3 DEF WebhooksInv, AllTracked, Tracked, HashesFit, Webhooks!Bound, Webhooks!Live, Webhooks!provider
<1>8. IdsFit'
  BY <1>2, <1>3 DEF WebhooksInv, IdsFit, Planneds, Given, Webhooks!Bound, Webhooks!provider
<1> QED BY <1>4, <1>5, <1>6, <1>7, <1>8 DEF WebhooksInv

LEMMA WebhookBeginFits == ASSUME Webhooks!Assumption, WebhooksInv, Webhooks!Begin PROVE WebhooksInv'
<1>1. /\ worker = None /\ UNCHANGED <<hooks, endpoints, hosting, hooked, created, lost, adopted>>
  BY DEF Webhooks!Begin, Webhooks!provider
<1>2. PICK a \in jobs :
        IF a.op = "blocked" \/ ~Webhooks!Fresh(a) THEN Webhooks!Fails
        ELSE /\ jobs' = jobs \ {a}
             /\ worker' = [act |-> a, new |-> 0,
                  at |-> CASE a.op \in {"destroy", "replace"} -> "delete" [] a.op = "create" -> "create"
                           [] OTHER -> "configure"]
  BY DEF Webhooks!Begin
<1>3. CASE Webhooks!Fails
  BY <1>1, <1>3, WebhookEndFits DEF Webhooks!Fails, Webhooks!Ends, WebhooksInv, Webhooks!TypeOK, Webhooks!Live
<1>4. CASE a.op # "blocked" /\ Webhooks!Fresh(a) /\ ~Webhooks!Fails
  <2> DEFINE at == CASE a.op \in {"destroy", "replace"} -> "delete" [] a.op = "create" -> "create"
                    [] OTHER -> "configure"
  <2>1. worker' = [act |-> a, new |-> 0, at |-> at] /\ jobs' = jobs \ {a}
    BY <1>2, <1>4
  <2>2. a \in Webhooks!Action /\ a.op \in {"create", "adopt", "update", "replace", "destroy"}
    BY <1>4 DEF WebhooksInv, Webhooks!TypeOK, Webhooks!Action
  <2>3. at \in {"delete", "create", "configure"} /\ at \in Stages(a.op)
    BY <2>2 DEF Stages
  <2> HIDE DEF at
  <2>4. worker' \in Webhooks!Work /\ worker' # None
    <3>1. worker' \in Webhooks!Work
      BY <2>1, <2>2, <2>3 DEF Webhooks!Work
    <3> QED BY <3>1 DEF Webhooks!Assumption
  <2>5. Webhooks!Act' = a /\ Webhooks!Me' = a.name
    BY <2>1 DEF Webhooks!Act, Webhooks!Me
  <2>6. /\ a.name \in Webhooks!Bound => a.op \notin {"create", "adopt"} /\ hooked[a.name].id = a.id
        /\ a.op = "destroy" => a.name \in Webhooks!Bound
    BY <1>4, <2>2 DEF Webhooks!Fresh
  <2>7. Webhooks!TypeOK'
    BY <1>1, <2>1, <2>4 DEF WebhooksInv, Webhooks!TypeOK
  <2>8. TargetsDeclared' /\ IdsFit'
    <3>1. \A b \in (Planneds)' : b \in jobs
      BY <2>1, <2>4 DEF Planneds
    <3>2. jobs \subseteq Planneds
      BY DEF Planneds
    <3> QED BY <1>1, <3>1, <3>2 DEF TargetsDeclared, WebhooksInv, Webhooks!Declared, IdsFit, Given, Webhooks!Bound
  <2>9. TurnFits'
    <3>1. worker'.at = at
      BY <2>1
    <3>2. a.op \in {"destroy", "replace"} => at = "delete"
      BY DEF at
    <3>3. (Webhooks!Bound)' = Webhooks!Bound
      BY <1>1 DEF Webhooks!Bound
    <3> QED BY <1>1, <2>3, <2>5, <2>6, <3>1, <3>2, <3>3 DEF TurnFits, After
  <2>10. AllTracked' /\ HashesFit'
    BY <1>1 DEF WebhooksInv, AllTracked, Tracked, HashesFit, Webhooks!Bound, Webhooks!Live
  <2> QED BY <2>7, <2>8, <2>9, <2>10 DEF WebhooksInv
<1> QED BY <1>2, <1>3, <1>4

LEMMA DeleteFits == ASSUME Webhooks!Assumption, WebhooksInv, Webhooks!Delete PROVE WebhooksInv'
<1>1. /\ worker # None /\ worker.at = "delete" /\ worker \in Webhooks!Work /\ Webhooks!Act \in Webhooks!Action
      /\ UNCHANGED <<hooks, hosting, hooked, created, lost, adopted>>
  BY Working DEF Webhooks!Delete, Webhooks!Is, Webhooks!Goes, WebhooksInv
<1>2. Webhooks!Deleted(Webhooks!Act.id) => endpoints' \in Seq(Webhooks!Endpoint) /\ DOMAIN endpoints' = DOMAIN endpoints /\ Webhooks!Live' = Webhooks!Live \ {Webhooks!Act.id}
  BY DeletedFits DEF WebhooksInv
<1>3. CASE Webhooks!Fails
  <2>1. endpoints' \in Seq(Webhooks!Endpoint) /\ Webhooks!Live' \subseteq Webhooks!Live /\ DOMAIN endpoints' = DOMAIN endpoints
    BY <1>2, <1>3 DEF Webhooks!Delete, WebhooksInv, Webhooks!TypeOK, Webhooks!Live
  <2> QED BY <1>1, <1>3, <2>1, WebhookEndFits DEF Webhooks!Fails, Webhooks!Ends, WebhooksInv, Webhooks!TypeOK, After
<1>4. CASE ~Webhooks!Fails
  <2> DEFINE at == IF Webhooks!Act.op = "destroy" THEN "clear" ELSE "create"
  <2>1. Webhooks!Deleted(Webhooks!Act.id) /\ Webhooks!Goes(at)
    BY <1>4 DEF Webhooks!Delete
  <2>2. worker' \in Webhooks!Work /\ worker' # None /\ worker'.at = at /\ worker'.new = worker.new /\ Webhooks!Act' = Webhooks!Act /\ Webhooks!Me' = Webhooks!Me
    <3>1. at \in {"clear", "create"}
      OBVIOUS
    <3> HIDE DEF at
    <3> QED BY <1>1, <2>1, <3>1, GoesFits DEF Webhooks!Goes, WebhooksInv
  <2>3. jobs' = jobs
    BY <2>1 DEF Webhooks!Goes
  <2>4. Webhooks!TypeOK'
    BY <1>1, <1>2, <2>1, <2>2, <2>3 DEF WebhooksInv, Webhooks!TypeOK
  <2>5. TargetsDeclared'
    BY <1>1, <2>2, <2>3, SameTargets DEF WebhooksInv, Webhooks!Act
  <2>6. TurnFits'
    <3>1. Webhooks!Act.op \in {"destroy", "replace"}
      BY <1>1 DEF WebhooksInv, TurnFits, Stages, Webhooks!Action, After
    <3>2. at \in Stages(Webhooks!Act.op) /\ at \notin After
      BY <3>1 DEF Stages, After
    <3>3. Webhooks!Act.id \notin Webhooks!Live'
      BY <1>2, <2>1
    <3>4. (Webhooks!Bound)' = Webhooks!Bound
      BY <1>1 DEF Webhooks!Bound
    <3> HIDE DEF at
    <3> QED BY <1>1, <2>2, <3>1, <3>2, <3>3, <3>4 DEF WebhooksInv, TurnFits
  <2>7. AllTracked' /\ HashesFit'
    BY <1>1, <1>2, <2>1 DEF WebhooksInv, AllTracked, Tracked, HashesFit, Webhooks!Bound, After
  <2>8. IdsFit'
    BY <1>1, <1>2, <2>1, <2>2, <2>3, SameIds DEF WebhooksInv, IdsFit, Webhooks!Bound, Given, Webhooks!Act
  <2> QED BY <2>4, <2>5, <2>6, <2>7, <2>8 DEF WebhooksInv
<1> QED BY <1>3, <1>4

LEMMA ClearFits == ASSUME Webhooks!Assumption, WebhooksInv, Webhooks!Clear PROVE WebhooksInv'
<1>1. /\ worker # None /\ worker.at = "clear" /\ worker \in Webhooks!Work /\ Webhooks!Act \in Webhooks!Action /\ Webhooks!Me \in Name
      /\ UNCHANGED <<hooks, endpoints, created, lost>> /\ worker' = None
  BY Working DEF Webhooks!Clear, Webhooks!Is, Webhooks!Ends, Webhooks!Fails, WebhooksInv
<1>2. Webhooks!Act.op = "destroy" /\ Webhooks!Me \in Webhooks!Bound /\ hooked[Webhooks!Me].id = Webhooks!Act.id /\ Webhooks!Act.id \notin Webhooks!Live
  BY <1>1 DEF WebhooksInv, TurnFits, Stages, After, Webhooks!Action
<1>3. hosting' \in [Slot -> Nat]
  BY DEF Webhooks!Clear, WebhooksInv, Webhooks!TypeOK
<1>4. CASE Webhooks!Fails /\ UNCHANGED <<hooked, adopted>>
  BY <1>1, <1>3, <1>4, WebhookEndFits DEF Webhooks!Fails, Webhooks!Ends, WebhooksInv, Webhooks!TypeOK, After, Webhooks!Live
<1>5. CASE hooked' = [hooked EXCEPT ![Webhooks!Me] = None] /\ adopted' = adopted \ {Webhooks!Me} /\ jobs' = jobs
  <2>1. Webhooks!TypeOK'
    BY <1>1, <1>3, <1>5 DEF WebhooksInv, Webhooks!TypeOK
  <2>2. TargetsDeclared'
    BY <1>1, <1>5, SameTargets DEF WebhooksInv
  <2>3. TurnFits'
    BY <1>1 DEF TurnFits
  <2>4. (Webhooks!Bound)' = Webhooks!Bound \ {Webhooks!Me} /\ \A n \in (Webhooks!Bound)' : hooked'[n] = hooked[n]
    BY <1>1, <1>5 DEF Webhooks!Bound, WebhooksInv, Webhooks!TypeOK
  <2>5. Webhooks!Live' = Webhooks!Live
    BY <1>1 DEF Webhooks!Live
  <2>6. AllTracked'
    BY <1>1, <1>2, <2>4, <2>5 DEF AllTracked, Tracked, WebhooksInv, After
  <2>7. HashesFit'
    BY <1>5, <2>4 DEF HashesFit, WebhooksInv
  <2>8. IdsFit'
    BY <1>1, <1>5, <2>4, SameIds DEF WebhooksInv, IdsFit, Given
  <2> QED BY <2>1, <2>2, <2>3, <2>6, <2>7, <2>8 DEF WebhooksInv
<1> QED BY <1>4, <1>5 DEF Webhooks!Clear

(* The handler's webhook is bound to an endpoint; the one it was bound to  *)
(* before is gone.                                                         *)
LEMMA RecordFits ==
  ASSUME Webhooks!Assumption, WebhooksInv, worker # None, Webhooks!Act.op \in {"create", "adopt", "replace"}, worker.at # "delete",
         NEW id \in Nat, id \in Given, NEW hash \in Nat, Webhooks!Record(id, hash),
         worker' = None, UNCHANGED <<hooks, created, lost>>, jobs' \subseteq jobs, hosting' \in [Slot -> Nat],
         endpoints' \in Seq(Webhooks!Endpoint), Webhooks!Live' \subseteq Webhooks!Live, DOMAIN endpoints' = DOMAIN endpoints,
         worker.at \in After => worker.new = id,
         \/ adopted' = adopted \cup {Webhooks!Me}
         \/ adopted' = adopted \ {Webhooks!Me} /\ hash \in {0, id}
  PROVE  WebhooksInv'
<1>1. worker \in Webhooks!Work /\ Webhooks!Act \in Webhooks!Action /\ Webhooks!Me \in Name
  BY Working DEF WebhooksInv
<1>2. Webhooks!Me \in Webhooks!Declared /\ hooks[Webhooks!Me].slot \in Slot
  <2>1. Webhooks!Act \in Planneds
    BY DEF Planneds, Webhooks!Act
  <2>2. Webhooks!Me \in Webhooks!Declared
    BY <2>1 DEF WebhooksInv, TargetsDeclared, Webhooks!Me
  <2> QED BY <2>2 DEF Webhooks!Declared, WebhooksInv, Webhooks!TypeOK, Webhooks!Document, Webhooks!Wanted
<1>3. [id |-> id, slot |-> hooks[Webhooks!Me].slot, hash |-> hash] \in Webhooks!Binding
  BY <1>2 DEF Webhooks!Binding
<1>4. /\ hooked' \in [Name -> Webhooks!Binding \cup {None}]
      /\ (Webhooks!Bound)' = Webhooks!Bound \cup {Webhooks!Me} /\ hooked'[Webhooks!Me].id = id /\ hooked'[Webhooks!Me].hash = hash
      /\ \A n \in Webhooks!Bound \ {Webhooks!Me} : hooked'[n] = hooked[n]
  BY <1>1, <1>3 DEF Webhooks!Record, WebhooksInv, Webhooks!TypeOK, Webhooks!Bound, Webhooks!Assumption
<1>5. Webhooks!TypeOK'
  BY <1>4 DEF WebhooksInv, Webhooks!TypeOK
<1>6. TargetsDeclared'
  BY SameTargets DEF WebhooksInv
<1>7. TurnFits'
  BY DEF TurnFits
<1>8. Webhooks!Me \in Webhooks!Bound => hooked[Webhooks!Me].id \notin Webhooks!Live
  BY DEF WebhooksInv, TurnFits
<1>9. AllTracked'
  BY <1>4, <1>8 DEF AllTracked, Tracked, WebhooksInv
<1>10. HashesFit'
  BY <1>4 DEF HashesFit, WebhooksInv
<1>11. IdsFit'
  BY <1>4, SameIds DEF WebhooksInv, IdsFit, Given
<1> QED BY <1>5, <1>6, <1>7, <1>9, <1>10, <1>11 DEF WebhooksInv

LEMMA ConfigureFits == ASSUME Webhooks!Assumption, WebhooksInv, Webhooks!Configure PROVE WebhooksInv'
<1>1. /\ worker # None /\ worker.at = "configure" /\ worker \in Webhooks!Work /\ Webhooks!Act \in Webhooks!Action /\ Webhooks!Me \in Name
      /\ UNCHANGED <<hooks, hosting, created, lost>> /\ worker' = None
  BY Working DEF Webhooks!Configure, Webhooks!Is, Webhooks!Ends, Webhooks!Fails, WebhooksInv
<1>2. Webhooks!Act.op \in {"adopt", "update"}
  BY <1>1 DEF WebhooksInv, TurnFits, Stages, After, Webhooks!Action
<1>3. Webhooks!Me \in Webhooks!Declared
  <2>1. Webhooks!Act \in Planneds
    BY <1>1 DEF Planneds, Webhooks!Act
  <2> QED BY <1>2, <2>1 DEF WebhooksInv, TargetsDeclared, Webhooks!Me
<1>4. endpoints' \in Seq(Webhooks!Endpoint) /\ Webhooks!Live' = Webhooks!Live /\ DOMAIN endpoints' = DOMAIN endpoints
  <2>1. CASE Webhooks!Configured
    BY <1>1, <1>3, <2>1, ConfiguredFits DEF WebhooksInv
  <2>2. CASE UNCHANGED endpoints
    BY <2>2 DEF WebhooksInv, Webhooks!TypeOK, Webhooks!Live
  <2> QED BY <2>1, <2>2 DEF Webhooks!Configure
<1>5. hosting' \in [Slot -> Nat] /\ jobs' \subseteq jobs
  BY <1>1 DEF Webhooks!Configure, Webhooks!Fails, Webhooks!Ends, WebhooksInv, Webhooks!TypeOK
<1>6. CASE UNCHANGED <<hooked, adopted>>
  BY <1>1, <1>4, <1>5, <1>6, WebhookEndFits DEF After
<1>7. CASE Webhooks!Act.op = "adopt" /\ Webhooks!Record(Webhooks!Act.id, Webhooks!Act.hash) /\ adopted' = adopted \cup {Webhooks!Me}
  <2>1. Webhooks!Act.id \in Nat /\ Webhooks!Act.hash \in Nat
    BY <1>1 DEF Webhooks!Action
  <2>2. Webhooks!Act.id \in Given
    BY <1>1 DEF WebhooksInv, IdsFit, Planneds, Webhooks!Act
  <2> QED BY <1>1, <1>4, <1>5, <1>7, <2>1, <2>2, RecordFits DEF After
<1> QED BY <1>2, <1>6, <1>7 DEF Webhooks!Configure

LEMMA CreateFits == ASSUME Webhooks!Assumption, WebhooksInv, Webhooks!Create PROVE WebhooksInv'
<1> DEFINE e == [url |-> hooks[Webhooks!Me].url, live |-> TRUE, fits |-> TRUE]
           l == Len(endpoints')
<1>1. /\ worker # None /\ worker.at = "create" /\ worker \in Webhooks!Work /\ Webhooks!Act \in Webhooks!Action /\ Webhooks!Me \in Name
      /\ UNCHANGED <<hooks, hosting, hooked, adopted>> /\ created' = created \cup {l} /\ endpoints' = Append(endpoints, e)
  BY Working DEF Webhooks!Create, Webhooks!Is, WebhooksInv
<1>2. Webhooks!Act.op \in {"create", "replace"}
  BY <1>1 DEF WebhooksInv, TurnFits, Stages, After, Webhooks!Action
<1>3. Webhooks!Me \in Webhooks!Declared
  <2>1. Webhooks!Act \in Planneds
    BY <1>1 DEF Planneds, Webhooks!Act
  <2> QED BY <1>2, <2>1 DEF WebhooksInv, TargetsDeclared, Webhooks!Me
<1>4. e \in Webhooks!Endpoint /\ e.live
  BY <1>3 DEF Webhooks!Declared, WebhooksInv, Webhooks!TypeOK, Webhooks!Document, Webhooks!Wanted, Webhooks!Endpoint
<1>5. /\ endpoints' \in Seq(Webhooks!Endpoint) /\ DOMAIN endpoints \subseteq DOMAIN endpoints'
      /\ l \in DOMAIN endpoints' /\ l \in Nat \ {0} /\ l \notin DOMAIN endpoints /\ Webhooks!Live' = Webhooks!Live \cup {l}
  BY <1>1, <1>4, AppendedFits DEF WebhooksInv
<1> HIDE DEF e, l
<1>6. \A i \in Webhooks!Live' \cap created' : i = l \/ i \in Webhooks!Live \cap created
  BY <1>1, <1>5
<1>7. HashesFit'
  BY <1>1 DEF HashesFit, WebhooksInv, Webhooks!Bound
<1>10. worker' = None \/ (worker # None /\ worker' # None /\ worker'.act = worker.act) => IdsFit'
  <2> SUFFICES ASSUME worker' = None \/ (worker # None /\ worker' # None /\ worker'.act = worker.act)
      PROVE IdsFit'
    OBVIOUS
  <2>1. jobs' \subseteq jobs
    BY DEF Webhooks!Create, Webhooks!Fails, Webhooks!Ends
  <2> QED BY <1>1, <1>5, <2>1, SameIds DEF WebhooksInv, IdsFit, Given, Webhooks!Bound
<1>8. CASE Webhooks!Fails /\ lost' = lost \cup {l}
  <2>1. Webhooks!TypeOK'
    BY <1>1, <1>5, <1>8 DEF Webhooks!Fails, Webhooks!Ends, WebhooksInv, Webhooks!TypeOK
  <2>2. TargetsDeclared'
    BY <1>1, <1>8, SameTargets DEF Webhooks!Fails, Webhooks!Ends, WebhooksInv
  <2>3. TurnFits'
    BY <1>8 DEF TurnFits, Webhooks!Fails, Webhooks!Ends
  <2>4. AllTracked'
    BY <1>1, <1>6, <1>8 DEF WebhooksInv, AllTracked, Tracked, Webhooks!Bound, After
  <2>5. IdsFit'
    BY <1>8, <1>10 DEF Webhooks!Fails, Webhooks!Ends
  <2> QED BY <1>7, <2>1, <2>2, <2>3, <2>4, <2>5 DEF WebhooksInv
<1>9. CASE \E at \in {"sync", "undo silent"} :
             worker' = [worker EXCEPT !.at = at, !.new = l] /\ UNCHANGED <<jobs, lost>>
  <2>1. PICK at \in {"sync", "undo silent"} :
             worker' = [worker EXCEPT !.at = at, !.new = l] /\ UNCHANGED <<jobs, lost>>
    BY <1>9
  <2>2. worker' \in Webhooks!Work /\ worker' # None /\ worker'.at = at /\ worker'.new = l /\ Webhooks!Act' = Webhooks!Act /\ Webhooks!Me' = Webhooks!Me
    <3>1. at \in {"delete", "clear", "configure", "create"} \cup After
      BY DEF After
    <3> QED BY <1>1, <1>5, <2>1, <3>1, Advance DEF WebhooksInv
  <2>3. Webhooks!TypeOK'
    BY <1>1, <1>5, <2>1, <2>2 DEF WebhooksInv, Webhooks!TypeOK
  <2>4. TargetsDeclared'
    BY <1>1, <2>1, <2>2, SameTargets DEF WebhooksInv, Webhooks!Act
  <2>5. TurnFits'
    <3>1. at \in Stages(Webhooks!Act.op)
      BY <1>2 DEF Stages, After
    <3>2. (Webhooks!Bound)' = Webhooks!Bound
      BY <1>1 DEF Webhooks!Bound
    <3>3. Webhooks!Act.op = "replace" => Webhooks!Act.id \notin Webhooks!Live'
      <4>1. Webhooks!Act.op = "replace" => Webhooks!Act.id \notin Webhooks!Live
        BY <1>1 DEF WebhooksInv, TurnFits
      <4>2. Webhooks!Act.op = "replace" => Webhooks!Act.id # l
        <5>1. Webhooks!Act.id \in Given
          BY <1>1 DEF WebhooksInv, IdsFit, Planneds, Webhooks!Act
        <5> QED BY <1>5, <5>1 DEF Given
      <4> QED BY <1>5, <4>1, <4>2
    <3> QED BY <1>1, <1>2, <1>5, <2>2, <3>1, <3>2, <3>3 DEF WebhooksInv, TurnFits
  <2>6. AllTracked'
    BY <1>1, <1>6, <2>1, <2>2 DEF WebhooksInv, AllTracked, Tracked, Webhooks!Bound, After
  <2>7. IdsFit'
    BY <1>1, <1>10, <2>2 DEF Webhooks!Act
  <2> QED BY <1>7, <2>3, <2>4, <2>5, <2>6, <2>7 DEF WebhooksInv
<1> QED
  <2>1. (Webhooks!Fault /\ Webhooks!Fails /\ lost' = lost \cup {l}) \/ \E at \in {"sync", "undo silent"} :
          worker' = [worker EXCEPT !.at = at, !.new = l] /\ UNCHANGED <<jobs, lost>>
    BY DEF Webhooks!Create, l
  <2> QED BY <1>8, <1>9, <2>1

LEMMA SyncFits == ASSUME Webhooks!Assumption, WebhooksInv, Webhooks!Sync PROVE WebhooksInv'
<1>1. /\ worker # None /\ worker.at = "sync" /\ worker \in Webhooks!Work /\ Webhooks!Act \in Webhooks!Action /\ Webhooks!Me \in Name
      /\ UNCHANGED <<hooks, endpoints, hooked, created, lost, jobs, adopted>>
  BY Working DEF Webhooks!Sync, Webhooks!Is, Webhooks!Goes, WebhooksInv
<1>2. PICK at \in {"record", "undo"} : worker' = [worker EXCEPT !.at = at]
  BY DEF Webhooks!Sync, Webhooks!Goes
<1>3. worker' \in Webhooks!Work /\ worker' # None /\ worker'.at = at /\ worker'.new = worker.new /\ Webhooks!Act' = Webhooks!Act /\ Webhooks!Me' = Webhooks!Me
  <2>1. at \in {"delete", "clear", "configure", "create"} \cup After
    BY DEF After
  <2> QED BY <1>1, <1>2, <2>1, GoesFits DEF WebhooksInv
<1>4. hosting' \in [Slot -> Nat]
  <2>1. worker.new \in Nat /\ hosting \in [Slot -> Nat]
    BY <1>1 DEF Webhooks!Work, WebhooksInv, Webhooks!TypeOK
  <2> QED BY <2>1 DEF Webhooks!Sync
<1>5. Webhooks!TypeOK'
  BY <1>1, <1>3, <1>4 DEF WebhooksInv, Webhooks!TypeOK
<1>6. TargetsDeclared'
  BY <1>1, <1>3, SameTargets DEF WebhooksInv, Webhooks!Act
<1>7. TurnFits'
  <2>1. Webhooks!Act.op \in {"create", "replace"}
    BY <1>1 DEF WebhooksInv, TurnFits, Stages, After, Webhooks!Action
  <2>2. at \in Stages(Webhooks!Act.op)
    BY <2>1 DEF Stages, After
  <2>3. (Webhooks!Bound)' = Webhooks!Bound /\ Webhooks!Live' = Webhooks!Live
    BY <1>1 DEF Webhooks!Bound, Webhooks!Live
  <2> QED BY <1>1, <1>3, <2>1, <2>2, <2>3 DEF WebhooksInv, TurnFits, After
<1>8. AllTracked' /\ HashesFit'
  BY <1>1, <1>3 DEF WebhooksInv, AllTracked, Tracked, HashesFit, Webhooks!Bound, Webhooks!Live, After
<1>9. IdsFit'
  BY <1>1, <1>3, SameIds DEF WebhooksInv, IdsFit, Given, Webhooks!Bound, Webhooks!Act
<1> QED BY <1>5, <1>6, <1>7, <1>8, <1>9 DEF WebhooksInv

(* What the handler created, where it can be bound.                        *)
LEMMA NewFits ==
  ASSUME Webhooks!Assumption, WebhooksInv, worker # None, worker.at \in After
  PROVE  /\ worker.new \in Nat /\ worker.new \in Given /\ worker.new # 0
         /\ Webhooks!Act.op \in {"create", "adopt", "replace"} /\ worker.at # "delete"
<1>1. worker \in Webhooks!Work /\ Webhooks!Act \in Webhooks!Action
  BY Working DEF WebhooksInv
<1>2. worker.new \in DOMAIN endpoints
  BY DEF WebhooksInv, TurnFits
<1>3. worker.new # 0
  BY <1>2 DEF WebhooksInv, Webhooks!TypeOK
<1>4. Webhooks!Act.op \in {"create", "replace"}
  BY <1>1 DEF WebhooksInv, TurnFits, Stages, After, Webhooks!Action
<1> QED BY <1>1, <1>2, <1>3, <1>4 DEF Webhooks!Work, Given, After

LEMMA BindFits == ASSUME Webhooks!Assumption, WebhooksInv, Webhooks!Bind PROVE WebhooksInv'
<1>1. /\ worker # None /\ worker.at = "record" /\ worker.at \in After /\ worker' = None
      /\ UNCHANGED <<hooks, endpoints, hosting, created, lost, jobs>>
      /\ Webhooks!Record(worker.new, worker.new) /\ adopted' = adopted \ {Webhooks!Me}
  BY DEF Webhooks!Bind, Webhooks!Is, Webhooks!Ends, Webhooks!provider, After
<1>2. endpoints' \in Seq(Webhooks!Endpoint) /\ hosting' \in [Slot -> Nat] /\ Webhooks!Live' = Webhooks!Live /\ DOMAIN endpoints' = DOMAIN endpoints
  BY <1>1 DEF WebhooksInv, Webhooks!TypeOK, Webhooks!Live
<1> QED BY <1>1, <1>2, NewFits, RecordFits

LEMMA UndoFits == ASSUME Webhooks!Assumption, WebhooksInv, Webhooks!Undo PROVE WebhooksInv'
<1>1. /\ worker # None /\ worker.at \in After /\ worker' = None /\ jobs' = {}
      /\ UNCHANGED <<hooks, hosting, created, lost>>
  BY DEF Webhooks!Undo, Webhooks!Is, Webhooks!Ends, Webhooks!Fails, After
<1>2. Webhooks!Deleted(worker.new) =>
        endpoints' \in Seq(Webhooks!Endpoint) /\ DOMAIN endpoints' = DOMAIN endpoints /\ Webhooks!Live' = Webhooks!Live \ {worker.new}
  BY DeletedFits DEF WebhooksInv
<1>3. endpoints' \in Seq(Webhooks!Endpoint) /\ hosting' \in [Slot -> Nat] /\ Webhooks!Live' \subseteq Webhooks!Live /\ DOMAIN endpoints' = DOMAIN endpoints
  BY <1>1, <1>2 DEF Webhooks!Undo, WebhooksInv, Webhooks!TypeOK, Webhooks!Live
<1>4. CASE Webhooks!Deleted(worker.new) /\ UNCHANGED <<hooked, adopted>>
  BY <1>1, <1>2, <1>3, <1>4, WebhookEndFits
<1>5. CASE \E hash \in {0, worker.new} : Webhooks!Record(worker.new, hash) /\ adopted' = adopted \ {Webhooks!Me}
  <2>1. PICK hash \in {0, worker.new} : Webhooks!Record(worker.new, hash) /\ adopted' = adopted \ {Webhooks!Me}
    BY <1>5
  <2>2. hash \in Nat
    BY <1>1, NewFits
  <2> QED BY <1>1, <1>3, <2>1, <2>2, NewFits, RecordFits
<1> QED BY <1>4, <1>5 DEF Webhooks!Undo

LEMMA CrashFits == ASSUME Webhooks!Assumption, WebhooksInv, Webhooks!Crash PROVE WebhooksInv'
<1>1. /\ worker' = None /\ jobs' = {} /\ UNCHANGED <<hooks, endpoints, hosting, hooked, created, adopted>>
      /\ lost' = IF worker = None THEN lost ELSE lost \cup ({worker.new} \ {0})
  BY DEF Webhooks!Crash, Webhooks!Fails, Webhooks!Ends, Webhooks!provider
<1>2. endpoints' \in Seq(Webhooks!Endpoint) /\ hosting' \in [Slot -> Nat] /\ Webhooks!Live' = Webhooks!Live /\ DOMAIN endpoints' = DOMAIN endpoints
  BY <1>1 DEF WebhooksInv, Webhooks!TypeOK, Webhooks!Live
<1>3. worker # None /\ worker.at \in After => worker.new \in lost'
  BY <1>1, NewFits
<1> QED BY <1>1, <1>2, <1>3, WebhookEndFits

LEMMA WebhookEditSpecFits == ASSUME Webhooks!Assumption, WebhooksInv, Webhooks!EditSpec PROVE WebhooksInv'
<1>1. /\ worker = None /\ jobs = {} /\ hooks' \in Webhooks!Document
      /\ UNCHANGED <<endpoints, hosting, hooked, jobs, worker, created, lost, adopted>>
  BY DEF Webhooks!EditSpec, Webhooks!provider
<1>2. Webhooks!TypeOK'
  BY <1>1 DEF WebhooksInv, Webhooks!TypeOK, Webhooks!Document, Webhooks!Valid
<1>3. TargetsDeclared' /\ TurnFits'
  BY <1>1 DEF TargetsDeclared, TurnFits, Planneds
<1>4. AllTracked' /\ HashesFit' /\ IdsFit'
  BY <1>1 DEF WebhooksInv, AllTracked, Tracked, HashesFit, IdsFit, Planneds, Given, Webhooks!Bound, Webhooks!Live
<1> QED BY <1>2, <1>3, <1>4 DEF WebhooksInv

LEMMA WebhookDriftFits == ASSUME Webhooks!Assumption, WebhooksInv, Webhooks!Drift PROVE WebhooksInv'
<1>1. UNCHANGED <<hooks, hooked, jobs, worker, created, lost, adopted>>
  BY DEF Webhooks!Drift
<1>2. endpoints' \in Seq(Webhooks!Endpoint) /\ Webhooks!Live' \subseteq Webhooks!Live /\ DOMAIN endpoints' = DOMAIN endpoints
  BY DeletedFits, UnfitFits DEF Webhooks!Drift, WebhooksInv, Webhooks!TypeOK, Webhooks!Live
<1>3. hosting' \in [Slot -> Nat]
  <2>1. Webhooks!Foreign \in Nat
    BY DEF Webhooks!Foreign, Webhooks!Assumption
  <2> QED BY <2>1 DEF Webhooks!Drift, WebhooksInv, Webhooks!TypeOK
<1>4. Webhooks!TypeOK'
  BY <1>1, <1>2, <1>3 DEF WebhooksInv, Webhooks!TypeOK
<1>5. TargetsDeclared'
  BY <1>1 DEF WebhooksInv, TargetsDeclared, Planneds, Webhooks!Declared
<1>6. Webhooks!Act' = Webhooks!Act /\ Webhooks!Me' = Webhooks!Me /\ (Webhooks!Bound)' = Webhooks!Bound /\ (Planneds)' = Planneds /\ (Given)' = Given
  BY <1>1, <1>2 DEF Webhooks!Act, Webhooks!Me, Webhooks!Bound, Planneds, Given
<1>7. TurnFits'
  BY <1>1, <1>2, <1>6 DEF WebhooksInv, TurnFits
<1>8. AllTracked' /\ HashesFit' /\ IdsFit'
  BY <1>1, <1>2, <1>6 DEF WebhooksInv, AllTracked, Tracked, HashesFit, IdsFit
<1> QED BY <1>4, <1>5, <1>7, <1>8 DEF WebhooksInv

LEMMA StutterFits == ASSUME WebhooksInv, UNCHANGED Webhooks!vars PROVE WebhooksInv'
<1>1. UNCHANGED <<hooks, endpoints, hosting, hooked, jobs, worker, created, lost, adopted>>
  BY DEF Webhooks!vars, Webhooks!provider
<1>2. Webhooks!Live' = Webhooks!Live /\ (Webhooks!Bound)' = Webhooks!Bound /\ (Webhooks!Declared)' = Webhooks!Declared /\ (Planneds)' = Planneds /\ (Given)' = Given
  BY <1>1 DEF Webhooks!Live, Webhooks!Bound, Webhooks!Declared, Planneds, Given
<1>3. Webhooks!TypeOK' /\ TargetsDeclared' /\ AllTracked' /\ HashesFit' /\ IdsFit'
  BY <1>1, <1>2 DEF WebhooksInv, Webhooks!TypeOK, Webhooks!Document, Webhooks!Valid, TargetsDeclared, AllTracked, Tracked, HashesFit, IdsFit
<1>4. TurnFits'
  BY <1>1, <1>2 DEF WebhooksInv, TurnFits, Webhooks!Act, Webhooks!Me
<1> QED BY <1>3, <1>4 DEF WebhooksInv

LEMMA WebhooksInit == ASSUME Webhooks!Assumption, Webhooks!Init PROVE WebhooksInv
<1>1. jobs = {} /\ worker = None /\ hooked = [n \in Name |-> None] /\ created = {}
  BY DEF Webhooks!Init
<1>2. Webhooks!Bound = {} /\ Planneds = {}
  BY <1>1 DEF Webhooks!Bound, Planneds
<1>3. Webhooks!TypeOK
  <2>1. hooks \in Webhooks!Document
    BY DEF Webhooks!Init
  <2>2. endpoints \in Seq(Webhooks!Endpoint)
    <3>1. <<>> \in Seq(Webhooks!Endpoint)
      OBVIOUS
    <3>2. \A u \in Url : <<[url |-> u, live |-> TRUE, fits |-> FALSE]>> \in Seq(Webhooks!Endpoint)
      <4> TAKE u \in Url
      <4>1. [url |-> u, live |-> TRUE, fits |-> FALSE] \in Webhooks!Endpoint
        BY DEF Webhooks!Endpoint
      <4> QED BY <4>1
    <3> QED BY <3>1, <3>2 DEF Webhooks!Init
  <2>3. hosting \in [Slot -> Nat]
    BY DEF Webhooks!Init, Webhooks!Foreign, Webhooks!Assumption
  <2> QED BY <1>1, <2>1, <2>2, <2>3 DEF Webhooks!TypeOK
<1>4. TargetsDeclared /\ TurnFits /\ AllTracked /\ HashesFit /\ IdsFit
  BY <1>1, <1>2 DEF TargetsDeclared, TurnFits, AllTracked, HashesFit, IdsFit
<1> QED BY <1>3, <1>4 DEF WebhooksInv

LEMMA WebhooksStep == ASSUME Webhooks!Assumption, WebhooksInv, [Webhooks!Next]_Webhooks!vars PROVE WebhooksInv'
<1>1. CASE Webhooks!StartApply
  BY <1>1, WebhookStartApplyFits
<1>2. CASE Webhooks!Handler
  BY <1>2, WebhookBeginFits, DeleteFits, ClearFits, ConfigureFits, CreateFits, SyncFits, BindFits, UndoFits DEF Webhooks!Handler
<1>3. CASE Webhooks!Crash
  BY <1>3, CrashFits
<1>4. CASE Webhooks!EditSpec
  BY <1>4, WebhookEditSpecFits
<1>5. CASE Webhooks!Drift
  BY <1>5, WebhookDriftFits
<1>6. CASE UNCHANGED Webhooks!vars
  BY <1>6, StutterFits
<1> QED BY <1>1, <1>2, <1>3, <1>4, <1>5, <1>6 DEF Webhooks!Next

LEMMA WebhooksTrue == ASSUME WebhooksInv PROVE Webhooks!EndpointsAreKnown /\ Webhooks!InSyncIsTrue
<1>1. Webhooks!EndpointsAreKnown
  BY DEF WebhooksInv, AllTracked, Tracked, Webhooks!EndpointsAreKnown, Webhooks!Idle
<1>2. Webhooks!InSyncIsTrue
  <2> SUFFICES ASSUME NEW n \in Webhooks!Declared \cap Webhooks!Bound, Webhooks!Op(n, TRUE) = "noop", n \notin adopted, hooked[n].hash # 0
      PROVE hooked[n].id \in Webhooks!Live /\ hosting[hooked[n].slot] = hooked[n].id
    BY DEF Webhooks!InSyncIsTrue
  <2>1. Webhooks!BoundOp(n, TRUE) = "noop"
    BY DEF Webhooks!Op
  <2>2. hooked[n].slot = hooks[n].slot /\ hooked[n].id \in Webhooks!Live /\ hosting[hooks[n].slot] = hooked[n].hash
    BY <2>1 DEF Webhooks!BoundOp
  <2>3. hooked[n].hash = hooked[n].id
    BY DEF WebhooksInv, HashesFit
  <2> QED BY <2>2, <2>3
<1> QED BY <1>1, <1>2

-----------------------------------------------------------------------------
(***************************************************************************)
(* The files of the repository                                             *)
(***************************************************************************)
(* The inductive invariant: the types, what is known of other people's     *)
(* commits, and what an apply that takes the head for merged has seen.     *)
Listing == (SUBSET (Automation \cup Drill)) \cup {File!Unlisted}
Path == {Canonical} \cup Automation \cup Drill
Tree == [files : SUBSET Path, list : Listing]
Branch == [exists : BOOLEAN, files : SUBSET Path, list : Listing,
           fork : Tree, ahead : BOOLEAN, behind : BOOLEAN, theirs : BOOLEAN, merged : BOOLEAN]
Doing == [at : File!Writing \cup {"idle", "pulls", "closed", "recheck", "reset"}, spec : SUBSET (Automation \cup Drill),
          batch : BOOLEAN, base : Tree, old : BOOLEAN, saw : {"none", "base", "work"}, same : BOOLEAN,
          merged : BOOLEAN, pull : BOOLEAN, retired : SUBSET Path]

FilesTyped ==
  /\ declared \subseteq Automation \cup Drill /\ main \in Tree /\ branch \in Branch /\ pull \in BOOLEAN
  /\ doing \in [{Canonical} -> Doing] /\ troubles \in Nat
BranchFits == branch.theirs => branch.exists /\ branch.ahead /\ ~branch.merged
ApplyFits(d, theirs) ==
  /\ d.at # "idle" /\ d.merged /\ d.same => ~theirs
  /\ d.at \in {"recheck", "reset"} => d.merged
FilesInv == FilesTyped /\ BranchFits /\ \A e \in {Canonical} : ApplyFits(doing[e], branch.theirs)

-----------------------------------------------------------------------------
(* The operators of the model return what they should.                     *)
LEMMA StartFits == File!Absent \in Branch /\ File!Idle \in Doing /\ ~File!Absent.theirs /\ File!Idle.at = "idle"
<1>1. File!Empty \in Tree
  BY DEF File!Empty, Tree, Listing
<1> QED BY <1>1 DEF File!Absent, File!Idle, Branch, Doing, File!Empty, File!Writing, Listing

LEMMA AtFits == ASSUME NEW c \in Tree, NEW old \in BOOLEAN PROVE File!At(c, old) \in Branch /\ ~File!At(c, old).theirs
<1>1. c.files \in SUBSET Path /\ c.list \in Listing
  BY DEF Tree
<1>2. File!Absent \in Branch /\ ~File!Absent.theirs
  BY StartFits
<1> QED BY <1>1, <1>2 DEF File!At, Branch

LEMMA MovedFits ==
  ASSUME NEW d \in [{Canonical} -> Doing], NEW e \in {Canonical}
  PROVE  /\ File!Moved(d, e) \in [{Canonical} -> Doing] /\ File!MovedAll(d) \in [{Canonical} -> Doing] /\ File!MainMoved(d) \in [{Canonical} -> Doing]
         /\ File!Moved(d, e)[e] = d[e]
         /\ \A f \in {Canonical} : /\ File!Moved(d, e)[f].at = d[f].at /\ File!Moved(d, e)[f].merged = d[f].merged
                                   /\ File!Moved(d, e)[f].same => d[f].same
         /\ \A f \in {Canonical} : /\ File!MovedAll(d)[f].at = d[f].at /\ File!MovedAll(d)[f].merged = d[f].merged
                                   /\ File!MovedAll(d)[f].same /\ d[f].at # "idle" => FALSE
                                   /\ File!MovedAll(d)[f].same => d[f].same
         /\ \A f \in {Canonical} : /\ File!MainMoved(d)[f].at = d[f].at /\ File!MainMoved(d)[f].merged = d[f].merged
                                   /\ File!MainMoved(d)[f].same = d[f].same
<1>1. \A f \in {Canonical} : d[f] \in Doing
  OBVIOUS
<1>2. \A f \in {Canonical} :
        /\ [d[f] EXCEPT !.same = FALSE] \in Doing /\ [d[f] EXCEPT !.same = FALSE].at = d[f].at
        /\ [d[f] EXCEPT !.same = FALSE].merged = d[f].merged /\ [d[f] EXCEPT !.same = FALSE].same = FALSE
  BY <1>1 DEF Doing
<1>3. \A f \in {Canonical} :
        /\ [d[f] EXCEPT !.old = TRUE] \in Doing /\ [d[f] EXCEPT !.old = TRUE].at = d[f].at
        /\ [d[f] EXCEPT !.old = TRUE].merged = d[f].merged /\ [d[f] EXCEPT !.old = TRUE].same = d[f].same
  BY <1>1 DEF Doing
<1>4. File!Moved(d, e) \in [{Canonical} -> Doing] /\ File!MovedAll(d) \in [{Canonical} -> Doing] /\ File!MainMoved(d) \in [{Canonical} -> Doing]
  BY <1>1, <1>2, <1>3 DEF File!Moved, File!MovedAll, File!MainMoved
<1>5. /\ \A f \in {Canonical} : File!Moved(d, e)[f] = IF f = e \/ d[f].at = "idle" THEN d[f] ELSE [d[f] EXCEPT !.same = FALSE]
      /\ \A f \in {Canonical} : File!MovedAll(d)[f] = IF d[f].at = "idle" THEN d[f] ELSE [d[f] EXCEPT !.same = FALSE]
      /\ \A f \in {Canonical} : File!MainMoved(d)[f] = IF d[f].at = "idle" THEN d[f] ELSE [d[f] EXCEPT !.old = TRUE]
  BY DEF File!Moved, File!MovedAll, File!MainMoved
<1> QED BY <1>2, <1>3, <1>4, <1>5

LEMMA ToFits ==
  ASSUME NEW e \in {Canonical}, doing \in [{Canonical} -> Doing],
         NEW at \in File!Writing \cup {"idle", "pulls", "closed", "recheck", "reset"}
  PROVE  /\ File!To(e, at) \in Doing /\ File!To(e, at).at = at
         /\ File!To(e, at).merged = doing[e].merged /\ File!To(e, at).same = doing[e].same
<1>1. doing[e] \in Doing
  OBVIOUS
<1> QED BY <1>1 DEF File!To, Doing

(* A step of the apply of e, which does not learn more than it should.     *)
LEMMA ApplyStep ==
  ASSUME FilesInv, NEW e \in {Canonical}, NEW d \in Doing, doing' = File!With(e, d) \/ doing' = File!Moved(File!With(e, d), e),
         UNCHANGED <<declared, main, troubles>>, branch' \in Branch, pull' \in BOOLEAN, BranchFits',
         branch'.theirs => branch.theirs, ApplyFits(d, branch'.theirs)
  PROVE  FilesInv'
<1>1. /\ File!With(e, d) \in [{Canonical} -> Doing] /\ File!With(e, d)[e] = d
      /\ \A f \in {Canonical} \ {e} : File!With(e, d)[f] = doing[f]
  BY DEF File!With, FilesInv, FilesTyped
<1>2. /\ doing' \in [{Canonical} -> Doing] /\ doing'[e] = d
      /\ \A f \in {Canonical} \ {e} : /\ doing'[f].at = doing[f].at /\ doing'[f].merged = doing[f].merged
                                      /\ doing'[f].same => doing[f].same
  <2>1. CASE doing' = File!With(e, d)
    BY <1>1, <2>1
  <2>2. CASE doing' = File!Moved(File!With(e, d), e)
    <3> DEFINE w == File!With(e, d)
    <3>1. w \in [{Canonical} -> Doing] /\ w[e] = d /\ \A f \in {Canonical} \ {e} : w[f] = doing[f]
      BY <1>1
    <3> HIDE DEF w
    <3>2. /\ File!Moved(w, e) \in [{Canonical} -> Doing] /\ File!Moved(w, e)[e] = w[e]
          /\ \A f \in {Canonical} : /\ File!Moved(w, e)[f].at = w[f].at /\ File!Moved(w, e)[f].merged = w[f].merged
                                    /\ File!Moved(w, e)[f].same => w[f].same
      BY <3>1, MovedFits
    <3>3. doing' = File!Moved(w, e)
      BY <2>2 DEF w
    <3> QED BY <3>1, <3>2, <3>3
  <2> QED BY <2>1, <2>2
<1>3. ASSUME NEW f \in {Canonical} PROVE ApplyFits(doing'[f], branch'.theirs)
  <2>1. CASE f = e
    BY <1>2, <2>1
  <2>2. CASE f # e
    BY <1>2, <2>2 DEF ApplyFits, FilesInv
  <2> QED BY <2>1, <2>2
<1> QED BY <1>2, <1>3 DEF FilesInv, FilesTyped

(* An apply that ends knows nothing.                                       *)
LEMMA FileEndFits ==
  ASSUME FilesInv, NEW e \in {Canonical}, File!End(e), UNCHANGED <<declared, troubles>>
  PROVE  FilesInv'
<1>1. File!Idle \in Doing /\ ApplyFits(File!Idle, branch'.theirs)
  BY StartFits DEF ApplyFits
<1> QED BY <1>1, ApplyStep DEF File!End, File!github, FilesInv, FilesTyped, BranchFits

LEMMA GotoFits ==
  ASSUME FilesInv, NEW e \in {Canonical}, ~File!On(e, "idle"),
         NEW at \in File!Writing \cup {"idle", "pulls", "closed", "recheck"}, File!Goto(e, at),
         at = "recheck" => doing[e].merged, UNCHANGED <<declared, troubles>>
  PROVE  FilesInv'
<1>1. /\ File!To(e, at) \in Doing /\ File!To(e, at).at = at
      /\ File!To(e, at).merged = doing[e].merged /\ File!To(e, at).same = doing[e].same
  BY ToFits DEF FilesInv, FilesTyped
<1>2. at # "reset"
  BY DEF File!Writing
<1>3. UNCHANGED <<main, branch, pull>> /\ doing' = File!With(e, File!To(e, at))
  BY DEF File!Goto, File!github
<1>4. ApplyFits(File!To(e, at), branch'.theirs)
  BY <1>1, <1>2, <1>3 DEF ApplyFits, FilesInv, File!On
<1>5. branch' \in Branch /\ pull' \in BOOLEAN /\ BranchFits'
  BY <1>3 DEF FilesInv, FilesTyped, BranchFits
<1> QED BY <1>1, <1>3, <1>4, <1>5, ApplyStep

LEMMA FileBeginFits == ASSUME FilesInv, NEW e \in {Canonical}, File!Begin(e) PROVE FilesInv'
<1> DEFINE d == [File!Idle EXCEPT !.at = "pulls", !.spec = declared, !.batch = e \notin main.files,
                         !.base = main, !.merged = branch.merged,
                         !.saw = IF ~branch.exists THEN "none"
                                 ELSE IF branch.ahead \/ branch.behind THEN "work" ELSE "base"]
<1>1. doing' = File!With(e, d) /\ UNCHANGED <<declared, main, branch, pull, troubles>>
  BY DEF File!Begin, File!Kept, File!github
<1>2. d \in Doing /\ d.at = "pulls" /\ d.merged = branch.merged
  <2>1. branch.merged \in BOOLEAN /\ main \in Tree /\ declared \in SUBSET (Automation \cup Drill)
    BY DEF FilesInv, FilesTyped, Branch
  <2>2. File!Idle \in Doing
    BY StartFits
  <2>3. (IF ~branch.exists THEN "none" ELSE IF branch.ahead \/ branch.behind THEN "work" ELSE "base")
          \in {"none", "base", "work"}
    OBVIOUS
  <2> QED BY <2>1, <2>2, <2>3 DEF Doing
<1> HIDE DEF d
<1>3. ApplyFits(d, branch'.theirs)
  BY <1>1, <1>2 DEF ApplyFits, FilesInv, BranchFits
<1> QED BY <1>1, <1>2, <1>3, ApplyStep DEF FilesInv, FilesTyped, BranchFits

LEMMA CreateBranchFits == ASSUME FilesInv, NEW e \in {Canonical}, File!CreateBranch(e) PROVE FilesInv'
<1>1. doing[e].base \in Tree /\ doing[e].old \in BOOLEAN
  BY DEF FilesInv, FilesTyped, Doing
<1>2. File!At(doing[e].base, doing[e].old) \in Branch /\ ~File!At(doing[e].base, doing[e].old).theirs
  BY <1>1, AtFits
<1>3. File!To(e, "list") \in Doing /\ File!To(e, "list").at = "list"
  BY ToFits DEF FilesInv, FilesTyped, File!Writing
<1>4. CASE File!End(e)
  BY <1>4, FileEndFits DEF File!CreateBranch, File!Kept
<1>5. CASE ~File!End(e)
  <2>1. /\ branch' = File!At(doing[e].base, doing[e].old) /\ doing' = File!Moved(File!With(e, File!To(e, "list")), e)
        /\ UNCHANGED <<main, pull, declared, troubles>>
    BY <1>5 DEF File!CreateBranch, File!Kept
  <2>2. BranchFits' /\ ApplyFits(File!To(e, "list"), branch'.theirs)
    BY <1>2, <1>3, <2>1 DEF BranchFits, ApplyFits
  <2> QED BY <1>2, <1>3, <2>1, <2>2, ApplyStep DEF FilesInv, FilesTyped
<1> QED BY <1>4, <1>5

LEMMA JoinPullFits == ASSUME FilesInv, NEW e \in {Canonical}, File!JoinPull(e) PROVE FilesInv'
<1> DEFINE d == [File!To(e, "list") EXCEPT !.pull = TRUE]
<1>1. File!To(e, "list") \in Doing /\ File!To(e, "list").at = "list" /\ File!To(e, "list").merged = doing[e].merged
      /\ File!To(e, "list").same = doing[e].same
  BY ToFits DEF FilesInv, FilesTyped, File!Writing
<1>2. d \in Doing /\ d.at = "list" /\ d.merged = doing[e].merged /\ d.same = doing[e].same
  BY <1>1 DEF Doing
<1> HIDE DEF d
<1>3. CASE File!End(e)
  BY <1>3, FileEndFits DEF File!JoinPull, File!Kept
<1>4. CASE doing' = File!With(e, d) /\ UNCHANGED File!github
  <2>1. ApplyFits(d, branch'.theirs) /\ BranchFits'
    BY <1>2, <1>4 DEF ApplyFits, FilesInv, BranchFits, File!github, File!JoinPull, File!On
  <2> QED BY <1>2, <1>4, <2>1, ApplyStep DEF File!JoinPull, File!Kept, File!github, FilesInv, FilesTyped
<1> QED BY <1>3, <1>4 DEF File!JoinPull, d

LEMMA ForwardFits == ASSUME FilesInv, NEW e \in {Canonical}, File!Forward(e) PROVE FilesInv'
<1>1. doing[e].base \in Tree /\ doing[e].old \in BOOLEAN
  BY DEF FilesInv, FilesTyped, Doing
<1>2. File!At(doing[e].base, doing[e].old) \in Branch /\ ~File!At(doing[e].base, doing[e].old).theirs
  BY <1>1, AtFits
<1>3. ~branch.theirs
  BY DEF File!Forward, File!Behind, FilesInv, BranchFits
<1>4. branch' \in Branch /\ ~branch'.theirs
  BY <1>2, <1>3 DEF File!Forward, FilesInv, FilesTyped
<1> DEFINE d == IF doing[e].old THEN File!Idle ELSE File!To(e, "list")
<1>5. d \in Doing /\ d.at \in {"idle", "list"}
  BY ToFits, StartFits DEF FilesInv, FilesTyped, File!Writing
<1>6. doing' = File!Moved(File!With(e, d), e) /\ UNCHANGED <<declared, main, pull, troubles>>
  BY DEF File!Forward, File!Kept
<1> HIDE DEF d
<1>7. ApplyFits(d, branch'.theirs) /\ BranchFits'
  BY <1>4, <1>5 DEF ApplyFits, BranchFits
<1> QED BY <1>4, <1>5, <1>6, <1>7, ApplyStep DEF FilesInv, FilesTyped

LEMMA ReuseFits == ASSUME FilesInv, NEW e \in {Canonical}, File!Reuse(e) PROVE FilesInv'
<1>1. ~File!On(e, "idle") /\ UNCHANGED <<declared, troubles>>
  BY DEF File!Reuse, File!On, File!Kept
<1>2. CASE File!Goto(e, "list")
  BY <1>1, <1>2, GotoFits DEF File!Writing
<1>3. CASE File!Goto(e, "closed")
  BY <1>1, <1>3, GotoFits
<1>4. CASE File!End(e)
  BY <1>1, <1>4, FileEndFits
<1> QED BY <1>2, <1>3, <1>4 DEF File!Reuse

LEMMA LookAtClosedFits == ASSUME FilesInv, NEW e \in {Canonical}, File!LookAtClosed(e) PROVE FilesInv'
<1>1. ~File!On(e, "idle") /\ UNCHANGED <<declared, troubles>>
  BY DEF File!LookAtClosed, File!On, File!Kept
<1>2. CASE doing[e].merged /\ File!Goto(e, "recheck")
  BY <1>1, <1>2, GotoFits
<1>3. CASE File!End(e)
  BY <1>1, <1>3, FileEndFits
<1> QED BY <1>2, <1>3 DEF File!LookAtClosed, File!Proven

LEMMA RecheckFits == ASSUME FilesInv, NEW e \in {Canonical}, File!Recheck(e) PROVE FilesInv'
<1> DEFINE d == [File!To(e, "reset") EXCEPT !.base = main, !.old = FALSE, !.same = TRUE,
                                 !.saw = IF branch.exists THEN "work" ELSE "none"]
<1>1. File!To(e, "reset") \in Doing /\ File!To(e, "reset").at = "reset" /\ File!To(e, "reset").merged = doing[e].merged
  BY ToFits DEF FilesInv, FilesTyped, File!Writing
<1>2. d \in Doing /\ d.at = "reset" /\ d.merged = doing[e].merged
  BY <1>1 DEF Doing, FilesInv, FilesTyped
<1> HIDE DEF d
<1>3. CASE File!End(e)
  BY <1>3, FileEndFits DEF File!Recheck, File!Kept
<1>4. CASE ~(branch.exists /\ ~doing[e].same) /\ doing' = File!With(e, d) /\ UNCHANGED File!github
  <2>1. doing[e].merged /\ doing[e].at # "idle"
    BY DEF File!Recheck, File!On, FilesInv, ApplyFits
  <2>2. ~branch.theirs
    BY <1>4, <2>1 DEF FilesInv, ApplyFits, BranchFits
  <2>3. ApplyFits(d, branch'.theirs) /\ BranchFits'
    BY <1>2, <1>4, <2>1, <2>2 DEF ApplyFits, BranchFits, File!github
  <2> QED BY <1>2, <1>4, <2>3, ApplyStep DEF File!Recheck, File!Kept, File!github, FilesInv, FilesTyped
<1> QED BY <1>3, <1>4 DEF File!Recheck, d

LEMMA ResetFits == ASSUME FilesInv, NEW e \in {Canonical}, File!Reset(e) PROVE FilesInv'
<1>1. doing[e].base \in Tree /\ doing[e].old \in BOOLEAN
  BY DEF FilesInv, FilesTyped, Doing
<1>2. File!At(doing[e].base, doing[e].old) \in Branch /\ ~File!At(doing[e].base, doing[e].old).theirs
  BY <1>1, AtFits
<1>3. CASE File!End(e)
  BY <1>3, FileEndFits DEF File!Reset
<1>4. CASE ~File!End(e)
  <2> DEFINE d == IF doing[e].old THEN File!Idle ELSE File!To(e, "list")
  <2>1. d \in Doing /\ d.at \in {"idle", "list"}
    BY ToFits, StartFits DEF FilesInv, FilesTyped, File!Writing
  <2>2. /\ branch' = File!At(doing[e].base, doing[e].old) /\ pull' = FALSE /\ doing' = File!Moved(File!With(e, d), e)
        /\ UNCHANGED <<declared, main, troubles>>
    BY <1>4 DEF File!Reset
  <2> HIDE DEF d
  <2>3. ApplyFits(d, branch'.theirs) /\ BranchFits'
    BY <1>2, <2>1, <2>2 DEF ApplyFits, BranchFits
  <2> QED BY <1>2, <2>1, <2>2, <2>3, ApplyStep
<1> QED BY <1>3, <1>4

(* A commit keeps other people's work on the branch.                       *)
LEMMA CommitFits ==
  ASSUME FilesInv, NEW e \in {Canonical}, ~File!On(e, "idle"), NEW at \in File!Writing, NEW paths \in SUBSET Path,
         NEW list \in Listing, File!Commit(e, at, paths, list), File!Kept
  PROVE  FilesInv'
<1>1. /\ File!To(e, at) \in Doing /\ File!To(e, at).at = at
      /\ File!To(e, at).merged = doing[e].merged /\ File!To(e, at).same = doing[e].same
  BY ToFits DEF FilesInv, FilesTyped
<1>2. CASE File!Goto(e, at)
  BY <1>2, GotoFits DEF File!Kept, File!Writing
<1>3. CASE File!End(e)
  BY <1>3, FileEndFits DEF File!Kept
<1>4. CASE ~File!Goto(e, at) /\ ~File!End(e)
  <2>1. /\ branch' = [branch EXCEPT !.files = paths, !.list = list, !.ahead = TRUE, !.merged = FALSE]
        /\ doing' = File!Moved(File!With(e, File!To(e, at)), e) /\ branch.exists /\ UNCHANGED <<main, pull, declared, troubles>>
    BY <1>4 DEF File!Commit, File!Kept
  <2>2. branch' \in Branch /\ branch'.exists /\ branch'.ahead /\ ~branch'.merged /\ branch'.theirs = branch.theirs
    BY <2>1 DEF FilesInv, FilesTyped, Branch
  <2>3. ApplyFits(File!To(e, at), branch'.theirs)
    BY <1>1, <2>2 DEF FilesInv, ApplyFits, File!Writing, File!On
  <2> QED BY <1>1, <2>1, <2>2, <2>3, ApplyStep DEF FilesInv, FilesTyped, BranchFits
<1> QED BY <1>2, <1>3, <1>4

LEMMA DesiredFits ==
  ASSUME FilesInv, NEW e \in {Canonical}
  PROVE  File!Files(e) \in SUBSET (Automation \cup Drill) /\ File!Desired(e) \in SUBSET Path
<1>1. doing[e].spec \subseteq Automation \cup Drill
  BY DEF FilesInv, FilesTyped, Doing
<1> QED BY <1>1 DEF File!Files, File!Desired, Path

LEMMA WritingFits ==
  ASSUME FilesInv, NEW e \in {Canonical}, File!ReadManifest(e) \/ File!PutFiles(e) \/ File!RemoveFiles(e) \/ File!WriteManifest(e)
  PROVE  FilesInv'
<1>1. branch.files \in SUBSET Path /\ branch.list \in Listing
  BY DEF FilesInv, FilesTyped, Branch
<1>2. CASE File!ReadManifest(e)
  <2> DEFINE retired == IF File!Reconciles(e) /\ branch.list # File!Unlisted THEN branch.list \ File!Desired(e) ELSE {}
             d == [File!To(e, "put") EXCEPT !.retired = retired]
  <2>1. retired \in SUBSET Path
    <3>1. CASE branch.list = File!Unlisted
      BY <3>1
    <3>2. CASE branch.list \in SUBSET (Automation \cup Drill)
      BY <3>2 DEF Path
    <3> HIDE DEF retired
    <3> QED BY <1>1, <3>1, <3>2 DEF Listing
  <2>2. File!To(e, "put") \in Doing /\ File!To(e, "put").at = "put" /\ File!To(e, "put").merged = doing[e].merged
        /\ File!To(e, "put").same = doing[e].same
    BY ToFits DEF FilesInv, FilesTyped, File!Writing
  <2>3. doing' = File!With(e, d) /\ UNCHANGED <<main, branch, pull, declared, troubles>>
    BY <1>2 DEF File!ReadManifest, File!Kept, File!github
  <2> HIDE DEF retired
  <2>4. d \in Doing /\ d.at = "put" /\ d.merged = doing[e].merged /\ d.same = doing[e].same
    BY <2>1, <2>2 DEF Doing
  <2> HIDE DEF d
  <2>5. ApplyFits(d, branch'.theirs) /\ BranchFits'
    BY <1>2, <2>3, <2>4 DEF ApplyFits, FilesInv, BranchFits, File!ReadManifest, File!On
  <2> QED BY <2>3, <2>4, <2>5, ApplyStep DEF FilesInv, FilesTyped
<1>3. CASE File!PutFiles(e)
  <2>1. branch.files \cup File!Desired(e) \in SUBSET Path
    BY <1>1, DesiredFits
  <2> QED BY <1>1, <1>3, <2>1, CommitFits DEF File!PutFiles, File!On, File!Writing
<1>4. CASE File!RemoveFiles(e)
  <2>1. branch.files \ doing[e].retired \in SUBSET Path
    BY <1>1
  <2> QED BY <1>1, <1>4, <2>1, CommitFits DEF File!RemoveFiles, File!On, File!Writing
<1>5. CASE File!WriteManifest(e)
  <2>1. (IF File!Reconciles(e) THEN File!Files(e) ELSE branch.list) \in Listing
    BY <1>1, DesiredFits DEF Listing
  <2> QED BY <1>1, <1>5, <2>1, CommitFits DEF File!WriteManifest, File!On, File!Writing
<1> QED BY <1>2, <1>3, <1>4, <1>5

LEMMA OpenPullFits == ASSUME FilesInv, NEW e \in {Canonical}, File!OpenPull(e) PROVE FilesInv'
<1>1. File!Idle \in Doing /\ ApplyFits(File!Idle, branch'.theirs)
  BY StartFits DEF ApplyFits
<1>2. doing' = File!With(e, File!Idle) /\ UNCHANGED <<main, branch, declared, troubles>>
  BY DEF File!OpenPull, File!Kept
<1>3. pull' \in BOOLEAN
  BY DEF File!OpenPull
<1>4. branch' \in Branch /\ BranchFits' /\ branch'.theirs = branch.theirs
  BY <1>2 DEF FilesInv, FilesTyped, BranchFits
<1> QED BY <1>1, <1>2, <1>3, <1>4, ApplyStep

LEMMA FailFits == ASSUME FilesInv, NEW e \in {Canonical}, File!Fail(e) PROVE FilesInv'
<1>1. File!Idle \in Doing /\ ApplyFits(File!Idle, branch'.theirs)
  BY StartFits DEF ApplyFits
<1>2. doing' = File!With(e, File!Idle) /\ UNCHANGED <<main, branch, pull, declared>> /\ troubles' = troubles + 1
  BY DEF File!Fail, File!End, File!github, File!Trouble
<1>3. doing' \in [{Canonical} -> Doing] /\ doing'[e] = File!Idle /\ \A f \in {Canonical} \ {e} : doing'[f] = doing[f]
  BY <1>1, <1>2 DEF File!With, FilesInv, FilesTyped
<1>4. troubles' \in Nat
  BY <1>2 DEF FilesInv, FilesTyped
<1>5. \A f \in {Canonical} : ApplyFits(doing'[f], branch'.theirs)
  BY <1>1, <1>2, <1>3 DEF FilesInv
<1> QED BY <1>2, <1>3, <1>4, <1>5 DEF FilesInv, FilesTyped, BranchFits

(* What people do.                                                         *)
LEMMA PeopleFit ==
  ASSUME FilesInv, File!EditSpec \/ File!PushMain \/ File!PushBranch \/ File!Close \/ File!DeleteBranch
  PROVE  FilesInv'
<1>1. troubles' \in Nat
  BY DEF File!EditSpec, File!PushMain, File!PushBranch, File!Close, File!DeleteBranch, File!Trouble, FilesInv, FilesTyped
<1>2. doing \in [{Canonical} -> Doing] /\ branch \in Branch
  BY DEF FilesInv, FilesTyped
<1>3. CASE File!EditSpec \/ File!Close
  BY <1>1, <1>3 DEF File!EditSpec, File!Close, File!github, FilesInv, FilesTyped, BranchFits
<1>4. CASE File!PushMain
  <2>1. branch' \in Branch /\ branch'.theirs = branch.theirs /\ branch'.exists = branch.exists
        /\ branch'.ahead = branch.ahead /\ branch'.merged = branch.merged
    BY <1>2, <1>4 DEF File!PushMain, Branch
  <2>2. /\ doing' \in [{Canonical} -> Doing]
        /\ \A f \in {Canonical} : /\ doing'[f].at = doing[f].at /\ doing'[f].merged = doing[f].merged
                                  /\ doing'[f].same = doing[f].same
    <3>1. CASE {Canonical} = {}
      BY <1>2, <1>4, <3>1 DEF File!PushMain, File!MainMoved
    <3>2. ASSUME NEW e \in {Canonical} PROVE doing' \in [{Canonical} -> Doing] /\ 
            \A f \in {Canonical} : /\ doing'[f].at = doing[f].at /\ doing'[f].merged = doing[f].merged
                                   /\ doing'[f].same = doing[f].same
      BY <1>2, <1>4, MovedFits DEF File!PushMain
    <3> QED BY <3>1, <3>2
  <2>3. \A f \in {Canonical} : ApplyFits(doing'[f], branch'.theirs)
    BY <2>1, <2>2 DEF FilesInv, ApplyFits
  <2> QED BY <1>1, <1>4, <2>1, <2>2, <2>3 DEF File!PushMain, FilesInv, FilesTyped, BranchFits
<1>5. CASE File!PushBranch \/ File!DeleteBranch
  <2>1. doing' = File!MovedAll(doing) /\ UNCHANGED <<main, declared>> /\ pull' \in BOOLEAN
    BY <1>5 DEF File!PushBranch, File!DeleteBranch, FilesInv, FilesTyped
  <2>2. branch' \in Branch /\ BranchFits'
    BY <1>2, <1>5, StartFits DEF File!PushBranch, File!DeleteBranch, BranchFits, Branch
  <2>3. /\ doing' \in [{Canonical} -> Doing]
        /\ \A f \in {Canonical} : /\ doing'[f].at = doing[f].at /\ doing'[f].merged = doing[f].merged
                                  /\ doing'[f].same /\ doing[f].at # "idle" => FALSE
    <3>1. CASE {Canonical} = {}
      BY <1>2, <2>1, <3>1 DEF File!MovedAll
    <3>2. ASSUME NEW e \in {Canonical}
          PROVE  /\ doing' \in [{Canonical} -> Doing]
                 /\ \A f \in {Canonical} : /\ doing'[f].at = doing[f].at /\ doing'[f].merged = doing[f].merged
                                           /\ doing'[f].same /\ doing[f].at # "idle" => FALSE
      BY <1>2, <2>1, MovedFits
    <3> QED BY <3>1, <3>2
  <2>4. \A f \in {Canonical} : ApplyFits(doing'[f], branch'.theirs)
    BY <2>3 DEF FilesInv, ApplyFits
  <2> QED BY <1>1, <2>1, <2>2, <2>3, <2>4 DEF FilesInv, FilesTyped
<1> QED BY <1>3, <1>4, <1>5

(* What is merged is not overwritten any more.                             *)
LEMMA MergeFits == ASSUME FilesInv, File!Merge PROVE FilesInv'
<1>1. doing \in [{Canonical} -> Doing] /\ branch \in Branch /\ main \in Tree
  BY DEF FilesInv, FilesTyped
<1>2. branch' \in Branch /\ ~branch'.theirs
  <2>1. [files |-> branch.files, list |-> branch.list] \in Tree
    BY <1>1 DEF Branch, Tree
  <2> QED BY <1>1, <2>1, StartFits DEF File!Merge, Branch
<1>3. main' \in Tree
  <2>1. /\ branch.files \in SUBSET Path /\ main.files \in SUBSET Path
        /\ branch.list \in Listing
        /\ main.list \in Listing
    BY <1>1 DEF Branch, Tree
  <2>2. File!MergedFiles \in SUBSET Path /\ File!MergedList \in Listing
    BY <2>1 DEF File!MergedFiles, File!MergedList
  <2> QED BY <2>2 DEF File!Merge, Tree
<1> DEFINE d == [e \in {Canonical} |-> IF doing[e].at # "idle" /\ doing[e].same
                               THEN [doing[e] EXCEPT !.merged = TRUE] ELSE doing[e]]
           w == IF branch'.exists THEN d ELSE File!MovedAll(d)
<1>4. d \in [{Canonical} -> Doing] /\ \A f \in {Canonical} : d[f].at = doing[f].at /\ (doing[f].merged => d[f].merged)
  <2>1. \A f \in {Canonical} : doing[f] \in Doing
    BY <1>1
  <2>2. \A f \in {Canonical} : [doing[f] EXCEPT !.merged = TRUE] \in Doing /\ [doing[f] EXCEPT !.merged = TRUE].at = doing[f].at
                       /\ [doing[f] EXCEPT !.merged = TRUE].merged
    BY <2>1 DEF Doing
  <2> QED BY <2>1, <2>2
<1>5. doing' = File!MainMoved(w) /\ UNCHANGED <<declared, troubles>> /\ pull' = FALSE
  BY DEF File!Merge
<1> HIDE DEF d
<1>6. ASSUME NEW e \in {Canonical}
      PROVE  doing' \in [{Canonical} -> Doing] /\ \A f \in {Canonical} : doing'[f].at = doing[f].at /\ (doing[f].merged => doing'[f].merged)
  <2>1. w \in [{Canonical} -> Doing] /\ \A f \in {Canonical} : w[f].at = d[f].at /\ w[f].merged = d[f].merged
    BY <1>4, MovedFits
  <2> HIDE DEF w
  <2>2. File!MainMoved(w) \in [{Canonical} -> Doing] /\ \A f \in {Canonical} : File!MainMoved(w)[f].at = w[f].at /\ File!MainMoved(w)[f].merged = w[f].merged
    BY <2>1, MovedFits
  <2> QED BY <1>4, <1>5, <2>1, <2>2
<1>7. doing' \in [{Canonical} -> Doing]
  <2>1. CASE {Canonical} = {}
    BY <1>5, <2>1 DEF File!MainMoved
  <2> QED BY <1>6, <2>1
<1>8. \A f \in {Canonical} : ApplyFits(doing'[f], branch'.theirs)
  BY <1>2, <1>6 DEF ApplyFits, FilesInv
<1> QED BY <1>2, <1>3, <1>5, <1>7, <1>8 DEF FilesInv, FilesTyped, BranchFits

LEMMA FilesInit == ASSUME File!Init, MaxTroubles \in Nat PROVE FilesInv
<1>1. File!Absent \in Branch /\ File!Idle \in Doing /\ ~File!Absent.theirs /\ File!Idle.at = "idle"
  BY StartFits
<1>2. main \in Tree
  <2>1. PICK started \in BOOLEAN, deployed \in SUBSET {Canonical} :
          main = [files |-> deployed \cup IF started THEN declared ELSE {}, list |-> IF started THEN declared ELSE File!Unlisted]
    BY DEF File!Init
  <2>2. declared \in SUBSET (Automation \cup Drill)
    BY DEF File!Init
  <2>3. deployed \cup (IF started THEN declared ELSE {}) \in SUBSET Path
    BY <2>2 DEF Path
  <2>4. (IF started THEN declared ELSE File!Unlisted) \in Listing
    <3>1. CASE started
      BY <2>2, <3>1 DEF Listing
    <3>2. CASE ~started
      BY <3>2 DEF Listing
    <3> QED BY <3>1, <3>2
  <2> QED BY <2>1, <2>3, <2>4 DEF Tree
<1>3. FilesTyped
  BY <1>1, <1>2 DEF File!Init, FilesTyped
<1> QED BY <1>1, <1>3 DEF FilesInv, BranchFits, ApplyFits, File!Init

LEMMA FilesStep == ASSUME FilesInv, [File!Next]_File!vars PROVE FilesInv'
<1>1. ASSUME NEW e \in {Canonical}, File!Step(e) PROVE FilesInv'
  BY <1>1, CreateBranchFits, JoinPullFits, ForwardFits, ReuseFits, LookAtClosedFits, RecheckFits, ResetFits,
     WritingFits, OpenPullFits DEF File!Step
<1>2. CASE UNCHANGED File!vars
  BY <1>2 DEF File!vars, File!github, FilesInv, FilesTyped, BranchFits
<1> QED BY <1>1, <1>2, FileBeginFits, FailFits, PeopleFit, MergeFits DEF File!Next

(* What other people committed is overwritten by a late reset only.        *)
LEMMA Overwrites ==
  ASSUME FilesInv, File!Next, branch.theirs, ~branch'.theirs, ~branch'.merged, branch'.exists
  PROVE  \E e \in {Canonical} : File!On(e, "reset") /\ ~doing[e].same
<1>1. branch \in Branch /\ branch.exists /\ branch.ahead
  BY DEF FilesInv, FilesTyped, BranchFits
<1>2. \A e \in {Canonical} : ~File!CreateBranch(e) /\ ~File!Forward(e)
  BY <1>1 DEF File!CreateBranch, File!Forward, File!Behind, File!End, File!github
<1>3. ASSUME NEW e \in {Canonical}, NEW at, NEW paths, NEW list, File!Commit(e, at, paths, list) PROVE FALSE
  BY <1>1, <1>3 DEF File!Commit, File!Goto, File!End, File!github, Branch
<1>4. ASSUME NEW e \in {Canonical}, File!Step(e), ~File!Reset(e) PROVE FALSE
  <2>1. branch' # branch
    OBVIOUS
  <2> QED BY <1>2, <1>3, <1>4, <2>1 DEF File!Step, File!JoinPull, File!Reuse, File!LookAtClosed, File!Recheck, File!ReadManifest, File!PutFiles,
         File!RemoveFiles, File!WriteManifest, File!OpenPull, File!Goto, File!End, File!github
<1>5. PICK e \in {Canonical} : File!Reset(e)
  <2>1. branch' # branch
    OBVIOUS
  <2>2. \A e \in {Canonical} : ~File!Begin(e) /\ ~File!Fail(e)
    BY <2>1 DEF File!Begin, File!Fail, File!End, File!github
  <2>3. ~File!EditSpec /\ ~File!Close
    BY <2>1 DEF File!EditSpec, File!Close, File!github
  <2>4. ~File!PushMain /\ ~File!PushBranch
    BY <1>1 DEF File!PushMain, File!PushBranch, Branch
  <2>5. ~File!DeleteBranch
    BY DEF File!DeleteBranch, File!Absent
  <2>6. ~File!Merge
    <3>1. branch' # File!Absent
      BY DEF File!Absent
    <3>2. branch' # [branch EXCEPT !.behind = TRUE, !.theirs = FALSE, !.merged = TRUE]
      BY <1>1 DEF Branch
    <3>3. branch' # [branch EXCEPT !.behind = TRUE, !.theirs = FALSE, !.merged = TRUE, !.ahead = FALSE,
                                   !.fork = [files |-> branch.files, list |-> branch.list]]
      BY <1>1 DEF Branch
    <3> QED BY <3>1, <3>2, <3>3 DEF File!Merge
  <2> QED BY <1>4, <2>2, <2>3, <2>4, <2>5, <2>6 DEF File!Next
<1>6. doing[e].merged /\ doing[e].at = "reset"
  BY <1>5 DEF File!Reset, File!On, FilesInv, ApplyFits
<1>7. ~doing[e].same
  BY <1>6 DEF FilesInv, ApplyFits
<1> QED BY <1>5, <1>7 DEF File!Reset

-----------------------------------------------------------------------------
(***************************************************************************)
(* Side by side                                                            *)
(***************************************************************************)

(* Only the part that moves changes, by a step of its own.                 *)
LEMMA Parts ==
  ASSUME [MCNext]_<<part, vars, webhooks, files>>
  PROVE  /\ part' = part /\ [Next]_vars /\ [Webhooks!Next]_Webhooks!vars
         /\ part # "files" => [File!Next]_File!vars
         /\ part = "files" => [Files!Next]_Files!vars
<1>1. /\ UNCHANGED webhooks => UNCHANGED Webhooks!vars
      /\ UNCHANGED files => UNCHANGED File!vars /\ UNCHANGED Files!vars
  BY DEF webhooks, files, Webhooks!vars, Webhooks!provider, Webhooks!counters, File!vars, File!github, Files!vars, Files!github
<1> QED BY <1>1 DEF MCNext

(* A catalog and the webhooks start as they would alone.                   *)
LEMMA Starts ==
  ASSUME MCInit
  PROVE  CatalogInv /\ WebhooksInv /\ (part # "files" => FilesInv)
<1>1. Webhooks!Assumption /\ MaxTroubles \in Nat
  BY WebhooksAssumption, FilesAssumption DEF File!Assumption
<1> QED BY <1>1, CatalogInit, WebhooksInit, FilesInit DEF MCInit

(* A price is archived only after the services the plan reaches let go of  *)
(* it in the variables the plan sets and removes                           *)
(* (applyStripeHostingEnvSync, applyStripeCatalogAction), unless somebody  *)
(* set a variable meanwhile, or a key the plan keeps is bound to it too.   *)
THEOREM ArchiveComesLast == MCSpec => ArchivesAfterHosting
<1>1. CatalogInv /\ [MCNext]_<<part, vars, webhooks, files>> => CatalogInv'
  BY Parts, CatalogStep
<1>2. CatalogInv /\ [MCNext]_<<part, vars, webhooks, files>> =>
        [\A i \in DOMAIN price : Archiving(i) /\ ~Shared(i) => Reached(i) \subseteq touched]_vars
  BY Parts, ArchivesUncarried
<1> QED BY <1>1, <1>2, Starts, PTL DEF MCSpec, ArchivesAfterHosting

(* Every endpoint an apply made and left is bound or was reported as lost, *)
(* and a webhook that planning finds in sync has a live endpoint whose     *)
(* secret its service uses, if the hash in the binding is one Hypervibe    *)
(* wrote (planStripeWebhookActions, applyStripeWebhookAction).             *)
THEOREM WebhooksTracked == MCSpec => []WebhooksAreTrue
<1>1. Webhooks!Assumption
  BY WebhooksAssumption
<1>2. WebhooksInv /\ [MCNext]_<<part, vars, webhooks, files>> => WebhooksInv'
  BY <1>1, Parts, WebhooksStep
<1>3. WebhooksInv => WebhooksAreTrue
  BY WebhooksTrue DEF WebhooksAreTrue
<1> QED BY <1>2, <1>3, Starts, PTL DEF MCSpec

(* Where several environments are applied nobody else commits.             *)
NobodyElse == "theirs" \in DOMAIN branch /\ branch.theirs = FALSE /\ troubles \in Nat

LEMMA NobodyStarts == ASSUME Files!Init PROVE NobodyElse
<1> QED BY DEF Files!Init, Files!Absent, NobodyElse

LEMMA NobodyStep == ASSUME NobodyElse, [Files!Next]_Files!vars PROVE NobodyElse'
<1>1. ~Files!Trouble
  BY DEF Files!Trouble, NobodyElse
<1>2. ASSUME NEW c, NEW old PROVE "theirs" \in DOMAIN Files!At(c, old) /\ Files!At(c, old).theirs = FALSE
  BY DEF Files!At, Files!Absent
<1>3. ASSUME branch' = branch, troubles' = troubles PROVE NobodyElse'
  BY <1>3 DEF NobodyElse
<1>4. ASSUME NEW e \in Owners, NEW at, NEW paths, NEW list, Files!Commit(e, at, paths, list), Files!Kept PROVE NobodyElse'
  BY <1>4 DEF NobodyElse, Files!Commit, Files!Goto, Files!End, Files!github, Files!Kept
<1>5. ASSUME NEW e \in Owners, Files!Step(e) PROVE NobodyElse'
  <2>1. CASE Files!CreateBranch(e) \/ Files!Forward(e) \/ Files!Reset(e)
    <3>1. troubles' = troubles
      BY <2>1 DEF Files!CreateBranch, Files!Forward, Files!Reset, Files!Kept
    <3>2. branch' = branch \/ branch' = Files!At(doing[e].base, doing[e].old)
      BY <2>1 DEF Files!CreateBranch, Files!Forward, Files!Reset, Files!End, Files!github
    <3> QED BY <1>2, <3>1, <3>2 DEF NobodyElse
  <2>2. CASE Files!PutFiles(e) \/ Files!RemoveFiles(e) \/ Files!WriteManifest(e)
    BY <1>4, <2>2 DEF Files!PutFiles, Files!RemoveFiles, Files!WriteManifest
  <2>3. CASE Files!JoinPull(e) \/ Files!Reuse(e) \/ Files!LookAtClosed(e) \/ Files!Recheck(e)
               \/ Files!ReadManifest(e) \/ Files!OpenPull(e)
    BY <1>3, <2>3 DEF Files!JoinPull, Files!Reuse, Files!LookAtClosed, Files!Recheck, Files!ReadManifest,
       Files!OpenPull, Files!Goto, Files!End, Files!github, Files!Kept
  <2> QED BY <1>5, <2>1, <2>2, <2>3 DEF Files!Step
<1>6. CASE \E e \in Owners : Files!Begin(e)
  BY <1>3, <1>6 DEF Files!Begin, Files!Kept, Files!github
<1>7. CASE Files!Merge
  <2>1. troubles' = troubles
    BY <1>7 DEF Files!Merge
  <2>2. CASE branch' = Files!Absent
    BY <2>1, <2>2 DEF Files!Absent, NobodyElse
  <2>3. CASE branch' # Files!Absent
    <3> DEFINE kept == [branch EXCEPT !.behind = TRUE, !.theirs = FALSE, !.merged = TRUE]
               left == [branch EXCEPT !.behind = TRUE, !.theirs = FALSE, !.merged = TRUE, !.ahead = FALSE,
                                      !.fork = [files |-> branch.files, list |-> branch.list]]
    <3>1. branch' = kept \/ branch' = left
      BY <1>7, <2>3 DEF Files!Merge
    <3>2. "theirs" \in DOMAIN kept /\ kept.theirs = FALSE /\ "theirs" \in DOMAIN left /\ left.theirs = FALSE
      BY DEF NobodyElse
    <3> HIDE DEF kept, left
    <3> QED BY <2>1, <3>1, <3>2 DEF NobodyElse
  <2> QED BY <2>2, <2>3
<1>8. CASE UNCHANGED Files!vars
  BY <1>3, <1>8 DEF Files!vars, Files!github
<1> QED BY <1>1, <1>5, <1>6, <1>7, <1>8
        DEF Files!Next, Files!Fail, Files!EditSpec, Files!PushMain, Files!PushBranch, Files!Close, Files!DeleteBranch

(* What somebody else committed to the branch of the managed files and     *)
(* nobody merged is overwritten by a reset only, of an apply that had      *)
(* looked at the head before the commit was pushed                         *)
(* (reconcileGitHubInfrastructureBranch).                                  *)
THEOREM NobodyIsOverwritten == MCSpec => OverwritesOnlyUnseen
<1> DEFINE Inv == (part # "files" => FilesInv) /\ (part = "files" => NobodyElse)
<1>1. MCInit => Inv
  BY Starts, NobodyStarts DEF MCInit
<1>2. Inv /\ [MCNext]_<<part, vars, webhooks, files>> => Inv'
  BY Parts, FilesStep, NobodyStep
<1>3. Inv /\ [MCNext]_<<part, vars, webhooks, files>> =>
        [branch.theirs /\ ~branch'.theirs /\ ~branch'.merged /\ branch'.exists =>
           \E e \in {Canonical} : File!On(e, "reset") /\ ~doing[e].same]_File!vars
  <2>1. CASE part # "files"
    BY <2>1, Parts, Overwrites
  <2>2. CASE part = "files"
    BY <2>2 DEF NobodyElse
  <2> QED BY <2>1, <2>2
<1> HIDE DEF Inv
<1> QED BY <1>1, <1>2, <1>3, PTL DEF MCSpec, OverwritesOnlyUnseen, File!OverwritesOnlyUnseen
=============================================================================
