--------------------------- MODULE StripeCatalog ----------------------------
(***************************************************************************)
(* The Stripe catalog of an environment: one product with its recurring    *)
(* prices, the hosting variables that carry their ids, and the binding     *)
(* (stripe-env.service.ts). A plan ensures the product, then its prices,   *)
(* then what the services carry, and archives what is left over. What an   *)
(* action does at Stripe and the binding written after it are one step,    *)
(* which can also end before the binding is written.  A user may point the *)
(* connection to another account, where nothing is that is bound; products *)
(* made twice there, after a lost answer, are not told apart.              *)
(***************************************************************************)
EXTENDS Naturals, Sequences, FiniteSets

CONSTANTS
  PriceKey,  \* names of prices in the spec
  Service,   \* services of the environment
  EnvVar,    \* hosting variables
  Tuple,     \* amount, currency and interval of a price
  None,      \* what is not declared, or has no metadata
  MaxIds, MaxEdits, MaxFaults

ASSUME Assumption == None \notin Tuple \cup PriceKey /\ MaxIds \in Nat

VARIABLES
  var,      \* the variable that receives the id of a price
  spec,     \* [prices, services, rest]: the Stripe part of the spec and what else it declares
  product,  \* the product at Stripe: "absent", "active" or "archived"
  price,    \* the prices at Stripe, by id: tuple, key in the metadata and of the
            \* lookup_key, active
  gone,     \* those of an account that is connected no more
  key,      \* idempotency keys Stripe remembers: the price made with one, 0 if none
  carried,  \* the price id in a service's variable, 0 if none
  known,    \* is the product bound: "no", "yes", or to one that is absent, "gone"
  bound,    \* the price a key is bound to, 0 if none
  todo,     \* actions of the running apply that are not noops
  plan,     \* [spec, price, ids, remove, product]: what they were planned from
  touched,  \* services whose variables a user set since the plan: for properties only
  edits,
  faults    \* lost answers, crashes, refusals and changes made by hand

stripe == <<product, price, gone, key>>
binding == <<known, bound>>
counters == <<edits, faults>>
vars == <<var, spec, stripe, carried, binding, todo, plan, touched, counters>>

Declared(s) == {k \in PriceKey : s.prices[k] # None}
Bound == {k \in PriceKey : bound[k] # 0}
Vars(ks) == {var[k] : k \in ks}

(* A variable belongs to one price, and a service list is not empty. What  *)
(* else is declared matters only beside no price.                          *)
Valid(s) ==
  /\ s.services # {}
  /\ Declared(s) # {} => s.rest = "nothing"
  /\ \A k, l \in Declared(s) : k # l => var[k] # var[l]
Document == [prices : [PriceKey -> Tuple \cup {None}], services : SUBSET Service,
             rest : {"nothing", "webhooks", "credentials"}]

(* The services that receive the variables: none when the spec declares no *)
(* variable, all of them when it declares no Stripe.                       *)
Targets(s) ==
  IF Declared(s) # {} \/ s.rest = "credentials" THEN s.services
  ELSE IF s.rest = "webhooks" THEN {} ELSE Service

Init ==
  /\ var \in [PriceKey -> EnvVar]
  /\ spec \in {s \in Document : Valid(s) /\ Declared(s) # {}}
  /\ \/ product = "absent" /\ price = <<>>
     \/ product = "active" /\ \E t \in Tuple : price = <<[tuple |-> t, key |-> None, lookup |-> None, active |-> TRUE]>>
  /\ key = [k \in PriceKey |-> 0] /\ carried = [s \in Service |-> [v \in EnvVar |-> 0]]
  /\ gone = {} /\ known = "no" /\ bound = [k \in PriceKey |-> 0]
  /\ todo = {} /\ plan = [spec |-> spec, ids |-> [v \in EnvVar |-> 0], remove |-> {}, product |-> "no", price |-> bound]
  /\ touched = {}
  /\ edits = 0 /\ faults = 0

-----------------------------------------------------------------------------
(* planStripeCatalogActions: the bound identity first, then what carries   *)
(* Hypervibe's metadata, then what looks the same.                         *)
ProductOp ==
  CASE Declared(spec) = {} -> "noop"
    [] Declared(spec) # {} /\ known = "gone" -> "replace"
    [] Declared(spec) # {} /\ known = "yes" -> IF product = "active" THEN "noop" ELSE "update"
    [] OTHER -> IF product = "absent" THEN "create" ELSE "adopt"

Live == DOMAIN price \ gone
Candidates(k) ==
  LET own == {i \in Live : price[i].key = k}
  IN  IF own # {} THEN own ELSE {i \in Live : price[i].tuple = spec.prices[k]}

PriceOp(k) ==
  IF bound[k] # 0
  THEN IF bound[k] \in gone \/ price[bound[k]].tuple # spec.prices[k] THEN "replace"
       ELSE IF price[bound[k]].active THEN "noop" ELSE "update"
  ELSE CASE Cardinality(Candidates(k)) = 0 -> "create"
         [] Cardinality(Candidates(k)) = 1 -> "adopt"
         [] OTHER -> "blocked"

(* resolveStripeCatalogEnvValues: the ids the services are to carry.       *)
Resolved(s) ==
  [v \in EnvVar |->
     LET fit == {k \in Declared(s) \cap Bound :
                   /\ var[k] = v /\ known = "yes" /\ product = "active" /\ bound[k] \notin gone
                   /\ price[bound[k]].active /\ price[bound[k]].tuple = s.prices[k]}
     IN  IF fit = {} THEN 0 ELSE bound[CHOOSE k \in fit : TRUE]]

Changing ==
  {a \in {<<"product", ProductOp>>} \cup {<<"price", PriceOp(k), k>> : k \in Declared(spec)} :
     a[2] # "noop"}
Retired(s) == Vars(Bound) \ Vars(Declared(s))

InSync(s) ==
  /\ Changing = {}
  /\ \A v \in Vars(Declared(spec)) : Resolved(spec)[v] # 0 /\ carried[s][v] = Resolved(spec)[v]
  /\ \A v \in Retired(spec) : carried[s][v] = 0

(* A price that is absent is replaced and has nothing to archive.          *)
Archives ==
  {<<"archive", "replaced", k>> :
     k \in {k \in Declared(spec) \cap Bound : PriceOp(k) = "replace" /\ bound[k] \notin gone}}
    \cup {<<"archive", "removed", k>> : k \in Bound \ Declared(spec)}
    \cup IF known # "no" /\ Declared(spec) = {} THEN {<<"retire", "product">>} ELSE {}

Planned ==
  Changing \cup {<<"hosting", "update", s>> : s \in {s \in Targets(spec) : ~InSync(s)}} \cup Archives

(* The plan is made anew here: it is compared with Stripe before it is     *)
(* applied. The variables to remove are those of the binding it was made   *)
(* from.                                                                   *)
StartApply ==
  /\ todo = {} /\ Planned # {} /\ todo' = Planned
  /\ plan' = [spec |-> spec, ids |-> Resolved(spec), remove |-> Retired(spec), product |-> known,
              price |-> [k \in PriceKey |->
                           IF bound[k] # 0 THEN bound[k]
                           ELSE IF k \in Declared(spec) /\ PriceOp(k) = "adopt"
                           THEN CHOOSE i \in Candidates(k) : TRUE ELSE 0]]
  /\ touched' = {} /\ UNCHANGED <<var, spec, stripe, carried, binding, counters>>

-----------------------------------------------------------------------------
(* Mutated form: prices are archived before the services are updated.      *)
BadRank(a) ==
  CASE a[1] = "product" -> 1 [] a[1] = "price" -> 2 [] a[1] = "hosting" -> 4
    [] a[1] = "archive" -> 3 [] a[1] = "retire" -> 5
Rank(a) ==
  CASE a[1] = "product" -> 1 [] a[1] = "price" -> 2 [] a[1] = "hosting" -> 3
    [] a[1] = "archive" -> 4 [] a[1] = "retire" -> 5
Turn(a) == a \in todo /\ \A b \in todo : Rank(a) <= Rank(b)

Done(a) == todo' = todo \ {a} /\ UNCHANGED counters
(* An action that fails ends the apply.                                    *)
Refused == todo' = {} /\ UNCHANGED <<stripe, carried, binding, touched, counters>>
(* So do an answer that is lost and a crash: nothing is recorded.          *)
Broken ==
  /\ todo' = {} /\ faults < MaxFaults /\ faults' = faults + 1
  /\ UNCHANGED <<binding, edits>>

EnsureProduct(op) ==
  /\ Turn(<<"product", op>>) /\ product' = "active"
  /\ \/ Done(<<"product", op>>) /\ known' = "yes" /\ UNCHANGED bound
     \/ Broken
  /\ UNCHANGED <<price, gone, key, carried, touched>>

(* Prices that hold the lookup_key Hypervibe gives to a key: those it made *)
(* for it.                                                                 *)
Holders(k) == {i \in Live : price[i].lookup = k}

(* createPrice. The idempotency key is the id of the action: Stripe answers *)
(* it again with the price it made, and refuses it for another price. It   *)
(* refuses a lookup_key an active price holds, which no request transfers. *)
CreatePrice(op, k) ==
  LET t == plan.spec.prices[k]
  IN  /\ Turn(<<"price", op, k>>) /\ op \in {"create", "replace"}
      /\ UNCHANGED <<product, gone, carried, touched>>
      /\ \/ /\ key[k] = 0 /\ Len(price) < MaxIds /\ \A i \in Holders(k) : ~price[i].active
            /\ price' = Append(price, [tuple |-> t, key |-> k, lookup |-> k, active |-> TRUE])
            /\ key' = [key EXCEPT ![k] = Len(price')]
            /\ \/ Done(<<"price", op, k>>) /\ bound' = [bound EXCEPT ![k] = Len(price')] /\ UNCHANGED known
               \/ Broken
         \/ /\ key[k] # 0 /\ price[key[k]].tuple = t /\ UNCHANGED <<price, key>>
            /\ Done(<<"price", op, k>>) /\ bound' = [bound EXCEPT ![k] = key[k]] /\ UNCHANGED known

(* Stripe may also count the prices that are archived.                     *)
KeyRefused(op, k) ==
  /\ Turn(<<"price", op, k>>) /\ op \in {"create", "replace"}
  /\ \/ key[k] # 0 /\ price[key[k]].tuple # plan.spec.prices[k]
     \/ key[k] = 0 /\ Holders(k) # {}
  /\ Refused

(* An adoption or a reactivation looks at the price it was planned for.    *)
AdoptPrice(op, k) ==
  LET i == plan.price[k]
  IN  /\ Turn(<<"price", op, k>>) /\ op \in {"adopt", "update"}
      /\ price[i].tuple = plan.spec.prices[k]
      /\ price' = [price EXCEPT ![i].active = TRUE, ![i].key = IF price[i].active /\ op = "adopt" THEN @ ELSE k]
      /\ \/ Done(<<"price", op, k>>) /\ bound' = [bound EXCEPT ![k] = i] /\ UNCHANGED known
         \/ Broken
      /\ UNCHANGED <<product, gone, key, carried, touched>>

PriceRefused(op, k) ==
  /\ Turn(<<"price", op, k>>)
  /\ \/ op = "blocked"
     \/ op \in {"adopt", "update"} /\ price[plan.price[k]].tuple # plan.spec.prices[k]
  /\ Refused

-----------------------------------------------------------------------------
(* applyStripeHostingEnvSync: what was resolved in planning must still be  *)
(* so; retired variables go first.                                         *)
Current == \A v \in EnvVar : plan.ids[v] # 0 => Resolved(plan.spec)[v] = plan.ids[v]
Complete == \A v \in Vars(Declared(plan.spec)) : Resolved(plan.spec)[v] # 0

Removed(s) == [v \in EnvVar |-> IF v \in plan.remove THEN 0 ELSE carried[s][v]]
Synced(s) ==
  [v \in EnvVar |-> IF v \in Vars(Declared(plan.spec)) THEN Resolved(plan.spec)[v] ELSE Removed(s)[v]]

SyncHosting(s) ==
  /\ Turn(<<"hosting", "update", s>>) /\ Current /\ Complete
  /\ \/ carried' = [carried EXCEPT ![s] = Synced(s)] /\ Done(<<"hosting", "update", s>>) /\ UNCHANGED binding
     \/ carried' \in {[carried EXCEPT ![s] = Removed(s)], [carried EXCEPT ![s] = Synced(s)]} /\ Broken
  /\ UNCHANGED <<stripe, touched>>

HostingRefused(s) == Turn(<<"hosting", "update", s>>) /\ ~(Current /\ Complete) /\ Refused

(* A price is archived under the product it was planned for: not when that *)
(* was just replaced.                                                      *)
ArchiveRefused(why, k) == Turn(<<"archive", why, k>>) /\ plan.product # known /\ Refused

(* A replaced price is archived if nothing is bound to it any more, a      *)
(* removed one if it is still bound; only the removal changes the binding, *)
(* of a price that is absent, too.                                         *)
ArchivePrice(why, k) ==
  LET i == plan.price[k]
  IN  /\ Turn(<<"archive", why, k>>) /\ plan.product = known
      /\ IF why = "replaced" THEN bound[k] # i ELSE bound[k] = i
      /\ price' = IF i \in gone THEN price ELSE [price EXCEPT ![i].active = FALSE]
      /\ \/ /\ Done(<<"archive", why, k>>) /\ UNCHANGED known
            /\ bound' = IF why = "replaced" THEN bound ELSE [bound EXCEPT ![k] = 0]
         \/ Broken
      /\ UNCHANGED <<product, gone, key, carried, touched>>

ArchiveProduct ==
  /\ Turn(<<"retire", "product">>) /\ Bound = {}
  /\ product' = IF known = "yes" THEN "archived" ELSE product
  /\ \/ Done(<<"retire", "product">>) /\ known' = "no" /\ UNCHANGED bound
     \/ Broken
  /\ UNCHANGED <<price, gone, key, carried, touched>>

(* An action that is not confirmed, fails or is interrupted.               *)
Stop == todo # {} /\ Broken /\ UNCHANGED <<stripe, carried, touched>>

Step ==
  \/ \E op \in {"create", "adopt", "update", "replace"} : EnsureProduct(op)
  \/ \E k \in PriceKey, op \in {"create", "replace", "adopt", "update", "blocked"} :
       CreatePrice(op, k) \/ KeyRefused(op, k) \/ AdoptPrice(op, k) \/ PriceRefused(op, k)
  \/ \E s \in Service : SyncHosting(s) \/ HostingRefused(s)
  \/ \E k \in PriceKey, why \in {"replaced", "removed"} : ArchivePrice(why, k) \/ ArchiveRefused(why, k)
  \/ ArchiveProduct
Handler == Step /\ UNCHANGED <<var, spec, plan>>
Interrupt == Stop /\ UNCHANGED <<var, spec, plan>>

-----------------------------------------------------------------------------
EditSpec ==
  /\ todo = {} /\ edits < MaxEdits /\ edits' = edits + 1
  /\ spec' \in {s \in Document : Valid(s)} \ {spec}
  /\ UNCHANGED <<var, stripe, carried, binding, todo, plan, touched, faults>>

(* A user points the connection to an account where nothing is that        *)
(* matches: what is bound is absent there.                                 *)
Retarget ==
  /\ todo = {} /\ faults < MaxFaults /\ faults' = faults + 1
  /\ product' = "absent" /\ gone' = DOMAIN price /\ key' = [k \in PriceKey |-> 0]
  /\ known' = IF known = "no" THEN "no" ELSE "gone"
  /\ UNCHANGED <<var, spec, price, carried, bound, todo, plan, touched, edits>>

(* A user archives a price or the product, or sets a variable.             *)
Drift ==
  /\ faults < MaxFaults /\ faults' = faults + 1
  /\ \/ \E i \in Live :
          /\ price[i].active /\ price' = [price EXCEPT ![i].active = FALSE]
          /\ UNCHANGED <<product, gone, key, carried, touched>>
     \/ product = "active" /\ product' = "archived" /\ UNCHANGED <<price, gone, key, carried, touched>>
     \/ \E s \in Service, v \in EnvVar, i \in 0..Len(price) :
          /\ carried' = [carried EXCEPT ![s][v] = i] /\ touched' = touched \cup {s}
          /\ UNCHANGED stripe
  /\ UNCHANGED <<var, spec, binding, todo, plan, edits>>

(* Stripe forgets idempotency keys after a day.                            *)
Forget ==
  /\ \E k \in PriceKey : key[k] # 0 /\ key' = [key EXCEPT ![k] = 0]
  /\ UNCHANGED <<var, spec, product, price, gone, carried, binding, todo, plan, touched, counters>>

Next == StartApply \/ Handler \/ Interrupt \/ EditSpec \/ Retarget \/ Drift \/ Forget

(* Handlers go on, a user applies what is planned, and keys expire.        *)
Spec == Init /\ [][Next]_vars /\ WF_vars(Handler) /\ WF_vars(StartApply)
         /\ WF_vars(Forget)
-----------------------------------------------------------------------------
Carriers(i) == {s \in Service : \E v \in EnvVar : carried[s][v] = i}
Archiving(i) == todo' # todo /\ price[i].active /\ ~price'[i].active

(* Hypervibe archives a price only when no service carries it any more.    *)
ArchivesOnlyUnused == [][\A i \in DOMAIN price : Archiving(i) => Carriers(i) = {}]_vars

(* ... in the variables its plan sets and removes, of the services it      *)
(* reaches, unless somebody sets them meanwhile, or a key the plan keeps   *)
(* is bound to it too. A variable a service was left with when it, or the  *)
(* key, was no longer declared is known to no plan.                        *)
Shared(i) == \E k \in Declared(plan.spec) : bound[k] = i
Reached(i) ==
  {s \in Targets(plan.spec) : \E v \in Vars(Declared(plan.spec)) \cup plan.remove : carried[s][v] = i}
ArchivesAfterHosting ==
  [][\A i \in DOMAIN price : Archiving(i) /\ ~Shared(i) => Reached(i) \subseteq touched]_vars

(* What a plan proposes to adopt is an exact match.                        *)
AdoptsExactMatches ==
  todo = {} => \A k \in Declared(spec) :
    PriceOp(k) = "adopt" => \A i \in Candidates(k) : price[i].tuple = spec.prices[k]

(* Applied again and again, a catalog is what the spec says, unless its    *)
(* plan asks a user to choose among prices or adopts one that differs, or  *)
(* a price Hypervibe made holds the lookup_key of the one to make: the     *)
(* amount of such a price cannot be changed by applying.                   *)
Stuck == \E k \in Declared(spec) :
  \/ PriceOp(k) = "blocked"
  \/ PriceOp(k) \in {"create", "replace"} /\ Holders(k) # {}
  \/ PriceOp(k) = "adopt" /\ \E i \in Candidates(k) : price[i].tuple # spec.prices[k]
Converged == todo = {} => Planned = {} \/ Stuck \/ Len(price) = MaxIds
CatalogConverges == <>[]Converged
=============================================================================
