--------------------------- MODULE StripeWebhooks ----------------------------
(***************************************************************************)
(* The Stripe webhooks of an environment (stripe-env.service.ts): one      *)
(* endpoint at Stripe per name, whose signing secret Stripe shows once, on *)
(* creation, and which is written to a variable of a service, its slot.    *)
(* The secret of endpoint i is called i; 0 is no value. An endpoint whose  *)
(* secret is gone is deleted and created anew.                             *)
(***************************************************************************)
EXTENDS Naturals, Sequences, FiniteSets

CONSTANTS
  Name, Url, Slot,
  None,  \* no declaration, no binding, no handler at work
  MaxIds, MaxEdits, MaxFaults

Wanted == [url : Url, slot : Slot]
Endpoint == [url : Url, live : BOOLEAN, fits : BOOLEAN]
Binding == [id : Nat, slot : Slot, hash : Nat]
Action ==
  [name : Name, op : {"create", "adopt", "update", "replace", "destroy", "blocked"}, id : Nat, hash : Nat]
Work == [act : Action, new : Nat,
  at : {"delete", "clear", "configure", "create", "sync", "record", "undo", "undo silent"}]
Assumption == MaxIds \in Nat \ {0} /\ None \notin Wanted \cup Binding \cup Work

VARIABLES
  spec,      \* [url, slot] of a declared name
  endpoints, \* endpoints at Stripe, by id: url, live, and do events and status fit?
  hosting,   \* the value of a slot: a secret, Foreign or 0
  binding,   \* of a name: [id, slot, hash]
  todo,      \* actions of the running apply that are not noops
  handler,   \* [act, at, new]: the action at work, what it does next, what it created
  made,      \* endpoints that an apply created: for properties only
  lost,      \* endpoints whose creation was interrupted: for properties only
  adopted,   \* names bound by adoption: for properties only
  edits,
  faults     \* lost answers, crashes and changes made by hand

provider == <<endpoints, hosting>>
counters == <<edits, faults>>
vars == <<spec, provider, binding, todo, handler, made, lost, adopted, counters>>

Foreign == MaxIds + 1
Declared == {n \in Name : spec[n] # None}
Bound == {n \in Name : binding[n] # None}
Live == {i \in DOMAIN endpoints : endpoints[i].live}
At(u) == {i \in Live : endpoints[i].url = u}

(* A URL and a slot belong to one name.                                    *)
Valid(s) ==
  \A m, n \in Name : s[m] # None /\ s[n] # None /\ m # n => s[m].url # s[n].url /\ s[m].slot # s[n].slot
Document == {s \in [Name -> Wanted \cup {None}] : Valid(s)}

TypeOK ==
  /\ spec \in Document /\ endpoints \in Seq(Endpoint) /\ hosting \in [Slot -> Nat]
  /\ binding \in [Name -> Binding \cup {None}]
  /\ todo \subseteq Action /\ handler \in Work \cup {None}

Init ==
  /\ spec \in {s \in Document : \E n \in Name : s[n] # None}
  /\ endpoints \in {<<>>} \cup {<<[url |-> u, live |-> TRUE, fits |-> FALSE]>> : u \in Url}
  /\ hosting \in [Slot -> {0}] \cup [Slot -> {Foreign}]
  /\ binding = [n \in Name |-> None]
  /\ todo = {} /\ handler = None /\ made = {} /\ lost = {} /\ adopted = {}
  /\ edits = 0 /\ faults = 0

-----------------------------------------------------------------------------
(* planStripeWebhookActions. Hosting may not be observed.                  *)
Matches(n) == endpoints[binding[n].id].url = spec[n].url /\ endpoints[binding[n].id].fits

BoundOp(n, seen) ==
  CASE binding[n].slot # spec[n].slot -> "blocked"
    [] binding[n].slot = spec[n].slot /\ At(spec[n].url) \ {binding[n].id} # {} -> "blocked"
    [] OTHER ->
         IF binding[n].id \notin Live \/ (seen /\ hosting[spec[n].slot] # binding[n].hash) THEN "replace"
         ELSE IF Matches(n) THEN "noop" ELSE "update"

NewOp(n, seen) ==
  LET same == At(spec[n].url)
  IN  CASE same = {} -> "create"
        [] Cardinality(same) > 1 \/ (same # {} /\ ~seen) -> "blocked"
        [] Cardinality(same) = 1 /\ seen -> IF hosting[spec[n].slot] # 0 THEN "adopt" ELSE "replace"

Op(n, seen) ==
  IF n \in Declared THEN IF n \in Bound THEN BoundOp(n, seen) ELSE NewOp(n, seen)
  ELSE IF \E m \in Declared : spec[m].slot = binding[n].slot THEN "blocked" ELSE "destroy"

Fault == faults < MaxFaults /\ faults' = faults + 1 /\ UNCHANGED edits

(* The endpoint an action is about, and the hash an adoption records.      *)
Subject(n) ==
  IF n \in Bound THEN binding[n].id
  ELSE IF At(spec[n].url) = {} THEN 0 ELSE CHOOSE i \in At(spec[n].url) : TRUE
Planned(seen) ==
  {a \in {[name |-> n, op |-> Op(n, seen), id |-> Subject(n),
           hash |-> IF n \in Declared THEN hosting[spec[n].slot] ELSE 0] : n \in Declared \cup Bound} :
     a.op # "noop"}

StartApply ==
  /\ todo = {} /\ handler = None
  /\ \/ Planned(TRUE) # {} /\ todo' = Planned(TRUE) /\ UNCHANGED counters
     \/ Planned(FALSE) # {} /\ todo' = Planned(FALSE) /\ Fault
  /\ UNCHANGED <<spec, provider, binding, handler, made, lost, adopted>>

-----------------------------------------------------------------------------
(* applyStripeWebhookAction                                                *)
Goes(at) == handler' = [handler EXCEPT !.at = at] /\ UNCHANGED <<todo, binding, adopted>>
Ends == handler' = None
Fails == Ends /\ todo' = {}
Is(at) == handler # None /\ handler.at = at
Act == handler.act
Me == Act.name

(* The binding must still be the one the action was planned with.          *)
Fresh(a) ==
  CASE a.op \in {"destroy", "update"} -> a.name \in Bound /\ binding[a.name].id = a.id
    [] a.op \in {"adopt", "create"} -> a.name \notin Bound
    [] a.op = "replace" -> a.name \in Bound => binding[a.name].id = a.id

Begin ==
  /\ handler = None /\ UNCHANGED <<spec, provider, binding, made, lost, adopted, counters>>
  /\ \E a \in todo :
       IF a.op = "blocked" \/ ~Fresh(a) THEN Fails
       ELSE /\ todo' = todo \ {a}
            /\ handler' = [act |-> a, new |-> 0,
                 at |-> CASE a.op \in {"destroy", "replace"} -> "delete" [] a.op = "create" -> "create"
                          [] OTHER -> "configure"]

(* deleteStripeWebhookAndVerify: an endpoint that is gone is gone.         *)
Deleted(i) == endpoints' = [endpoints EXCEPT ![i].live = FALSE]

Delete ==
  /\ Is("delete")
  /\ \/ /\ Deleted(Act.id) /\ UNCHANGED counters
        /\ Goes(IF Act.op = "destroy" THEN "clear" ELSE "create")
     \/ Fault /\ (Deleted(Act.id) \/ UNCHANGED endpoints) /\ Fails /\ UNCHANGED <<binding, adopted>>
  /\ UNCHANGED <<spec, hosting, made, lost>>

(* Mutated form: the binding is kept.                                      *)
BadClear ==
  /\ Is("clear") /\ hosting' = [hosting EXCEPT ![binding[Me].slot] = 0] /\ Ends
  /\ UNCHANGED <<spec, endpoints, binding, todo, made, lost, adopted, counters>>

Clear ==
  /\ Is("clear")
  /\ \/ /\ hosting' = [hosting EXCEPT ![binding[Me].slot] = 0] /\ UNCHANGED counters
        /\ binding' = [binding EXCEPT ![Me] = None] /\ adopted' = adopted \ {Me}
        /\ Ends /\ UNCHANGED todo
     \/ /\ Fault /\ hosting' \in {hosting, [hosting EXCEPT ![binding[Me].slot] = 0]}
        /\ Fails /\ UNCHANGED <<binding, adopted>>
  /\ UNCHANGED <<spec, endpoints, made, lost>>

(* An adoption or an update; an adopted endpoint must still have its URL.  *)
Record(id, hash) == binding' = [binding EXCEPT ![Me] = [id |-> id, slot |-> spec[Me].slot, hash |-> hash]]
Configured == endpoints' = [endpoints EXCEPT ![Act.id].url = spec[Me].url, ![Act.id].fits = TRUE]

Configure ==
  /\ Is("configure") /\ UNCHANGED <<spec, hosting, made, lost>>
  /\ IF Act.id \notin Live \/ (Act.op = "adopt" /\ endpoints[Act.id].url # spec[Me].url)
     THEN Fails /\ UNCHANGED <<endpoints, binding, adopted, counters>>
     ELSE \/ /\ Configured /\ Ends /\ UNCHANGED <<todo, counters>>
             /\ IF Act.op = "adopt" THEN Record(Act.id, Act.hash) /\ adopted' = adopted \cup {Me}
                ELSE UNCHANGED <<binding, adopted>>
          \/ Fault /\ (Configured \/ UNCHANGED endpoints) /\ Fails /\ UNCHANGED <<binding, adopted>>

(* Stripe may not answer, or answer without the secret.                    *)
Create ==
  /\ Is("create") /\ Len(endpoints) < MaxIds /\ UNCHANGED <<spec, hosting, binding, adopted>>
  /\ endpoints' = Append(endpoints, [url |-> spec[Me].url, live |-> TRUE, fits |-> TRUE])
  /\ made' = made \cup {Len(endpoints')}
  /\ \/ \E at \in {"sync", "undo silent"} :
          /\ at = "undo silent" => Fault
          /\ at = "sync" => UNCHANGED counters
          /\ handler' = [handler EXCEPT !.at = at, !.new = Len(endpoints')] /\ UNCHANGED <<todo, lost>>
     \/ Fault /\ Fails /\ lost' = lost \cup {Len(endpoints')}

Sync ==
  /\ Is("sync") /\ UNCHANGED <<spec, endpoints, made, lost>>
  /\ \/ hosting' = [hosting EXCEPT ![spec[Me].slot] = handler.new] /\ Goes("record") /\ UNCHANGED counters
     \/ Fault /\ hosting' \in {hosting, [hosting EXCEPT ![spec[Me].slot] = handler.new]} /\ Goes("undo")

Bind ==
  /\ Is("record") /\ Record(handler.new, handler.new) /\ adopted' = adopted \ {Me} /\ Ends
  /\ UNCHANGED <<spec, provider, todo, made, lost, counters>>

(* Mutated form: an endpoint that could not be deleted is not recorded.    *)
BadUndo ==
  /\ Is("undo") \/ Is("undo silent")
  /\ Deleted(handler.new) \/ UNCHANGED endpoints
  /\ Fails /\ UNCHANGED <<spec, hosting, binding, made, lost, adopted, counters>>

(* The new endpoint is deleted; if that fails too it is bound.             *)
Undo ==
  /\ Is("undo") \/ Is("undo silent")
  /\ \/ Deleted(handler.new) /\ UNCHANGED <<binding, adopted>>
     \/ /\ Deleted(handler.new) \/ UNCHANGED endpoints
        /\ Record(handler.new, IF Is("undo") THEN handler.new ELSE 0) /\ adopted' = adopted \ {Me}
  /\ Fails /\ UNCHANGED <<spec, hosting, made, lost, counters>>

Handler == Begin \/ Delete \/ Clear \/ Configure \/ Create \/ Sync \/ Bind \/ Undo

(* The process dies, or an action is not confirmed.                        *)
Crash ==
  /\ todo # {} \/ handler # None
  /\ Fault /\ Fails /\ UNCHANGED <<spec, provider, binding, made, adopted>>
  /\ lost' = IF handler = None THEN lost ELSE lost \cup ({handler.new} \ {0})

EditSpec ==
  /\ todo = {} /\ handler = None /\ edits < MaxEdits /\ edits' = edits + 1
  /\ spec' \in Document \ {spec}
  /\ UNCHANGED <<provider, binding, todo, handler, made, lost, adopted, faults>>

(* A user deletes or changes an endpoint, or sets a variable.              *)
Drift ==
  /\ faults < MaxFaults /\ faults' = faults + 1
  /\ \/ /\ \E i \in Live : Deleted(i) \/ endpoints' = [endpoints EXCEPT ![i].fits = FALSE]
        /\ UNCHANGED hosting
     \/ /\ \E s \in Slot, x \in {0, Foreign} : hosting' = [hosting EXCEPT ![s] = x]
        /\ UNCHANGED endpoints
  /\ UNCHANGED <<spec, binding, todo, handler, made, lost, adopted, edits>>

Next == StartApply \/ Handler \/ Crash \/ EditSpec \/ Drift

(* Handlers go on, and a user applies what is planned.                     *)
Spec == Init /\ [][Next]_vars /\ WF_vars(Handler) /\ WF_vars(StartApply)

-----------------------------------------------------------------------------
Idle == todo = {} /\ handler = None

(* An endpoint that an apply created is bound or deleted when the apply    *)
(* has ended, unless its creation was interrupted.                         *)
EndpointsAreKnown ==
  Idle => \A i \in Live \cap made : i \in lost \/ \E n \in Bound : binding[n].id = i

(* A webhook that needs nothing has a live endpoint, whose secret its      *)
(* service carries: but an adopted one's value is taken on trust, and one  *)
(* bound without a secret has none.                                        *)
InSyncIsTrue ==
  \A n \in Declared \cap Bound :
    /\ Idle /\ Op(n, TRUE) = "noop"
    /\ n \notin adopted /\ binding[n].hash # 0
    => binding[n].id \in Live /\ hosting[binding[n].slot] = binding[n].id

(* An endpoint belongs to one webhook.                                     *)
OwnsItsEndpoint == \A m, n \in Bound : m # n => binding[m].id # binding[n].id

(* Applied again and again, the webhooks are what the spec says, unless    *)
(* the plan asks the user to act or two share an endpoint, whose URL their *)
(* updates then change to and fro.                                         *)
Stuck ==
  \/ \E n \in Declared \cup Bound : Op(n, TRUE) = "blocked"
  \/ \E m, n \in Bound : m # n /\ binding[m].id = binding[n].id
Converged == Idle => Planned(TRUE) = {} \/ Stuck \/ Len(endpoints) = MaxIds
WebhooksConverge == <>[]Converged
=============================================================================
