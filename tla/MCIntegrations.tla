--------------------------- MODULE MCIntegrations ---------------------------
(***************************************************************************)
(* What Hypervibe keeps at Stripe and GitHub, side by side: the catalog of *)
(* an environment, its webhooks, the files of the repository when several  *)
(* environments are applied ("files") and when people and failures         *)
(* interfere with one ("file"). The initial state says which of them       *)
(* moves, and the others stay where they started.                          *)
(***************************************************************************)
EXTENDS StripeCatalog, TLC
CONSTANTS
  Name, Url, Slot, MaxEndpoints, MaxRewrites, MaxBreaks,
  Owners, Canonical, Automation, Drill, MaxTroubles

VARIABLES
  part, \* what moves
  hooks, endpoints, hosting, hooked, jobs, worker, created, lost, adopted, rewrites, breaks,
  declared, main, branch, pull, doing, troubles, disturbed
webhooks == <<hooks, endpoints, hosting, hooked, jobs, worker, created, lost, adopted, rewrites, breaks>>
files == <<declared, main, branch, pull, doing, troubles, disturbed>>

Webhooks == INSTANCE StripeWebhooks WITH
  spec <- hooks, binding <- hooked, todo <- jobs, handler <- worker, made <- created,
  edits <- rewrites, faults <- breaks,
  MaxIds <- MaxEndpoints, MaxEdits <- MaxRewrites, MaxFaults <- MaxBreaks
Files == INSTANCE ManagedFiles WITH Env <- Owners, spec <- declared, MaxTroubles <- 0
File == INSTANCE ManagedFiles WITH Env <- {Canonical}, spec <- declared
ASSUME WebhooksAssumption == Webhooks!Assumption
ASSUME FilesAssumption == Files!Assumption /\ File!Assumption

MCInit ==
  /\ part \in {"catalog", "webhooks", "files", "file"}
  /\ Init /\ Webhooks!Init /\ (IF part = "files" THEN Files!Init ELSE File!Init)
  /\ part # "catalog" =>
       /\ price = <<>> /\ <<var, spec>> = CHOOSE x \in [PriceKey -> EnvVar] \X Document :
            /\ x[2].services = Service /\ x[2].rest = "nothing"
            /\ Cardinality({k \in PriceKey : x[2].prices[k] # None}) = 1
  /\ part # "webhooks" =>
       /\ endpoints = <<>> /\ hosting = [s \in Slot |-> 0]
       /\ hooks = CHOOSE s \in Webhooks!Document : s # [n \in Name |-> None]
  /\ part \notin {"files", "file"} => declared = {} /\ main = [files |-> {}, list |-> {}]
MCNext ==
  \/ part = "catalog" /\ Next /\ UNCHANGED <<part, webhooks, files>>
  \/ part = "webhooks" /\ Webhooks!Next /\ UNCHANGED <<part, vars, files>>
  \/ part = "files" /\ Files!Next /\ UNCHANGED <<part, vars, webhooks>>
  \/ part = "file" /\ File!Next /\ UNCHANGED <<part, vars, webhooks>>

(* The fairness of the part that moves.                                    *)
MCSpec ==
  /\ MCInit /\ [][MCNext]_<<part, vars, webhooks, files>>
  /\ WF_vars(part = "catalog" /\ Handler) /\ WF_vars(part = "catalog" /\ StartApply)
  /\ WF_vars(part = "catalog" /\ Forget)
  /\ WF_webhooks(part = "webhooks" /\ Webhooks!Handler)
  /\ WF_webhooks(part = "webhooks" /\ Webhooks!StartApply)
  /\ WF_files(part = "files" /\ Files!Merge) /\ WF_files(part = "file" /\ File!Merge)
  /\ \A e \in Owners :
       /\ WF_files(part = "files" /\ Files!Begin(e)) /\ WF_files(part = "files" /\ Files!Step(e))
  /\ WF_files(part = "file" /\ File!Begin(Canonical)) /\ WF_files(part = "file" /\ File!Step(Canonical))

(* No apply leaves an endpoint behind, and a webhook that is said to be in *)
(* sync delivers to its service.                                           *)
WebhooksAreTrue == Webhooks!EndpointsAreKnown /\ Webhooks!InSyncIsTrue
(* An endpoint belongs to one webhook.                                     *)
OwnsItsEndpoint == Webhooks!OwnsItsEndpoint
(* Catalog and webhooks become what the spec says.                         *)
StripeConverges ==
  <>[](CASE part = "catalog" -> Converged [] part = "webhooks" -> Webhooks!Converged [] OTHER -> TRUE)
(* Work of other people on the branch is not overwritten.                  *)
OverwritesOnlyUnseen == File!OverwritesOnlyUnseen
(* The repository becomes what the spec says.                              *)
FilesConverge ==
  <>[](CASE part = "files" -> Files!Settled [] part = "file" -> File!Settled [] OTHER -> TRUE)
=============================================================================
