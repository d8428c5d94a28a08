------------------------ MODULE EnvironmentBindings ------------------------
(***************************************************************************)
(* The bindings of environments: one JSON column per row of SQLite, and a  *)
(* sanitized export of it in the repository, .hypervibe/bindings.json.     *)
(* Every change of a row exports it; every command starts by overlaying    *)
(* the export onto the rows, so that what a teammate committed is used.    *)
(* Within a process nothing intervenes between the row and its export, but *)
(* the process may die there, and the export may fail and throw.           *)
(***************************************************************************)
EXTENDS Naturals, FiniteSets

CONSTANTS
  Process, Home,   \* processes, and those that run in the checkout
  Handler, ProcessOf(_),  \* commands, and the process each runs in
  Env, Key, Field, \* environments, top-level keys of bindings, their fields
  Secret,          \* fields the sanitizer strips
  NoRow,           \* no such row, and nobody
  MaxWrites, MaxCrashes, MaxFaults, MaxPulls  \* bounds

ASSUME SubsetAssumption == Home \subseteq Process /\ Secret \subseteq Field
ASSUME HomeAssumption == \A p, q \in Home : p = q
ASSUME ProcessAssumption == \A h \in Handler : ProcessOf(h) \in Process
ASSUME BoundAssumption ==
  {MaxWrites, MaxCrashes, MaxFaults, MaxPulls} \subseteq Nat

(* A field holds the number of the write that set it, 0 if it is absent; a *)
(* key without fields is absent.                                           *)
Bindings == [Key -> [Field -> Nat]]
NoFields == [f \in Field |-> 0]
NoBindings == [k \in Key |-> NoFields]
ASSUME NoRowAssumption ==
  /\ NoRow \notin Env /\ NoRow \notin Key /\ NoRow \notin Handler
  /\ NoRow \notin Bindings /\ NoRow \notin [Env -> Bindings]
Object(shape, stamp) == [f \in Field |-> IF f \in shape THEN stamp ELSE 0]

VARIABLES
  row,       \* row[e]: platformBindings of environment e
  file,      \* file[e]: its entry in the export, NoBindings if it has none
  sync,      \* sync[p]: where the synchronous section of process p is
  session,   \* session[h]: environment a command works on, and the row it read
  recorded,  \* recorded[e]: what the rows would hold had no write been lost
  unexported,\* unexported[e]: keys whose last value has not reached the file
  adopted,   \* adopted[e]: keys whose value a hydration took from the file
  gone,      \* environments deleted singly, and not pulled or created again
  writes, crashes, faults, pulls  \* counters
ghosts == <<recorded, unexported, adopted, gone>>
counters == <<writes, crashes, faults, pulls>>
vars == <<row, file, sync, session, ghosts, counters>>

Idle == [at |-> "idle", by |-> NoRow, env |-> NoRow, key |-> NoRow, value |-> NoRow,
         doc |-> NoRow, rest |-> {}]
NoSession == [on |-> FALSE, env |-> NoRow, base |-> NoRow]

TypeOK ==
  /\ row \in [Env -> Bindings \cup {NoRow}] /\ recorded \in [Env -> Bindings \cup {NoRow}]
  /\ file \in [Env -> Bindings]
  /\ sync \in [Process ->
       [at : {"idle", "hydrate", "insert", "update", "export", "clear", "drop"}, by : Handler \cup {NoRow},
        env : Env \cup {NoRow}, key : Key \cup {NoRow}, value : Bindings \cup {NoRow},
        doc : [Env -> Bindings] \cup {NoRow}, rest : SUBSET Env]]
  /\ session \in [Handler -> [on : BOOLEAN, env : Env \cup {NoRow}, base : Bindings \cup {NoRow}]]
  /\ {unexported, adopted} \subseteq [Env -> SUBSET Key] /\ gone \subseteq Env
  /\ writes \in 0..MaxWrites /\ crashes \in 0..MaxCrashes
  /\ faults \in 0..MaxFaults /\ pulls \in 0..MaxPulls

Init ==
  /\ row \in [Env -> {NoBindings, NoRow}] /\ file = [e \in Env |-> NoBindings]
  /\ sync = [p \in Process |-> Idle] /\ session = [h \in Handler |-> NoSession]
  /\ recorded = row /\ unexported = [e \in Env |-> {}]
  /\ adopted = [e \in Env |-> {}] /\ gone = {}
  /\ writes = 0 /\ crashes = 0 /\ faults = 0 /\ pulls = 0

-----------------------------------------------------------------------------
(* sanitize: sensitive fields, and objects left empty, are dropped.        *)
Sanitize(b) == [k \in Key |-> [f \in Field |-> IF f \in Secret THEN 0 ELSE b[k][f]]]

(* Mutated form: the entry of the file replaces the whole object.          *)
BadMerge(existing, doc) == [k \in Key |-> IF doc[k] = NoFields THEN existing[k] ELSE doc[k]]

(* mergeRepoPlatformBindings: a key of the file wins, except for the       *)
(* sensitive fields of the row; keys the file has not are kept.            *)
Merge(existing, doc) ==
  [k \in Key |->
    IF doc[k] = NoFields THEN existing[k]
    ELSE [f \in Field |-> IF f \in Secret THEN existing[k][f] ELSE doc[k][f]]]

(* Object.entries(bindings.document.environments).                         *)
Entries(doc) == {e \in Env : doc[e] # NoBindings}

Free(h) == session[h].on /\ sync[ProcessOf(h)] = Idle
Goto(p, s) == sync' = [sync EXCEPT ![p] = s]

(* What follows an export: the next environment to hydrate, or an await.   *)
Resume(s) ==
  IF s.rest = {} THEN Idle ELSE [Idle EXCEPT !.at = "hydrate", !.by = s.by, !.doc = s.doc, !.rest = s.rest]

-----------------------------------------------------------------------------
(* resolveProject: the file is read and hydrated before anything else.     *)
StartCommand(h) ==
  /\ ~session[h].on /\ sync[ProcessOf(h)] = Idle
  /\ session' = [session EXCEPT ![h].on = TRUE]
  /\ Goto(ProcessOf(h), Resume([Idle EXCEPT !.by = h, !.doc = file,
         !.rest = IF ProcessOf(h) \in Home THEN Entries(file) ELSE {}]))
  /\ UNCHANGED <<row, file, ghosts, counters>>

(* hydrateRepoBindings for one entry: create the row, or update it with    *)
(* the merge if it differs from the entry.                                 *)
Hydrate(p) ==
  /\ sync[p].at = "hydrate"
  /\ \E e \in sync[p].rest :
       LET s == [sync[p] EXCEPT !.rest = @ \ {e}, !.env = e]
           doc == s.doc[e]
       IN Goto(p, CASE row[e] = NoRow -> [s EXCEPT !.at = "insert", !.value = doc]
                    [] row[e] = doc -> Resume(s)
                    [] OTHER -> [s EXCEPT !.at = "update", !.value = Merge(row[e], doc)])
  /\ UNCHANGED <<row, file, session, ghosts, counters>>

(* A command that changes an environment reads it under the lease of its   *)
(* apply, which no two have at a time (PlanApply).                         *)
ReadRow(h, e) ==
  /\ Free(h) /\ session[h].env = NoRow /\ row[e] # NoRow
  /\ \A g \in Handler : session[g].env # e
  /\ session' = [session EXCEPT ![h].env = e, ![h].base = row[e]]
  /\ UNCHANGED <<row, file, sync, ghosts, counters>>

(* After awaits of a provider, the command records a key of the bindings,  *)
(* and goes on with the environment the call returned.                     *)
Record(h, basis) ==
  /\ Free(h) /\ session[h].env # NoRow /\ row[session[h].env] # NoRow
  /\ writes < MaxWrites /\ writes' = writes + 1
  /\ \E k \in Key, shape \in SUBSET Field :
       LET value == [basis EXCEPT ![k] = Object(shape, writes + 1)] IN
       /\ Goto(ProcessOf(h), [Idle EXCEPT !.at = "update", !.by = h, !.env = session[h].env,
                                         !.key = k, !.value = value])
       /\ session' = [session EXCEPT ![h].base = value]
  /\ UNCHANGED <<row, file, ghosts, crashes, faults, pulls>>

(* updatePlatformBindings merges it into the row as it is now ...          *)
WriteKey(h) == Record(h, row[session[h].env])
(* ... update (saveBinding) writes the whole column as it was read.        *)
WriteColumn(h) == Record(h, session[h].base)

(* environments.create by a command that finds no row.                     *)
Create(h, e) ==
  /\ Free(h) /\ session[h].env = NoRow /\ row[e] = NoRow
  /\ writes < MaxWrites /\ writes' = writes + 1
  /\ Goto(ProcessOf(h), [Idle EXCEPT !.at = "insert", !.by = h, !.env = e, !.value = NoBindings])
  /\ UNCHANGED <<row, file, session, ghosts, crashes, faults, pulls>>

-----------------------------------------------------------------------------
(* What is recorded after a store: a command's key, or what a hydration    *)
(* changes of keys whose last value never reached the file.  A stale       *)
(* column may put back a value that a hydration replaced.                  *)
Recorded(s) ==
  IF s.at = "insert" THEN s.value
  ELSE [k \in Key |->
    IF k = s.key \/ (s.key # NoRow /\ k \in adopted[s.env]) THEN s.value[k]
    ELSE IF s.key = NoRow /\ k \in unexported[s.env] THEN Merge(recorded[s.env], s.doc[s.env])[k]
    ELSE recorded[s.env][k]]
Changed(s) == {k \in Key : row[s.env] = NoRow \/ row[s.env][k] # s.value[k]}
Adopted(s) == IF s.key = NoRow THEN adopted[s.env] \cup Changed(s) ELSE adopted[s.env] \ {s.key}
Unexported(s) == unexported[s.env] \cup (IF s.key = NoRow THEN {} ELSE Changed(s))

(* The SQL statement.  An update of a row that has gone changes nothing    *)
(* and exports nothing; an insert of a row that is there throws.           *)
Store(p) ==
  LET s == sync[p] IN
  /\ s.at \in {"insert", "update"}
  /\ IF (row[s.env] = NoRow) = (s.at = "insert")
     THEN /\ row' = [row EXCEPT ![s.env] = s.value]
          /\ recorded' = [recorded EXCEPT ![s.env] = Recorded(s)]
          /\ unexported' = [unexported EXCEPT ![s.env] = Unexported(s)]
          /\ adopted' = [adopted EXCEPT ![s.env] = Adopted(s)]
          /\ gone' = gone \ (IF s.at = "insert" /\ s.doc = NoRow THEN {s.env} ELSE {})
          /\ Goto(p, [s EXCEPT !.at = "export"]) /\ UNCHANGED session
     ELSE /\ UNCHANGED <<row, ghosts>>
          /\ IF s.at = "update" THEN Goto(p, Resume(s)) /\ UNCHANGED session
             ELSE Goto(p, Idle) /\ session' = [session EXCEPT ![s.by] = NoSession]
  /\ UNCHANGED <<file, counters>>

(* writeRepoBindingsForEnvironment: the document with this entry replaced. *)
With(e, b) == [file EXCEPT ![e] = Sanitize(b)]

(* syncRepoBindings reads the row again, and outside the checkout returns. *)
Export(p) ==
  LET s == sync[p] IN
  /\ s.at = "export"
  /\ IF p \in Home /\ row[s.env] # NoRow
     THEN file' = With(s.env, row[s.env]) /\ unexported' = [unexported EXCEPT ![s.env] = {}]
     ELSE UNCHANGED <<file, unexported>>
  /\ Goto(p, Resume(s))
  /\ UNCHANGED <<row, session, recorded, adopted, gone, counters>>

-----------------------------------------------------------------------------
(* Mutated form: the export of a deleted environment stays.                *)
BadDelete(h, e) ==
  /\ Free(h) /\ row[e] # NoRow
  /\ Goto(ProcessOf(h), [Idle EXCEPT !.at = "drop", !.by = h, !.env = e])
  /\ UNCHANGED <<row, file, session, ghosts, counters>>

(* environments.delete (hv_destroy of an environment): the entry goes      *)
(* first, then the row.                                                    *)
Delete(h, e) ==
  /\ Free(h) /\ row[e] # NoRow
  /\ Goto(ProcessOf(h), [Idle EXCEPT !.at = "clear", !.by = h, !.env = e])
  /\ UNCHANGED <<row, file, session, ghosts, counters>>

Clear(p) ==
  LET s == sync[p] IN
  /\ s.at = "clear"
  /\ IF p \in Home
     THEN file' = With(s.env, NoBindings) /\ unexported' = [unexported EXCEPT ![s.env] = Key]
     ELSE UNCHANGED <<file, unexported>>
  /\ Goto(p, [s EXCEPT !.at = "drop"])
  /\ UNCHANGED <<row, session, recorded, adopted, gone, counters>>

(* Commands that had read the row have nothing left to update.             *)
Drop(p) ==
  LET e == sync[p].env IN
  /\ sync[p].at = "drop"
  /\ row' = [row EXCEPT ![e] = NoRow] /\ recorded' = [recorded EXCEPT ![e] = NoRow]
  /\ unexported' = [unexported EXCEPT ![e] = {}] /\ gone' = gone \cup {e}
  /\ adopted' = [adopted EXCEPT ![e] = {}]
  /\ session' = [h \in Handler |-> IF session[h].env = e THEN NoSession ELSE session[h]]
  /\ Goto(p, Idle)
  /\ UNCHANGED <<file, counters>>

(* hv_destroy of the project is one statement, and the rows go with it (ON *)
(* DELETE CASCADE).  The export stays: the next command in the checkout    *)
(* creates project and rows again from it.  What others had begun finds no *)
(* row to update and no project to create one in.                          *)
DestroyProject(h) ==
  /\ Free(h) /\ \E e \in Env : row[e] # NoRow
  /\ row' = [e \in Env |-> NoRow] /\ recorded' = [e \in Env |-> NoRow]
  /\ unexported' = [e \in Env |-> {k \in Key : file[e][k] # NoFields}]
  /\ adopted' = [e \in Env |-> {}]
  /\ sync' = [p \in Process |-> Idle] /\ session' = [g \in Handler |-> NoSession]
  /\ UNCHANGED <<file, gone, counters>>

-----------------------------------------------------------------------------
EndCommand(h) ==
  /\ Free(h)
  /\ session' = [session EXCEPT ![h] = NoSession]
  /\ UNCHANGED <<row, file, sync, ghosts, counters>>

(* The file cannot be written: the call throws, and its command ends.      *)
ExportFails(p) ==
  /\ sync[p].at \in {"export", "clear"} /\ p \in Home /\ faults < MaxFaults
  /\ faults' = faults + 1
  /\ session' = [session EXCEPT ![sync[p].by] = NoSession]
  /\ Goto(p, Idle)
  /\ UNCHANGED <<row, file, ghosts, writes, crashes, pulls>>

Crash(p) ==
  /\ crashes < MaxCrashes /\ crashes' = crashes + 1
  /\ session' = [h \in Handler |-> IF ProcessOf(h) = p THEN NoSession ELSE session[h]]
  /\ Goto(p, Idle)
  /\ UNCHANGED <<row, file, ghosts, writes, faults, pulls>>

(* git brings another object for a key, or its removal, between the        *)
(* sections of processes.  An apply at work on the environment would write *)
(* over it.                                                                *)
Pull(e) ==
  /\ pulls < MaxPulls /\ pulls' = pulls + 1
  /\ \A p \in Process : sync[p] = Idle
  /\ \A h \in Handler : session[h].env # e
  /\ \E k \in Key, shape \in SUBSET (Field \ Secret) :
       /\ file' = [file EXCEPT ![e][k] = Object(shape, MaxWrites + pulls')]
       /\ unexported' = [unexported EXCEPT ![e] = @ \cup {k}]
  /\ gone' = gone \ {e}
  /\ UNCHANGED <<row, sync, session, recorded, adopted, writes, crashes, faults>>

Next ==
  \/ \E h \in Handler :
       \/ StartCommand(h) \/ WriteKey(h) \/ WriteColumn(h) \/ EndCommand(h) \/ DestroyProject(h)
       \/ \E e \in Env : ReadRow(h, e) \/ Create(h, e) \/ Delete(h, e)
  \/ \E p \in Process :
       Hydrate(p) \/ Store(p) \/ Export(p) \/ Clear(p) \/ Drop(p) \/ ExportFails(p) \/ Crash(p)
  \/ \E e \in Env : Pull(e)

Spec == Init /\ [][Next]_vars

-----------------------------------------------------------------------------
Bound(e) == row[e] # NoRow /\ recorded[e] # NoRow

(* A value a command recorded is only ever replaced by a later one or, if  *)
(* its export failed, by the file's: not by a column another command read  *)
(* before (saveBinding), nor by the hydration of an older export.          *)
OnlyUnexportedIsLost ==
  \A e \in Env : Bound(e) => Sanitize(row[e]) = Sanitize(recorded[e])

(* What the sanitizer strips exists in the row only.  No failed export, no *)
(* crash and no pull makes hydration drop it (mergeRepoPlatformBindings).  *)
SecretsSurvive ==
  \A e \in Env : Bound(e) => \A k \in Key, f \in Secret : row[e][k][f] = recorded[e][k][f]

(* No value a command recorded gets lost unawares, exported or not.        *)
RecordedValuesSurvive == OnlyUnexportedIsLost /\ SecretsSurvive

(* hv_destroy of an environment deletes the entry before the row, so that  *)
(* no hydration of a leftover export brings it back, wherever a crash falls*)
(* and even if the whole project is deleted and hydrated again later.  What*)
(* was not deleted singly comes back from the export of its project.       *)
DeletedStaysDeleted == \A e \in gone : row[e] = NoRow

(* What teammates are given is what the row says, unless an export failed: *)
(* no export of one environment disturbs the entry of another.             *)
FileMirrorsRow ==
  \A e \in Env : row[e] # NoRow /\ unexported[e] = {} => file[e] = Sanitize(row[e])

(* Row and export agree, while the environment exists and after.           *)
ExportFollowsRow == FileMirrorsRow /\ DeletedStaysDeleted
=============================================================================
