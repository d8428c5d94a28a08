------------------------- MODULE EnvironmentProofs --------------------------
(***************************************************************************)
(* Proofs about the two components that write the bindings of an           *)
(* environment. With one process that runs in the checkout, no recorded    *)
(* value is lost unawares and the export follows the row, for any number   *)
(* of commands, environments, keys and fields, and for any number of       *)
(* crashes, failed exports and pulls. And a deploy never creates a service *)
(* beside another of its name, forgets nothing at the provider and is      *)
(* undone exactly, for any services and any numbers of deploys, faults and *)
(* crashes, unless a write threw or the process died (unretained, clean).  *)
(***************************************************************************)
EXTENDS MCEnvironment, SequenceTheorems, TLAPS

(* Everybody is in the checkout: where a second process is not, what it    *)
(* does reaches no export (see the bounds of the run).                     *)
OneProcess == Process = Home

Section ==
  [at : {"idle", "hydrate", "insert", "update", "export", "clear", "drop"}, by : Handler \cup {NoRow},
   env : Env \cup {NoRow}, key : Key \cup {NoRow}, value : Bindings \cup {NoRow},
   doc : [Env -> Bindings] \cup {NoRow}, rest : SUBSET Env]
Command == [on : BOOLEAN, env : Env \cup {NoRow}, base : Bindings \cup {NoRow}]

(* The types, without the bounds of a run.                                 *)
Types ==
  /\ row \in [Env -> Bindings \cup {NoRow}] /\ file \in [Env -> Bindings]
  /\ sync \in [Process -> Section] /\ session \in [Handler -> Command]
  /\ unexported \in [Env -> SUBSET Key] /\ adopted \in [Env -> SUBSET Key] /\ gone \subseteq Env
  /\ writes \in Nat /\ pulls \in Nat

(* What an export of the environment would write.                          *)
Public(e) == IF row[e] = NoRow THEN NoBindings ELSE Sanitize(row[e])

(* Key by key, the file has what the row says, unless its last value has   *)
(* not reached it.                                                         *)
KeysAreExported ==
  \A e \in Env, k \in Key : k \notin unexported[e] => file[e][k] = Public(e)[k]

(* Nothing is left of an environment that was deleted.                     *)
GoneIsGone == \A e \in gone : row[e] = NoRow /\ file[e] = NoBindings

(* What is still to be hydrated is in the file as it was read.             *)
Hydrates(s) ==
  /\ s.at = "hydrate" => s.doc # NoRow
  /\ s.doc = NoRow => s.rest = {}
  /\ s.doc # NoRow =>
       /\ s.key = NoRow
       /\ \A e \in s.rest : s.doc[e] = file[e] /\ file[e] # NoBindings
       /\ s.at # "hydrate" => s.env \notin s.rest
       /\ s.at \in {"insert", "update"} => file[s.env] # NoBindings /\ s.doc[s.env] = file[s.env]

(* What is about to be stored was made of the row that is there: a merge,  *)
(* or the column the command works on, but for one key and those that a    *)
(* hydration has replaced since.                                           *)
Stores(s) ==
  /\ s.at \in {"insert", "update", "export", "clear", "drop"} => s.env \in Env
  /\ s.at = "insert" =>
       /\ row[s.env] = NoRow /\ s.key = NoRow
       /\ s.value = IF s.doc = NoRow THEN NoBindings ELSE s.doc[s.env]
  /\ s.at = "update" =>
       /\ row[s.env] # NoRow
       /\ s.doc # NoRow => s.value = Merge(row[s.env], s.doc[s.env])
       /\ s.doc = NoRow =>
            /\ s.key \in Key /\ s.value \in Bindings /\ s.by \in Handler
            /\ session[s.by].env = s.env /\ session[s.by].base = s.value
            /\ \A k \in Key \ {s.key} : k \in adopted[s.env] \/ s.value[k] = row[s.env][k]
  /\ s.at = "drop" => file[s.env] = NoBindings

(* Commands work on environments that exist, each on its own, and on the   *)
(* column that is there but for the keys a hydration has replaced since.   *)
Pending(h) == \E p \in Process : sync[p].at = "update" /\ sync[p].by = h /\ sync[p].doc = NoRow
Works(h) ==
  session[h].env # NoRow =>
    /\ row[session[h].env] # NoRow /\ session[h].base \in Bindings
    /\ \A g \in Handler : session[g].env = session[h].env => g = h
    /\ Pending(h) \/ \A k \in Key :
         k \in adopted[session[h].env] \/ session[h].base[k] = row[session[h].env][k]

IInv ==
  /\ Types /\ recorded = row /\ KeysAreExported /\ GoneIsGone
  /\ \A p \in Process : Hydrates(sync[p]) /\ Stores(sync[p])
  /\ \A h \in Handler : Works(h)

-----------------------------------------------------------------------------
(* What the operators on bindings return.                                  *)
LEMMA Nothing ==
  /\ NoFields \in [Field -> Nat] /\ NoBindings \in Bindings /\ NoBindings # NoRow
  /\ \A k \in Key : NoBindings[k] = NoFields
BY NoRowAssumption DEF NoFields, NoBindings, Bindings

LEMMA SanitizeType == ASSUME NEW b \in Bindings PROVE Sanitize(b) \in Bindings
BY DEF Sanitize, Bindings

(* What the sanitizer makes of a key depends on that key.                  *)
LEMMA SanitizeKey ==
  ASSUME NEW a, NEW b, NEW k \in Key, a[k] = b[k]
  PROVE  Sanitize(a)[k] = Sanitize(b)[k]
BY DEF Sanitize

LEMMA SanitizeNothing ==
  ASSUME NEW b, NEW k \in Key, b[k] = NoFields
  PROVE  Sanitize(b)[k] = NoFields
BY DEF Sanitize, NoFields

LEMMA SanitizeNoBindings == Sanitize(NoBindings) = NoBindings
BY DEF Sanitize, NoBindings, NoFields

LEMMA MergeType ==
  ASSUME NEW a \in Bindings, NEW b \in Bindings
  PROVE  Merge(a, b) \in Bindings
BY DEF Merge, Bindings

(* Hydration changes no key that the file has as it was exported.          *)
LEMMA MergeExported ==
  ASSUME NEW a \in Bindings, NEW b \in Bindings, NEW k \in Key, b[k] = Sanitize(a)[k]
  PROVE  Merge(a, b)[k] = a[k]
<1>1. a[k] \in [Field -> Nat]
  BY DEF Bindings
<1>2. CASE b[k] = NoFields
  BY <1>2 DEF Merge
<1>3. CASE b[k] # NoFields
  <2>1. Merge(a, b)[k] = [f \in Field |-> IF f \in Secret THEN a[k][f] ELSE b[k][f]]
    BY <1>3 DEF Merge
  <2>2. \A f \in Field : f \notin Secret => b[k][f] = a[k][f]
    BY DEF Sanitize
  <2> QED BY <1>1, <2>1, <2>2
<1> QED BY <1>2, <1>3

-----------------------------------------------------------------------------
(* The sections.                                                           *)
LEMMA IdleIs ==
  /\ Idle \in Section /\ Idle.at = "idle" /\ Idle.doc = NoRow /\ Idle.rest = {} /\ Idle.key = NoRow
BY DEF Idle, Section

LEMMA ResumeIs ==
  ASSUME NEW s \in Section, s.doc = NoRow => s.rest = {}
  PROVE  /\ Resume(s) \in Section
         /\ \/ Resume(s) = Idle
            \/ /\ Resume(s).at = "hydrate" /\ Resume(s).key = NoRow /\ s.doc # NoRow
               /\ Resume(s).doc = s.doc /\ Resume(s).rest = s.rest
BY DEF Resume, Idle, Section

(* The process goes on, with what is still to be hydrated as it was read.  *)
LEMMA Goes ==
  ASSUME OneProcess, Types, NEW p \in Process, NEW t \in Section, Goto(p, t)
  PROVE  sync' \in [Process -> Section] /\ \A q \in Process : q = p /\ sync'[q] = t
BY HomeAssumption DEF OneProcess, Types, Goto

LEMMA ResumesWell ==
  ASSUME NEW s \in Section, s.doc = NoRow => s.rest = {}, NEW t, t = Resume(s),
         \A e \in s.rest : s.doc # NoRow => s.doc[e] = file'[e] /\ file'[e] # NoBindings,
         NEW p \in Process, sync'[p] = t
  PROVE  t \in Section /\ Hydrates(sync[p])' /\ Stores(sync[p])'
<1>1. /\ t \in Section
      /\ \/ t = Idle
         \/ /\ t.at = "hydrate" /\ t.key = NoRow /\ s.doc # NoRow
            /\ t.doc = s.doc /\ t.rest = s.rest
  BY ResumeIs
<1> QED BY <1>1, IdleIs DEF Hydrates, Stores

(* Commands that work go on, as long as rows stay but for what is adopted. *)
LEMMA StillWorks ==
  ASSUME Types, \A h \in Handler : Works(h),
         \A p \in Process : sync[p].at = "update" => sync[p].doc # NoRow,
         \A g \in Handler : \/ session'[g].env = NoRow
                            \/ session'[g].env = session[g].env /\ session'[g].base = session[g].base,
         \A g \in Handler : session'[g].env # NoRow =>
           /\ row'[session[g].env] # NoRow
           /\ \A k \in Key : \/ k \in adopted'[session[g].env]
                             \/ /\ k \notin adopted[session[g].env]
                                /\ row'[session[g].env][k] = row[session[g].env][k]
  PROVE  (\A h \in Handler : Works(h))'
<1> SUFFICES ASSUME NEW h \in Handler, session'[h].env # NoRow PROVE Works(h)'
  BY DEF Works
<1>1. session'[h].env = session[h].env /\ session'[h].base = session[h].base
  OBVIOUS
<1>2. ~Pending(h)
  BY DEF Pending
<1> QED BY <1>1, <1>2 DEF Works

(* The steps that leave rows and export alone.                             *)
LEMMA Quiet ==
  ASSUME OneProcess, IInv, NEW p \in Process, NEW t \in Section, Goto(p, t),
         UNCHANGED <<row, file, ghosts>>, session' \in [Handler -> Command], writes' \in Nat, pulls' \in Nat,
         Hydrates(sync[p])', Stores(sync[p])', (\A h \in Handler : Works(h))'
  PROVE  IInv'
<1>1. sync' \in [Process -> Section] /\ \A q \in Process : q = p
  BY Goes DEF IInv
<1>2. /\ row' = row /\ file' = file /\ recorded' = recorded /\ unexported' = unexported
      /\ adopted' = adopted /\ gone' = gone
  BY DEF ghosts
<1>3. Types'
  BY <1>1, <1>2 DEF IInv, Types
<1>4. recorded' = row' /\ KeysAreExported' /\ GoneIsGone'
  BY <1>2 DEF IInv, KeysAreExported, Public, GoneIsGone
<1>5. (\A q \in Process : Hydrates(sync[q]) /\ Stores(sync[q]))'
  BY <1>1
<1> QED BY <1>3, <1>4, <1>5 DEF IInv

-----------------------------------------------------------------------------
(* Initially nothing is written and nobody works.                          *)
LEMMA InitInv == Init => IInv
<1> SUFFICES ASSUME Init PROVE IInv
  OBVIOUS
<1>1. NoSession \in Command /\ NoSession.env = NoRow
  BY DEF NoSession, Command
<1>2. Types
  BY <1>1, IdleIs, Nothing DEF Init, Types
<1>3. KeysAreExported
  <2>1. \A e \in Env : Public(e) = NoBindings
    BY SanitizeNoBindings DEF Init, Public
  <2> QED BY <2>1 DEF Init, KeysAreExported
<1>4. GoneIsGone /\ recorded = row
  BY DEF Init, GoneIsGone
<1>5. \A p \in Process : Hydrates(sync[p]) /\ Stores(sync[p])
  BY IdleIs DEF Init, Hydrates, Stores
<1>6. \A h \in Handler : Works(h)
  BY <1>1 DEF Init, Works
<1> QED BY <1>2, <1>3, <1>4, <1>5, <1>6 DEF IInv

(* A command starts by hydrating what is in the file.                      *)
LEMMA StartStep ==
  ASSUME OneProcess, IInv, NEW h \in Handler, StartCommand(h)
  PROVE  IInv'
<1> DEFINE p == ProcessOf(h)
           s == [Idle EXCEPT !.by = h, !.doc = file,
                   !.rest = IF ProcessOf(h) \in Home THEN Entries(file) ELSE {}]
<1>1. p \in Process /\ sync[p] = Idle
  BY ProcessAssumption DEF StartCommand
<1>2. s \in Section /\ s.doc = file /\ s.rest \subseteq Entries(file) /\ file # NoRow
  BY IdleIs, NoRowAssumption DEF IInv, Types, Section, Entries
<1> HIDE DEF s
<1>3. PICK t : t = Resume(s)
  OBVIOUS
<1>4. Goto(p, t) /\ UNCHANGED <<row, file, ghosts, counters>>
      /\ session' = [session EXCEPT ![h].on = TRUE]
  BY <1>3 DEF StartCommand, s
<1>5. t \in Section
  BY <1>2, <1>3, ResumeIs
<1>6. sync'[p] = t /\ \A q \in Process : sync[q] = Idle
  BY <1>1, <1>4, <1>5, Goes DEF IInv
<1>7. Hydrates(sync[p])' /\ Stores(sync[p])'
  BY <1>1, <1>2, <1>3, <1>4, <1>6, ResumesWell DEF Entries
<1>8. /\ session' \in [Handler -> Command]
      /\ \A g \in Handler : session'[g].env = session[g].env /\ session'[g].base = session[g].base
  BY <1>4 DEF IInv, Types, Command
<1>9. (\A g \in Handler : Works(g))'
  BY <1>4, <1>6, <1>8, IdleIs, StillWorks DEF IInv, Works, ghosts
<1> QED BY <1>1, <1>4, <1>5, <1>7, <1>8, <1>9, Quiet DEF counters, IInv, Types

(* One entry of the file: a new row, a row that agrees, or a merge.        *)
LEMMA HydrateStep ==
  ASSUME OneProcess, IInv, NEW p \in Process, Hydrate(p)
  PROVE  IInv'
<1>1. sync[p].at = "hydrate" /\ UNCHANGED <<row, file, session, ghosts, counters>>
  BY DEF Hydrate
<1>2. PICK e \in sync[p].rest :
        LET s == [sync[p] EXCEPT !.rest = @ \ {e}, !.env = e]
            doc == s.doc[e]
        IN Goto(p, CASE row[e] = NoRow -> [s EXCEPT !.at = "insert", !.value = doc]
                     [] row[e] = doc -> Resume(s)
                     [] OTHER -> [s EXCEPT !.at = "update", !.value = Merge(row[e], doc)])
  BY DEF Hydrate
<1> DEFINE s == [sync[p] EXCEPT !.rest = @ \ {e}, !.env = e]
           doc == s.doc[e]
<1>3. sync[p] \in Section /\ sync[p].key = NoRow /\ sync[p].doc \in [Env -> Bindings] /\ e \in Env
      /\ sync[p].doc # NoRow
      /\ \A d \in sync[p].rest : sync[p].doc[d] = file[d] /\ file[d] # NoBindings
  BY <1>1, <1>2 DEF IInv, Types, Hydrates, Section
<1>4. /\ s \in Section /\ s.env = e /\ e \notin s.rest /\ s.rest \subseteq sync[p].rest
      /\ s.doc = sync[p].doc /\ s.key = NoRow /\ doc \in Bindings /\ doc = file[e] /\ file[e] # NoBindings
  BY <1>2, <1>3 DEF Section
<1> HIDE DEF s
<1>5. row[e] = NoRow \/ row[e] \in Bindings
  BY <1>3 DEF IInv, Types
<1>6. (\A g \in Handler : Works(g))'
  <2>1. \A q \in Process : sync[q].at = "hydrate"
    BY <1>1, HomeAssumption DEF OneProcess
  <2>2. \A g \in Handler : ~Pending(g) /\ Works(g)
    BY <2>1 DEF Pending, IInv
  <2> QED BY <1>1, <2>1, <2>2, StillWorks DEF IInv, Works, ghosts
<1>7. CASE row[e] = NoRow
  <2>1. PICK t : t = [s EXCEPT !.at = "insert", !.value = doc]
    OBVIOUS
  <2>2. Goto(p, t)
    <3>1. row[e] # doc
      BY <1>4, <1>7, NoRowAssumption
    <3> QED BY <1>2, <1>7, <2>1, <3>1 DEF s
  <2>3. /\ t \in Section /\ t.at = "insert" /\ t.value = doc /\ t.env = e /\ t.rest = s.rest
        /\ t.doc = sync[p].doc /\ t.key = NoRow
    BY <1>4, <2>1 DEF Section
  <2>4. sync'[p] = t
    BY <2>2, <2>3, Goes DEF IInv
  <2>5. Hydrates(sync[p])' /\ Stores(sync[p])'
    BY <1>1, <1>3, <1>4, <1>7, <2>3, <2>4 DEF Hydrates, Stores
  <2> QED BY <1>1, <1>6, <2>2, <2>3, <2>5, Quiet DEF counters, IInv, Types
<1>8. CASE row[e] # NoRow /\ row[e] = doc
  <2>1. PICK t : t = Resume(s)
    OBVIOUS
  <2>2. Goto(p, t) /\ t \in Section
    BY <1>2, <1>3, <1>4, <1>8, <2>1, ResumeIs DEF s
  <2>3. sync'[p] = t
    BY <2>2, Goes DEF IInv
  <2>4. Hydrates(sync[p])' /\ Stores(sync[p])'
    BY <1>1, <1>3, <1>4, <2>1, <2>3, ResumesWell
  <2> QED BY <1>1, <1>6, <2>2, <2>4, Quiet DEF counters, IInv, Types
<1>9. CASE row[e] # NoRow /\ row[e] # doc
  <2>1. PICK t : t = [s EXCEPT !.at = "update", !.value = Merge(row[e], doc)]
    OBVIOUS
  <2>2. Goto(p, t)
    BY <1>2, <1>9, <2>1 DEF s
  <2>3. Merge(row[e], doc) \in Bindings
    BY <1>4, <1>5, <1>9, MergeType
  <2>4. /\ t \in Section /\ t.at = "update" /\ t.value = Merge(row[e], doc) /\ t.env = e /\ t.rest = s.rest
        /\ t.doc = sync[p].doc /\ t.key = NoRow
    BY <1>4, <2>1, <2>3 DEF Section
  <2>5. sync'[p] = t
    BY <2>2, <2>4, Goes DEF IInv
  <2>6. Hydrates(sync[p])' /\ Stores(sync[p])'
    BY <1>1, <1>3, <1>4, <1>9, <2>4, <2>5 DEF Hydrates, Stores
  <2> QED BY <1>1, <1>6, <2>2, <2>4, <2>6, Quiet DEF counters, IInv, Types
<1> QED BY <1>7, <1>8, <1>9

(* A command that reads a row has it to itself.                            *)
LEMMA ReadStep ==
  ASSUME OneProcess, IInv, NEW h \in Handler, NEW e \in Env, ReadRow(h, e)
  PROVE  IInv'
<1> DEFINE p == ProcessOf(h)
<1>1. p \in Process /\ sync[p] = Idle /\ \A q \in Process : sync[q] = Idle
  BY ProcessAssumption, HomeAssumption DEF ReadRow, Free, OneProcess
<1>2. Goto(p, Idle) /\ UNCHANGED <<row, file, ghosts, counters>> /\ sync' = sync
  BY <1>1 DEF ReadRow, Goto, IInv, Types
<1>3. /\ session' = [session EXCEPT ![h].env = e, ![h].base = row[e]]
      /\ row[e] \in Bindings /\ row[e] # NoRow /\ \A g \in Handler : session[g].env # e
  BY DEF ReadRow, IInv, Types
<1>4. /\ session' \in [Handler -> Command] /\ session'[h].env = e /\ session'[h].base = row[e]
      /\ \A g \in Handler \ {h} : session'[g] = session[g]
  BY <1>3 DEF IInv, Types, Command
<1>5. ASSUME NEW g \in Handler PROVE Works(g)'
  <2>1. CASE g = h
    BY <1>2, <1>3, <1>4, <2>1 DEF Works
  <2>2. CASE g # h
    <3>1. ~Pending(g)
      BY <1>1, IdleIs DEF Pending
    <3>2. Works(g)
      BY DEF IInv
    <3> QED BY <1>2, <1>3, <1>4, <2>2, <3>1, <3>2 DEF Works, ghosts
  <2> QED BY <2>1, <2>2
<1>6. Hydrates(sync[p])' /\ Stores(sync[p])'
  BY <1>1, <1>2, IdleIs DEF Hydrates, Stores
<1> QED BY <1>1, <1>2, <1>4, <1>5, <1>6, IdleIs, Quiet DEF counters, IInv, Types

(* A value that is recorded: the column that is there, or the one that was *)
(* read, with one key replaced.                                            *)
LEMMA RecordStep ==
  ASSUME OneProcess, IInv, NEW h \in Handler, NEW basis, Record(h, basis),
         basis \in Bindings,
         \A k \in Key : k \in adopted[session[h].env] \/ basis[k] = row[session[h].env][k]
  PROVE  IInv'
<1> DEFINE p == ProcessOf(h)
<1>1. p \in Process /\ sync[p] = Idle /\ \A q \in Process : q = p /\ sync[q] = Idle
  BY ProcessAssumption, HomeAssumption DEF Record, Free, OneProcess
<1>2. PICK k \in Key, shape \in SUBSET Field :
        LET value == [basis EXCEPT ![k] = Object(shape, writes + 1)] IN
        /\ Goto(p, [Idle EXCEPT !.at = "update", !.by = h, !.env = session[h].env, !.key = k, !.value = value])
        /\ session' = [session EXCEPT ![h].base = value]
  BY DEF Record
<1> PICK e : e = session[h].env
  OBVIOUS
<1>3. e \in Env /\ row[e] # NoRow /\ UNCHANGED <<row, file, ghosts>> /\ writes' \in Nat /\ pulls' \in Nat
  BY DEF Record, IInv, Types, Command
<1> PICK value : value = [basis EXCEPT ![k] = Object(shape, writes + 1)]
  OBVIOUS
<1>4. value \in Bindings /\ \A j \in Key \ {k} : value[j] = basis[j]
  <2>1. writes + 1 \in Nat
    BY DEF IInv, Types
  <2>2. PICK object : object = Object(shape, writes + 1)
    OBVIOUS
  <2>3. object \in [Field -> Nat]
    BY <2>1, <2>2 DEF Object
  <2>4. value = [basis EXCEPT ![k] = object]
    BY <2>2
  <2> QED BY <2>3, <2>4 DEF Bindings
<1> PICK t : t = [Idle EXCEPT !.at = "update", !.by = h, !.env = e, !.key = k, !.value = value]
  OBVIOUS
<1>5. /\ t \in Section /\ t.at = "update" /\ t.by = h /\ t.env = e /\ t.key = k /\ t.value = value
      /\ t.doc = NoRow /\ t.rest = {}
  BY <1>3, <1>4 DEF Idle, Section
<1>6. Goto(p, t) /\ session' = [session EXCEPT ![h].base = value]
  BY <1>2
<1>7. sync'[p] = t
  BY <1>1, <1>5, <1>6, Goes DEF IInv
<1>8. /\ session' \in [Handler -> Command] /\ session'[h].env = e /\ session'[h].base = value
      /\ \A g \in Handler \ {h} : session'[g] = session[g]
  <2>1. session \in [Handler -> Command] /\ session[h] \in Command
    BY DEF IInv, Types
  <2>2. [session[h] EXCEPT !.base = value] \in Command
    BY <1>4, <2>1 DEF Command
  <2>3. session' = [session EXCEPT ![h] = [session[h] EXCEPT !.base = value]]
    BY <1>6, <2>1
  <2>4. [session[h] EXCEPT !.base = value].env = e /\ [session[h] EXCEPT !.base = value].base = value
    BY <2>1 DEF Command
  <2> QED BY <2>1, <2>2, <2>3, <2>4
<1>9. ASSUME NEW g \in Handler PROVE Works(g)'
  <2>1. ~Pending(g)
    BY <1>1, IdleIs DEF Pending
  <2>2. Works(g) /\ Works(h)
    BY DEF IInv
  <2>3. CASE g = h
    <3>1. Pending(h)'
      BY <1>1, <1>5, <1>7 DEF Pending
    <3>2. \A f \in Handler : session'[f].env = e => f = h
      BY <1>3, <1>8, <2>2, NoRowAssumption DEF Works
    <3> QED BY <1>3, <1>4, <1>8, <2>3, <3>1, <3>2 DEF Works
  <2>4. CASE g # h
    BY <1>3, <1>8, <2>1, <2>2, <2>4 DEF Works, ghosts
  <2> QED BY <2>3, <2>4
<1>10. Hydrates(sync[p])' /\ Stores(sync[p])'
  <2>1. \A j \in Key \ {k} : j \in adopted'[e] \/ value[j] = row'[e][j]
    BY <1>3, <1>4 DEF ghosts
  <2> QED BY <1>3, <1>4, <1>5, <1>7, <1>8, <2>1 DEF Hydrates, Stores
<1> QED BY <1>1, <1>3, <1>5, <1>6, <1>8, <1>9, <1>10, Quiet

LEMMA WriteStep ==
  ASSUME OneProcess, IInv, NEW h \in Handler, WriteKey(h) \/ WriteColumn(h)
  PROVE  IInv'
<1> DEFINE e == session[h].env
<1>1. sync[ProcessOf(h)] = Idle /\ e # NoRow /\ row[e] # NoRow /\ e \in Env
  BY DEF WriteKey, WriteColumn, Record, Free, IInv, Types, Command
<1>2. ~Pending(h) /\ Works(h)
  <2>1. \A q \in Process : sync[q] = Idle
    BY <1>1, ProcessAssumption, HomeAssumption DEF OneProcess
  <2> QED BY <2>1, IdleIs DEF Pending, IInv
<1>3. row[e] \in Bindings
  BY <1>1 DEF IInv, Types
<1>4. CASE WriteKey(h)
  BY <1>3, <1>4, RecordStep DEF WriteKey
<1>5. CASE WriteColumn(h)
  <2>1. session[h].base \in Bindings
        /\ \A k \in Key : k \in adopted[e] \/ session[h].base[k] = row[e][k]
    BY <1>1, <1>2 DEF Works
  <2> QED BY <1>5, <2>1, RecordStep DEF WriteColumn
<1> QED BY <1>4, <1>5

(* A row that is about to be created has nothing recorded.                 *)
LEMMA CreateStep ==
  ASSUME OneProcess, IInv, NEW h \in Handler, NEW e \in Env, Create(h, e)
  PROVE  IInv'
<1> DEFINE p == ProcessOf(h)
<1>1. p \in Process /\ \A q \in Process : sync[q] = Idle
  BY ProcessAssumption, HomeAssumption DEF Create, Free, OneProcess
<1> PICK t : t = [Idle EXCEPT !.at = "insert", !.by = h, !.env = e, !.value = NoBindings]
  OBVIOUS
<1>2. /\ t \in Section /\ t.at = "insert" /\ t.env = e /\ t.key = NoRow /\ t.value = NoBindings
      /\ t.doc = NoRow /\ t.rest = {}
  BY Nothing DEF Idle, Section
<1>3. /\ Goto(p, t) /\ row[e] = NoRow /\ UNCHANGED <<row, file, session, ghosts>>
      /\ writes' \in Nat /\ pulls' \in Nat
  BY DEF Create, IInv, Types
<1>4. sync'[p] = t
  BY <1>1, <1>2, <1>3, Goes DEF IInv
<1>5. (\A g \in Handler : Works(g))'
  <2>1. \A g \in Handler : ~Pending(g) /\ Works(g)
    BY <1>1, IdleIs DEF Pending, IInv
  <2> QED BY <1>1, <1>3, <2>1, IdleIs, StillWorks DEF IInv, Works, ghosts
<1>6. Hydrates(sync[p])' /\ Stores(sync[p])'
  BY <1>2, <1>3, <1>4 DEF Hydrates, Stores
<1> QED BY <1>1, <1>2, <1>3, <1>5, <1>6, Quiet DEF IInv, Types

(* A deletion begins with the export.                                      *)
LEMMA DeleteStep ==
  ASSUME OneProcess, IInv, NEW h \in Handler, NEW e \in Env, Delete(h, e)
  PROVE  IInv'
<1> DEFINE p == ProcessOf(h)
<1>1. p \in Process /\ \A q \in Process : sync[q] = Idle
  BY ProcessAssumption, HomeAssumption DEF Delete, Free, OneProcess
<1> PICK t : t = [Idle EXCEPT !.at = "clear", !.by = h, !.env = e]
  OBVIOUS
<1>2. t \in Section /\ t.at = "clear" /\ t.env = e /\ t.doc = NoRow /\ t.rest = {}
  BY DEF Idle, Section
<1>3. Goto(p, t) /\ UNCHANGED <<row, file, session, ghosts, counters>>
  BY DEF Delete
<1>4. sync'[p] = t
  BY <1>1, <1>2, <1>3, Goes DEF IInv
<1>5. (\A g \in Handler : Works(g))'
  <2>1. \A g \in Handler : ~Pending(g) /\ Works(g)
    BY <1>1, IdleIs DEF Pending, IInv
  <2> QED BY <1>1, <1>3, <2>1, IdleIs, StillWorks DEF IInv, Works, ghosts
<1>6. Hydrates(sync[p])' /\ Stores(sync[p])'
  BY <1>2, <1>4 DEF Hydrates, Stores
<1> QED BY <1>1, <1>2, <1>3, <1>5, <1>6, Quiet DEF counters, IInv, Types

(* Commands that end or die work on nothing any more.                      *)
LEMMA Leaves ==
  ASSUME OneProcess, IInv, NEW p \in Process, Goto(p, Idle),
         UNCHANGED <<row, file, ghosts, writes, pulls>>,
         \A g \in Handler : session'[g] \in {session[g], NoSession}, session' \in [Handler -> Command],
         sync[p].at = "update" /\ sync[p].doc = NoRow => session'[sync[p].by] = NoSession
  PROVE  IInv'
<1>1. sync'[p] = Idle /\ \A q \in Process : q = p
  BY IdleIs, Goes DEF IInv
<1>2. NoSession.env = NoRow
  BY DEF NoSession
<1>3. ASSUME NEW g \in Handler PROVE Works(g)'
  <2> SUFFICES ASSUME session'[g] = session[g], session[g].env # NoRow PROVE Works(g)'
    BY <1>2 DEF Works
  <2>1. ~Pending(g)
    BY <1>1, <1>2 DEF Pending
  <2>2. Works(g)
    BY DEF IInv
  <2>3. \A f \in Handler : session'[f].env = session[g].env => f = g
    BY <1>2, <2>2 DEF Works
  <2> QED BY <2>1, <2>2, <2>3 DEF Works, ghosts
<1>4. Hydrates(sync[p])' /\ Stores(sync[p])'
  BY <1>1, IdleIs DEF Hydrates, Stores
<1> QED BY <1>3, <1>4, IdleIs, Quiet DEF IInv, Types

-----------------------------------------------------------------------------
(* What is stored is what would be recorded had no write been lost.        *)
LEMMA StoresTheRecorded ==
  ASSUME OneProcess, IInv, NEW p \in Process, sync[p].at \in {"insert", "update"}
  PROVE  /\ sync[p].env \in Env /\ sync[p].value \in Bindings
         /\ (row[sync[p].env] = NoRow) = (sync[p].at = "insert")
         /\ Recorded(sync[p]) = sync[p].value
<1> DEFINE s == sync[p]
           e == s.env
<1>1. /\ Hydrates(s) /\ Stores(s) /\ s \in Section /\ e \in Env
      /\ s.at = "insert" \/ s.at = "update"
  BY DEF IInv, Types, Stores
<1>2. s.doc # NoRow => s.doc[e] \in Bindings /\ s.doc[e] = file[e] /\ s.key = NoRow
  BY <1>1 DEF Hydrates, IInv, Types
<1>3. row[e] \in Bindings \cup {NoRow}
  BY <1>1 DEF IInv, Types
<1>4. CASE s.at = "insert"
  BY <1>1, <1>2, <1>4, Nothing DEF Stores, Recorded
<1>5. CASE s.at = "update" /\ s.doc # NoRow
  <2>1. s.value = Merge(row[e], s.doc[e]) /\ row[e] \in Bindings /\ row[e] # NoRow
    BY <1>1, <1>3, <1>5 DEF Stores
  <2>2. s.value \in Bindings
    BY <1>2, <1>5, <2>1, MergeType
  <2>3. ASSUME NEW k \in Key, k \notin unexported[e] PROVE s.value[k] = row[e][k]
    <3>1. file[e][k] = Sanitize(row[e])[k]
      BY <1>1, <2>1, <2>3 DEF IInv, KeysAreExported, Public
    <3> QED BY <1>2, <1>5, <2>1, <3>1, MergeExported
  <2>4. recorded[e] = row[e]
    BY DEF IInv
  <2>5. Recorded(s) = [k \in Key |-> IF k \in unexported[e] THEN s.value[k] ELSE row[e][k]]
    BY <1>2, <1>5, <2>1, <2>4, NoRowAssumption DEF Recorded
  <2>6. s.value = [k \in Key |-> s.value[k]]
    BY <2>2 DEF Bindings
  <2> QED BY <1>1, <1>5, <2>1, <2>2, <2>3, <2>5, <2>6
<1>6. CASE s.at = "update" /\ s.doc = NoRow
  <2>1. /\ s.key \in Key /\ s.value \in Bindings /\ row[e] # NoRow
        /\ \A k \in Key \ {s.key} : k \in adopted[e] \/ s.value[k] = row[e][k]
    BY <1>1, <1>6 DEF Stores
  <2>2. recorded[e] = row[e] /\ s.key # NoRow
    BY <2>1, NoRowAssumption DEF IInv
  <2>3. Recorded(s) = [k \in Key |-> IF k = s.key \/ k \in adopted[e] THEN s.value[k] ELSE row[e][k]]
    BY <1>6, <2>2 DEF Recorded
  <2>4. s.value = [k \in Key |-> s.value[k]]
    BY <2>1 DEF Bindings
  <2> QED BY <1>1, <1>6, <2>1, <2>3, <2>4
<1> QED BY <1>1, <1>4, <1>5, <1>6

(* The SQL statement.                                                      *)
LEMMA StoreStep ==
  ASSUME OneProcess, IInv, NEW p \in Process, Store(p)
  PROVE  IInv'
<1> PICK s : s = sync[p]
  OBVIOUS
<1> PICK e : e = s.env
  OBVIOUS
<1>1. /\ s \in Section /\ s.at \in {"insert", "update"} /\ e \in Env /\ s.value \in Bindings
      /\ (row[e] = NoRow) = (s.at = "insert") /\ Recorded(s) = s.value /\ s.value # NoRow
  BY StoresTheRecorded, NoRowAssumption DEF Store, IInv, Types
<1>2. Hydrates(s) /\ Stores(s)
  BY DEF IInv
<1> PICK t : t = [s EXCEPT !.at = "export"]
  OBVIOUS
<1>3. /\ row' = [row EXCEPT ![e] = s.value] /\ recorded' = [recorded EXCEPT ![e] = s.value]
      /\ unexported' = [unexported EXCEPT ![e] = Unexported(s)]
      /\ adopted' = [adopted EXCEPT ![e] = Adopted(s)]
      /\ gone' = gone \ (IF s.at = "insert" /\ s.doc = NoRow THEN {e} ELSE {})
      /\ Goto(p, t) /\ UNCHANGED <<file, session, counters>>
  BY <1>1 DEF Store
<1>4. /\ t \in Section /\ t.at = "export" /\ t.env = e /\ t.doc = s.doc /\ t.rest = s.rest /\ t.key = s.key
  BY <1>1 DEF Section
<1>5. sync' \in [Process -> Section] /\ sync'[p] = t /\ \A q \in Process : q = p /\ sync[q] = s
  BY <1>3, <1>4, Goes DEF IInv
<1>6. Unexported(s) \subseteq Key /\ Adopted(s) \subseteq Key /\ unexported[e] \subseteq Unexported(s)
  BY <1>1 DEF Unexported, Adopted, Changed, IInv, Types
<1>7. Types'
  BY <1>1, <1>3, <1>5, <1>6 DEF IInv, Types, counters
<1>8. /\ row'[e] = s.value /\ unexported'[e] = Unexported(s) /\ adopted'[e] = Adopted(s)
      /\ \A d \in Env \ {e} : row'[d] = row[d] /\ unexported'[d] = unexported[d] /\ adopted'[d] = adopted[d]
  BY <1>1, <1>3 DEF IInv, Types
<1>9. recorded' = row'
  BY <1>3 DEF IInv
<1>10. KeysAreExported'
  <2>1. ASSUME NEW k \in Key, k \notin Unexported(s) PROVE file[e][k] = Sanitize(s.value)[k]
    <3>1. file[e][k] = Public(e)[k]
      BY <1>1, <1>6, <2>1 DEF IInv, KeysAreExported
    <3>2. CASE row[e] = NoRow
      <4>1. file[e][k] = NoFields
        BY <3>1, <3>2, Nothing DEF Public
      <4>2. s.value[k] = NoFields
        BY <1>1, <1>2, <3>2, <4>1, Nothing DEF Stores, Hydrates
      <4> QED BY <4>1, <4>2, SanitizeNothing
    <3>3. CASE row[e] # NoRow
      <4>1. file[e][k] = Sanitize(row[e])[k] /\ row[e] \in Bindings
        BY <1>1, <3>1, <3>3 DEF Public, IInv, Types
      <4>2. s.value[k] = row[e][k]
        <5>1. CASE s.key = NoRow
          <6>1. s.doc # NoRow
            BY <1>1, <1>2, <3>3, <5>1, NoRowAssumption DEF Stores
          <6>2. s.value = Merge(row[e], s.doc[e]) /\ s.doc[e] = file[e] /\ file[e] \in Bindings
            BY <1>1, <1>2, <3>3, <6>1 DEF Stores, Hydrates, IInv, Types
          <6> QED BY <4>1, <6>2, MergeExported
        <5>2. CASE s.key # NoRow
          BY <2>1, <5>2 DEF Unexported, Changed
        <5> QED BY <5>1, <5>2
      <4> QED BY <4>1, <4>2, SanitizeKey
    <3> QED BY <3>2, <3>3
  <2>2. Public(e)' = Sanitize(s.value)
    BY <1>1, <1>8 DEF Public
  <2>3. \A d \in Env \ {e} : Public(d)' = Public(d)
    BY <1>8 DEF Public
  <2>4. file' = file
    BY <1>3
  <2> QED BY <1>8, <2>1, <2>2, <2>3, <2>4 DEF KeysAreExported, IInv
<1>11. GoneIsGone'
  <2>1. e \notin gone'
    <3>1. CASE s.at = "insert" /\ s.doc = NoRow
      BY <1>3, <3>1
    <3>2. CASE s.at = "insert" /\ s.doc # NoRow
      BY <1>2, <1>3, <3>2 DEF Hydrates, IInv, GoneIsGone
    <3>3. CASE s.at = "update"
      BY <1>2, <1>3, <3>3 DEF Stores, IInv, GoneIsGone
    <3> QED BY <1>1, <3>1, <3>2, <3>3
  <2>2. gone' \subseteq gone /\ file' = file
    BY <1>3
  <2> QED BY <1>8, <2>1, <2>2 DEF GoneIsGone, IInv, Types
<1>12. Hydrates(sync[p])' /\ Stores(sync[p])'
  BY <1>1, <1>2, <1>3, <1>4, <1>5 DEF Hydrates, Stores
<1>13. ASSUME NEW h \in Handler PROVE Works(h)'
  <2> SUFFICES ASSUME session[h].env # NoRow PROVE Works(h)'
    BY <1>3 DEF Works
  <2> PICK d : d = session[h].env
    OBVIOUS
  <2>1. /\ row[d] # NoRow /\ session[h].base \in Bindings /\ d \in Env
        /\ \A g \in Handler : session[g].env = d => g = h
        /\ Pending(h) \/ \A k \in Key : k \in adopted[d] \/ session[h].base[k] = row[d][k]
    BY DEF IInv, Works, Types, Command
  <2>2. row'[d] # NoRow
    BY <1>1, <1>8, <2>1
  <2>3. \A k \in Key : k \in adopted'[d] \/ session[h].base[k] = row'[d][k]
    <3>1. CASE s.doc = NoRow /\ s.at = "update"
      <4>1. s.by \in Handler /\ session[s.by].env = e /\ session[s.by].base = s.value /\ s.key \in Key
        BY <1>2, <3>1 DEF Stores
      <4>2. CASE d = e
        <5>1. h = s.by
          BY <2>1, <4>1, <4>2
        <5> QED BY <1>8, <4>1, <4>2, <5>1
      <4>3. CASE d # e
        <5>1. ~Pending(h)
          BY <1>5, <4>1, <4>3 DEF Pending
        <5> QED BY <1>8, <2>1, <4>3, <5>1
      <4> QED BY <4>2, <4>3
    <3>2. CASE ~(s.doc = NoRow /\ s.at = "update")
      <4>1. ~Pending(h)
        BY <1>5, <3>2 DEF Pending
      <4>2. s.key = NoRow
        BY <1>1, <1>2, <3>2 DEF Hydrates, Stores
      <4>3. \A k \in Key : \/ k \in Adopted(s)
                           \/ k \notin adopted[e] /\ row[e] # NoRow /\ row[e][k] = s.value[k]
        BY <4>2 DEF Adopted, Changed
      <4> QED BY <1>8, <2>1, <4>1, <4>3
    <3> QED BY <3>1, <3>2
  <2> QED BY <1>3, <2>1, <2>2, <2>3 DEF Works
<1>14. (\A q \in Process : Hydrates(sync[q]) /\ Stores(sync[q]))'
  BY <1>5, <1>12
<1> QED BY <1>7, <1>9, <1>10, <1>11, <1>13, <1>14 DEF IInv

(* The entry is replaced by what the row says.                             *)
LEMMA ExportStep ==
  ASSUME OneProcess, IInv, NEW p \in Process, Export(p)
  PROVE  IInv'
<1> PICK s : s = sync[p]
  OBVIOUS
<1> PICK e : e = s.env
  OBVIOUS
<1> PICK t : t = Resume(s)
  OBVIOUS
<1>1. /\ s \in Section /\ s.at = "export" /\ e \in Env /\ Hydrates(s) /\ Stores(s) /\ p \in Home
      /\ row[e] \in Bindings \cup {NoRow}
  BY DEF Export, IInv, Types, Stores, OneProcess
<1>2. Goto(p, t) /\ UNCHANGED <<row, session, recorded, adopted, gone, counters>>
  BY DEF Export
<1>3. /\ file' = IF row[e] # NoRow THEN [file EXCEPT ![e] = Sanitize(row[e])] ELSE file
      /\ unexported' = IF row[e] # NoRow THEN [unexported EXCEPT ![e] = {}] ELSE unexported
  BY <1>1 DEF Export, With
<1>4. /\ file' \in [Env -> Bindings] /\ unexported' \in [Env -> SUBSET Key]
      /\ \A d \in Env \ {e} : file'[d] = file[d] /\ unexported'[d] = unexported[d]
      /\ row[e] # NoRow => file'[e] = Sanitize(row[e])
      /\ row[e] = NoRow => file' = file /\ unexported' = unexported
  BY <1>1, <1>3, SanitizeType DEF IInv, Types
<1>5. t \in Section
  BY <1>1, ResumeIs DEF Hydrates
<1>6. sync' \in [Process -> Section] /\ sync'[p] = t /\ \A q \in Process : q = p
  BY <1>2, <1>5, Goes DEF IInv
<1>7. Types' /\ recorded' = row'
  BY <1>2, <1>4, <1>6 DEF IInv, Types, counters
<1>8. KeysAreExported'
  BY <1>2, <1>4 DEF KeysAreExported, Public, IInv
<1>9. GoneIsGone'
  BY <1>2, <1>4 DEF GoneIsGone, IInv, Types
<1>10. Hydrates(sync[p])' /\ Stores(sync[p])'
  <2>1. \A d \in s.rest : s.doc # NoRow => s.doc[d] = file'[d] /\ file'[d] # NoBindings
    BY <1>1, <1>4 DEF Hydrates, Section
  <2>2. s.doc = NoRow => s.rest = {}
    BY <1>1 DEF Hydrates
  <2> QED BY <1>1, <1>6, <2>1, <2>2, ResumesWell
<1>11. (\A h \in Handler : Works(h))'
  <2>1. \A h \in Handler : ~Pending(h) /\ Works(h)
    BY <1>1, <1>6 DEF Pending, IInv
  <2> QED BY <1>2, <2>1 DEF Works
<1>12. (\A q \in Process : Hydrates(sync[q]) /\ Stores(sync[q]))'
  BY <1>6, <1>10
<1> QED BY <1>7, <1>8, <1>9, <1>11, <1>12 DEF IInv

(* The entry of an environment that is deleted goes first ...              *)
LEMMA ClearStep ==
  ASSUME OneProcess, IInv, NEW p \in Process, Clear(p)
  PROVE  IInv'
<1> PICK s : s = sync[p]
  OBVIOUS
<1> PICK e : e = s.env
  OBVIOUS
<1> PICK t : t = [s EXCEPT !.at = "drop"]
  OBVIOUS
<1>1. s \in Section /\ s.at = "clear" /\ e \in Env /\ Hydrates(s) /\ p \in Home
  BY DEF Clear, IInv, Types, Stores, OneProcess
<1>2. Goto(p, t) /\ UNCHANGED <<row, session, recorded, adopted, gone, counters>>
  BY DEF Clear
<1>3. file' = [file EXCEPT ![e] = NoBindings] /\ unexported' = [unexported EXCEPT ![e] = Key]
  BY <1>1, SanitizeNoBindings DEF Clear, With
<1>4. /\ file' \in [Env -> Bindings] /\ unexported' \in [Env -> SUBSET Key]
      /\ \A d \in Env \ {e} : file'[d] = file[d] /\ unexported'[d] = unexported[d]
      /\ file'[e] = NoBindings /\ unexported'[e] = Key
  BY <1>1, <1>3, Nothing DEF IInv, Types
<1>5. /\ t \in Section /\ t.at = "drop" /\ t.env = e /\ t.doc = s.doc /\ t.rest = s.rest /\ t.key = s.key
  BY <1>1 DEF Section
<1>6. sync' \in [Process -> Section] /\ sync'[p] = t /\ \A q \in Process : q = p
  BY <1>2, <1>5, Goes DEF IInv
<1>7. Types' /\ recorded' = row'
  BY <1>2, <1>4, <1>6 DEF IInv, Types, counters
<1>8. KeysAreExported'
  BY <1>2, <1>4 DEF KeysAreExported, Public, IInv
<1>9. GoneIsGone'
  BY <1>2, <1>4 DEF GoneIsGone, IInv, Types
<1>10. Hydrates(sync[p])' /\ Stores(sync[p])'
  BY <1>1, <1>4, <1>5, <1>6 DEF Hydrates, Stores, Section
<1>11. (\A h \in Handler : Works(h))'
  <2>1. \A h \in Handler : ~Pending(h) /\ Works(h)
    BY <1>1, <1>6 DEF Pending, IInv
  <2> QED BY <1>2, <2>1 DEF Works
<1>12. (\A q \in Process : Hydrates(sync[q]) /\ Stores(sync[q]))'
  BY <1>6, <1>10
<1> QED BY <1>7, <1>8, <1>9, <1>11, <1>12 DEF IInv

(* ... then its row, so that nothing of it is left.                        *)
LEMMA DropStep ==
  ASSUME OneProcess, IInv, NEW p \in Process, Drop(p)
  PROVE  IInv'
<1> PICK e : e = sync[p].env
  OBVIOUS
<1>1. e \in Env /\ sync[p].at = "drop" /\ file[e] = NoBindings
  BY DEF Drop, IInv, Stores
<1>2. /\ row' = [row EXCEPT ![e] = NoRow] /\ recorded' = [recorded EXCEPT ![e] = NoRow]
      /\ unexported' = [unexported EXCEPT ![e] = {}] /\ gone' = gone \cup {e}
      /\ adopted' = [adopted EXCEPT ![e] = {}] /\ Goto(p, Idle) /\ UNCHANGED <<file, counters>>
      /\ session' = [h \in Handler |-> IF session[h].env = e THEN NoSession ELSE session[h]]
  BY DEF Drop
<1>3. sync' \in [Process -> Section] /\ sync'[p] = Idle /\ \A q \in Process : q = p
  BY <1>2, IdleIs, Goes DEF IInv
<1>4. NoSession \in Command /\ NoSession.env = NoRow
  BY DEF NoSession, Command
<1>5. Types' /\ recorded' = row'
  BY <1>1, <1>2, <1>3, <1>4 DEF IInv, Types, counters
<1>6. /\ row'[e] = NoRow /\ unexported'[e] = {}
      /\ \A d \in Env \ {e} : row'[d] = row[d] /\ unexported'[d] = unexported[d] /\ adopted'[d] = adopted[d]
  BY <1>1, <1>2 DEF IInv, Types
<1>7. KeysAreExported'
  BY <1>1, <1>2, <1>6 DEF KeysAreExported, Public, IInv
<1>8. GoneIsGone'
  BY <1>1, <1>2, <1>6 DEF GoneIsGone, IInv, Types
<1>9. (\A q \in Process : Hydrates(sync[q]) /\ Stores(sync[q]))'
  BY <1>3, IdleIs DEF Hydrates, Stores
<1>10. ASSUME NEW h \in Handler PROVE Works(h)'
  <2> SUFFICES ASSUME session'[h].env # NoRow PROVE Works(h)'
    BY DEF Works
  <2>1. session'[h] = session[h] /\ session[h].env # e /\ session[h].env \in Env
    BY <1>2, <1>4 DEF IInv, Types, Command
  <2>2. ~Pending(h) /\ Works(h)
    BY <1>1, <1>3 DEF Pending, IInv
  <2>3. \A g \in Handler : session'[g].env = session[h].env => g = h
    BY <1>2, <1>4, <2>1, <2>2 DEF Works
  <2> QED BY <1>6, <2>1, <2>2, <2>3 DEF Works
<1> QED BY <1>5, <1>7, <1>8, <1>9, <1>10 DEF IInv

(* The rows of the project go; the keys the file keeps are not those of a  *)
(* row, and nobody works on one.                                           *)
LEMMA DestroyStep ==
  ASSUME OneProcess, IInv, NEW h \in Handler, DestroyProject(h)
  PROVE  IInv'
<1>1. /\ row' = [e \in Env |-> NoRow] /\ recorded' = [e \in Env |-> NoRow]
      /\ unexported' = [e \in Env |-> {k \in Key : file[e][k] # NoFields}]
      /\ adopted' = [e \in Env |-> {}]
      /\ sync' = [p \in Process |-> Idle] /\ session' = [g \in Handler |-> NoSession]
      /\ UNCHANGED <<file, gone, counters>>
  BY DEF DestroyProject
<1>2. NoSession \in Command /\ NoSession.env = NoRow
  BY DEF NoSession, Command
<1>3. Types' /\ recorded' = row'
  BY <1>1, <1>2, IdleIs DEF IInv, Types, counters
<1>4. KeysAreExported' /\ GoneIsGone'
  BY <1>1, Nothing DEF KeysAreExported, Public, GoneIsGone, IInv, Types
<1>5. (\A q \in Process : Hydrates(sync[q]) /\ Stores(sync[q]))'
  BY <1>1, IdleIs DEF Hydrates, Stores
<1>6. (\A g \in Handler : Works(g))'
  BY <1>1, <1>2 DEF Works
<1> QED BY <1>3, <1>4, <1>5, <1>6 DEF IInv

(* What git brings has not been exported by anybody here.                  *)
LEMMA PullStep ==
  ASSUME OneProcess, IInv, NEW e \in Env, Pull(e)
  PROVE  IInv'
<1>1. PICK k \in Key, shape \in SUBSET (Field \ Secret) :
        /\ file' = [file EXCEPT ![e][k] = Object(shape, MaxWrites + pulls')]
        /\ unexported' = [unexported EXCEPT ![e] = @ \cup {k}]
  BY DEF Pull
<1> PICK object : object = Object(shape, MaxWrites + pulls')
  OBVIOUS
<1>2. /\ gone' = gone \ {e} /\ pulls' = pulls + 1 /\ \A p \in Process : sync[p] = Idle
      /\ UNCHANGED <<row, sync, session, recorded, adopted, writes>>
  BY DEF Pull
<1>3. object \in [Field -> Nat]
  BY <1>2, BoundAssumption DEF Object, IInv, Types
<1>4. file[e] \in Bindings /\ [file[e] EXCEPT ![k] = object] \in Bindings
      /\ \A j \in Key \ {k} : [file[e] EXCEPT ![k] = object][j] = file[e][j]
  BY <1>3 DEF IInv, Types, Bindings
<1>5. file' = [file EXCEPT ![e] = [file[e] EXCEPT ![k] = object]]
  BY <1>1 DEF IInv, Types
<1>6. /\ file' \in [Env -> Bindings] /\ unexported' \in [Env -> SUBSET Key]
      /\ unexported'[e] = unexported[e] \cup {k} /\ \A j \in Key \ {k} : file'[e][j] = file[e][j]
      /\ \A d \in Env \ {e} : file'[d] = file[d] /\ unexported'[d] = unexported[d]
  BY <1>1, <1>4, <1>5 DEF IInv, Types
<1>7. Types' /\ recorded' = row'
  BY <1>2, <1>6 DEF IInv, Types
<1>8. KeysAreExported'
  BY <1>2, <1>6 DEF KeysAreExported, Public, IInv
<1>9. GoneIsGone'
  BY <1>2, <1>6 DEF GoneIsGone, IInv, Types
<1>10. (\A q \in Process : Hydrates(sync[q]) /\ Stores(sync[q]))'
  BY <1>2, IdleIs DEF Hydrates, Stores
<1>11. (\A h \in Handler : Works(h))'
  <2>1. \A h \in Handler : ~Pending(h) /\ Works(h)
    BY <1>2, IdleIs DEF Pending, IInv
  <2> QED BY <1>2, <2>1 DEF Works
<1> QED BY <1>7, <1>8, <1>9, <1>10, <1>11 DEF IInv

(* Every step keeps the invariant.                                         *)
LEMMA Step == OneProcess /\ IInv /\ [Next]_vars => IInv'
<1> SUFFICES ASSUME OneProcess, IInv, [Next]_vars PROVE IInv'
  OBVIOUS
<1>1. NoSession \in Command /\ session \in [Handler -> Command]
  BY DEF NoSession, Command, IInv, Types
<1>2. ASSUME NEW h \in Handler,
             StartCommand(h) \/ WriteKey(h) \/ WriteColumn(h) \/ EndCommand(h) \/ DestroyProject(h)
             \/ \E e \in Env : ReadRow(h, e) \/ Create(h, e) \/ Delete(h, e)
      PROVE  IInv'
  <2>1. CASE EndCommand(h)
    <3>1. ProcessOf(h) \in Process /\ sync[ProcessOf(h)] = Idle /\ sync' = sync
      BY <2>1, ProcessAssumption DEF EndCommand, Free
    <3>2. Goto(ProcessOf(h), Idle)
      BY <3>1 DEF Goto, IInv, Types
    <3>3. session' = [session EXCEPT ![h] = NoSession] /\ UNCHANGED <<row, file, ghosts, writes, pulls>>
      BY <2>1 DEF EndCommand, counters
    <3> QED BY <1>1, <3>1, <3>2, <3>3, IdleIs, Leaves
  <2> QED BY <1>2, <2>1, StartStep, WriteStep, ReadStep, CreateStep, DeleteStep, DestroyStep
<1>3. ASSUME NEW p \in Process,
             Hydrate(p) \/ Store(p) \/ Export(p) \/ Clear(p) \/ Drop(p) \/ ExportFails(p) \/ Crash(p)
      PROVE  IInv'
  <2>1. CASE ExportFails(p)
    <3>1. /\ sync[p].at # "update" /\ Goto(p, Idle) /\ UNCHANGED <<row, file, ghosts, writes, pulls>>
          /\ session' = [session EXCEPT ![sync[p].by] = NoSession]
      BY <2>1 DEF ExportFails
    <3> QED BY <1>1, <3>1, Leaves
  <2>2. CASE Crash(p)
    <3>1. /\ Goto(p, Idle) /\ UNCHANGED <<row, file, ghosts, writes, pulls>>
          /\ session' = [h \in Handler |-> IF ProcessOf(h) = p THEN NoSession ELSE session[h]]
      BY <2>2 DEF Crash
    <3>2. \A h \in Handler : ProcessOf(h) = p
      BY ProcessAssumption, HomeAssumption DEF OneProcess
    <3>3. sync[p].at = "update" /\ sync[p].doc = NoRow => sync[p].by \in Handler
      BY DEF IInv, Stores
    <3> QED BY <1>1, <3>1, <3>2, <3>3, Leaves
  <2> QED BY <1>3, <2>1, <2>2, HydrateStep, StoreStep, ExportStep, ClearStep, DropStep
<1>4. ASSUME NEW e \in Env, Pull(e) PROVE IInv'
  BY <1>4, PullStep
<1>5. CASE UNCHANGED vars
  BY <1>5 DEF vars, ghosts, counters, IInv, Types, KeysAreExported, Public, GoneIsGone, Hydrates, Stores,
              Works, Pending
<1> QED BY <1>2, <1>3, <1>4, <1>5 DEF Next

-----------------------------------------------------------------------------
(* In every state the rows are what they would be had no write been lost,  *)
(* and the file says the same of every key whose last value was exported.  *)
THEOREM Invariance == OneProcess => (Spec => []IInv)
<1> SUFFICES ASSUME OneProcess PROVE Spec => []IInv
  OBVIOUS
<1>1. IInv /\ [Next]_vars => IInv'
  BY Step
<1> QED BY <1>1, InitInv, PTL DEF Spec

(* No value a command recorded is lost: not to the column another command  *)
(* read before (saveBinding), not to the hydration of an older export, not *)
(* to a crash, a failed export or a pull, where one process runs.          *)
THEOREM ValuesSurvive == OneProcess => (Spec => []RecordedValuesSurvive)
<1>1. IInv => RecordedValuesSurvive
  BY DEF IInv, RecordedValuesSurvive, OnlyUnexportedIsLost, SecretsSurvive
<1> QED BY <1>1, Invariance, PTL

(* The export says what the row says, and an environment deleted singly    *)
(* does not come back with it, wherever the process dies and whether or not*)
(* its project is deleted later; those of a deleted project come back from *)
(* what was exported of them.                                              *)
THEOREM ExportIsTrue == OneProcess => (Spec => []ExportFollowsRow)
<1>1. IInv => DeletedStaysDeleted
  BY DEF IInv, GoneIsGone, DeletedStaysDeleted
<1>2. IInv => FileMirrorsRow
  <2> SUFFICES ASSUME IInv, NEW e \in Env, row[e] # NoRow, unexported[e] = {} PROVE file[e] = Sanitize(row[e])
    BY DEF FileMirrorsRow
  <2>1. file[e] \in Bindings /\ Sanitize(row[e]) \in Bindings
    BY SanitizeType DEF IInv, Types
  <2>2. \A k \in Key : file[e][k] = Sanitize(row[e])[k]
    BY DEF IInv, KeysAreExported, Public
  <2> QED BY <2>1, <2>2 DEF Bindings
<1> QED BY <1>1, <1>2, Invariance, PTL DEF ExportFollowsRow

-----------------------------------------------------------------------------
(***************************************************************************)
(* Deploys                                                                 *)
(***************************************************************************)
Phases == {"idle", "call", "record", "rollback", "settle"}
Instances == live \cup inflight
Answers == [ok : BOOLEAN, id : Nat, created : BOOLEAN, recovery : Deploy!Recovery]

(* The types, without the bounds of a run; ids were given out.             *)
DeployTypes ==
  /\ ids \in Nat /\ projects \subseteq 1 .. ids
  /\ Instances \subseteq [id : 1 .. ids, of : Service, in : projects]
  /\ stored \in Deploy!Row /\ at \in Phases /\ got \in Answers
  /\ tx \in Seq(Deploy!Undo) /\ pending \in [Service -> Deploy!Recovery] /\ failed \subseteq Service
  /\ clean \in BOOLEAN

(* Where an instance may be known: the row (or a snapshot of it) binds it  *)
(* or names it as unresolved, or the answer being recorded is about it.    *)
KnownTo(r, i) == r.services[i.of] = i.id \/ r.recovery[i.of] # "none"
Answered(i) == at = "record" /\ Head(todo) = i.of /\ (got.created \/ got.recovery # "none")
Reported(i) == pending[i.of] # "none"
Deletes(k, i) == tx[k].do = "delete" /\ tx[k].of = i.of /\ tx[k].id = i.id

(* Every instance is known, until the rollback is over also from what the  *)
(* steps reported and from the deletions that failed.                      *)
NothingIsLost ==
  \A i \in Instances :
    i.of \in unretained \/ KnownTo(stored, i) \/ Answered(i)
      \/ (at = "rollback" /\ (Reported(i) \/ i.of \in failed))

(* Every instance is known to every snapshot, but for what is deleted      *)
(* before that snapshot is restored, and what the steps reported.          *)
SnapshotsLoseNothing ==
  at # "idle" => \A k \in 1 .. Len(tx), i \in Instances : tx[k].do = "restore" =>
    \/ i.of \in unretained \/ KnownTo(tx[k].to, i) \/ Answered(i) \/ Reported(i)
    \/ \E m \in k + 1 .. Len(tx) : Deletes(m, i)

(* What a tried deletion left is among those that failed.                  *)
TriedIsGone ==
  at = "rollback" => \A k \in Len(undo) + 1 .. Len(tx), i \in Instances : Deletes(k, i) => i.of \in failed

OneOfAName == \A i, j \in Instances : i.of = j.of => i = j \/ i.of \in unretained

(* An answer is of the step it is recorded for, about the one instance of  *)
(* that service there is; what was created is new, and in a new project    *)
(* there is nothing yet.                                                   *)
AnswersFit ==
  at = "record" =>
    /\ got.recovery # "none" => ~got.ok /\ Head(todo) \in Service
    /\ got.created => got.id # 0
    /\ got.id # 0 /\ Head(todo) \notin Service => Head(todo) = "project" /\ (got.created => Instances = {})
    /\ got.id # 0 /\ Head(todo) \in Service =>
         /\ got.id <= ids
         /\ got.created => \A i \in begun.live \cup inflight : i.id # got.id
         /\ got.ok => \A i \in Instances : i.of = Head(todo) => i.id = got.id \/ i.of \in unretained

(* A rollback deletes what its deploy created.                             *)
OwnDeletes ==
  at # "idle" => \A k \in 1 .. Len(tx) : tx[k].do = "delete" =>
    /\ tx[k].of \in Service \cup {"project"}
    /\ tx[k].of = "project" => begun.live = {}
    /\ tx[k].of # "project" => tx[k].id <= ids /\ \A i \in begun.live \cup inflight : i.id # tx[k].id

(* The first snapshot is of the bindings the deploy began with, and so is  *)
(* the row while there is none and after a rollback.                       *)
AsBegun(r) == r.project = begun.row.project /\ r.services = begun.row.services
UndoIsRest == at = "rollback" => Len(undo) \in 0 .. Len(tx) /\ undo = SubSeq(tx, 1, Len(undo))
FirstIsBegun ==
  at # "idle" =>
    /\ at \in {"call", "record"} => clean
    /\ tx # <<>> => tx[1].do = "restore" /\ AsBegun(tx[1].to)
    /\ clean /\ (tx = <<>> \/ at = "settle" \/ (at = "rollback" /\ undo = <<>>)) => AsBegun(stored)

DeployInv ==
  /\ DeployTypes /\ NothingIsLost /\ SnapshotsLoseNothing /\ TriedIsGone /\ OneOfAName
  /\ AnswersFit /\ OwnDeletes /\ Deploy!OnlyOwnWorkUndone /\ UndoIsRest /\ FirstIsBegun

-----------------------------------------------------------------------------
(* Initially the row knows all there is.                                   *)
LEMMA DeployInitInv == Deploy!Assumption /\ Deploy!Init => DeployInv
<1> SUFFICES ASSUME Deploy!Assumption, Deploy!Init PROVE DeployInv
  OBVIOUS
<1>1. PICK b \in SUBSET Existing, p \in {0, 1} :
       /\ b = {} \/ p = 1
       /\ projects = {p} \ {0}
       /\ live = {[id |-> Deploy!FirstId(s), of |-> s, in |-> 1] : s \in b}
       /\ stored = [project |-> p, recovery |-> Deploy!None,
                 services |-> [s \in Service |-> IF s \in b THEN Deploy!FirstId(s) ELSE 0]]
  BY DEF Deploy!Init
<1>2. Len(Order) \in Nat /\ \A s \in Service : Deploy!FirstId(s) \in 1 .. 1 + Len(Order)
  <2>1. Order \in Seq(Service) /\ \A s \in Service : \E k \in 1 .. Len(Order) : Order[k] = s
    BY DEF Deploy!Assumption
  <2>2. Len(Order) \in Nat
    BY <2>1, LenProperties
  <2>3. ASSUME NEW s \in Service PROVE Deploy!FirstId(s) \in 1 .. 1 + Len(Order)
    <3> DEFINE k == CHOOSE k \in 1 .. Len(Order) : Order[k] = s
    <3>1. k \in 1 .. Len(Order)
      BY <2>1
    <3> QED BY <2>2, <3>1 DEF Deploy!FirstId
  <2> QED BY <2>2, <2>3
<1>3. b \subseteq Service /\ inflight = {} /\ ids = 1 + Len(Order) /\ at = "idle" /\ got = Deploy!NoAnswer
      /\ tx = <<>> /\ pending = Deploy!None /\ failed = {} /\ clean = TRUE /\ begun.live = live
  BY <1>1 DEF Deploy!Init, Deploy!Assumption
<1>4. Instances \subseteq [id : 1 .. ids, of : Service, in : projects]
  BY <1>1, <1>2, <1>3 DEF Instances
<1>5. stored \in Deploy!Row
  BY <1>1, <1>2, <1>3 DEF Deploy!Row, Deploy!None, Deploy!Recovery
<1>6. DeployTypes
  <2>1. projects \subseteq 1 .. ids
    BY <1>1, <1>2, <1>3
  <2> QED BY <1>2, <1>3, <1>4, <1>5, <2>1 DEF DeployTypes, Phases, Answers, Deploy!NoAnswer, Deploy!None, Deploy!Recovery
<1>7. NothingIsLost
  BY <1>1, <1>3 DEF NothingIsLost, Instances, KnownTo
<1>8. OneOfAName
  BY <1>1, <1>3 DEF OneOfAName, Instances
<1>9. Deploy!OnlyOwnWorkUndone
  BY <1>3 DEF Deploy!OnlyOwnWorkUndone
<1> QED BY <1>3, <1>6, <1>7, <1>8, <1>9
        DEF DeployInv, SnapshotsLoseNothing, TriedIsGone, AnswersFit, OwnDeletes, UndoIsRest, FirstIsBegun

-----------------------------------------------------------------------------
(* A deploy starts with nothing recorded.                                  *)
LEMMA Starts ==
  ASSUME DeployInv, Deploy!StartDeploy
  PROVE  DeployInv'
<1>1. /\ at = "idle" /\ at' = "call" /\ tx' = <<>> /\ pending' = Deploy!None /\ failed' = {}
      /\ begun' = [row |-> stored, live |-> live] /\ clean' = TRUE /\ got' = Deploy!NoAnswer
      /\ UNCHANGED <<projects, live, inflight, stored, unretained, ids>>
  BY DEF Deploy!StartDeploy, Deploy!provider
<1>2. Instances' = Instances
  BY <1>1 DEF Instances
<1>3. DeployTypes'
  BY <1>1, <1>2 DEF DeployInv, DeployTypes, Phases, Answers, Deploy!NoAnswer, Deploy!None, Deploy!Recovery
<1>4. NothingIsLost'
  BY <1>1, <1>2 DEF DeployInv, NothingIsLost, Answered, KnownTo
<1>5. OneOfAName' /\ Deploy!OnlyOwnWorkUndone' /\ AnswersFit' /\ TriedIsGone' /\ UndoIsRest'
  BY <1>1, <1>2 DEF DeployInv, OneOfAName, Deploy!OnlyOwnWorkUndone, AnswersFit, TriedIsGone, UndoIsRest
<1>6. SnapshotsLoseNothing' /\ OwnDeletes' /\ FirstIsBegun'
  BY <1>1, <1>2 DEF SnapshotsLoseNothing, OwnDeletes, FirstIsBegun, AsBegun
<1> QED BY <1>3, <1>4, <1>5, <1>6 DEF DeployInv

(* An answer that changed nothing at the provider.                         *)
LEMMA AnswerFits ==
  ASSUME DeployInv, at = "call", NEW ok \in BOOLEAN, NEW id \in 0 .. ids, NEW recovery \in Deploy!Recovery,
         Deploy!Answer(ok, id, FALSE, recovery), UNCHANGED <<Deploy!provider, ids>>,
         recovery # "none" => ~ok /\ Head(todo) \in Service,
         id # 0 => Head(todo) \in Service \cup {"project"},
         id # 0 /\ ok /\ Head(todo) \in Service =>
           \A i \in Instances : i.of = Head(todo) => i.id = id \/ i.of \in unretained
  PROVE  DeployInv'
<1>1. /\ at' = "record" /\ got' = [ok |-> ok, id |-> id, created |-> FALSE, recovery |-> recovery]
      /\ UNCHANGED <<projects, live, inflight, stored, todo, tx, undo, pending, failed, begun, clean, unretained, ids>>
  BY DEF Deploy!Answer, Deploy!provider
<1>2. Instances' = Instances
  BY <1>1 DEF Instances
<1>3. DeployTypes'
  BY <1>1, <1>2 DEF DeployInv, DeployTypes, Phases, Answers
<1>4. NothingIsLost'
  BY <1>1, <1>2 DEF DeployInv, NothingIsLost, Answered, KnownTo
<1>5. SnapshotsLoseNothing'
  BY <1>1, <1>2 DEF DeployInv, SnapshotsLoseNothing, Answered, KnownTo, Reported, Deletes
<1>6. OneOfAName' /\ Deploy!OnlyOwnWorkUndone' /\ TriedIsGone' /\ UndoIsRest'
  BY <1>1, <1>2 DEF DeployInv, OneOfAName, Deploy!OnlyOwnWorkUndone, TriedIsGone, UndoIsRest
<1>7. AnswersFit'
  BY <1>1, <1>2 DEF AnswersFit, DeployInv, DeployTypes
<1>8. OwnDeletes' /\ FirstIsBegun'
  BY <1>1, <1>2 DEF DeployInv, OwnDeletes, FirstIsBegun, AsBegun
<1> QED BY <1>3, <1>4, <1>5, <1>6, <1>7, <1>8 DEF DeployInv

(* The project is created where there is none, and then holds nothing.     *)
LEMMA EnsuresProject ==
  ASSUME DeployInv, Deploy!Assumption, Deploy!EnsureProject
  PROVE  DeployInv'
<1>1. at = "call" /\ Head(todo) = "project" /\ "project" \notin Service
  BY DEF Deploy!EnsureProject, Deploy!Now, Deploy!Assumption
<1>2. CASE Deploy!Refuse("none")
  <2>1. Deploy!Answer(FALSE, 0, FALSE, "none") /\ UNCHANGED <<Deploy!provider, ids>>
    BY <1>2 DEF Deploy!Refuse
  <2>2. 0 \in 0 .. ids
    BY DEF DeployInv, DeployTypes
  <2> QED BY <1>1, <2>1, <2>2, AnswerFits DEF Deploy!Recovery
<1>3. CASE stored.project \in projects /\ Deploy!Answer(TRUE, stored.project, FALSE, "none") /\ UNCHANGED <<Deploy!provider, ids>>
  <2>1. ids \in Nat /\ projects \subseteq 1 .. ids
    BY DEF DeployInv, DeployTypes
  <2>2. stored.project \in 1 .. ids
    BY <1>3, <2>1
  <2>3. stored.project \in 0 .. ids
    BY <2>1, <2>2
  <2> QED BY <1>1, <1>3, <2>3, AnswerFits DEF Deploy!Recovery
<1>4. CASE /\ stored.project = 0 /\ projects = {}
           /\ ids' = ids + 1 /\ projects' = {ids'}
           /\ \E ok \in BOOLEAN : Deploy!Answer(ok, ids', TRUE, "none")
           /\ UNCHANGED <<live, inflight>>
  <2>1. Instances = {} /\ Instances' = {} /\ live = {} /\ inflight = {}
    BY <1>4 DEF DeployInv, DeployTypes, Instances
  <2>2. PICK ok \in BOOLEAN : Deploy!Answer(ok, ids', TRUE, "none")
    BY <1>4
  <2>3. /\ at' = "record" /\ got' = [ok |-> ok, id |-> ids + 1, created |-> TRUE, recovery |-> "none"]
        /\ UNCHANGED <<stored, todo, tx, undo, pending, failed, begun, clean, unretained>>
        /\ ids' = ids + 1 /\ projects' = {ids + 1} /\ UNCHANGED <<live, inflight>>
    BY <1>4, <2>2 DEF Deploy!Answer
  <2>4. ids \in Nat
    BY DEF DeployInv, DeployTypes
  <2>5. DeployTypes'
    BY <2>1, <2>3, <2>4 DEF DeployInv, DeployTypes, Phases, Answers, Deploy!Recovery
  <2>6. NothingIsLost' /\ SnapshotsLoseNothing' /\ TriedIsGone' /\ OneOfAName'
    BY <2>1 DEF NothingIsLost, SnapshotsLoseNothing, TriedIsGone, OneOfAName
  <2>7. AnswersFit'
    BY <1>1, <2>1, <2>3, <2>4 DEF AnswersFit
  <2>8. \A k \in 1 .. Len(tx) : tx[k].do = "delete" /\ tx[k].of # "project" => tx[k].id \in Nat
    BY DEF DeployInv, DeployTypes, Deploy!Undo
  <2>9. OwnDeletes' /\ Deploy!OnlyOwnWorkUndone' /\ UndoIsRest' /\ FirstIsBegun'
    BY <1>1, <2>1, <2>3, <2>4, <2>8 DEF DeployInv, OwnDeletes, Deploy!OnlyOwnWorkUndone, UndoIsRest, FirstIsBegun, AsBegun
  <2> QED BY <2>5, <2>6, <2>7, <2>9 DEF DeployInv
<1> QED BY <1>2, <1>3, <1>4 DEF Deploy!EnsureProject

(* setEnvVars and verifyHealth answer without an identity.                 *)
LEMMA Checks ==
  ASSUME DeployInv, Deploy!Check
  PROVE  DeployInv'
<1>1. PICK ok \in BOOLEAN : Deploy!Answer(ok, 0, FALSE, "none")
  BY DEF Deploy!Check
<1>2. at = "call" /\ UNCHANGED <<Deploy!provider, ids>>
  BY DEF Deploy!Check, Deploy!Now
<1>3. 0 \in 0 .. ids
  BY DEF DeployInv, DeployTypes
<1> QED BY <1>1, <1>2, <1>3, AnswerFits DEF Deploy!Recovery

(* A service is deployed again under the one instance it has.              *)
LEMMA Redeploys ==
  ASSUME DeployInv, Deploy!Assumption, NEW s \in Service, Deploy!Redeploy(s)
  PROVE  DeployInv'
<1>1. at = "call" /\ Head(todo) = s
  BY DEF Deploy!Redeploy, Deploy!Now
<1>2. CASE Deploy!Refuse(stored.recovery[s])
  <2>1. Deploy!Answer(FALSE, 0, FALSE, stored.recovery[s]) /\ UNCHANGED <<Deploy!provider, ids>>
    BY <1>2 DEF Deploy!Refuse
  <2>2. stored.recovery[s] \in Deploy!Recovery /\ 0 \in 0 .. ids
    BY DEF DeployInv, DeployTypes, Deploy!Row
  <2> QED BY <1>1, <2>1, <2>2, AnswerFits
<1>3. CASE /\ stored.recovery[s] = "none"
           /\ \E i \in Deploy!Named(s) : /\ stored.services[s] \in {0, i.id} /\ Deploy!Named(s) = {i}
                                         /\ Deploy!Answer(TRUE, i.id, FALSE, "none")
           /\ UNCHANGED <<Deploy!provider, ids>>
  <2>1. PICK i \in Deploy!Named(s) : stored.services[s] \in {0, i.id} /\ Deploy!Answer(TRUE, i.id, FALSE, "none")
    BY <1>3
  <2>2. i \in Instances /\ i.of = s
    BY DEF Deploy!Named, Instances
  <2>3. \A j \in Instances : j.id \in 1 .. ids
    BY DEF DeployInv, DeployTypes
  <2>4. \A j \in Instances : j.of = s => j.id = i.id \/ j.of \in unretained
    BY <1>1, <1>3, <2>1, <2>3 DEF DeployInv, NothingIsLost, KnownTo, Answered
  <2>5. i.id \in 0 .. ids
    BY <2>2, <2>3
  <2> QED BY <1>1, <1>3, <2>1, <2>4, <2>5, AnswerFits DEF Deploy!Recovery
<1> QED BY <1>2, <1>3 DEF Deploy!Redeploy

(* A service is created where none of its name may exist.                  *)
LEMMA Creates ==
  ASSUME DeployInv, NEW s \in Service, Deploy!CreateService(s)
  PROVE  DeployInv'
<1> DEFINE i == [id |-> ids + 1, of |-> s, in |-> stored.project]
<1>1. /\ at = "call" /\ Head(todo) = s /\ stored.project \in projects /\ ids' = ids + 1
      /\ stored.services[s] = 0 /\ stored.recovery[s] = "none" /\ projects' = projects
  BY DEF Deploy!CreateService, Deploy!Now, Deploy!MayCreate
<1>2. PICK ok \in BOOLEAN, id \in {0, ids + 1}, created \in BOOLEAN, recovery \in Deploy!Recovery :
        /\ Deploy!Answer(ok, id, created, recovery)
        /\ created \/ recovery # "none"
        /\ recovery # "none" => ~ok
        /\ created => id = ids + 1 /\ inflight' = inflight
        /\ ok => id = ids + 1
  BY <1>1 DEF Deploy!CreateService, Deploy!Recovery
<1>3. \/ live' = live \cup {i} /\ inflight' = inflight
      \/ inflight' = inflight \cup {i} /\ live' = live
  BY <1>1 DEF Deploy!CreateService
<1>4. /\ at' = "record" /\ got' = [ok |-> ok, id |-> id, created |-> created, recovery |-> recovery]
      /\ UNCHANGED <<stored, todo, tx, undo, pending, failed, begun, clean, unretained>>
  BY <1>2 DEF Deploy!Answer
<1>5. Instances' = Instances \cup {i}
  BY <1>3 DEF Instances
<1>6. ids \in Nat /\ \A j \in Instances : j.id \in 1 .. ids
  BY DEF DeployInv, DeployTypes
<1>7. \A j \in Instances : j.of = s => j.of \in unretained
  BY <1>1, <1>6 DEF DeployInv, NothingIsLost, KnownTo, Answered
<1>8. Answered(i)'
  BY <1>1, <1>2, <1>4 DEF Answered
<1>9. DeployTypes'
  <2>1. i \in [id : 1 .. ids + 1, of : Service, in : projects]
    BY <1>1, <1>6
  <2>2. Instances' \subseteq [id : 1 .. ids + 1, of : Service, in : projects]
    BY <1>5, <1>6, <2>1 DEF DeployInv, DeployTypes
  <2>3. got' \in Answers
    BY <1>4, <1>6 DEF Answers
  <2>4. projects \subseteq 1 .. ids + 1
    BY <1>6 DEF DeployInv, DeployTypes
  <2> QED BY <1>1, <1>4, <1>6, <2>2, <2>3, <2>4 DEF DeployInv, DeployTypes, Phases
<1>10. NothingIsLost'
  BY <1>1, <1>4, <1>5, <1>8 DEF DeployInv, NothingIsLost, Answered, KnownTo
<1>11. SnapshotsLoseNothing'
  BY <1>1, <1>4, <1>5, <1>8 DEF DeployInv, SnapshotsLoseNothing, Answered, KnownTo, Reported, Deletes
<1>12. OneOfAName'
  BY <1>4, <1>5, <1>7 DEF DeployInv, OneOfAName
<1>13. AnswersFit'
  <2>1. \A j \in begun.live \cup inflight : j.id # ids + 1
    BY <1>6 DEF DeployInv, Deploy!OnlyOwnWorkUndone, Instances
  <2> QED BY <1>1, <1>2, <1>4, <1>5, <1>6, <1>7, <2>1 DEF AnswersFit
<1>14. OwnDeletes'
  <2>1. \A k \in 1 .. Len(tx) : tx[k].do = "delete" => tx[k].id \in Nat
    BY DEF DeployInv, DeployTypes, Deploy!Undo
  <2> QED BY <1>1, <1>3, <1>4, <1>6, <2>1 DEF DeployInv, OwnDeletes
<1>15. Deploy!OnlyOwnWorkUndone' /\ TriedIsGone' /\ UndoIsRest' /\ FirstIsBegun'
  BY <1>1, <1>3, <1>4 DEF DeployInv, Deploy!OnlyOwnWorkUndone, TriedIsGone, UndoIsRest, FirstIsBegun, AsBegun
<1> QED BY <1>9, <1>10, <1>11, <1>12, <1>13, <1>14, <1>15 DEF DeployInv

(* What was in flight lands or does not: there is nothing new to know.     *)
LEMMA Lands ==
  ASSUME DeployInv, Deploy!Land
  PROVE  DeployInv'
<1>1. /\ UNCHANGED <<projects, stored, at, todo, got, tx, undo, pending, failed, begun, clean, unretained, ids>>
      /\ live \subseteq live' /\ inflight' \subseteq inflight /\ Instances' \subseteq Instances
  BY DEF Deploy!Land, Deploy!deploy, Instances
<1>2. DeployTypes'
  BY <1>1 DEF DeployInv, DeployTypes
<1>3. NothingIsLost'
  BY <1>1 DEF DeployInv, NothingIsLost, Answered, KnownTo, Reported
<1>4. SnapshotsLoseNothing'
  <2>1. SUFFICES ASSUME at # "idle", NEW k \in 1 .. Len(tx), NEW j \in Instances, tx[k].do = "restore"
                 PROVE  \/ j.of \in unretained \/ KnownTo(tx[k].to, j) \/ Answered(j) \/ Reported(j)
                        \/ \E m \in k + 1 .. Len(tx) : Deletes(m, j)
    BY <1>1 DEF SnapshotsLoseNothing, Answered, KnownTo, Reported, Deletes
  <2> QED BY <2>1 DEF DeployInv, SnapshotsLoseNothing
<1>5. TriedIsGone' /\ OneOfAName' /\ Deploy!OnlyOwnWorkUndone' /\ UndoIsRest'
  BY <1>1 DEF DeployInv, TriedIsGone, OneOfAName, Deploy!OnlyOwnWorkUndone, UndoIsRest, Deletes
<1>6. AnswersFit'
  BY <1>1 DEF DeployInv, AnswersFit
<1>7. OwnDeletes' /\ FirstIsBegun'
  BY <1>1 DEF DeployInv, OwnDeletes, FirstIsBegun, AsBegun
<1> QED BY <1>2, <1>3, <1>4, <1>5, <1>6, <1>7 DEF DeployInv

-----------------------------------------------------------------------------
(* A rollback begins with all that was recorded still to be tried.         *)
LEMMA EntersRollback ==
  ASSUME tx' \in Seq(Deploy!Undo), Deploy!RollBack
  PROVE  TriedIsGone' /\ UndoIsRest'
<1>1. undo' = tx' /\ Len(tx') \in Nat
  BY LenProperties DEF Deploy!RollBack
<1>2. UndoIsRest'
  BY <1>1, SubSeqFull DEF UndoIsRest
<1>3. TriedIsGone'
  BY <1>1 DEF TriedIsGone
<1> QED BY <1>2, <1>3

(* What the synchronous end of a step adds to the transaction.             *)
LEMMA Recording ==
  ASSUME DeployTypes, NEW step \in Deploy!Step, NEW threw \in BOOLEAN,
         tx' = Append(tx, Deploy!Restore) \o IF threw THEN <<>> ELSE Deploy!Compensation(step)
  PROVE  /\ tx' \in Seq(Deploy!Undo) /\ Len(tx) \in Nat /\ tx'[Len(tx) + 1] = Deploy!Restore
         /\ Len(tx') = Len(tx) + IF ~threw /\ got.created THEN 2 ELSE 1
         /\ \A k \in 1 .. Len(tx) : tx'[k] = tx[k]
         /\ ~threw /\ got.created => tx'[Len(tx) + 2] = Deploy!Delete(step)
<1> DEFINE first == Append(tx, Deploy!Restore)
           comp == IF threw THEN <<>> ELSE Deploy!Compensation(step)
<1>1. Deploy!Restore \in Deploy!Undo
  BY DEF DeployTypes, Deploy!Restore, Deploy!Undo
<1>2. Deploy!Delete(step) \in Deploy!Undo
  BY DEF DeployTypes, Deploy!Delete, Deploy!Undo, Answers, Deploy!Row
<1>3. /\ first \in Seq(Deploy!Undo) /\ Len(first) = Len(tx) + 1 /\ Len(tx) \in Nat
      /\ \A k \in 1 .. Len(tx) : first[k] = tx[k]
      /\ first[Len(tx) + 1] = Deploy!Restore
  BY <1>1, AppendProperties, LenProperties DEF DeployTypes
<1>4. CASE ~threw /\ got.created
  <2>1. comp = <<Deploy!Delete(step)>> /\ comp \in Seq(Deploy!Undo) /\ Len(comp) = 1 /\ comp[1] = Deploy!Delete(step)
    BY <1>2, <1>4 DEF Deploy!Compensation
  <2>2. tx' = first \o comp
    OBVIOUS
  <2> HIDE DEF first, comp
  <2>3. /\ first \o comp \in Seq(Deploy!Undo) /\ Len(first \o comp) = Len(first) + Len(comp)
        /\ \A k \in 1 .. Len(first) + Len(comp) :
             (first \o comp)[k] = IF k <= Len(first) THEN first[k] ELSE comp[k - Len(first)]
    BY <1>3, <2>1, ConcatProperties
  <2>4. PICK n \in Nat : n = Len(tx)
    BY <1>3
  <2>5. Len(first) = n + 1 /\ Len(comp) = 1 /\ n + 2 - (n + 1) = 1
    BY <1>3, <2>1, <2>4
  <2>6. (first \o comp)[n + 2] = comp[1]
    BY <2>3, <2>5
  <2>7. \A k \in 1 .. n + 1 : (first \o comp)[k] = first[k]
    BY <2>3, <2>5
  <2>8. Len(first \o comp) = n + 2
    BY <2>3, <2>5
  <2>9. tx' \in Seq(Deploy!Undo) /\ Len(tx') = n + 2
    BY <2>2, <2>3, <2>8
  <2>10. tx'[n + 1] = Deploy!Restore
    BY <1>3, <2>2, <2>4, <2>7
  <2>12. \A k \in 1 .. n : k \in 1 .. n + 1 /\ first[k] = tx[k]
    BY <1>3, <2>4
  <2>13. \A k \in 1 .. n : tx'[k] = tx[k]
    BY <2>2, <2>7, <2>12
  <2>11. tx'[n + 2] = Deploy!Delete(step)
    BY <2>1, <2>2, <2>6
  <2> QED BY <1>4, <2>4, <2>9, <2>10, <2>11, <2>13
<1>5. CASE ~(~threw /\ got.created)
  <2>1. comp = <<>>
    BY <1>5 DEF Deploy!Compensation
  <2>2. tx' = first
    BY <1>3, <2>1, ConcatEmptySeq
  <2> QED BY <1>3, <1>5, <2>2
<1> QED BY <1>4, <1>5

(* An identity is recorded.                                                *)
LEMMA Identifies ==
  ASSUME DeployInv, Deploy!Assumption, Deploy!RecordIdentity
  PROVE  DeployInv'
<1> DEFINE step == Head(todo)
<1>1. PICK threw \in BOOLEAN :
       /\ Deploy!Write(Deploy!Recorded(step), threw)
       /\ tx' = Append(tx, Deploy!Restore) \o IF threw THEN <<>> ELSE Deploy!Compensation(step)
       /\ unretained' = IF threw /\ got.created THEN unretained \cup {step} ELSE unretained
       /\ Deploy!NextStep(~threw)
  BY DEF Deploy!RecordIdentity
<1>2. /\ at = "record" /\ got.ok /\ got.id # 0 /\ got' = Deploy!NoAnswer
      /\ UNCHANGED <<projects, live, inflight, pending, begun, clean, ids>>
  BY DEF Deploy!RecordIdentity, Deploy!provider
<1>3. /\ ~threw => stored' = Deploy!Recorded(step) /\ at' = "call" /\ UNCHANGED <<undo, failed>>
      /\ threw => stored' \in {stored, Deploy!Recorded(step)} /\ at' = "rollback" /\ Deploy!RollBack
      /\ failed' \in {failed, {}}
  BY <1>1 DEF Deploy!Write, Deploy!NextStep, Deploy!RollBack
<1>4. /\ step \in Service \/ (step = "project" /\ (got.created => Instances = {}))
      /\ "project" \notin Service /\ got.recovery = "none"
  BY <1>2 DEF DeployInv, AnswersFit, Deploy!Assumption
<1>5. Instances' = Instances
  BY <1>2 DEF Instances
<1>6. \A i \in Instances : i.of = step => i.id = got.id \/ i.of \in unretained
  BY <1>2, <1>4 DEF DeployInv, AnswersFit, DeployTypes
<1>7. step \in Deploy!Step
  BY <1>4 DEF Deploy!Step
<1>8. /\ tx' \in Seq(Deploy!Undo) /\ Len(tx) \in Nat /\ tx'[Len(tx) + 1] = Deploy!Restore
      /\ Len(tx') = Len(tx) + IF ~threw /\ got.created THEN 2 ELSE 1
      /\ \A k \in 1 .. Len(tx) : tx'[k] = tx[k]
      /\ ~threw /\ got.created => tx'[Len(tx) + 2] = Deploy!Delete(step)
  BY <1>1, <1>7, Recording DEF DeployInv
<1>9. Deploy!Recorded(step) \in Deploy!Row
  <2>1. stored \in Deploy!Row /\ got.id \in Nat
    BY DEF DeployInv, DeployTypes, Answers
  <2> QED BY <1>4, <2>1 DEF Deploy!Recorded, Deploy!Row, Deploy!Recovery
<1>10. DeployTypes'
  <2>1. Deploy!NoAnswer \in Answers
    BY DEF Answers, Deploy!NoAnswer, Deploy!Recovery
  <2> QED BY <1>2, <1>3, <1>5, <1>8, <1>9, <2>1 DEF DeployInv, DeployTypes, Phases
<1>11. \A i \in Instances : i.of \in Service
  BY DEF DeployInv, DeployTypes
<1>12. \A i \in Instances : KnownTo(stored, i) => i.of \in unretained \/ KnownTo(Deploy!Recorded(step), i)
  BY <1>4, <1>6, <1>11 DEF KnownTo, Deploy!Recorded, DeployInv, DeployTypes, Deploy!Row
<1>13. \A i \in Instances : i.of = step => i.of \in unretained \/ KnownTo(Deploy!Recorded(step), i)
  BY <1>4, <1>6, <1>11 DEF KnownTo, Deploy!Recorded, DeployInv, DeployTypes, Deploy!Row
<1>14. NothingIsLost'
  BY <1>1, <1>2, <1>3, <1>4, <1>5, <1>12, <1>13 DEF DeployInv, NothingIsLost, Answered, KnownTo
<1>15. SnapshotsLoseNothing'
  <2> SUFFICES ASSUME NEW k \in 1 .. Len(tx'), NEW i \in Instances, tx'[k].do = "restore",
                      i.of \notin unretained', ~Reported(i)
               PROVE  KnownTo(tx'[k].to, i) \/ \E m \in k + 1 .. Len(tx') : Deletes(m, i)'
    BY <1>2, <1>5 DEF SnapshotsLoseNothing, Reported, KnownTo
  <2> PICK n \in Nat : n = Len(tx)
    BY <1>8
  <2>1. i.of \notin unretained
    BY <1>1
  <2>2. Answered(i) => ~threw /\ got.created /\ tx'[n + 2] = Deploy!Delete(step) /\ i.of = step /\ i.id = got.id
    BY <1>1, <1>4, <1>6, <1>8, <2>1 DEF Answered
  <2>3. Answered(i) => n + 2 \in 1 .. Len(tx') /\ Deletes(n + 2, i)'
    BY <1>8, <2>2 DEF Deletes, Deploy!Delete
  <2>4. CASE k \in 1 .. n
    <3>1. KnownTo(tx[k].to, i) \/ Answered(i) \/ \E m \in k + 1 .. n : Deletes(m, i)
      BY <1>2, <1>8, <2>1, <2>4 DEF DeployInv, SnapshotsLoseNothing
    <3>2. \A m \in k + 1 .. n : m \in 1 .. n /\ m \in k + 1 .. Len(tx') /\ Deletes(m, i) => Deletes(m, i)'
      BY <1>8, <2>4 DEF Deletes
    <3>3. \A m \in k + 1 .. n : m \in 1 .. n /\ m \in k + 1 .. Len(tx')
      BY <1>8, <2>4
    <3> QED BY <1>8, <2>3, <2>4, <3>1, <3>2, <3>3
  <2>5. CASE k = n + 1
    <3>1. KnownTo(stored, i) \/ Answered(i)
      BY <1>2, <2>1 DEF DeployInv, NothingIsLost
    <3>2. tx'[k].to = stored
      BY <1>8, <2>5 DEF Deploy!Restore
    <3> QED BY <1>8, <2>3, <2>5, <3>1, <3>2
  <2>6. CASE k = n + 2
    BY <1>8, <2>6 DEF Deploy!Delete
  <2> QED BY <1>8, <2>4, <2>5, <2>6
<1>16. TriedIsGone' /\ UndoIsRest'
  <2>1. CASE threw
    BY <1>3, <1>8, <2>1, EntersRollback
  <2>2. CASE ~threw
    BY <1>3, <2>2 DEF TriedIsGone, UndoIsRest
  <2> QED BY <2>1, <2>2
<1>17. OneOfAName' /\ Deploy!OnlyOwnWorkUndone'
  BY <1>1, <1>2, <1>5 DEF DeployInv, OneOfAName, Deploy!OnlyOwnWorkUndone
<1>18. AnswersFit'
  BY <1>3 DEF AnswersFit
<1>19. OwnDeletes'
  <2> SUFFICES ASSUME NEW k \in 1 .. Len(tx'), tx'[k].do = "delete"
               PROVE  /\ tx'[k].of \in Service \cup {"project"}
                      /\ tx'[k].of = "project" => begun.live = {}
                      /\ tx'[k].of # "project" =>
                           tx'[k].id <= ids /\ \A i \in begun.live \cup inflight : i.id # tx'[k].id
    BY <1>2 DEF OwnDeletes
  <2>1. CASE k \in 1 .. Len(tx)
    BY <1>2, <1>8, <2>1 DEF DeployInv, OwnDeletes
  <2>2. CASE k = Len(tx) + 1
    BY <1>8, <2>2 DEF Deploy!Restore
  <2>3. CASE k = Len(tx) + 2
    <3>1. got.created /\ tx'[k].of = step /\ tx'[k].id = got.id
      BY <1>8, <2>3 DEF Deploy!Delete
    <3>2. step = "project" => begun.live = {}
      BY <1>4, <3>1 DEF DeployInv, Deploy!OnlyOwnWorkUndone, Instances
    <3>3. step # "project" => got.id <= ids /\ \A i \in begun.live \cup inflight : i.id # got.id
      BY <1>2, <1>4, <3>1 DEF DeployInv, AnswersFit
    <3> QED BY <1>4, <3>1, <3>2, <3>3
  <2> QED BY <1>8, <2>1, <2>2, <2>3
<1>20. FirstIsBegun'
  <2>1. tx # <<>> => Len(tx) >= 1 /\ tx'[1] = tx[1]
    BY <1>8, EmptySeq DEF DeployInv, DeployTypes
  <2>2. tx = <<>> => tx'[1] = Deploy!Restore
    BY <1>8
  <2>3. tx'[1].do = "restore" /\ AsBegun(tx'[1].to)
    BY <1>2, <2>1, <2>2 DEF DeployInv, FirstIsBegun, Deploy!Restore
  <2>4. tx' # <<>>
    BY <1>8
  <2> QED BY <1>2, <1>3, <2>3, <2>4 DEF FirstIsBegun, AsBegun, Deploy!RollBack, DeployInv
<1> QED BY <1>10, <1>14, <1>15, <1>16, <1>17, <1>18, <1>19, <1>20 DEF DeployInv

(* A step without an identity: what it reported is kept for the rollback.  *)
LEMMA Fails ==
  ASSUME DeployInv, Deploy!RecordFailure
  PROVE  DeployInv'
<1>1. /\ at = "record" /\ tx' = tx /\ Deploy!NextStep(got.ok) /\ got' = Deploy!NoAnswer
      /\ pending' = IF got.recovery # "none" THEN [pending EXCEPT ![Head(todo)] = got.recovery] ELSE pending
      /\ unretained' = IF got.created THEN unretained \cup {Head(todo)} ELSE unretained
      /\ UNCHANGED <<projects, live, inflight, stored, begun, clean, ids>>
  BY DEF Deploy!RecordFailure, Deploy!provider
<1>2. Instances' = Instances
  BY <1>1 DEF Instances
<1>3. /\ got.ok => at' = "call" /\ UNCHANGED <<undo, failed>>
      /\ ~got.ok => at' = "rollback" /\ Deploy!RollBack /\ undo' = tx /\ failed' = {}
  BY <1>1 DEF Deploy!NextStep, Deploy!RollBack
<1>4. got.recovery # "none" => ~got.ok /\ Head(todo) \in Service
  BY <1>1 DEF DeployInv, AnswersFit
<1>5. \A i \in Instances : i.of \in Service
  BY DEF DeployInv, DeployTypes
<1>6. \A i \in Instances : Answered(i) => i.of \in unretained' \/ (~got.ok /\ Reported(i)')
  BY <1>1, <1>4, <1>5 DEF Answered, Reported, DeployInv, DeployTypes
<1>7. \A i \in Instances : Reported(i) => Reported(i)'
  BY <1>1, <1>4, <1>5 DEF Reported, DeployInv, DeployTypes
<1>8. DeployTypes'
  <2>1. Deploy!NoAnswer \in Answers
    BY DEF Answers, Deploy!NoAnswer, Deploy!Recovery
  <2>2. pending' \in [Service -> Deploy!Recovery]
    BY <1>1, <1>4 DEF DeployInv, DeployTypes, Answers
  <2> QED BY <1>1, <1>2, <1>3, <2>1, <2>2 DEF DeployInv, DeployTypes, Phases
<1>9. NothingIsLost'
  BY <1>1, <1>2, <1>3, <1>6 DEF DeployInv, NothingIsLost, KnownTo
<1>10. SnapshotsLoseNothing'
  BY <1>1, <1>2, <1>6, <1>7 DEF DeployInv, SnapshotsLoseNothing, KnownTo, Deletes
<1>11. TriedIsGone' /\ UndoIsRest'
  <2>1. CASE ~got.ok
    BY <1>1, <1>3, <2>1, EntersRollback DEF DeployInv, DeployTypes
  <2>2. CASE got.ok
    BY <1>3, <2>2 DEF TriedIsGone, UndoIsRest
  <2> QED BY <2>1, <2>2
<1>12. OneOfAName' /\ Deploy!OnlyOwnWorkUndone' /\ AnswersFit' /\ OwnDeletes'
  BY <1>1, <1>2, <1>3 DEF DeployInv, OneOfAName, Deploy!OnlyOwnWorkUndone, AnswersFit, OwnDeletes
<1>13. FirstIsBegun'
  BY <1>1, <1>3 DEF DeployInv, FirstIsBegun, AsBegun
<1> QED BY <1>8, <1>9, <1>10, <1>11, <1>12, <1>13 DEF DeployInv

(* A receipt or a status that cannot be written begins the rollback.       *)
LEMMA ThrowsReceipt ==
  ASSUME DeployInv, at \in {"call", "settle"}, Deploy!ReceiptThrows, tx' = tx,
         UNCHANGED <<Deploy!provider, stored, got, pending, begun, clean, unretained, ids>>
  PROVE  DeployInv'
<1>1. /\ at' = "rollback" /\ undo' = tx /\ failed' = {} /\ Deploy!RollBack
      /\ UNCHANGED <<projects, live, inflight>>
  BY DEF Deploy!ReceiptThrows, Deploy!RollBack, Deploy!provider
<1>2. Instances' = Instances
  BY <1>1 DEF Instances
<1>3. DeployTypes'
  BY <1>1, <1>2 DEF DeployInv, DeployTypes, Phases
<1>4. NothingIsLost'
  BY <1>1, <1>2 DEF DeployInv, NothingIsLost, Answered, KnownTo
<1>5. SnapshotsLoseNothing'
  BY <1>1, <1>2 DEF DeployInv, SnapshotsLoseNothing, Answered, KnownTo, Reported, Deletes
<1>6. TriedIsGone' /\ UndoIsRest'
  BY <1>1, EntersRollback DEF DeployInv, DeployTypes
<1>7. OneOfAName' /\ Deploy!OnlyOwnWorkUndone' /\ AnswersFit' /\ OwnDeletes'
  BY <1>1, <1>2 DEF DeployInv, OneOfAName, Deploy!OnlyOwnWorkUndone, AnswersFit, OwnDeletes
<1>8. FirstIsBegun'
  BY <1>1 DEF DeployInv, FirstIsBegun, AsBegun
<1> QED BY <1>3, <1>4, <1>5, <1>6, <1>7, <1>8 DEF DeployInv

-----------------------------------------------------------------------------
(* A rollback tries the last of what is left of its transaction.           *)
LEMMA Tries ==
  ASSUME DeployTypes, UndoIsRest, at = "rollback", undo # <<>>, Deploy!Tried
  PROVE  \E n \in 1 .. Len(tx) :
           /\ Len(undo) = n /\ Deploy!Last = tx[n]
           /\ Len(undo') = n - 1 /\ undo' = SubSeq(tx, 1, n - 1)
<1>1. tx \in Seq(Deploy!Undo) /\ Len(tx) \in Nat
  BY LenProperties DEF DeployTypes
<1>2. PICK n \in 0 .. Len(tx) : n = Len(undo) /\ undo = SubSeq(tx, 1, n)
  BY DEF UndoIsRest
<1>3. \A k \in 1 .. Len(tx) : tx[k] \in Deploy!Undo
  BY <1>1, ElementOfSeq
<1>4. \A k \in 1 .. n : SubSeq(tx, 1, n)[k] = tx[k]
  BY <1>1, <1>2, <1>3, SubSeqProperties
<1>5. n # 0
  BY <1>1, <1>2, SubSeqEmpty
<1>6. Deploy!Last = tx[n]
  BY <1>2, <1>4, <1>5 DEF Deploy!Last
<1>7. undo' = SubSeq(SubSeq(tx, 1, n), 1, n - 1)
  BY <1>2 DEF Deploy!Tried
<1>8. SubSeq(SubSeq(tx, 1, n), 1, n - 1) = SubSeq(tx, 1, n - 1)
  OBVIOUS
<1>9. Len(SubSeq(tx, 1, n - 1)) = n - 1
  <2>1. n - 1 \in Nat /\ \A k \in 1 .. n - 1 : tx[k] \in Deploy!Undo
    BY <1>1, <1>2, <1>3, <1>5
  <2>2. Len(SubSeq(tx, 1, n - 1)) = IF 1 <= n - 1 THEN (n - 1) - 1 + 1 ELSE 0
    BY <2>1, SubSeqProperties
  <2> QED BY <2>1, <2>2
<1> QED BY <1>2, <1>5, <1>6, <1>7, <1>8, <1>9

(* A snapshot is restored, or its write throws.                            *)
LEMMA Restores ==
  ASSUME DeployInv, Deploy!RestoreRow
  PROVE  DeployInv'
<1>1. /\ at = "rollback" /\ undo # <<>> /\ Deploy!Last.do = "restore" /\ Deploy!Tried
      /\ UNCHANGED <<projects, live, inflight, at, todo, got, tx, pending, failed, begun, unretained, ids>>
  BY DEF Deploy!RestoreRow, Deploy!Undoing, Deploy!provider
<1>2. PICK n \in 1 .. Len(tx) :
        Len(undo) = n /\ Deploy!Last = tx[n] /\ Len(undo') = n - 1 /\ undo' = SubSeq(tx, 1, n - 1)
  BY <1>1, Tries DEF DeployInv
<1>3. PICK threw \in BOOLEAN : Deploy!Write(tx[n].to, threw) /\ clean' = (clean /\ ~threw)
  BY <1>2 DEF Deploy!RestoreRow
<1>4. /\ stored' \in {stored, tx[n].to} /\ tx[n].do = "restore" /\ Instances' = Instances
      /\ clean' => clean /\ stored' = tx[n].to
      /\ clean' \in BOOLEAN
  BY <1>1, <1>2, <1>3 DEF Deploy!Write, Instances, DeployInv, DeployTypes
<1>5. tx \in Seq(Deploy!Undo) /\ Len(tx) \in Nat
  BY LenProperties DEF DeployInv, DeployTypes
<1>6. tx[n].to \in Deploy!Row
  <2>1. tx[n] \in Deploy!Undo
    BY <1>5, ElementOfSeq
  <2> QED BY <1>4, <2>1 DEF Deploy!Undo
<1>7. DeployTypes'
  BY <1>1, <1>4, <1>6 DEF DeployInv, DeployTypes
<1>8. \A i \in Instances : i.of \in unretained \/ KnownTo(tx[n].to, i) \/ Reported(i) \/ i.of \in failed
  <2> SUFFICES ASSUME NEW i \in Instances, i.of \notin unretained, ~KnownTo(tx[n].to, i), ~Reported(i)
               PROVE  i.of \in failed
    OBVIOUS
  <2>1. PICK m \in n + 1 .. Len(tx) : Deletes(m, i)
    BY <1>1, <1>4 DEF DeployInv, SnapshotsLoseNothing, Answered
  <2> QED BY <1>1, <1>2, <2>1 DEF DeployInv, TriedIsGone
<1>9. NothingIsLost'
  BY <1>1, <1>4, <1>8 DEF DeployInv, NothingIsLost, KnownTo, Answered, Reported
<1>10. SnapshotsLoseNothing'
  BY <1>1, <1>4 DEF DeployInv, SnapshotsLoseNothing, KnownTo, Answered, Reported, Deletes
<1>11. TriedIsGone'
  <2>1. \A k \in n .. Len(tx), i \in Instances : Deletes(k, i) => i.of \in failed
    BY <1>1, <1>2, <1>4, <1>5 DEF DeployInv, TriedIsGone, Deletes
  <2> QED BY <1>1, <1>2, <1>4, <1>5, <2>1 DEF TriedIsGone, Deletes
<1>12. OneOfAName' /\ Deploy!OnlyOwnWorkUndone' /\ AnswersFit' /\ OwnDeletes'
  BY <1>1, <1>4 DEF DeployInv, OneOfAName, Deploy!OnlyOwnWorkUndone, AnswersFit, OwnDeletes
<1>13. UndoIsRest'
  BY <1>1, <1>2, <1>5 DEF UndoIsRest
<1>14. FirstIsBegun'
  <2>1. tx # <<>>
    BY <1>2, EmptySeq
  <2>2. undo' = <<>> => n = 1
    BY <1>2, <1>5, EmptySeq
  <2> QED BY <1>1, <1>4, <2>1, <2>2 DEF DeployInv, FirstIsBegun, AsBegun
<1> QED BY <1>7, <1>9, <1>10, <1>11, <1>12, <1>13, <1>14 DEF DeployInv

(* What this deploy created is deleted, or its deletion fails.             *)
LEMMA DeletesOwn ==
  ASSUME DeployInv, Deploy!Assumption, Deploy!DeleteResource
  PROVE  DeployInv'
<1>1. /\ at = "rollback" /\ undo # <<>> /\ Deploy!Last.do = "delete" /\ Deploy!Tried
      /\ UNCHANGED <<stored, at, todo, got, tx, pending, begun, clean, unretained, ids>>
  BY DEF Deploy!DeleteResource, Deploy!Undoing
<1>2. PICK n \in 1 .. Len(tx) :
        Len(undo) = n /\ Deploy!Last = tx[n] /\ Len(undo') = n - 1 /\ undo' = SubSeq(tx, 1, n - 1)
  BY <1>1, Tries DEF DeployInv
<1>3. tx \in Seq(Deploy!Undo) /\ Len(tx) \in Nat /\ tx[n].do = "delete"
  BY <1>1, <1>2, LenProperties DEF DeployInv, DeployTypes
<1>4. PICK d : d = tx[n]
  OBVIOUS
<1>5. \/ /\ projects' = projects \ {IF d.of = "project" THEN d.id ELSE 0}
         /\ live' = {i \in live : i.id # d.id /\ i.in \in projects'}
         /\ inflight' = {i \in inflight : i.in \in projects'}
         /\ failed' = failed
      \/ /\ failed' = failed \cup ({d.of} \ {"project"})
         /\ UNCHANGED <<projects, live, inflight>>
  BY <1>2, <1>4 DEF Deploy!DeleteResource, Deploy!provider
<1>6. /\ Instances' \subseteq Instances /\ inflight' \subseteq inflight /\ failed \subseteq failed'
      /\ projects' \subseteq projects /\ \A i \in Instances' : i.in \in projects'
  BY <1>5 DEF Instances, DeployInv, DeployTypes
<1>7. /\ d.of \in Service \cup {"project"} /\ d.do = "delete"
      /\ d.of = "project" => begun.live = {}
      /\ d.of # "project" => \A i \in begun.live \cup inflight : i.id # d.id
  BY <1>1, <1>3, <1>4 DEF DeployInv, OwnDeletes
<1>8. \A i \in Instances : i.of \in Service /\ i.of # "project"
  BY DEF DeployInv, DeployTypes, Deploy!Assumption
<1>9. DeployTypes'
  <2>1. failed' \subseteq Service
    BY <1>5, <1>7 DEF DeployInv, DeployTypes
  <2> QED BY <1>1, <1>6, <2>1 DEF DeployInv, DeployTypes
<1>10. NothingIsLost'
  BY <1>1, <1>6 DEF DeployInv, NothingIsLost, KnownTo, Answered, Reported
<1>11. SnapshotsLoseNothing'
  BY <1>1, <1>6 DEF DeployInv, SnapshotsLoseNothing, KnownTo, Answered, Reported, Deletes
<1>12. \A i \in Instances' : d.of = i.of /\ d.id = i.id => i.of \in failed'
  BY <1>5, <1>7, <1>8 DEF Instances
<1>13. TriedIsGone'
  <2>1. \A k \in n .. Len(tx), i \in Instances' : Deletes(k, i) => i.of \in failed'
    BY <1>1, <1>2, <1>3, <1>4, <1>6, <1>12 DEF DeployInv, TriedIsGone, Deletes
  <2> QED BY <1>1, <1>2, <1>3, <2>1 DEF TriedIsGone, Deletes
<1>14. OneOfAName' /\ AnswersFit' /\ OwnDeletes'
  BY <1>1, <1>6 DEF DeployInv, OneOfAName, AnswersFit, OwnDeletes
<1>15. Deploy!OnlyOwnWorkUndone'
  <2>1. \A i \in live : i.in \in projects /\ i.in # 0
    BY DEF DeployInv, DeployTypes, Instances
  <2> QED BY <1>1, <1>5, <1>7, <2>1 DEF DeployInv, Deploy!OnlyOwnWorkUndone
<1>16. UndoIsRest'
  BY <1>1, <1>2, <1>3 DEF UndoIsRest
<1>17. FirstIsBegun'
  <2>1. tx # <<>>
    BY <1>2, EmptySeq
  <2>2. undo' = <<>> => n = 1
    BY <1>2, <1>3, EmptySeq
  <2>3. n # 1
    BY <1>1, <1>3, <2>1 DEF DeployInv, FirstIsBegun
  <2> QED BY <1>1, <2>1, <2>2, <2>3 DEF DeployInv, FirstIsBegun, AsBegun
<1> QED BY <1>9, <1>10, <1>11, <1>13, <1>14, <1>15, <1>16, <1>17 DEF DeployInv

(* What the rollback leaves at the provider is retained.                   *)
LEMMA Retains ==
  ASSUME DeployInv, Deploy!RetainRecoveries
  PROVE  DeployInv'
<1> DEFINE new == [stored EXCEPT !.recovery = Deploy!Retained]
<1>1. /\ at = "rollback" /\ undo = <<>> /\ at' = "settle"
      /\ UNCHANGED <<projects, live, inflight, todo, got, tx, pending, failed, begun, clean, ids>>
  BY DEF Deploy!RetainRecoveries, Deploy!RolledBack, Deploy!provider
<1>2. Instances' = Instances
  BY <1>1 DEF Instances
<1>3. /\ stored' \in {stored, new} /\ unretained \subseteq unretained'
      /\ stored' # new => \A s \in Service : pending[s] # "none" \/ s \in failed => s \in unretained'
  <2>1. CASE failed = {} /\ pending = Deploy!None /\ UNCHANGED <<stored, unretained, thrown>>
    BY <2>1 DEF Deploy!None
  <2>2. CASE \E threw \in BOOLEAN :
               /\ Deploy!Write(new, threw)
               /\ unretained' = IF stored' = new THEN unretained
                                ELSE unretained \cup failed \cup {s \in Service : pending[s] # "none"}
    BY <2>2 DEF Deploy!Write
  <2> QED BY <2>1, <2>2 DEF Deploy!RetainRecoveries
<1>4. Deploy!Retained \in [Service -> Deploy!Recovery]
  BY DEF Deploy!Retained, DeployInv, DeployTypes, Deploy!Row, Deploy!Recovery
<1>5. new \in Deploy!Row /\ new.services = stored.services /\ new.project = stored.project /\ new.recovery = Deploy!Retained
  BY <1>4 DEF DeployInv, DeployTypes, Deploy!Row
<1>6. \A i \in Instances : i.of \in Service
  BY DEF DeployInv, DeployTypes
<1>7. \A i \in Instances : KnownTo(stored, i) \/ Reported(i) \/ i.of \in failed => KnownTo(new, i)
  <2>1. \A s \in Service : stored.recovery[s] # "none" \/ pending[s] # "none" \/ s \in failed => Deploy!Retained[s] # "none"
    BY DEF Deploy!Retained
  <2> QED BY <1>5, <1>6, <2>1 DEF KnownTo, Reported
<1>8. DeployTypes'
  BY <1>1, <1>2, <1>3, <1>5 DEF DeployInv, DeployTypes, Phases
<1>9. NothingIsLost'
  <2> SUFFICES ASSUME NEW i \in Instances, i.of \notin unretained' PROVE KnownTo(stored', i)
    BY <1>2 DEF NothingIsLost, KnownTo
  <2>1. KnownTo(stored, i) \/ Reported(i) \/ i.of \in failed
    BY <1>1, <1>3 DEF DeployInv, NothingIsLost, Answered
  <2>2. CASE stored' = new
    BY <1>7, <2>1, <2>2
  <2>3. CASE stored' # new
    BY <1>3, <1>6, <2>1, <2>3 DEF Reported
  <2> QED BY <2>2, <2>3
<1>10. SnapshotsLoseNothing'
  BY <1>1, <1>2, <1>3 DEF DeployInv, SnapshotsLoseNothing, KnownTo, Answered, Reported, Deletes
<1>11. OneOfAName' /\ Deploy!OnlyOwnWorkUndone' /\ AnswersFit' /\ OwnDeletes' /\ TriedIsGone' /\ UndoIsRest'
  BY <1>1, <1>2, <1>3 DEF DeployInv, OneOfAName, Deploy!OnlyOwnWorkUndone, AnswersFit, OwnDeletes, TriedIsGone, UndoIsRest
<1>12. FirstIsBegun'
  BY <1>1, <1>3, <1>5 DEF DeployInv, FirstIsBegun, AsBegun
<1> QED BY <1>8, <1>9, <1>10, <1>11, <1>12 DEF DeployInv

(* A deploy that is over, or whose process died, leaves nothing lost.      *)
LEMMA Ends ==
  ASSUME DeployInv, at # "idle", at' = "idle",
         UNCHANGED <<Deploy!provider, stored, todo, got, tx, pending, failed, begun, ids>>, clean' \in BOOLEAN,
         unretained \subseteq unretained',
         \A i \in Instances : Answered(i) \/ (at = "rollback" /\ (Reported(i) \/ i.of \in failed)) => i.of \in unretained'
  PROVE  DeployInv'
<1>1. Instances' = Instances /\ UNCHANGED <<projects, live, inflight>>
  BY DEF Instances, Deploy!provider
<1>2. DeployTypes'
  BY <1>1 DEF DeployInv, DeployTypes, Phases
<1>3. NothingIsLost'
  BY <1>1 DEF DeployInv, NothingIsLost, KnownTo
<1>4. OneOfAName' /\ Deploy!OnlyOwnWorkUndone'
  BY <1>1 DEF DeployInv, OneOfAName, Deploy!OnlyOwnWorkUndone
<1>5. SnapshotsLoseNothing' /\ TriedIsGone' /\ AnswersFit' /\ OwnDeletes' /\ UndoIsRest' /\ FirstIsBegun'
  BY DEF SnapshotsLoseNothing, TriedIsGone, AnswersFit, OwnDeletes, UndoIsRest, FirstIsBegun
<1> QED BY <1>2, <1>3, <1>4, <1>5 DEF DeployInv

LEMMA Settles ==
  ASSUME DeployInv, Deploy!Settle
  PROVE  DeployInv'
<1>1. /\ at = "settle" \/ at = "call"
      /\ UNCHANGED <<Deploy!provider, stored, got, pending, begun, clean, unretained, ids>>
  BY DEF Deploy!Settle
<1>2. CASE tx' = tx /\ Deploy!ReceiptThrows
  BY <1>1, <1>2, ThrowsReceipt
<1>3. CASE at' = "idle" /\ UNCHANGED <<failed, todo, tx>>
  <2>1. clean' \in BOOLEAN
    BY <1>1 DEF DeployInv, DeployTypes
  <2> QED BY <1>1, <1>3, <2>1, Ends DEF Answered
<1> QED BY <1>2, <1>3 DEF Deploy!Settle

LEMMA Crashes ==
  ASSUME DeployInv, Deploy!Crash
  PROVE  DeployInv'
<1>1. /\ at # "idle" /\ at' = "idle" /\ clean' = FALSE
      /\ UNCHANGED <<Deploy!provider, stored, todo, got, tx, pending, failed, begun, ids>>
      /\ unretained' = unretained \cup {s \in Service : pending[s] # "none"} \cup failed
           \cup IF at = "record" /\ (got.created \/ got.recovery # "none") THEN {Head(todo)} ELSE {}
  BY DEF Deploy!Crash
<1>2. \A i \in Instances : i.of \in Service
  BY DEF DeployInv, DeployTypes
<1> QED BY <1>1, <1>2, Ends DEF Answered, Reported

(* Every step keeps the invariant.                                         *)
LEMMA StepInv == Deploy!Assumption /\ DeployInv /\ [Deploy!Next]_Deploy!vars => DeployInv'
<1> SUFFICES ASSUME Deploy!Assumption, DeployInv, [Deploy!Next]_Deploy!vars PROVE DeployInv'
  OBVIOUS
<1>1. CASE Deploy!StartDeploy
  BY <1>1, Starts
<1>2. CASE Deploy!EnsureProject
  BY <1>2, EnsuresProject
<1>3. CASE Deploy!Check
  BY <1>3, Checks
<1>4. CASE Deploy!Land
  BY <1>4, Lands
<1>5. ASSUME NEW s \in Service, Deploy!Redeploy(s) PROVE DeployInv'
  BY <1>5, Redeploys
<1>6. ASSUME NEW s \in Service, Deploy!CreateService(s) PROVE DeployInv'
  BY <1>6, Creates
<1>7. CASE Deploy!RecordIdentity
  BY <1>7, Identifies
<1>8. CASE Deploy!RecordFailure
  BY <1>8, Fails
<1>9. CASE Deploy!AddReceiptThrows
  BY <1>9, ThrowsReceipt DEF Deploy!AddReceiptThrows
<1>10. CASE Deploy!RestoreRow
  BY <1>10, Restores
<1>11. CASE Deploy!DeleteResource
  BY <1>11, DeletesOwn
<1>12. CASE Deploy!RetainRecoveries
  BY <1>12, Retains
<1>13. CASE Deploy!Settle
  BY <1>13, Settles
<1>14. CASE Deploy!Crash
  BY <1>14, Crashes
<1>15. CASE UNCHANGED Deploy!vars
  <2>1. /\ UNCHANGED <<projects, live, inflight, stored, at, todo, got, tx, undo, pending, failed, begun, clean, unretained, ids>>
        /\ Instances' = Instances
    BY <1>15 DEF Deploy!vars, Deploy!provider, Deploy!deploy, Instances
  <2> QED BY <2>1 DEF DeployInv, DeployTypes, NothingIsLost, SnapshotsLoseNothing, TriedIsGone, OneOfAName, AnswersFit,
                     OwnDeletes, Deploy!OnlyOwnWorkUndone, UndoIsRest, FirstIsBegun, KnownTo, Answered, Reported,
                     Deletes, AsBegun
<1> QED BY <1>1, <1>2, <1>3, <1>4, <1>5, <1>6, <1>7, <1>8, <1>9, <1>10, <1>11, <1>12, <1>13, <1>14, <1>15
        DEF Deploy!Next

-----------------------------------------------------------------------------
(* Side by side with the bindings a deploy takes its own steps only: at    *)
(* every step of any number of deploys what is at the provider is known    *)
(* and what a rollback would restore and delete is what the deploy changed.*)
LEMMA DeployInvariance == MCSpec => []DeployInv
<1>1. Deploy!Assumption
  BY DeployAssumption
<1>2. MCInit => DeployInv
  BY <1>1, DeployInitInv DEF MCInit
<1>3. [MCNext]_<<part, vars, deployment>> => [Deploy!Next]_Deploy!vars
  BY DEF MCNext, deployment, Deploy!vars, Deploy!provider, Deploy!deploy, Deploy!counters
<1>4. DeployInv /\ [Deploy!Next]_Deploy!vars => DeployInv'
  BY <1>1, StepInv
<1> QED BY <1>2, <1>3, <1>4, PTL DEF MCSpec

(* However creates, deletions and writes fail, at most one service of a    *)
(* name is, or may still become, live, and what a deploy leaves at the     *)
(* provider is bound, or named by a create recovery that blocks the next   *)
(* create (RailwayAdapter.deploy, persistServiceCreateRecoveries), unless  *)
(* a thrown write or a crash kept the recovery from the row.               *)
THEOREM NothingIsForgotten == MCSpec => []NothingForgotten
<1>1. DeployInv => Deploy!OneServicePerName
  BY DEF DeployInv, OneOfAName, Deploy!OneServicePerName, Instances
<1>2. DeployInv => Deploy!NothingForgotten
  BY DEF DeployInv, NothingIsLost, Deploy!NothingForgotten, KnownTo, Answered, Instances
<1> QED BY <1>1, <1>2, DeployInvariance, PTL DEF NothingForgotten

(* A rollback restores the bindings its deploy began with, and deletes     *)
(* nothing that was there before (restoreEnvironmentSnapshot).             *)
THEOREM RollbackIsExact == MCSpec => []UndoesItsDeploy
<1>1. DeployInv => UndoesItsDeploy
  BY DEF DeployInv, UndoesItsDeploy, Deploy!UndoesItsDeploy, Deploy!RollbackRestoresBindings, FirstIsBegun, AsBegun
<1> QED BY <1>1, DeployInvariance, PTL
=============================================================================
