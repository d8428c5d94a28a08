------------------------------ MODULE SpecStore -----------------------------
(***************************************************************************)
(* Desired state of one project: the repository file .hypervibe/spec.json  *)
(* and the journal of revisions behind it.  Processes (the MCP server, CLI *)
(* calls) run hv_spec, hv_plan and the others at the same time.  Inside    *)
(* one process a command reads and writes without an await, so each step   *)
(* here is one file operation or one SQL statement between processes.      *)
(*                                                                         *)
(* A document is the set of its entries: an update adds some and deletes   *)
(* others (null in a patch), a replacement starts from nothing.            *)
(***************************************************************************)
EXTENDS Naturals, Sequences

CONSTANTS
  Proc,        \* processes
  Inside,      \* the ones that run in the checkout of the project
  Mortal,      \* the ones that may die
  Entry,       \* entries of a spec document
  None,        \* no entry: {None} is no document
  Legacy,      \* document of a policies.desiredState blob, or {None}
  MaxUpdates,  \* bound on hv_spec commands
  MaxEdits     \* bound on changes to the file made by anyone else

ASSUME SubsetAssumption == Inside \subseteq Proc /\ Mortal \subseteq Proc
ASSUME DocAssumption == None \notin Entry /\ (Legacy = {None} \/ Legacy \subseteq Entry)
ASSUME BoundAssumption == MaxUpdates \in Nat /\ MaxEdits \in Nat

VARIABLES
  file,      \* the repository file
  journal,   \* journal[r]: document and author of revision r
  session,   \* what each process has read
  published, \* documents the file has held
  updates, edits  \* counters of the bounds
store == <<file, journal, published>>
bounds == <<updates, edits>>
vars == <<store, session, bounds>>

Doc == SUBSET Entry
NoDoc == {None}
Patch == {c \in [adds : Doc, drops : Doc, whole : BOOLEAN] :
            c.adds \cap c.drops = {} /\ (c.whole => c.drops = {})}
Read == [adds |-> {}, drops |-> {}, whole |-> FALSE]

Step == {"idle", "reading", "comparing", "looking", "adopting", "adopted",
         "converting", "numbering", "writing", "inserting", "inserted", "answered"}
(* writer: whether the command replaces; doc: the spec in hand; number:    *)
(* the revision about to be inserted.                                      *)
Idle == [step |-> "idle", writer |-> FALSE, patch |-> Read, doc |-> NoDoc, number |-> 0]

Revision == [doc : Doc, author : Proc]
TypeOK ==
  /\ file \in Doc \cup {NoDoc}
  /\ journal \in Seq(Revision)
  /\ session \in [Proc -> [step : Step, writer : BOOLEAN, patch : Patch,
                           doc : Doc \cup {NoDoc}, number : 0..(Len(journal) + 1)]]
  /\ published \subseteq Doc
  /\ updates \in 0..MaxUpdates /\ edits \in 0..MaxEdits

Init ==
  /\ file \in Doc \cup {NoDoc}
  /\ journal = <<>>
  /\ session = [p \in Proc |-> Idle]
  /\ published = {file} \ {NoDoc}
  /\ updates = 0 /\ edits = 0

At(p, step) == session[p].step = step
Become(p, s) == session' = [session EXCEPT ![p] = s]
Latest == journal[Len(journal)].doc
Publish(d) == file' = d /\ published' = published \cup {d}

-----------------------------------------------------------------------------
(* get, called by every command that needs the spec.                       *)
StartRead(p) ==
  /\ At(p, "idle")
  /\ Become(p, [Idle EXCEPT !.step = "reading"])
  /\ UNCHANGED <<store, bounds>>

(* hv_spec: get, then replace with the merged or the given document.       *)
StartUpdate(p, patch) ==
  /\ At(p, "idle") /\ updates < MaxUpdates
  /\ updates' = updates + 1
  /\ Become(p, [Idle EXCEPT !.step = "reading", !.writer = TRUE, !.patch = patch])
  /\ UNCHANGED <<store, edits>>

(* readRepoSpecFile: no file here, or one of another project, is NoDoc.     *)
ReadFile(p) ==
  /\ At(p, "reading")
  /\ Become(p, IF p \in Inside /\ file # NoDoc
               THEN [session[p] EXCEPT !.step = "comparing", !.doc = file]
               ELSE [session[p] EXCEPT !.step = "looking"])
  /\ UNCHANGED <<store, bounds>>

(* deepMergeSpec: null deletes, everything else is added or replaced.      *)
Merge(base, patch) == IF patch.whole THEN patch.adds ELSE (base \ patch.drops) \cup patch.adds

(* The end of get: a reading command returns it, hv_spec goes on.          *)
Got(p, doc, number) ==
  Become(p, IF session[p].writer
            THEN [session[p] EXCEPT !.step = "numbering", !.doc = Merge(doc, session[p].patch)]
            ELSE [session[p] EXCEPT !.step = "answered", !.doc = doc, !.number = number])

(* Mutated form: the file is trusted to be the latest revision.            *)
BadCompare(p) ==
  /\ At(p, "comparing")
  /\ IF journal # <<>>
     THEN Got(p, session[p].doc, Len(journal))
     ELSE Become(p, [session[p] EXCEPT !.step = "adopting", !.number = Len(journal) + 1])
  /\ UNCHANGED <<store, bounds>>

(* The repository file wins over the latest revision.                      *)
Compare(p) ==
  /\ At(p, "comparing")
  /\ IF journal # <<>> /\ Latest = session[p].doc
     THEN Got(p, session[p].doc, Len(journal))
     ELSE Become(p, [session[p] EXCEPT !.step = "adopting", !.number = Len(journal) + 1])
  /\ UNCHANGED <<store, bounds>>

(* Without a file the journal answers; the first read converts the legacy  *)
(* blob; a project that has neither has no spec, and hv_spec starts one.   *)
Look(p) ==
  /\ At(p, "looking")
  /\ CASE journal # <<>> -> Got(p, Latest, Len(journal))
       [] journal = <<>> /\ Legacy # NoDoc ->
            Become(p, [session[p] EXCEPT !.step = "converting", !.doc = Legacy, !.number = 1])
       [] journal = <<>> /\ Legacy = NoDoc ->
            IF session[p].writer THEN Got(p, {}, 0) ELSE Become(p, Idle)
  /\ UNCHANGED <<store, bounds>>

Convert(p) ==
  /\ At(p, "converting")
  /\ IF p \in Inside THEN Publish(Legacy) ELSE UNCHANGED <<file, published>>
  /\ Become(p, [session[p] EXCEPT !.step = "adopting"])
  /\ UNCHANGED <<journal, bounds>>

-----------------------------------------------------------------------------
(* Mutated form: the number of a row that is not there yet.                *)
BadNumber(p) ==
  /\ At(p, "numbering")
  /\ Become(p, [session[p] EXCEPT !.step = "writing", !.number = Len(journal) + 2])
  /\ UNCHANGED <<store, bounds>>

(* replace: the next revision number, the file, the journal.               *)
Number(p) ==
  /\ At(p, "numbering")
  /\ Become(p, [session[p] EXCEPT !.step = "writing", !.number = Len(journal) + 1])
  /\ UNCHANGED <<store, bounds>>

(* Mutated form: the journal is written without the file.                  *)
BadWriteFile(p) ==
  /\ At(p, "writing")
  /\ UNCHANGED <<file, published>>
  /\ Become(p, [session[p] EXCEPT !.step = "inserting"])
  /\ UNCHANGED <<journal, bounds>>

WriteFile(p) ==
  /\ At(p, "writing")
  /\ IF p \in Inside THEN Publish(session[p].doc) ELSE UNCHANGED <<file, published>>
  /\ Become(p, [session[p] EXCEPT !.step = "inserting"])
  /\ UNCHANGED <<journal, bounds>>

(* Mutated form: a row of the same revision is replaced.                   *)
BadInsert(p, step, after) ==
  /\ At(p, step)
  /\ LET row == [doc |-> session[p].doc, author |-> p] IN
     journal' = IF session[p].number > Len(journal) THEN Append(journal, row)
                ELSE [journal EXCEPT ![session[p].number] = row]
  /\ Become(p, [session[p] EXCEPT !.step = after])
  /\ UNCHANGED <<file, published, bounds>>

(* UNIQUE(project_id, revision): the number must still be free.            *)
Insert(p, step, after) ==
  /\ At(p, step) /\ session[p].number > Len(journal)
  /\ journal' = Append(journal, [doc |-> session[p].doc, author |-> p])
  /\ Become(p, [session[p] EXCEPT !.step = after])
  /\ UNCHANGED <<file, published, bounds>>

Adopt(p) == Insert(p, "adopting", "adopted")
Commit(p) == Insert(p, "inserting", "inserted")

(* insert answers with the latest row.                                     *)
ReadAdopted(p) ==
  /\ At(p, "adopted")
  /\ Got(p, session[p].doc, Len(journal))
  /\ UNCHANGED <<store, bounds>>

ReadCommitted(p) ==
  /\ At(p, "inserted")
  /\ Become(p, [session[p] EXCEPT !.step = "answered", !.number = Len(journal)])
  /\ UNCHANGED <<store, bounds>>

Return(p) ==
  /\ At(p, "answered")
  /\ Become(p, Idle)
  /\ UNCHANGED <<store, bounds>>

(* The revision number was taken meanwhile: the command throws.            *)
Conflict(p) ==
  /\ session[p].step \in {"adopting", "inserting"} /\ session[p].number <= Len(journal)
  /\ Become(p, Idle)
  /\ UNCHANGED <<store, bounds>>

(* The process dies, or a file or database operation throws.               *)
Crash(p) ==
  /\ p \in Mortal /\ ~At(p, "idle")
  /\ Become(p, Idle)
  /\ UNCHANGED <<store, bounds>>

(* An editor, git pull or a deletion changes the file.                     *)
Edit(d) ==
  /\ edits < MaxEdits /\ file # d
  /\ edits' = edits + 1
  /\ IF d = NoDoc THEN file' = NoDoc /\ UNCHANGED published ELSE Publish(d)
  /\ UNCHANGED <<journal, session, updates>>

-----------------------------------------------------------------------------
Proceed(p) ==
  \/ ReadFile(p) \/ Compare(p) \/ Look(p) \/ Convert(p)
  \/ Adopt(p) \/ ReadAdopted(p)
  \/ Number(p) \/ WriteFile(p) \/ Commit(p) \/ ReadCommitted(p)
  \/ Conflict(p) \/ Return(p)

Next ==
  \/ \E p \in Proc : \/ StartRead(p) \/ Proceed(p) \/ Crash(p)
                     \/ \E patch \in Patch : StartUpdate(p, patch)
  \/ \E d \in Doc \cup {NoDoc} : Edit(d)

Spec == Init /\ [][Next]_vars

(* Processes that live finish their commands, and hv_status, hv_plan or    *)
(* hv_apply is called again and again in the checkout.                     *)
Fairness ==
  /\ \A p \in Proc \ Mortal : WF_vars(Proceed(p))
  /\ \A p \in Inside \ Mortal : WF_vars(StartRead(p))
FairSpec == Spec /\ Fairness

-----------------------------------------------------------------------------
(* A revision number stands for one document for ever: hv_apply compares   *)
(* numbers to tell whether the spec a plan was made from is superseded.    *)
RevisionsNeverChange ==
  [][Len(journal') >= Len(journal) /\ SubSeq(journal', 1, Len(journal)) = journal]_vars

(* Every revision recorded by a command in the checkout had reached the    *)
(* checkout first, whatever failed or died in between.                     *)
RevisionsWerePublished ==
  \A r \in 1..Len(journal) : journal[r].author \in Inside => journal[r].doc \in published

(* Once nobody changes the file or the spec any more, the journal's latest *)
(* revision is the file, after every crash, conflict and race before.      *)
JournalCatchesUp == <>[](file # NoDoc /\ Inside # {} => journal # <<>> /\ Latest = file)
-----------------------------------------------------------------------------
(* Why the journal holds what the checkout had: a document in hand is one  *)
(* whenever the next step relies on it, and one that is about to enter the *)
(* journal from inside the checkout has been in the file.                  *)
HoldsDoc == {"comparing", "converting", "adopting", "adopted", "numbering",
             "writing", "inserting", "inserted", "answered"}
SessionsHoldDocs ==
  \A p \in Proc :
    /\ session[p].step \in HoldsDoc => session[p].doc \in Doc
    /\ At(p, "converting") => session[p].doc = Legacy

PendingIsPublished ==
  /\ file # NoDoc => file \in published
  /\ \A p \in Inside :
       session[p].step \in {"comparing", "adopting", "inserting"} =>
         session[p].doc \in published

IInv == TypeOK /\ SessionsHoldDocs /\ PendingIsPublished /\ RevisionsWerePublished
=============================================================================
