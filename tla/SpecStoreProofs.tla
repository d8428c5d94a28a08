--------------------------- MODULE SpecStoreProofs --------------------------
(***************************************************************************)
(* The journal of SpecStore for every set of processes and entries: no     *)
(* revision ever changes, and what a process in the checkout records had   *)
(* been in the file.  Every step replaces one session and leaves the       *)
(* store, or publishes one document, or appends one revision; so a step    *)
(* keeps IInv when the new session is sound (Frame).                       *)
(***************************************************************************)
EXTENDS SpecStore, TLAPS

SessionRow == [step : Step, writer : BOOLEAN, patch : Patch,
               doc : Doc \cup {NoDoc}, number : Nat]

(* What IInv asks of the session s of process p, next to a journal of n    *)
(* revisions and the documents pub published so far.                       *)
Sound(p, s, n, pub) ==
  /\ s \in SessionRow /\ s.number <= n + 1
  /\ s.step \in HoldsDoc => s.doc \in Doc
  /\ s.step = "converting" => s.doc = Legacy
  /\ p \in Inside /\ s.step \in {"comparing", "adopting", "inserting"} => s.doc \in pub

(* The absent document is none of the documents.                           *)
LEMMA NoDocFresh == NoDoc \notin Doc
  BY DocAssumption DEF NoDoc, Doc

(* An idle session is sound, and so is one that has begun to read.         *)
LEMMA IdleSound ==
  ASSUME NEW p, NEW n \in Nat, NEW pub
  PROVE  Sound(p, Idle, n, pub) /\ Sound(p, [Idle EXCEPT !.step = "reading"], n, pub)
<1>1. Read \in Patch
  BY DEF Read, Patch, Doc
<1>2. Idle \in SessionRow /\ [Idle EXCEPT !.step = "reading"] \in SessionRow
  BY <1>1 DEF Idle, SessionRow, Step
<1>3. Idle.step = "idle" /\ Idle.number = 0
  BY DEF Idle
<1>4. LET r == [Idle EXCEPT !.step = "reading"] IN r.step = "reading" /\ r.number = 0
  BY DEF Idle
<1> QED BY <1>2, <1>3, <1>4 DEF Sound, HoldsDoc

(* Every session is sound in a state of IInv.                              *)
LEMMA SessionsSound ==
  ASSUME IInv, NEW p \in Proc PROVE Sound(p, session[p], Len(journal), published)
<1>1. Len(journal) \in Nat
  BY DEF IInv, TypeOK
<1>2. session[p] \in [step : Step, writer : BOOLEAN, patch : Patch,
                      doc : Doc \cup {NoDoc}, number : 0..(Len(journal) + 1)]
  BY DEF IInv, TypeOK
<1> QED BY <1>1, <1>2 DEF IInv, SessionsHoldDocs, PendingIsPublished, Sound, SessionRow, At

(* The strengthening of the types follows when all sessions are sound.     *)
LEMMA Frame ==
  ASSUME IInv, NEW p \in Proc, NEW s, Become(p, s),
         Sound(p, s, Len(journal'), published'),
         published \subseteq published', published' \subseteq Doc,
         file' \in Doc \cup {NoDoc}, file' # NoDoc => file' \in published',
         journal' \in Seq(Revision), Len(journal) <= Len(journal'),
         RevisionsWerePublished',
         updates' \in 0..MaxUpdates, edits' \in 0..MaxEdits
  PROVE  IInv'
<1>0. Len(journal) \in Nat /\ Len(journal') \in Nat
  BY DEF IInv, TypeOK
<1>1. session' = [session EXCEPT ![p] = s] /\ session \in [Proc -> SessionRow]
  <2>1. \A q \in Proc : session[q] \in SessionRow
    BY SessionsSound DEF Sound
  <2> QED BY <2>1 DEF Become, IInv, TypeOK
<1>2. \A q \in Proc : Sound(q, session'[q], Len(journal'), published')
  <2> SUFFICES ASSUME NEW q \in Proc PROVE Sound(q, session'[q], Len(journal'), published')
    OBVIOUS
  <2>1. CASE q = p
    BY <1>1, <2>1
  <2>2. CASE q # p
    <3>1. session'[q] = session[q] /\ session[q].number \in Nat
      BY <1>1, <2>2 DEF SessionRow
    <3> QED BY <1>0, <3>1, SessionsSound DEF Sound
  <2> QED BY <2>1, <2>2
<1>3. session' \in [Proc -> [step : Step, writer : BOOLEAN, patch : Patch,
                             doc : Doc \cup {NoDoc}, number : 0..(Len(journal') + 1)]]
  <2>1. \A q \in Proc : session'[q] \in [step : Step, writer : BOOLEAN, patch : Patch,
                             doc : Doc \cup {NoDoc}, number : 0..(Len(journal') + 1)]
    BY <1>0, <1>2 DEF Sound, SessionRow
  <2> QED BY <1>1, <2>1
<1>4. TypeOK'
  BY <1>3 DEF TypeOK
<1>5. SessionsHoldDocs'
  BY <1>2 DEF SessionsHoldDocs, Sound, At
<1>6. PendingIsPublished'
  BY <1>2, SubsetAssumption DEF PendingIsPublished, Sound
<1> QED BY <1>4, <1>5, <1>6 DEF IInv

(* A step that only moves one session.                                     *)
LEMMA QuietFrame ==
  ASSUME IInv, NEW p \in Proc, NEW s, Become(p, s), UNCHANGED store,
         Sound(p, s, Len(journal), published),
         updates' \in 0..MaxUpdates, edits' = edits
  PROVE  IInv'
<1>1. RevisionsWerePublished'
  BY DEF IInv, RevisionsWerePublished, store
<1> QED BY <1>1, Frame DEF store, IInv, TypeOK, PendingIsPublished

(* The end of get: the merged or the read document is in hand.             *)
LEMMA GotStep ==
  ASSUME IInv, NEW p \in Proc, NEW doc \in Doc, NEW n \in Nat, n <= Len(journal) + 1,
         Got(p, doc, n), UNCHANGED <<store, bounds>>
  PROVE  IInv'
<1>0. session[p] \in SessionRow /\ Len(journal) \in Nat
  BY SessionsSound DEF Sound, IInv, TypeOK
<1>1. session[p].patch \in Patch
  BY <1>0 DEF SessionRow
<1>2. Merge(doc, session[p].patch) \in Doc
  BY <1>1 DEF Merge, Patch, Doc
<1>3. PICK s \in {[session[p] EXCEPT !.step = "numbering", !.doc = Merge(doc, session[p].patch)],
                  [session[p] EXCEPT !.step = "answered", !.doc = doc, !.number = n]} :
        Become(p, s)
  BY DEF Got
<1>4. /\ s \in SessionRow /\ s.step \in {"numbering", "answered"}
      /\ s.doc \in Doc /\ s.number <= Len(journal) + 1
  <2>1. session[p].number <= Len(journal) + 1
    BY SessionsSound DEF Sound
  <2>2. CASE s = [session[p] EXCEPT !.step = "numbering", !.doc = Merge(doc, session[p].patch)]
    BY <1>0, <1>2, <2>1, <2>2 DEF SessionRow, Step
  <2>3. CASE s = [session[p] EXCEPT !.step = "answered", !.doc = doc, !.number = n]
    BY <1>0, <2>3 DEF SessionRow, Step
  <2> QED BY <1>3, <2>2, <2>3
<1>5. Sound(p, s, Len(journal), published)
  BY <1>4 DEF Sound
<1> QED BY <1>3, <1>5, QuietFrame DEF bounds, IInv, TypeOK

(* A new step name with nothing else, where the document need not change.  *)
LEMMA Advance ==
  ASSUME IInv, NEW p \in Proc, NEW step \in Step, NEW n \in Nat,
         step \in HoldsDoc \ {"converting"}, session[p].doc \in Doc,
         step \in {"comparing", "adopting", "inserting"} /\ p \in Inside =>
           session[p].doc \in published,
         n <= Len(journal) + 1
  PROVE  /\ Sound(p, [session[p] EXCEPT !.step = step], Len(journal), published)
         /\ Sound(p, [session[p] EXCEPT !.step = step, !.number = n], Len(journal), published)
<1>1. session[p] \in SessionRow /\ session[p].number <= Len(journal) + 1
  BY SessionsSound DEF Sound
<1>2. ASSUME NEW s \in {[session[p] EXCEPT !.step = step],
                       [session[p] EXCEPT !.step = step, !.number = n]}
      PROVE  /\ s \in SessionRow /\ s.number <= Len(journal) + 1
             /\ s.step = step /\ s.doc = session[p].doc
  BY <1>1, <1>2 DEF SessionRow
<1> QED BY <1>2 DEF Sound

(* The repository file is read, compared, or found missing.                *)
LEMMA ReadStep ==
  ASSUME IInv, NEW p \in Proc, ReadFile(p) \/ Compare(p) \/ Look(p) PROVE IInv'
<1>0. /\ Len(journal) \in Nat /\ journal \in Seq(Revision)
      /\ session[p] \in SessionRow /\ session[p].number <= Len(journal) + 1
      /\ file \in Doc \cup {NoDoc}
      /\ file # NoDoc => file \in published
      /\ updates \in 0..MaxUpdates
  BY SessionsSound DEF Sound, IInv, TypeOK, PendingIsPublished
<1>1. CASE ReadFile(p) /\ p \in Inside /\ file # NoDoc
  <2> DEFINE s == [session[p] EXCEPT !.step = "comparing", !.doc = file]
  <2>1. s \in SessionRow /\ s.step = "comparing" /\ s.doc = file
        /\ s.number = session[p].number
    BY <1>0 DEF SessionRow, Step
  <2>2. Sound(p, s, Len(journal), published)
    <3>1. file \in Doc /\ file \in published
      BY <1>0, <1>1
    <3> HIDE DEF s
    <3> QED BY <1>0, <2>1, <3>1 DEF Sound
  <2>3. Become(p, s) /\ UNCHANGED <<store, bounds>>
    BY <1>1 DEF ReadFile
  <2> QED BY <1>0, <2>2, <2>3, QuietFrame DEF bounds
<1>2. CASE ReadFile(p) /\ ~(p \in Inside /\ file # NoDoc)
  <2> DEFINE s == [session[p] EXCEPT !.step = "looking"]
  <2>1. s \in SessionRow /\ s.step = "looking" /\ s.number = session[p].number
    BY <1>0 DEF SessionRow, Step
  <2>2. Sound(p, s, Len(journal), published)
    BY <1>0, <2>1 DEF Sound, HoldsDoc
  <2>3. Become(p, s) /\ UNCHANGED <<store, bounds>>
    BY <1>2 DEF ReadFile
  <2> QED BY <1>0, <2>2, <2>3, QuietFrame DEF bounds
<1>3. CASE Compare(p)
  <2>1. session[p].doc \in Doc /\ (p \in Inside => session[p].doc \in published)
    BY <1>3, SessionsSound DEF Compare, At, Sound, HoldsDoc
  <2>2. CASE journal # <<>> /\ Latest = session[p].doc
    <3>1. Got(p, session[p].doc, Len(journal)) /\ UNCHANGED <<store, bounds>>
      BY <1>3, <2>2 DEF Compare
    <3>2. Len(journal) <= Len(journal) + 1
      BY <1>0
    <3> QED BY <1>0, <2>1, <3>1, <3>2, GotStep
  <2>3. CASE ~(journal # <<>> /\ Latest = session[p].doc)
    <3>1. Sound(p, [session[p] EXCEPT !.step = "adopting", !.number = Len(journal) + 1],
                Len(journal), published)
      <4>1. "adopting" \in Step /\ "adopting" \in HoldsDoc \ {"converting"}
        BY DEF Step, HoldsDoc
      <4>2. Len(journal) + 1 \in Nat /\ Len(journal) + 1 <= Len(journal) + 1
        BY <1>0
      <4> QED BY <2>1, <4>1, <4>2, Advance
    <3>2. /\ Become(p, [session[p] EXCEPT !.step = "adopting", !.number = Len(journal) + 1])
          /\ UNCHANGED <<store, bounds>>
      BY <1>3, <2>3 DEF Compare
    <3> QED BY <1>0, <3>1, <3>2, QuietFrame DEF bounds
  <2> QED BY <2>2, <2>3
<1>4. CASE Look(p)
  <2>1. CASE journal # <<>>
    <3>1. Latest \in Doc
      <4>1. Len(journal) \in 1..Len(journal)
        BY <1>0, <2>1
      <4>2. journal[Len(journal)] \in Revision
        BY <1>0, <4>1
      <4> QED BY <4>2 DEF Latest, Revision
    <3>2. Got(p, Latest, Len(journal)) /\ UNCHANGED <<store, bounds>>
      BY <1>4, <2>1 DEF Look
    <3>3. Len(journal) <= Len(journal) + 1
      BY <1>0
    <3> QED BY <1>0, <3>1, <3>2, <3>3, GotStep
  <2>2. CASE journal = <<>> /\ Legacy # NoDoc
    <3> DEFINE s == [session[p] EXCEPT !.step = "converting", !.doc = Legacy, !.number = 1]
    <3>0. Legacy \in Doc
      BY <2>2, DocAssumption DEF Doc, NoDoc
    <3>1. s \in SessionRow /\ s.step = "converting" /\ s.doc = Legacy /\ s.number = 1
      BY <1>0, <3>0 DEF SessionRow, Step
    <3>2. Sound(p, s, Len(journal), published)
      BY <1>0, <3>0, <3>1 DEF Sound
    <3>3. Become(p, s) /\ UNCHANGED <<store, bounds>>
      BY <1>4, <2>2 DEF Look
    <3> QED BY <1>0, <3>2, <3>3, QuietFrame DEF bounds
  <2>3. CASE journal = <<>> /\ Legacy = NoDoc /\ session[p].writer
    <3>1. Got(p, {}, 0) /\ UNCHANGED <<store, bounds>>
      BY <1>4, <2>3 DEF Look
    <3> QED BY <1>0, <3>1, GotStep DEF Doc
  <2>4. CASE journal = <<>> /\ Legacy = NoDoc /\ ~session[p].writer
    <3>1. Become(p, Idle) /\ UNCHANGED <<store, bounds>>
      BY <1>4, <2>4 DEF Look
    <3> QED BY <1>0, <3>1, IdleSound, QuietFrame DEF bounds
  <2> QED BY <2>1, <2>2, <2>3, <2>4
<1> QED BY <1>1, <1>2, <1>3, <1>4

(* Documents that reach the file are published; only WriteFile and the     *)
(* conversion of a legacy blob do that inside a command.                   *)
LEMMA PublishStep ==
  ASSUME IInv, NEW p \in Proc, Convert(p) \/ WriteFile(p) PROVE IInv'
<1>0. /\ Len(journal) \in Nat /\ journal \in Seq(Revision)
      /\ session[p] \in SessionRow /\ session[p].number <= Len(journal) + 1
      /\ session[p].doc \in Doc
      /\ file \in Doc \cup {NoDoc} /\ published \subseteq Doc
      /\ file # NoDoc => file \in published
      /\ updates \in 0..MaxUpdates /\ edits \in 0..MaxEdits
      /\ RevisionsWerePublished
    BY SessionsSound
    DEF Sound, IInv, TypeOK, PendingIsPublished, Convert, WriteFile, At, HoldsDoc
<1>1. PICK step \in {"adopting", "inserting"} :
        /\ Become(p, [session[p] EXCEPT !.step = step])
        /\ IF p \in Inside THEN Publish(session[p].doc) ELSE UNCHANGED <<file, published>>
        /\ UNCHANGED <<journal, bounds>>
  BY SessionsSound DEF Convert, WriteFile, At, Sound
<1> DEFINE s == [session[p] EXCEPT !.step = step]
<1>2. /\ s \in SessionRow /\ s.step = step /\ s.doc = session[p].doc
      /\ s.number = session[p].number
  BY <1>0, <1>1 DEF SessionRow, Step
<1>3. /\ published \subseteq published' /\ published' \subseteq Doc
      /\ file' \in Doc \cup {NoDoc}
      /\ file' # NoDoc => file' \in published'
      /\ p \in Inside => session[p].doc \in published'
  BY <1>0, <1>1 DEF Publish
<1>4. Sound(p, s, Len(journal'), published')
  <2>1. journal' = journal
    BY <1>1
  <2> HIDE DEF s
  <2> QED BY <1>0, <1>1, <1>2, <1>3, <2>1 DEF Sound
<1>5. RevisionsWerePublished'
  BY <1>0, <1>1, <1>3 DEF RevisionsWerePublished
<1>6. Become(p, s)
  BY <1>1
<1> HIDE DEF s
<1> QED BY <1>0, <1>1, <1>3, <1>4, <1>5, <1>6, Frame DEF bounds

(* One revision is appended: it is the document in hand, and the others    *)
(* stay as they are.                                                       *)
LEMMA Appended ==
  ASSUME IInv, NEW p \in Proc, NEW step \in {"adopting", "inserting"},
         NEW after, Insert(p, step, after)
  PROVE  /\ journal' \in Seq(Revision) /\ Len(journal') = Len(journal) + 1
         /\ \A r \in 1..Len(journal) : journal'[r] = journal[r]
         /\ journal'[Len(journal) + 1] = [doc |-> session[p].doc, author |-> p]
         /\ session[p].doc \in Doc
         /\ p \in Inside => session[p].doc \in published
<1>1. session[p].doc \in Doc /\ (p \in Inside => session[p].doc \in published)
  BY SessionsSound DEF Insert, At, Sound, HoldsDoc
<1>2. [doc |-> session[p].doc, author |-> p] \in Revision
  BY <1>1 DEF Revision
<1>3. journal \in Seq(Revision)
  BY DEF IInv, TypeOK
<1> QED BY <1>1, <1>2, <1>3 DEF Insert

LEMMA InsertStep ==
  ASSUME IInv, NEW p \in Proc, Adopt(p) \/ Commit(p) PROVE IInv'
<1>1. PICK step \in {"adopting", "inserting"}, after \in {"adopted", "inserted"} :
        Insert(p, step, after)
  BY DEF Adopt, Commit
<1>2. /\ Len(journal) \in Nat
      /\ session[p] \in SessionRow /\ session[p].number <= Len(journal) + 1
      /\ file \in Doc \cup {NoDoc} /\ published \subseteq Doc
      /\ file # NoDoc => file \in published
      /\ updates \in 0..MaxUpdates /\ edits \in 0..MaxEdits
      /\ RevisionsWerePublished
  BY SessionsSound DEF Sound, IInv, TypeOK, PendingIsPublished
<1>3. /\ journal' \in Seq(Revision) /\ Len(journal') = Len(journal) + 1
      /\ \A r \in 1..Len(journal) : journal'[r] = journal[r]
      /\ journal'[Len(journal) + 1] = [doc |-> session[p].doc, author |-> p]
      /\ session[p].doc \in Doc
      /\ p \in Inside => session[p].doc \in published
  BY <1>1, Appended
<1> DEFINE s == [session[p] EXCEPT !.step = after]
<1>4. Become(p, s) /\ UNCHANGED <<file, published, bounds>>
  BY <1>1 DEF Insert
<1>5. Sound(p, s, Len(journal'), published')
  <2>1. /\ s \in SessionRow /\ s.step = after /\ s.doc = session[p].doc
        /\ s.number = session[p].number
    BY <1>1, <1>2 DEF SessionRow, Step
  <2>2. session[p].number \in Nat /\ s.number <= Len(journal') + 1
    BY <1>2, <1>3, <2>1 DEF SessionRow
  <2> HIDE DEF s
  <2> QED BY <1>1, <1>3, <2>1, <2>2 DEF Sound
<1>6. RevisionsWerePublished'
  <2> SUFFICES ASSUME NEW r \in 1..Len(journal'), journal'[r].author \in Inside
               PROVE  journal'[r].doc \in published'
    BY DEF RevisionsWerePublished
  <2>1. CASE r \in 1..Len(journal)
    BY <1>2, <1>3, <1>4, <2>1 DEF RevisionsWerePublished
  <2>2. CASE r = Len(journal) + 1
    BY <1>3, <1>4, <2>2
  <2> QED BY <1>2, <1>3, <2>1, <2>2
<1> HIDE DEF s
<1> QED BY <1>2, <1>3, <1>4, <1>5, <1>6, Frame DEF bounds

(* Steps that begin or end a command, or look at the journal.              *)
LEMMA CommandStep ==
  ASSUME IInv, NEW p \in Proc,
         \/ StartRead(p) \/ \E patch \in Patch : StartUpdate(p, patch)
         \/ Number(p) \/ ReadAdopted(p) \/ ReadCommitted(p)
         \/ Return(p) \/ Conflict(p) \/ Crash(p)
  PROVE  IInv'
<1>0. /\ Len(journal) \in Nat /\ updates \in 0..MaxUpdates /\ MaxUpdates \in Nat
      /\ session[p] \in SessionRow
      /\ session[p].step \in HoldsDoc => session[p].doc \in Doc
  BY SessionsSound, BoundAssumption DEF Sound, IInv, TypeOK
<1>1. CASE StartRead(p)
  <2>1. Become(p, [Idle EXCEPT !.step = "reading"]) /\ UNCHANGED <<store, bounds>>
    BY <1>1 DEF StartRead
  <2> QED BY <1>0, <2>1, IdleSound, QuietFrame DEF bounds
<1>2. ASSUME NEW patch \in Patch, StartUpdate(p, patch) PROVE IInv'
  <2> DEFINE s == [Idle EXCEPT !.step = "reading", !.writer = TRUE, !.patch = patch]
  <2>1. Become(p, s) /\ UNCHANGED store /\ edits' = edits
    BY <1>2 DEF StartUpdate
  <2>2. updates' \in 0..MaxUpdates
    <3>1. updates < MaxUpdates /\ updates' = updates + 1
      BY <1>2 DEF StartUpdate
    <3> QED BY <1>0, <3>1
  <2>3. s \in SessionRow /\ s.step = "reading" /\ s.number = 0
    BY DEF Idle, SessionRow, Step
  <2>4. Sound(p, s, Len(journal), published)
    BY <1>0, <2>3 DEF Sound, HoldsDoc
  <2> HIDE DEF s
  <2> QED BY <2>1, <2>2, <2>4, QuietFrame
<1>3. CASE Number(p)
  <2> DEFINE s == [session[p] EXCEPT !.step = "writing", !.number = Len(journal) + 1]
  <2>1. session[p].doc \in Doc
    BY <1>0, <1>3 DEF Number, At, HoldsDoc
  <2>2. "writing" \in Step /\ "writing" \in HoldsDoc \ {"converting"}
    BY DEF Step, HoldsDoc
  <2>3. Len(journal) + 1 \in Nat /\ Len(journal) + 1 <= Len(journal) + 1
    BY <1>0
  <2>4. Sound(p, s, Len(journal), published)
    BY <2>1, <2>2, <2>3, Advance
  <2>5. Become(p, s) /\ UNCHANGED <<store, bounds>>
    BY <1>3 DEF Number
  <2> HIDE DEF s
  <2> QED BY <1>0, <2>4, <2>5, QuietFrame DEF bounds
<1>4. CASE ReadAdopted(p)
  <2>1. session[p].doc \in Doc /\ Got(p, session[p].doc, Len(journal))
        /\ UNCHANGED <<store, bounds>>
    BY <1>0, <1>4 DEF ReadAdopted, At, HoldsDoc
  <2>2. Len(journal) <= Len(journal) + 1
    BY <1>0
  <2> QED BY <1>0, <2>1, <2>2, GotStep
<1>5. CASE ReadCommitted(p)
  <2> DEFINE s == [session[p] EXCEPT !.step = "answered", !.number = Len(journal)]
  <2>1. session[p].doc \in Doc
    BY <1>0, <1>5 DEF ReadCommitted, At, HoldsDoc
  <2>2. "answered" \in Step /\ "answered" \in HoldsDoc \ {"converting"}
    BY DEF Step, HoldsDoc
  <2>3. Len(journal) <= Len(journal) + 1
    BY <1>0
  <2>4. Sound(p, s, Len(journal), published)
    BY <1>0, <2>1, <2>2, <2>3, Advance
  <2>5. Become(p, s) /\ UNCHANGED <<store, bounds>>
    BY <1>5 DEF ReadCommitted
  <2> HIDE DEF s
  <2> QED BY <1>0, <2>4, <2>5, QuietFrame DEF bounds
<1>6. CASE Return(p) \/ Conflict(p) \/ Crash(p)
  <2>1. Become(p, Idle) /\ UNCHANGED <<store, bounds>>
    BY <1>6 DEF Return, Conflict, Crash
  <2> QED BY <1>0, <2>1, IdleSound, QuietFrame DEF bounds
<1> QED BY <1>1, <1>2, <1>3, <1>4, <1>5, <1>6

(* Somebody else replaces or deletes the file; no session moves.           *)
LEMMA EditStep == ASSUME IInv, NEW d \in Doc \cup {NoDoc}, Edit(d) PROVE IInv'
<1>1. /\ UNCHANGED <<journal, session, updates>> /\ edits' \in 0..MaxEdits
      /\ file' = d /\ published \subseteq published' /\ published' \subseteq Doc
      /\ d # NoDoc => d \in published'
  BY BoundAssumption DEF Edit, Publish, IInv, TypeOK
<1>2. TypeOK'
  BY <1>1 DEF IInv, TypeOK
<1>3. SessionsHoldDocs' /\ PendingIsPublished' /\ RevisionsWerePublished'
  BY <1>1 DEF IInv, SessionsHoldDocs, PendingIsPublished, RevisionsWerePublished, At
<1> QED BY <1>2, <1>3 DEF IInv

(* Before the first command there is no journal; a file is published.      *)
LEMMA InitIInv == Init => IInv
<1> SUFFICES ASSUME Init PROVE IInv
  OBVIOUS
<1>1. Idle \in SessionRow /\ Idle.step = "idle" /\ Idle.number = 0
  BY IdleSound DEF Sound, Idle
<1>2. /\ journal = <<>> /\ journal \in Seq(Revision) /\ Len(journal) = 0
      /\ \A p \in Proc : session[p] = Idle
  BY DEF Init
<1>3. session \in [Proc -> [step : Step, writer : BOOLEAN, patch : Patch,
                            doc : Doc \cup {NoDoc}, number : 0..(Len(journal) + 1)]]
  <2>1. Idle \in [step : Step, writer : BOOLEAN, patch : Patch,
                  doc : Doc \cup {NoDoc}, number : 0..(0 + 1)]
    BY <1>1 DEF SessionRow
  <2> QED BY <1>2, <2>1 DEF Init
<1>4. TypeOK
  BY <1>2, <1>3, BoundAssumption DEF Init, TypeOK
<1>5. SessionsHoldDocs /\ PendingIsPublished /\ RevisionsWerePublished
  BY <1>1, <1>2, SubsetAssumption
  DEF Init, SessionsHoldDocs, PendingIsPublished, RevisionsWerePublished, HoldsDoc, At
<1> QED BY <1>4, <1>5 DEF IInv

(* Every step keeps the inductive invariant.                               *)
LEMMA Step_IInv == IInv /\ [Next]_vars => IInv'
<1> SUFFICES ASSUME IInv, [Next]_vars PROVE IInv'
  OBVIOUS
<1>1. CASE UNCHANGED vars
  BY <1>1 DEF vars, store, bounds, IInv, TypeOK, SessionsHoldDocs, PendingIsPublished,
              RevisionsWerePublished, At
<1>2. ASSUME NEW p \in Proc,
             StartRead(p) \/ Proceed(p) \/ Crash(p) \/ \E patch \in Patch : StartUpdate(p, patch)
      PROVE  IInv'
  BY <1>2, ReadStep, PublishStep, InsertStep, CommandStep DEF Proceed
<1>3. ASSUME NEW d \in Doc \cup {NoDoc}, Edit(d) PROVE IInv'
  BY <1>3, EditStep
<1> QED BY <1>1, <1>2, <1>3 DEF Next

(* IInv holds in every reachable state, for any processes, documents,      *)
(* crashes and edits of the file.                                          *)
THEOREM Invariance == Spec => []IInv
<1>1. IInv /\ [Next]_vars => IInv'
  BY Step_IInv
<1> QED BY <1>1, InitIInv, PTL DEF Spec

(* Every variable keeps its type; a revision number in hand is at most the *)
(* next free one.                                                          *)
THEOREM Typed == Spec => []TypeOK
<1>1. IInv => TypeOK
  BY DEF IInv
<1> QED BY <1>1, Invariance, PTL

(* A revision that a process in the checkout recorded had been in the      *)
(* repository file, whatever raced, failed or died before.                 *)
THEOREM WerePublished == Spec => []RevisionsWerePublished
<1>1. IInv => RevisionsWerePublished
  BY DEF IInv
<1> QED BY <1>1, Invariance, PTL

(* A stored revision never changes or disappears: the number hv_apply      *)
(* compares stands for one document.                                       *)
THEOREM NeverChange == Spec => RevisionsNeverChange
<1> DEFINE Kept == Len(journal') >= Len(journal) /\ SubSeq(journal', 1, Len(journal)) = journal
<1>1. ASSUME IInv, UNCHANGED journal PROVE Kept
  <2>1. journal \in Seq(Revision)
    BY <1>1 DEF IInv, TypeOK
  <2> QED BY <1>1, <2>1
<1>2. ASSUME IInv, NEW p \in Proc, Adopt(p) \/ Commit(p) PROVE Kept
  <2>1. journal \in Seq(Revision)
    BY <1>2 DEF IInv, TypeOK
  <2>2. PICK x : journal' = Append(journal, x)
    BY <1>2 DEF Adopt, Commit, Insert
  <2> QED BY <2>1, <2>2
<1>3. ASSUME [Next]_vars PROVE UNCHANGED journal \/ \E p \in Proc : Adopt(p) \/ Commit(p)
  BY <1>3 DEF Next, Proceed, vars, store, StartRead, StartUpdate, ReadFile, Compare, Look,
              Convert, ReadAdopted, Number, WriteFile, ReadCommitted, Conflict, Return,
              Crash, Edit
<1>4. IInv /\ [Next]_vars => [Kept]_vars
  BY <1>1, <1>2, <1>3
<1> QED BY <1>4, Invariance, PTL DEF Spec, RevisionsNeverChange

=============================================================================
